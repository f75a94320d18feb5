------------------------ MODULE SpanStreaming_proofs ------------------------
(***************************************************************************)
(* Proofs about SpanStreaming.  The queue is treated once, in              *)
(* SendKeeps and WriteKeeps; the flags, the streams and the timers each    *)
(* have a part of the inductive invariant of their own.                    *)
(***************************************************************************)
EXTENDS SpanStreaming, SequenceTheorems, TLAPS

(* A queue q after the span l, none of them later than s. *)
Ordered(q, l, s) ==
    /\ q \in Seq(1..MaxSpans)
    /\ l \in 0..MaxSpans
    /\ l <= s
    /\ \A i \in 1..Len(q) : l < q[i] /\ q[i] <= s
    /\ \A i, j \in 1..Len(q) : i < j => q[i] < q[j]

QueueInv ==
    /\ Ordered(spans, lastSent, seen)
    /\ seen \in 0..MaxSpans
    /\ sent \in Nat
    /\ dropped \in Nat
    /\ LedgerBalances
    /\ QueueBounded

(* The flags of the streamer and those of its stream. *)
FlagInv ==
    /\ full \in BOOLEAN
    /\ writable \in BOOLEAN
    /\ drains \in Nat
    /\ full => drains > 0
    /\ WaitIsHeard
    /\ ~batching => RespectsBackPressure
    /\ ~batching => drains <= 1
    /\ ~full => drains = 0
    /\ ~batching /\ writable => spans = <<>>

StreamInv ==
    /\ batching \in BOOLEAN
    /\ interval \in BOOLEAN
    /\ interval => batching
    /\ stream \in 0..MaxStreams
    /\ opened \in 0..MaxStreams
    /\ live \subseteq 1..MaxStreams
    /\ OneStream
    /\ WritesHaveAStream

TimerInv ==
    /\ started \in BOOLEAN
    /\ runId \in 1..MaxRuns
    /\ connRun \in 0..MaxRuns
    /\ streamRun \in 0..MaxRuns
    /\ timers \in Nat
    /\ oldTimers \in Nat
    /\ gone \in BOOLEAN
    /\ undone \in BOOLEAN
    /\ overtaken \in BOOLEAN
    /\ FollowsTheAgent
    /\ undone \/ (/\ timers > 0 => stream = NoStream /\ started /\ ~gone
                  /\ timers <= 1
                  /\ started /\ ~overtaken => connRun = runId)

IInv == QueueInv /\ FlagInv /\ StreamInv /\ TimerInv

-----------------------------------------------------------------------------
LEMMA BatchesType ==
    ASSUME NEW q \in Seq(1..MaxSpans)
    PROVE  Batches(q) \in Nat
<1>1. Len(q) \in Nat /\ BatchSize \in Nat /\ BatchSize > 0
  BY LenProperties, SpanStreamingAssumption
<1>2. \A a, b \in Nat : b > 0 => a \div b \in Nat
  OBVIOUS
<1>3. Len(q) + BatchSize - 1 \in Nat
  BY <1>1
<1>4. QED  BY <1>1, <1>2, <1>3 DEF Batches

(* What sendQueue does to a queue and to the flags. *)
LEMMA SendKeeps ==
    ASSUME NEW q, NEW w \in BOOLEAN, NEW f \in BOOLEAN, NEW d \in Nat,
           NEW s \in 0..MaxSpans,
           Ordered(q, lastSent, s), sent \in Nat,
           q = spans \/ q # <<>>, batching \/ ~f,
           SendQueue(q, w, f, d)
    PROVE  /\ Ordered(spans', lastSent', s)
           /\ sent' \in Nat
           /\ sent' + Len(spans') = sent + Len(q)
           /\ Len(spans') <= Len(q)
           /\ q # <<>> /\ batching => spans' = <<>>
           /\ full' \in BOOLEAN /\ writable' \in BOOLEAN /\ drains' \in Nat
           /\ (f => d > 0) => (full' => drains' > 0)
           /\ (~w => f) => (~writable' => full')
           /\ (~f => d = 0) => (~full' => drains' = 0)
           /\ ~batching /\ ((w <=> ~f) \/ q # <<>>) => (writable' <=> ~full')
           /\ ~batching /\ d = 0 => drains' <= 1
           /\ ~batching /\ writable' => spans' = <<>>
<1>1. /\ q \in Seq(1..MaxSpans) /\ Len(q) \in Nat
      /\ \A i \in 1..Len(q) : q[i] \in 1..MaxSpans
  <2>1. q \in Seq(1..MaxSpans)
    BY DEF Ordered
  <2>2. QED  BY <2>1, LenProperties, ElementOfSeq
<1>2. CASE q = <<>> /\ full' = f /\ drains' = d /\ writable' = w /\ UNCHANGED queueVars
  BY <1>1, <1>2 DEF Ordered, queueVars
<1>3. CASE q # <<>> /\ ~batching /\ SendEach(q, d)
  <2>1. PICK k \in 1..Len(q), hit \in BOOLEAN :
            /\ k < Len(q) => hit
            /\ spans' = SubSeq(q, k + 1, Len(q))
            /\ sent' = sent + k
            /\ lastSent' = q[k]
            /\ full' = hit
            /\ writable' = ~hit
            /\ drains' = IF hit THEN d + 1 ELSE d
    BY <1>3 DEF SendEach
  <2>2. /\ spans' \in Seq(1..MaxSpans)
        /\ Len(spans') = Len(q) - k
        /\ \A i \in 1..(Len(q) - k) : spans'[i] = q[k + i]
    <3>1. \A i \in (k + 1)..Len(q) : q[i] \in 1..MaxSpans
      BY <1>1
    <3>2. /\ SubSeq(q, k + 1, Len(q)) \in Seq(1..MaxSpans)
          /\ Len(SubSeq(q, k + 1, Len(q))) =
                IF k + 1 <= Len(q) THEN Len(q) - (k + 1) + 1 ELSE 0
          /\ \A i \in 1..(Len(q) - (k + 1) + 1) :
                SubSeq(q, k + 1, Len(q))[i] = q[k + 1 + i - 1]
      BY <1>1, <3>1, SubSeqProperties
    <3>3. QED  BY <1>1, <2>1, <3>2
  <2>3. Ordered(spans', lastSent', s)
    <3>1. lastSent' \in 0..MaxSpans /\ lastSent' <= s
      BY <1>1, <2>1, SpanStreamingAssumption DEF Ordered
    <3>2. \A i \in 1..Len(spans') : lastSent' < spans'[i] /\ spans'[i] <= s
      BY <1>1, <2>1, <2>2 DEF Ordered
    <3>3. \A i, j \in 1..Len(spans') : i < j => spans'[i] < spans'[j]
      BY <1>1, <2>1, <2>2 DEF Ordered
    <3>4. QED  BY <2>2, <3>1, <3>2, <3>3 DEF Ordered
  <2>4. sent' \in Nat /\ sent' + Len(spans') = sent + Len(q) /\ Len(spans') <= Len(q)
    <3>1. sent' = sent + k /\ k \in Nat /\ k <= Len(q) /\ Len(q) \in Nat
      BY <1>1, <2>1
    <3>2. Len(spans') = Len(q) - k
      BY <2>2
    <3>3. QED  BY <3>1, <3>2
  <2>5. full' \in BOOLEAN /\ writable' \in BOOLEAN /\ (writable' <=> ~full')
    BY <2>1
  <2>6. drains' \in Nat /\ (full' => drains' = d + 1) /\ (~full' => drains' = d)
    BY <2>1
  <2>7. /\ (f => d > 0) => (full' => drains' > 0)
        /\ ~batching /\ d = 0 => drains' <= 1
    BY <2>5, <2>6
  <2>8. ~f /\ ((~f => d = 0) => (~full' => drains' = 0))
    BY <1>3, <2>6
  <2>9. writable' => spans' = <<>>
    <3>1. writable' => k = Len(q)
      <4>1. writable' <=> ~hit
        BY <2>1
      <4>2. ~hit => ~(k < Len(q)) /\ k \in 1..Len(q)
        BY <2>1
      <4>3. QED  BY <1>1, <4>1, <4>2
    <3>2. k = Len(q) => Len(spans') = 0
      BY <1>1, <2>2
    <3>3. spans' # <<>> => Len(spans') # 0
      BY <2>2, EmptySeq
    <3>4. QED  BY <3>1, <3>2, <3>3
  <2>10. QED  BY <1>3, <2>3, <2>4, <2>5, <2>6, <2>7, <2>8, <2>9
<1>4. CASE q # <<>> /\ batching /\ SendBatches(q, f, d)
  <2> DEFINE B == Batches(q)
  <2>1. B \in Nat
    BY <1>1, BatchesType
  <2>2. PICK taken \in 0..B :
            /\ spans' = <<>>
            /\ sent' = sent + Len(q)
            /\ lastSent' = q[Len(q)]
            /\ full' = (f \/ taken < B)
            /\ writable' = (taken = B)
            /\ drains' = d + B - taken
    BY <1>4 DEF SendBatches
  <2> HIDE DEF B
  <2>10. (full' <=> f \/ taken < B) /\ (writable' <=> taken = B)
    BY <2>2
  <2>3. Len(q) \in 1..Len(q)
    BY <1>1, <1>4, EmptySeq
  <2>4. Ordered(spans', lastSent', s)
    <3>1. <<>> \in Seq(1..MaxSpans) /\ Len(<<>>) = 0
      BY EmptySeq
    <3>2. lastSent' \in 0..MaxSpans /\ lastSent' <= s
      BY <1>1, <2>2, <2>3, SpanStreamingAssumption DEF Ordered
    <3>3. QED  BY <2>2, <3>1, <3>2 DEF Ordered
  <2>5. sent' \in Nat /\ sent' + Len(spans') = sent + Len(q) /\ Len(spans') <= Len(q)
    BY <1>1, <2>2
  <2>6. /\ full' \in BOOLEAN /\ writable' \in BOOLEAN /\ drains' \in Nat
        /\ (f => d > 0) => (full' => drains' > 0)
        /\ ~writable' => full'
        /\ (~f => d = 0) => (~full' => drains' = 0)
    <3>1. full' \in BOOLEAN /\ writable' \in BOOLEAN
      BY <2>2
    <3>2. drains' \in Nat
      BY <2>1, <2>2
    <3>3. full' => f \/ drains' > 0
      BY <2>1, <2>2, <2>10
    <3>4. ~writable' => full'
      BY <2>1, <2>2, <2>10
    <3>5. f => drains' >= d
      BY <2>1, <2>2
    <3>6. ~full' => drains' = d /\ ~f
      BY <2>1, <2>2, <2>10
    <3>7. QED  BY <3>1, <3>2, <3>3, <3>4, <3>5, <3>6
  <2>7. QED  BY <1>4, <2>2, <2>4, <2>5, <2>6
<1>5. QED  BY <1>2, <1>3, <1>4 DEF SendQueue

(* A new span may wait at the end of the queue. *)
LEMMA AppendKeeps ==
    ASSUME NEW q, NEW l, NEW s \in 0..MaxSpans, Ordered(q, l, s),
           s + 1 \in 1..MaxSpans
    PROVE  /\ Ordered(q, l, s + 1)
           /\ Ordered(Append(q, s + 1), l, s + 1)
           /\ Len(Append(q, s + 1)) = Len(q) + 1
           /\ Append(q, s + 1) # <<>>
<1>1. q \in Seq(1..MaxSpans) /\ Len(q) \in Nat
  <2>1. q \in Seq(1..MaxSpans)
    BY DEF Ordered
  <2>2. QED  BY <2>1, LenProperties
<1>2. /\ l \in 0..MaxSpans /\ l <= s
      /\ \A i \in 1..Len(q) : l < q[i] /\ q[i] <= s /\ q[i] \in 1..MaxSpans
      /\ \A i, j \in 1..Len(q) : i < j => q[i] < q[j]
  BY <1>1, ElementOfSeq DEF Ordered
<1>3. /\ Append(q, s + 1) \in Seq(1..MaxSpans)
      /\ Len(Append(q, s + 1)) = Len(q) + 1
      /\ \A i \in 1..Len(q) : Append(q, s + 1)[i] = q[i]
      /\ Append(q, s + 1)[Len(q) + 1] = s + 1
  BY <1>1, AppendProperties
<1>4. Append(q, s + 1) # <<>>
  BY <1>1, AppendProperties
<1>5. Ordered(q, l, s + 1)
  BY <1>1, <1>2, SpanStreamingAssumption DEF Ordered
<1> DEFINE a == Append(q, s + 1)
<1>6. \A i \in 1..(Len(q) + 1) : i \in 1..Len(q) \/ i = Len(q) + 1
  BY <1>1
<1>7. \A i \in 1..Len(a) : l < a[i] /\ a[i] <= s + 1
  BY <1>1, <1>2, <1>3, <1>6, SpanStreamingAssumption
<1>8. \A i, j \in 1..Len(a) : i < j => a[i] < a[j]
  BY <1>1, <1>2, <1>3, <1>6, SpanStreamingAssumption
<1>9. a \in Seq(1..MaxSpans) /\ l <= s + 1
  BY <1>2, <1>3, SpanStreamingAssumption
<1> HIDE DEF a
<1>10. Ordered(a, l, s + 1)
  BY <1>2, <1>7, <1>8, <1>9 DEF Ordered
<1>11. QED  BY <1>3, <1>4, <1>5, <1>10 DEF a

-----------------------------------------------------------------------------
(* What an action does to the queue and the flags when it only sends. *)
LEMMA Sending ==
    ASSUME QueueInv, NEW w \in BOOLEAN, NEW f \in BOOLEAN, NEW d \in Nat,
           SendQueue(spans, w, f, d), UNCHANGED <<seen, dropped>>, UNCHANGED batching,
           f => d # 0, ~f => d = 0, ~w => f,
           ~batching => w /\ ~f
    PROVE  QueueInv' /\ FlagInv'
<1>1. /\ Ordered(spans', lastSent', seen)
      /\ sent' \in Nat
      /\ sent' + Len(spans') = sent + Len(spans)
      /\ Len(spans') <= Len(spans)
      /\ full' \in BOOLEAN /\ writable' \in BOOLEAN /\ drains' \in Nat
      /\ full' => drains' > 0
      /\ ~writable' => full'
      /\ ~full' => drains' = 0
      /\ ~batching => (writable' <=> ~full')
      /\ ~batching => drains' <= 1
      /\ ~batching /\ writable' => spans' = <<>>
  <2>1. (f => d > 0) /\ (~f => d = 0) /\ (~w => f)
    OBVIOUS
  <2>2. /\ Ordered(spans, lastSent, seen) /\ sent \in Nat
        /\ seen \in 0..MaxSpans
    BY DEF QueueInv
  <2>3. (batching \/ ~f) /\ (~batching => (w <=> ~f) /\ d = 0)
    OBVIOUS
  <2>4. QED  BY <2>1, <2>2, <2>3, SendKeeps
<1>2. /\ Len(spans) \in Nat /\ Len(spans') \in Nat
      /\ dropped \in Nat /\ sent \in Nat
      /\ LedgerBalances /\ QueueBounded /\ seen \in 0..MaxSpans
  BY <1>1, LenProperties DEF QueueInv, Ordered
<1>3. LedgerBalances' /\ QueueBounded'
  <2>1. seen' = seen /\ dropped' = dropped
    OBVIOUS
  <2>2. /\ seen = sent + dropped + Len(spans) /\ Len(spans) <= QueueSize
        /\ sent' \in Nat /\ sent' + Len(spans') = sent + Len(spans)
        /\ Len(spans') <= Len(spans)
    BY <1>1, <1>2 DEF LedgerBalances, QueueBounded
  <2>3. seen' = sent' + dropped' + Len(spans') /\ Len(spans') <= QueueSize
    BY <1>2, <2>1, <2>2, SpanStreamingAssumption
  <2>4. QED  BY <2>3 DEF LedgerBalances, QueueBounded
<1>4. QueueInv'
  BY <1>1, <1>2, <1>3 DEF QueueInv
<1>5. FlagInv'
  BY <1>1 DEF FlagInv, WaitIsHeard, RespectsBackPressure
<1>6. QED  BY <1>4, <1>5

LEMMA SendingAll ==
    ASSUME QueueInv, SendQueue(spans, TRUE, FALSE, 0), UNCHANGED <<batching, seen, dropped>>
    PROVE  QueueInv' /\ FlagInv'
<1>1. 0 \in Nat
  OBVIOUS
<1>2. QED  BY <1>1, Sending, Zenon

LEMMA WriteKeeps ==
    ASSUME QueueInv, FlagInv, Write
    PROVE  QueueInv' /\ FlagInv' /\ (writable' \/ full' => writable \/ full)
<1>1. /\ Ordered(spans, lastSent, seen) /\ seen \in 0..MaxSpans
      /\ sent \in Nat /\ dropped \in Nat
      /\ LedgerBalances /\ QueueBounded
      /\ Len(spans) \in Nat
  BY LenProperties DEF QueueInv, Ordered
<1>2. /\ seen' = seen + 1 /\ seen + 1 \in 1..MaxSpans
      /\ stream' = stream /\ batching' = batching
      /\ WriteLater(seen + 1) \/ WriteNow(seen + 1)
  BY <1>1, SpanStreamingAssumption DEF Write
<1>3. /\ Ordered(spans, lastSent, seen + 1)
      /\ Ordered(Append(spans, seen + 1), lastSent, seen + 1)
      /\ Len(Append(spans, seen + 1)) = Len(spans) + 1
      /\ Append(spans, seen + 1) # <<>>
  BY <1>1, <1>2, AppendKeeps
<1>4. ASSUME UNCHANGED <<batching, full, drains, writable>>, batching \/ ~writable
      PROVE  FlagInv' /\ (writable' \/ full' => writable \/ full)
  BY <1>2, <1>4 DEF FlagInv, WaitIsHeard, RespectsBackPressure
<1>5. CASE WriteLater(seen + 1)
  <2>1. CASE Len(spans) < QueueSize /\ spans' = Append(spans, seen + 1)
             /\ UNCHANGED dropped
    BY <1>1, <1>2, <1>3, <1>4, <1>5, <2>1, SpanStreamingAssumption
       DEF WriteLater, QueueInv, LedgerBalances, QueueBounded
  <2>2. CASE dropped' = dropped + 1 /\ UNCHANGED spans
    BY <1>1, <1>2, <1>3, <1>4, <1>5, <2>2, SpanStreamingAssumption
       DEF WriteLater, QueueInv, LedgerBalances, QueueBounded
  <2>3. QED  BY <1>5, <2>1, <2>2 DEF WriteLater
<1>6. CASE WriteNow(seen + 1)
  <2>1. CASE ~batching /\ sent' = sent + 1 /\ lastSent' = seen + 1
             /\ full' \in {full, TRUE} /\ writable' = ~full'
             /\ drains' = (IF full' THEN drains + 1 ELSE drains)
             /\ UNCHANGED spans
    <3>1. writable /\ ~full /\ drains = 0 /\ dropped' = dropped
      BY <1>6, <2>1 DEF WriteNow, FlagInv, RespectsBackPressure
    <3>2. full' \in BOOLEAN /\ writable' \in BOOLEAN /\ (writable' <=> ~full')
      <4>1. full' \in BOOLEAN
        BY <2>1 DEF FlagInv
      <4>2. QED  BY <2>1, <4>1
    <3>3. (full' => drains' = 1) /\ (~full' => drains' = 0)
      BY <2>1, <3>1, <3>2
    <3>4. spans = <<>> /\ spans' = <<>> /\ Len(spans) = 0
      BY <1>1, <2>1, <3>1, EmptySeq DEF FlagInv
    <3>5. FlagInv' /\ (writable' \/ full' => writable \/ full)
      BY <1>2, <2>1, <3>1, <3>2, <3>3, <3>4 DEF FlagInv, WaitIsHeard, RespectsBackPressure
    <3>6. Ordered(<<>>, seen + 1, seen + 1)
      BY <1>1, <1>2, EmptySeq, SpanStreamingAssumption DEF Ordered
    <3>7. QueueInv'
      BY <1>1, <1>2, <2>1, <3>1, <3>4, <3>6, SpanStreamingAssumption
         DEF QueueInv, LedgerBalances, QueueBounded
    <3>8. QED  BY <3>5, <3>7
  <2>2. CASE batching /\ Len(spans) + 1 < QueueSize
             /\ spans' = Append(spans, seen + 1)
             /\ UNCHANGED <<full, drains, writable, sent, lastSent>>
    BY <1>1, <1>2, <1>3, <1>4, <1>6, <2>2, SpanStreamingAssumption
       DEF WriteNow, QueueInv, LedgerBalances, QueueBounded
  <2>3. CASE batching /\ SendQueue(Append(spans, seen + 1), writable, full, drains)
    <3>1. writable /\ dropped' = dropped
      BY <1>6 DEF WriteNow
    <3>2. /\ writable \in BOOLEAN /\ full \in BOOLEAN /\ drains \in Nat
          /\ full => drains > 0
          /\ ~full => drains = 0
      BY DEF FlagInv
    <3>3. /\ Ordered(spans', lastSent', seen + 1)
          /\ sent' \in Nat
          /\ sent' + Len(spans') = sent + Len(spans) + 1
          /\ spans' = <<>>
          /\ full' \in BOOLEAN /\ writable' \in BOOLEAN /\ drains' \in Nat
          /\ full' => drains' > 0
          /\ ~writable' => full'
          /\ ~full' => drains' = 0
      <4>1. seen + 1 \in 0..MaxSpans
        BY <1>2
      <4> DEFINE a == Append(spans, seen + 1)
      <4>2. /\ Ordered(a, lastSent, seen + 1) /\ sent \in Nat /\ a # <<>>
            /\ Len(a) = Len(spans) + 1
        BY <1>1, <1>3
      <4>3. batching /\ SendQueue(a, writable, full, drains)
        BY <2>3
      <4> HIDE DEF a
      <4>4. /\ Ordered(spans', lastSent', seen + 1)
            /\ sent' \in Nat
            /\ sent' + Len(spans') = sent + Len(a)
            /\ spans' = <<>>
            /\ full' \in BOOLEAN /\ writable' \in BOOLEAN /\ drains' \in Nat
            /\ (full => drains > 0) => (full' => drains' > 0)
            /\ (~writable => full) => (~writable' => full')
            /\ (~full => drains = 0) => (~full' => drains' = 0)
        BY <3>2, <4>1, <4>2, <4>3, SendKeeps
      <4>5. sent' + Len(spans') = sent + Len(spans) + 1
        BY <1>1, <4>2, <4>4
      <4>6. QED  BY <3>1, <3>2, <4>4, <4>5
    <3>4. FlagInv'
      BY <1>2, <2>3, <3>3 DEF FlagInv, WaitIsHeard, RespectsBackPressure
    <3>5. Len(spans') = 0
      BY <3>3, EmptySeq
    <3>6. QueueInv'
      BY <1>1, <1>2, <3>1, <3>3, <3>5, SpanStreamingAssumption
         DEF QueueInv, LedgerBalances, QueueBounded
    <3>7. QED  BY <3>1, <3>4, <3>6
  <2>4. QED  BY <1>6, <2>1, <2>2, <2>3 DEF WriteNow
<1>7. QED  BY <1>2, <1>5, <1>6

-----------------------------------------------------------------------------
LEMMA DrainKeeps ==
    ASSUME QueueInv, FlagInv, Drain
    PROVE  QueueInv' /\ FlagInv'
<1>1. CASE SendQueue(spans, TRUE, FALSE, 0)
  BY <1>1, SendingAll DEF Drain
<1>2. CASE drains > 1 /\ Drained /\ ~SendQueue(spans, TRUE, FALSE, 0)
  <2>1. batching
    BY <1>2 DEF FlagInv
  <2>2. /\ Ordered(spans, lastSent, seen)
        /\ spans \in Seq(1..MaxSpans)
        /\ sent \in Nat /\ dropped \in Nat /\ seen \in 0..MaxSpans
        /\ LedgerBalances /\ QueueBounded
        /\ Batches(spans) \in Nat
    BY BatchesType DEF QueueInv, Ordered
  <2>3. Len(spans) \in Nat /\ (spans # <<>> => Len(spans) \in 1..Len(spans))
    BY <2>2, LenProperties, EmptySeq
  <2>4. PICK hit \in 0..Batches(spans) :
            /\ full' = (hit > 0)
            /\ drains' = hit
            /\ writable' = TRUE
            /\ spans' = <<>>
            /\ sent' = sent + Len(spans)
            /\ lastSent' = IF spans = <<>> THEN lastSent ELSE spans[Len(spans)]
    BY <1>2 DEF Drained
  <2>5. seen' = seen /\ dropped' = dropped /\ batching' = batching
    BY DEF Drain
  <2>6. FlagInv'
    <3>1. full' \in BOOLEAN /\ writable'
      BY <2>4
    <3>2. full' <=> hit > 0
      BY <2>4
    <3>3. drains' \in Nat /\ (full' <=> drains' > 0)
      BY <2>2, <2>4, <3>2
    <3>4. QED  BY <2>1, <2>5, <3>1, <3>3 DEF FlagInv, WaitIsHeard, RespectsBackPressure
  <2>7. lastSent' \in 0..MaxSpans /\ lastSent' <= seen
    BY <2>2, <2>3, <2>4, ElementOfSeq, SpanStreamingAssumption DEF Ordered
  <2>8. <<>> \in Seq(1..MaxSpans) /\ Len(<<>>) = 0
    BY EmptySeq
  <2>9. Ordered(spans', lastSent', seen')
    BY <2>4, <2>5, <2>7, <2>8 DEF Ordered
  <2>10. QueueInv'
    BY <2>2, <2>3, <2>4, <2>5, <2>8, <2>9, SpanStreamingAssumption
       DEF QueueInv, LedgerBalances, QueueBounded
  <2>11. QED  BY <2>6, <2>10
<1>3. QED  BY <1>1, <1>2 DEF Drain, Drained

LEMMA IntervalKeeps ==
    ASSUME QueueInv, FlagInv, StreamInv, Interval
    PROVE  QueueInv' /\ FlagInv'
<1>0. batching
  BY DEF Interval, StreamInv
<1>1. /\ writable \in BOOLEAN /\ full \in BOOLEAN /\ drains \in Nat
      /\ full => drains # 0
      /\ ~full => drains = 0
      /\ ~writable => full
  BY DEF Interval, FlagInv, StreamInv, WritesHaveAStream, WaitIsHeard
<1>2. SendQueue(spans, writable, full, drains) /\ UNCHANGED <<batching, seen, dropped>>
  BY DEF Interval
<1>3. QED  BY <1>0, <1>1, <1>2, Sending

LEMMA ConnectKeeps ==
    ASSUME QueueInv, FlagInv, StreamInv, NEW run, ConnectSpans(run),
           UNCHANGED <<batching, seen, dropped>>
    PROVE  /\ QueueInv' /\ FlagInv' /\ StreamInv'
           /\ \/ UNCHANGED <<stream, streamRun>>
              \/ stream = NoStream /\ stream' # NoStream /\ streamRun' = run
<1>1. CASE UNCHANGED <<stream, opened, streamRun, live, interval, writable,
                       full, drains, queueVars>>
  BY <1>1 DEF queueVars, QueueInv, FlagInv, StreamInv, LedgerBalances,
              QueueBounded, WaitIsHeard, RespectsBackPressure, OneStream,
              WritesHaveAStream
<1>2. CASE /\ stream = NoStream
           /\ opened < MaxStreams
           /\ opened' = opened + 1
           /\ stream' = opened + 1
           /\ streamRun' = run
           /\ live' = live \cup {opened + 1}
           /\ interval' = batching
           /\ SendQueue(spans, TRUE, FALSE, 0)
  <2>1. QueueInv' /\ FlagInv'
    BY <1>2, SendingAll
  <2>2. stream' # NoStream /\ opened' \in 1..MaxStreams
    BY <1>2, SpanStreamingAssumption DEF StreamInv, NoStream
  <2>3. live' = {stream'}
    BY <1>2 DEF StreamInv, OneStream
  <2>4. interval' \in BOOLEAN /\ (interval' => batching)
    BY <1>2 DEF StreamInv
  <2>5. StreamInv'
    BY <1>2, <2>2, <2>3, <2>4 DEF StreamInv, OneStream, WritesHaveAStream
  <2>6. QED  BY <1>2, <2>1, <2>2, <2>5
<1>3. QED  BY <1>1, <1>2 DEF ConnectSpans

LEMMA DisconnectKeeps ==
    ASSUME QueueInv, FlagInv, StreamInv, Disconnect,
           UNCHANGED <<batching, seen, dropped, opened, queueVars>>
    PROVE  QueueInv' /\ FlagInv' /\ StreamInv'
<1>1. QueueInv'
  BY DEF queueVars, QueueInv, LedgerBalances, QueueBounded
<1>2. /\ full' \in BOOLEAN /\ writable' \in BOOLEAN /\ interval' \in BOOLEAN
      /\ ~full' /\ ~writable' /\ ~interval'
      /\ drains' = 0 /\ stream' = NoStream
  BY DEF Disconnect
<1>3. FlagInv'
  BY <1>2 DEF FlagInv, WaitIsHeard, RespectsBackPressure
<1>4. live' = {} /\ opened' = opened
  BY DEF Disconnect, StreamInv, OneStream
<1>5. StreamInv'
  BY <1>2, <1>4, SpanStreamingAssumption
     DEF StreamInv, OneStream, WritesHaveAStream, NoStream
<1>6. QED  BY <1>1, <1>3, <1>5

-----------------------------------------------------------------------------
LEMMA InitInv == Init => IInv
<1> SUFFICES ASSUME Init PROVE IInv
  OBVIOUS
<1>1. <<>> \in Seq(1..MaxSpans) /\ Len(<<>>) = 0
  BY EmptySeq
<1>2. QueueInv
  BY <1>1, SpanStreamingAssumption
     DEF Init, QueueInv, Ordered, LedgerBalances, QueueBounded
<1>3. /\ batching \in BOOLEAN /\ started \in BOOLEAN /\ full \in BOOLEAN /\ writable \in BOOLEAN
      /\ interval \in BOOLEAN /\ gone \in BOOLEAN /\ undone \in BOOLEAN /\ overtaken \in BOOLEAN
      /\ ~started /\ ~full /\ ~writable /\ ~interval /\ ~gone /\ ~undone
  BY DEF Init
<1>4. /\ drains = 0 /\ stream = 0 /\ opened = 0 /\ live = {} /\ connRun = 0
      /\ streamRun = 0 /\ timers = 0 /\ oldTimers = 0 /\ runId \in 1..MaxRuns
  BY DEF Init, NoStream
<1>5. FlagInv
  BY <1>3, <1>4 DEF FlagInv, WaitIsHeard, RespectsBackPressure, NoStream
<1>6. StreamInv
  BY <1>3, <1>4, SpanStreamingAssumption
     DEF StreamInv, OneStream, WritesHaveAStream, NoStream
<1>7. TimerInv
  BY <1>3, <1>4, SpanStreamingAssumption
     DEF TimerInv, FollowsTheAgent, CeasesStreaming, CarriesCurrentRun,
         CarriesItsRun, NoReconnectWhenGone, NoStream
<1>8. QED  BY <1>2, <1>5, <1>6, <1>7 DEF IInv

(* The timers, streams and runs, action by action. *)
LEMMA TimersKeep ==
    ASSUME TimerInv, StreamInv, [Next]_vars
    PROVE  TimerInv'
<1> USE DEF FollowsTheAgent, CeasesStreaming, CarriesCurrentRun, CarriesItsRun,
            NoReconnectWhenGone
<1>1. ASSUME NEW run, ConnectSpans(run)
      PROVE  \/ UNCHANGED <<stream, streamRun>>
             \/ stream = NoStream /\ stream' # stream /\ streamRun' = run
  <2>1. opened + 1 # NoStream
    BY SpanStreamingAssumption DEF StreamInv, NoStream
  <2>2. QED  BY <1>1, <2>1, Zenon DEF ConnectSpans
<1>2. CASE UNCHANGED <<started, runId, connRun, stream, streamRun, timers,
                       oldTimers, gone, undone, overtaken>>
  BY <1>2 DEF TimerInv
<1>3. CASE Unimplemented
  BY <1>3 DEF TimerInv, Unimplemented, Disconnect
<1>4. CASE Ended
  BY <1>4 DEF TimerInv, Ended, Disconnect
<1>5. CASE Reconnect
  <2>1. /\ \/ UNCHANGED <<stream, streamRun>>
           \/ stream = NoStream /\ stream' # stream /\ streamRun' = connRun
        /\ UNCHANGED <<started, runId, connRun, gone, overtaken>>
    BY <1>1, <1>5 DEF Reconnect
  <2>2. CASE timers > 0 /\ timers' = timers - 1 /\ UNCHANGED <<oldTimers, undone>>
    BY <2>1, <2>2 DEF TimerInv
  <2>3. CASE /\ oldTimers > 0 /\ oldTimers' = oldTimers - 1
             /\ undone' = (undone \/ stream' # stream) /\ UNCHANGED timers
    <3>1. undone' \in BOOLEAN /\ (undone' <=> undone \/ stream' # stream)
      BY <2>3 DEF TimerInv
    <3>2. QED  BY <2>1, <2>3, <3>1 DEF TimerInv
  <2>4. QED  BY <1>5, <2>2, <2>3 DEF Reconnect
<1>6. CASE Start
  <2>1. /\ started' \in BOOLEAN /\ gone' \in BOOLEAN /\ overtaken' \in BOOLEAN
        /\ ~started /\ started' /\ ~gone' /\ ~overtaken'
    BY <1>6 DEF Start
  <2>2. /\ \/ UNCHANGED <<stream, streamRun>>
           \/ stream = NoStream /\ stream' # stream /\ streamRun' = runId
        /\ connRun' = runId
        /\ UNCHANGED <<runId, timers, oldTimers, undone>>
    BY <1>1, <1>6 DEF Start
  <2>3. QED  BY <2>1, <2>2, SpanStreamingAssumption DEF TimerInv
<1>7. CASE Stop
  <2>1. started' \in BOOLEAN /\ ~started'
    BY <1>7 DEF Stop
  <2>2. QED  BY <1>7, <2>1 DEF TimerInv, Stop, Disconnect
<1>8. CASE Reconfigure
  <2>1. /\ runId' \in 1..MaxRuns
        /\ UNCHANGED <<started, connRun, stream, streamRun, timers, oldTimers, gone, undone>>
    BY <1>8, SpanStreamingAssumption DEF TimerInv, Reconfigure, connVars
  <2>2. overtaken' \in BOOLEAN /\ (overtaken' <=> started)
    BY <1>8 DEF TimerInv, Reconfigure
  <2>3. QED  BY <2>1, <2>2 DEF TimerInv
<1>9. QED
  BY <1>2, <1>3, <1>4, <1>5, <1>6, <1>7, <1>8
     DEF Next, Write, Drain, Interval, connVars, vars

LEMMA InvNext == IInv /\ [Next]_vars => IInv'
<1> SUFFICES ASSUME IInv, [Next]_vars
             PROVE  IInv'
  OBVIOUS
<1>1. TimerInv'
  BY TimersKeep DEF IInv
<1>2. CASE UNCHANGED <<batching, stream, opened, live, full, drains, writable, interval,
                       spans, seen, sent, dropped, lastSent>>
  BY <1>1, <1>2
     DEF IInv, QueueInv, FlagInv, StreamInv, LedgerBalances, QueueBounded,
         WaitIsHeard, RespectsBackPressure, OneStream, WritesHaveAStream
<1>3. ASSUME UNCHANGED <<batching, stream, opened, live, interval>>,
             writable' \/ full' => stream # NoStream
      PROVE  StreamInv'
  BY <1>3 DEF IInv, StreamInv, OneStream, WritesHaveAStream
<1>4. CASE Write
  <2>1. QueueInv' /\ FlagInv' /\ (writable' \/ full' => stream # NoStream)
    BY <1>4, WriteKeeps DEF IInv, StreamInv, WritesHaveAStream
  <2>2. UNCHANGED <<batching, stream, opened, live, interval>>
    BY <1>4 DEF Write, connVars
  <2>3. QED  BY <1>1, <1>3, <2>1, <2>2 DEF IInv
<1>5. CASE Drain
  <2>1. QueueInv' /\ FlagInv'
    BY <1>5, DrainKeeps DEF IInv
  <2>2. UNCHANGED <<batching, stream, opened, live, interval>> /\ stream # NoStream
    BY <1>5 DEF Drain, connVars
  <2>3. QED  BY <1>1, <1>3, <2>1, <2>2 DEF IInv
<1>6. CASE Interval
  <2>1. QueueInv' /\ FlagInv'
    BY <1>6, IntervalKeeps DEF IInv
  <2>2. UNCHANGED <<batching, stream, opened, live, interval>> /\ stream # NoStream
    BY <1>6 DEF Interval, connVars, IInv, StreamInv, WritesHaveAStream
  <2>3. QED  BY <1>1, <1>3, <2>1, <2>2 DEF IInv
<1>7. CASE Unimplemented \/ Ended \/ Stop
  <2>1. Disconnect /\ UNCHANGED <<batching, seen, dropped, opened, queueVars>>
    BY <1>7 DEF Unimplemented, Ended, Stop
  <2>2. QED  BY <1>1, <2>1, DisconnectKeeps DEF IInv
<1>8. CASE Reconnect \/ Start
  <2>1. UNCHANGED <<batching, seen, dropped>> /\ \E run \in {connRun, runId} : ConnectSpans(run)
    BY <1>8 DEF Reconnect, Start
  <2>2. QED  BY <1>1, <2>1, ConnectKeeps DEF IInv
<1>9. QED
  BY <1>2, <1>4, <1>5, <1>6, <1>7, <1>8
     DEF Next, Reconfigure, connVars, queueVars, vars

THEOREM InvAlways == Spec => []IInv
BY InitInv, InvNext, PTL DEF Spec

(* Every variable is well typed in every state; the bounds of the metrics  *)
(* and of the queue's elements follow from the ledger.                     *)
THEOREM TypeCorrect == Spec => []TypeOK
<1>1. IInv => TypeOK
  <2> SUFFICES ASSUME IInv PROVE TypeOK
    OBVIOUS
  <2>1. Ordered(spans, lastSent, seen)
    BY DEF IInv, QueueInv
  <2>2. spans \in Seq(1..MaxSpans) /\ lastSent \in 0..MaxSpans
    BY <2>1 DEF Ordered
  <2>3. Len(spans) \in Nat
    BY <2>2, LenProperties
  <2>4. seen \in 0..MaxSpans /\ sent \in 0..MaxSpans /\ dropped \in 0..MaxSpans
    BY <2>3, SpanStreamingAssumption DEF IInv, QueueInv, LedgerBalances
  <2>5. QED
    BY <2>2, <2>4 DEF IInv, FlagInv, StreamInv, TimerInv, TypeOK
<1>2. QED  BY <1>1, InvAlways, PTL

(* The metrics account for every span, whichever streamer is used.         *)
THEOREM Ledger == Spec => []LedgerBalances
<1>1. IInv => LedgerBalances
  BY DEF IInv, QueueInv
<1>2. QED  BY <1>1, InvAlways, PTL

(* Spans reach the streams in the order they were recorded. *)
THEOREM Order == Spec => []InOrder
<1>1. IInv => InOrder
  <2>1. ASSUME IInv
        PROVE  Ordered(spans, lastSent, seen)
    BY <2>1 DEF IInv, QueueInv
  <2>2. Ordered(spans, lastSent, seen) => InOrder
    BY DEF Ordered, InOrder
  <2>3. QED  BY <2>1, <2>2
<1>2. QED  BY <1>1, InvAlways, PTL

(* The streamer writes only while there is a stream, a streamer that waits *)
(* with a stream will hear of it, and no stream is left open.              *)
THEOREM Flags == Spec => []FlagsFollow
<1>1. IInv => FlagsFollow
  BY DEF IInv, FlagInv, StreamInv, FlagsFollow
<1>2. QED  BY <1>1, InvAlways, PTL

(* The queue keeps to its configured size, and the streamer that does not  *)
(* batch respects back-pressure.                                           *)
THEOREM Limits == Spec => []LimitsAreKept
<1>1. IInv => LimitsAreKept
  BY DEF IInv, QueueInv, FlagInv, LimitsAreKept
<1>2. QED  BY <1>1, InvAlways, PTL

(* Only a reconnect timer from before a stop undoes the stop, connects the *)
(* wrong run or an observer that is gone.                                  *)
THEOREM Follows == Spec => []FollowsTheAgent
<1>1. IInv => FollowsTheAgent
  BY DEF IInv, TimerInv
<1>2. QED  BY <1>1, InvAlways, PTL
=============================================================================
