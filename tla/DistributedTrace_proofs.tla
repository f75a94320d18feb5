------------------------ MODULE DistributedTrace_proofs ------------------------
(***************************************************************************)
(* Proofs about distributed tracing, for any transactions, accounts and    *)
(* settings and any decisions of samplers, and about the bridge to         *)
(* OpenTelemetry, for any number of spans, segments and contexts.          *)
(***************************************************************************)
EXTENDS Propagation, SequenceTheorems, TLAPS

(* What a transaction has said it cannot change any more: it accepts no    *)
(* headers, and its decision has been made.                                *)
Fixed(t) == joined[t] /\ priority[t] # None

(* The entry, found beside the trace id, is what its author still says.    *)
SaidBy(e, id) ==
    /\ Fixed(e.by)
    /\ id = TraceId(e.by)
    /\ e.sampled = (sampled[e.by] = TRUE)
    /\ e.priority = IF priority[e.by] = 0 THEN None ELSE priority[e.by]

StateSays(s, id) ==
    \A k \in Account : s.first[k] # None /\ s.first[k].by \in Tx => SaidBy(s.first[k], id)

(* Entries under the key may be double. *)
MetTwice(k) == \E t \in Tx : AccountOf[t] = k /\ early[t]

(* What headers say holds of those who wrote them.                         *)
Says(h) ==
    /\ StateSays(h.state, h.trace)
    /\ h.by \in Tx => Fixed(h.by) /\ h.trace = TraceId(h.by)
    /\ h.legacy # None => /\ h.by \in Tx
                          /\ h.legacy.sampled = sampled[h.by]
                          /\ h.legacy.priority = priority[h.by]

(* Headers hand on what their author has accepted.                         *)
HandsOn(h) ==
    /\ h.by \in Tx /\ via[h.by] # None =>
           \A k \in Account \ {AccountOf[h.by]} : h.state.first[k] = via[h.by].first[k]
    /\ \A k \in h.state.again : MetTwice(k)

WireSays == \A h \in wire : Says(h) /\ HandsOn(h)

RawSays == \A t \in Tx : StateSays(raw[t], TraceId(t))

Heard ==
    \A t \in Tx : heard[t] \in Tx =>
        /\ joined[t] /\ Fixed(heard[t])
        /\ priority[heard[t]] # 0 => /\ priority[t] = priority[heard[t]]
                                     /\ (sampled[t] = TRUE) <=> (sampled[heard[t]] = TRUE)

Recorded ==
    \A t \in Tx : event[t] # None /\ ~late[t] =>
        /\ priority[t] # None
        /\ event[t].trace = TraceId(t)
        /\ event[t].priority = priority[t]
        /\ event[t].sampled = (sampled[t] = TRUE)

Passes ==
    /\ \A t \in Tx : via[t] # None => \A k \in Account \ {AccountOf[t]} :
                                          raw[t].first[k] = via[t].first[k]
    /\ \A t \in Tx : raw[t].first[AccountOf[t]] # None => early[t]
    /\ \A t \in Tx : \A k \in raw[t].again : MetTwice(k)

(* A transaction that has not joined has taken nothing over. *)
Unjoined ==
    \A t \in Tx : ~joined[t] => raw[t] = Empty /\ heard[t] = None /\ ~early[t]

Inv ==
    /\ TypeOK
    /\ WireSays /\ RawSays /\ Heard /\ Recorded
    /\ Passes /\ Unjoined

-----------------------------------------------------------------------------
(* Lemmas about the operators *)

LEMMA EmptyState == Empty \in States /\ \A k \in Account : Empty.first[k] = None
BY DEF Empty, States

LEMMA StateParts ==
    ASSUME NEW s \in States
    PROVE  /\ s.first \in [Account -> {None} \cup [by : Tx \cup {Outside},
                                                  sampled : BOOLEAN \cup {None},
                                                  priority : Nat \cup {None}]]
           /\ s.again \subseteq Account
BY DEF States

LEMMA OthersOf ==
    ASSUME NEW t \in Tx, NEW s \in States
    PROVE  /\ Others(t, s) \in States
           /\ \A k \in Account : Others(t, s).first[k] =
                                     IF k = AccountOf[t] THEN None ELSE s.first[k]
           /\ Others(t, s).again \subseteq s.again
<1> USE DistributedTraceAssumption
<1>1. AccountOf[t] \in Account
  OBVIOUS
<1>2. /\ Others(t, s).first = [s.first EXCEPT ![AccountOf[t]] = None]
      /\ Others(t, s).again = s.again \ {AccountOf[t]}
  BY DEF Others
<1>3. [s.first EXCEPT ![AccountOf[t]] = None] \in
          [Account -> {None} \cup [by : Tx \cup {Outside},
                                   sampled : BOOLEAN \cup {None},
                                   priority : Nat \cup {None}]]
  BY <1>1, StateParts
<1>4. Others(t, s) \in States
  BY <1>3, StateParts DEF Others, States
<1> QED
  BY <1>1, <1>2, <1>4, StateParts

(* The decision that is made at a call, and what stays of it.              *)
LEMMA DecidedOnce ==
    ASSUME TypeOK, NEW t \in Tx, NEW d \in CalculatePriority(t), Decided(t, d)
    PROVE  /\ d.sampled \in BOOLEAN \cup {None} /\ d.priority \in Nat /\ d.priority # None
           /\ sampled' \in [Tx -> BOOLEAN \cup {None}]
           /\ priority' \in [Tx -> Nat \cup {None}]
           /\ sampled'[t] = d.sampled /\ priority'[t] = d.priority
           /\ \A u \in Tx : u # t => sampled'[u] = sampled[u] /\ priority'[u] = priority[u]
           /\ priority[t] # None => sampled'[t] = sampled[t] /\ priority'[t] = priority[t]
<1> USE DistributedTraceAssumption
<1>1. sampled \in [Tx -> BOOLEAN \cup {None}] /\ priority \in [Tx -> Nat \cup {None}]
  BY DEF TypeOK
<1>2. CASE priority[t] = None
  <2>1. d \in [sampled : BOOLEAN, priority : Nat]
    BY <1>2 DEF CalculatePriority
  <2> QED
    BY <1>1, <1>2, <2>1 DEF Decided
<1>3. CASE priority[t] # None
  <2>1. d = [sampled |-> sampled[t], priority |-> priority[t]]
    BY <1>3 DEF CalculatePriority
  <2>2. d.sampled = sampled[t] /\ d.priority = priority[t]
    BY <2>1
  <2> QED
    BY <1>1, <1>3, <2>2 DEF Decided
<1> QED
  BY <1>2, <1>3

(* The entry of t and those of others, in the tracestate that t writes.    *)
LEMMA TracestateOf ==
    ASSUME TypeOK, NEW t \in Tx, NEW d, d.sampled \in BOOLEAN \cup {None}, d.priority \in Nat
    PROVE  /\ Tracestate(t, d) \in States
           /\ \A k \in Account :
                 \/ k = AccountOf[t] /\ Tracestate(t, d).first[k] =
                        Entry(t, d.sampled = TRUE, IF d.priority = 0 THEN None ELSE d.priority)
                 \/ Tracestate(t, d).first[k] = raw[t].first[k] /\ (k = AccountOf[t] => ~keyed[t])
           /\ \A k \in Tracestate(t, d).again :
                 k \in raw[t].again \/ (k = AccountOf[t] /\ raw[t].first[k] # None)
<1> USE DistributedTraceAssumption
<1> DEFINE e == Entry(t, d.sampled = TRUE, IF d.priority = 0 THEN None ELSE d.priority)
<1>1. raw[t] \in States /\ AccountOf[t] \in Account
  BY DEF TypeOK
<1>2. CASE ~keyed[t]
  <2>1. Tracestate(t, d) = raw[t]
    BY <1>2 DEF Tracestate
  <2> QED
    BY <1>1, <1>2, <2>1
<1>3. CASE keyed[t]
  <2>1. /\ Tracestate(t, d).first = [raw[t].first EXCEPT ![AccountOf[t]] = e]
        /\ Tracestate(t, d).again = IF raw[t].first[AccountOf[t]] = None
                                    THEN raw[t].again ELSE raw[t].again \cup {AccountOf[t]}
    BY <1>3 DEF Tracestate
  <2>2. e \in [by : Tx \cup {Outside}, sampled : BOOLEAN \cup {None}, priority : Nat \cup {None}]
    BY DEF Entry
  <2> HIDE DEF e
  <2>3. [raw[t].first EXCEPT ![AccountOf[t]] = e] \in
          [Account -> {None} \cup [by : Tx \cup {Outside},
                                   sampled : BOOLEAN \cup {None},
                                   priority : Nat \cup {None}]]
    BY <1>1, <2>2, StateParts
  <2>4. (IF raw[t].first[AccountOf[t]] = None
         THEN raw[t].again ELSE raw[t].again \cup {AccountOf[t]}) \subseteq Account
    BY <1>1, StateParts
  <2>5. Tracestate(t, d) \in States
    BY <1>3, <2>3, <2>4 DEF Tracestate, States, e
  <2>6. \A k \in Account : Tracestate(t, d).first[k] =
                               IF k = AccountOf[t] THEN e ELSE raw[t].first[k]
    BY <1>1, <2>1, StateParts
  <2>7. \A k \in Tracestate(t, d).again :
            k \in raw[t].again \/ (k = AccountOf[t] /\ raw[t].first[k] # None)
    BY <2>1
  <2> QED
    BY <2>5, <2>6, <2>7 DEF e
<1> QED
  BY <1>2, <1>3

-----------------------------------------------------------------------------
(* What no step may change of a transaction that has spoken.               *)
Frame ==
    \A u \in Tx : Fixed(u) => /\ joined'[u]
                              /\ trace'[u] = trace[u]
                              /\ sampled'[u] = sampled[u]
                              /\ priority'[u] = priority[u]

LEMMA FrameSaidBy ==
    ASSUME Frame, NEW e, NEW id, e.by \in Tx, SaidBy(e, id)
    PROVE  SaidBy(e, id)'
<1>1. Fixed(e.by) /\ Fixed(e.by)'
  BY DEF SaidBy, Frame, Fixed
<1>2. /\ trace'[e.by] = trace[e.by] /\ sampled'[e.by] = sampled[e.by]
      /\ priority'[e.by] = priority[e.by]
  BY <1>1 DEF Frame
<1> QED
  BY <1>1, <1>2, Zenon DEF SaidBy, TraceId

LEMMA FrameState ==
    ASSUME Frame, NEW s, NEW id, StateSays(s, id) PROVE StateSays(s, id)'
BY FrameSaidBy, Zenon DEF StateSays

LEMMA FrameSays ==
    ASSUME Frame, NEW h, Says(h) PROVE Says(h)'
<1>1. StateSays(h.state, h.trace)'
  BY FrameState DEF Says
<1>2. h.by \in Tx => Fixed(h.by)' /\ h.trace = TraceId(h.by)'
  BY DEF Says, Frame, Fixed, TraceId
<1>3. h.legacy # None => /\ h.by \in Tx
                         /\ h.legacy.sampled = sampled'[h.by]
                         /\ h.legacy.priority = priority'[h.by]
  BY DEF Says, Frame
<1> QED
  BY <1>1, <1>2, <1>3, Zenon DEF Says

(* A step that decides, and accepts nothing. *)
LEMMA DecisionKeeps ==
    ASSUME Inv, NEW t \in Tx, NEW d \in CalculatePriority(t), Decided(t, d),
           UNCHANGED <<trace, raw, via, heard, early, late>>,
           joined' = joined \/ joined' = [joined EXCEPT ![t] = TRUE]
    PROVE  /\ Frame
           /\ joined' \in [Tx -> BOOLEAN]
           /\ \A u \in Tx : priority[u] # None => sampled'[u] = sampled[u] /\ priority'[u] = priority[u]
           /\ \A h \in wire : Says(h)' /\ HandsOn(h)'
           /\ RawSays' /\ Heard' /\ Passes' /\ Unjoined'
<1>1. TypeOK
  BY DEF Inv
<1>2. \A u \in Tx : priority[u] # None => sampled'[u] = sampled[u] /\ priority'[u] = priority[u]
  <2> SUFFICES ASSUME NEW u \in Tx, priority[u] # None
               PROVE  sampled'[u] = sampled[u] /\ priority'[u] = priority[u]
    BY Zenon
  <2>1. CASE u = t
    BY <1>1, <2>1, DecidedOnce, Zenon
  <2>2. CASE u # t
    BY <1>1, <2>2, DecidedOnce, Zenon
  <2> QED
    BY <2>1, <2>2
<1>3. joined' \in [Tx -> BOOLEAN] /\ \A u \in Tx : joined[u] => joined'[u]
  BY <1>1 DEF TypeOK
<1>4. /\ trace' = trace /\ raw' = raw /\ via' = via /\ heard' = heard
      /\ early' = early /\ late' = late
  OBVIOUS
<1>5. Frame
  BY <1>2, <1>3, <1>4, Zenon DEF Frame, Fixed
<1>6. \A h \in wire : Says(h)'
  BY <1>5, FrameSays DEF Inv, WireSays
<1>7. \A k : MetTwice(k) => MetTwice(k)'
  BY <1>4 DEF MetTwice
<1>12. \A h \in wire : HandsOn(h)'
  <2> SUFFICES ASSUME NEW h \in wire PROVE HandsOn(h)'
    OBVIOUS
  <2>1. HandsOn(h)
    BY DEF Inv, WireSays
  <2> QED
    BY <1>4, <1>7, <2>1, Zenon DEF HandsOn
<1>8. RawSays'
  BY <1>4, <1>5, FrameState DEF Inv, RawSays, TraceId
<1>9. Heard'
  <2> SUFFICES ASSUME NEW u \in Tx, heard[u] \in Tx
               PROVE  /\ joined'[u] /\ Fixed(heard[u])'
                      /\ priority'[heard[u]] # 0 =>
                            /\ priority'[u] = priority'[heard[u]]
                            /\ (sampled'[u] = TRUE) <=> (sampled'[heard[u]] = TRUE)
    BY <1>4 DEF Heard
  <2> DEFINE w == heard[u]
  <2>1. /\ joined[u] /\ Fixed(w)
        /\ priority[w] # 0 => /\ priority[u] = priority[w]
                              /\ (sampled[u] = TRUE) <=> (sampled[w] = TRUE)
    BY DEF Inv, Heard
  <2>2. priority'[w] = priority[w] /\ sampled'[w] = sampled[w] /\ joined'[w] /\ priority[w] # None
    BY <1>5, <2>1 DEF Frame, Fixed
  <2>3. priority[w] # 0 => priority'[u] = priority[u] /\ sampled'[u] = sampled[u]
    BY <1>2, <2>1, <2>2, Zenon
  <2>4. Fixed(w)'
    BY <2>2 DEF Fixed
  <2> QED
    BY <1>3, <2>1, <2>2, <2>3, <2>4
<1>10. Passes'
  <2>1. Passes
    BY DEF Inv
  <2> QED
    BY <1>4, <1>7, <2>1, Zenon DEF Passes
<1>11. Unjoined'
  BY <1>3, <1>4 DEF Inv, Unjoined
<1> QED
  BY <1>2, <1>3, <1>5, <1>6, <1>12, <1>8, <1>9, <1>10, <1>11, Zenon

(* The event stays right while the decision that was made stays.           *)
LEMMA RecordedKeeps ==
    ASSUME Inv, UNCHANGED <<trace, event, late>>,
           \A u \in Tx : priority[u] # None => sampled'[u] = sampled[u] /\ priority'[u] = priority[u]
    PROVE  Recorded'
BY Zenon DEF Inv, Recorded, TraceId

-----------------------------------------------------------------------------
(* The steps that accept nothing *)

LEMMA IsSampledInv == ASSUME Inv, NEW t \in Tx, IsSampled(t) PROVE Inv'
<1>1. PICK d \in CalculatePriority(t) : Decided(t, d)
  BY DEF IsSampled
<1>2. /\ keyed' = keyed /\ trace' = trace /\ joined' = joined /\ raw' = raw
      /\ wire' = wire /\ event' = event /\ via' = via /\ heard' = heard
      /\ early' = early /\ late' = late
  BY DEF IsSampled
<1>3. /\ \A u \in Tx : priority[u] # None => sampled'[u] = sampled[u] /\ priority'[u] = priority[u]
      /\ \A h \in wire : Says(h)' /\ HandsOn(h)'
      /\ RawSays' /\ Heard' /\ Passes' /\ Unjoined'
  BY <1>1, <1>2, DecisionKeeps
<1>4. TypeOK'
  <2>1. TypeOK
    BY DEF Inv
  <2>2. sampled' \in [Tx -> BOOLEAN \cup {None}] /\ priority' \in [Tx -> Nat \cup {None}]
    BY <1>1, <2>1, DecidedOnce
  <2> QED
    BY <1>2, <2>1, <2>2, Zenon DEF TypeOK
<1>5. Recorded'
  BY <1>2, <1>3, RecordedKeeps
<1>6. WireSays'
  BY <1>2, <1>3, Zenon DEF WireSays
<1> QED
  BY <1>3, <1>4, <1>5, <1>6 DEF Inv

LEMMA EndInv == ASSUME Inv, NEW t \in Tx, End(t) PROVE Inv'
<1>1. PICK d \in CalculatePriority(t) :
         /\ Decided(t, d)
         /\ event' = [event EXCEPT ![t] = [trace |-> TraceId(t),
                          sampled |-> d.sampled = TRUE, priority |-> d.priority]]
  BY DEF End
<1>2. /\ keyed' = keyed /\ trace' = trace /\ joined' = joined /\ raw' = raw
      /\ wire' = wire /\ via' = via /\ heard' = heard
      /\ early' = early /\ late' = late
  BY DEF End
<1>3. /\ \A u \in Tx : priority[u] # None => sampled'[u] = sampled[u] /\ priority'[u] = priority[u]
      /\ \A h \in wire : Says(h)' /\ HandsOn(h)'
      /\ RawSays' /\ Heard' /\ Passes' /\ Unjoined'
  BY <1>1, <1>2, DecisionKeeps
<1>4. TypeOK
  BY DEF Inv
<1>5. /\ d.sampled \in BOOLEAN \cup {None} /\ d.priority \in Nat /\ d.priority # None
      /\ sampled' \in [Tx -> BOOLEAN \cup {None}] /\ priority' \in [Tx -> Nat \cup {None}]
      /\ sampled'[t] = d.sampled /\ priority'[t] = d.priority
  BY <1>1, <1>4, DecidedOnce
<1> DEFINE r == [trace |-> TraceId(t), sampled |-> d.sampled = TRUE, priority |-> d.priority]
<1>6. /\ r.trace = TraceId(t) /\ r.priority = d.priority
      /\ r.sampled = (d.sampled = TRUE)
  BY Zenon
<1>7. r \in [trace : Tx \cup {Outside}, sampled : BOOLEAN, priority : Nat]
  BY <1>4, <1>5 DEF TypeOK, TraceId
<1>8. event' = [event EXCEPT ![t] = r]
  BY <1>1
<1> HIDE DEF r
<1>9. \A u \in Tx : event'[u] = IF u = t THEN r ELSE event[u]
  BY <1>4, <1>8 DEF TypeOK
<1>10. TypeOK'
  <2>1. event' \in [Tx -> {None} \cup [trace : Tx \cup {Outside}, sampled : BOOLEAN, priority : Nat]]
    BY <1>4, <1>7, <1>8 DEF TypeOK
  <2> QED
    BY <1>2, <1>4, <1>5, <2>1, Zenon DEF TypeOK
<1>11. Recorded'
  <2> SUFFICES ASSUME NEW u \in Tx, event'[u] # None, ~late[u]
               PROVE  /\ priority'[u] # None
                      /\ event'[u].trace = TraceId(u)
                      /\ event'[u].priority = priority'[u]
                      /\ event'[u].sampled = (sampled'[u] = TRUE)
    BY <1>2, Zenon DEF Recorded, TraceId
  <2>1. CASE u = t
    BY <1>5, <1>6, <1>9, <2>1, Zenon
  <2>2. CASE u # t
    <3>1. event'[u] = event[u]
      BY <1>9, <2>2
    <3>2. /\ priority[u] # None /\ event[u].trace = TraceId(u)
          /\ event[u].priority = priority[u] /\ event[u].sampled = (sampled[u] = TRUE)
      BY <3>1, Zenon DEF Inv, Recorded
    <3>3. sampled'[u] = sampled[u] /\ priority'[u] = priority[u]
      BY <1>3, <3>2, Zenon
    <3> QED
      BY <3>1, <3>2, <3>3, Zenon
  <2> QED
    BY <2>1, <2>2
<1>12. WireSays'
  BY <1>2, <1>3, Zenon DEF WireSays
<1> QED
  BY <1>3, <1>10, <1>11, <1>12 DEF Inv

LEMMA InsertInv == ASSUME Inv, NEW t \in Tx, Insert(t) PROVE Inv'
<1> USE DistributedTraceAssumption
<1>1. PICK d \in CalculatePriority(t) :
         /\ Decided(t, d)
         /\ wire' = wire \cup {Headers(t, TraceId(t), Tracestate(t, d), Payload(t, d))}
  BY DEF Insert
<1>2. /\ keyed' = keyed /\ trace' = trace /\ joined' = [joined EXCEPT ![t] = TRUE]
      /\ raw' = raw /\ event' = event /\ via' = via /\ heard' = heard
      /\ early' = early /\ late' = late
  BY DEF Insert
<1>3. /\ Frame
      /\ joined' \in [Tx -> BOOLEAN]
      /\ \A u \in Tx : priority[u] # None => sampled'[u] = sampled[u] /\ priority'[u] = priority[u]
      /\ \A h \in wire : Says(h)' /\ HandsOn(h)'
      /\ RawSays' /\ Heard' /\ Passes' /\ Unjoined'
  BY <1>1, <1>2, DecisionKeeps
<1>4. TypeOK
  BY DEF Inv
<1>5. /\ d.sampled \in BOOLEAN \cup {None} /\ d.priority \in Nat /\ d.priority # None
      /\ sampled' \in [Tx -> BOOLEAN \cup {None}] /\ priority' \in [Tx -> Nat \cup {None}]
      /\ sampled'[t] = d.sampled /\ priority'[t] = d.priority
  BY <1>1, <1>4, DecidedOnce
<1>s. PICK s : s = Tracestate(t, d)
  OBVIOUS
<1>i. PICK id : id = TraceId(t)
  OBVIOUS
<1>l. PICK legacy : legacy = Payload(t, d)
  OBVIOUS
<1>h. PICK h : h = Headers(t, id, s, legacy)
  OBVIOUS
<1>6. h.by = t /\ h.trace = id /\ h.state = s /\ h.legacy = legacy
  BY <1>h, Zenon DEF Headers
<1>7. /\ s \in States
      /\ \A k \in Account :
            \/ k = AccountOf[t] /\ s.first[k] =
                   Entry(t, d.sampled = TRUE, IF d.priority = 0 THEN None ELSE d.priority)
            \/ s.first[k] = raw[t].first[k] /\ (k = AccountOf[t] => ~keyed[t])
      /\ \A k \in s.again : k \in raw[t].again \/ (k = AccountOf[t] /\ raw[t].first[k] # None)
  <2>1. /\ Tracestate(t, d) \in States
        /\ \A k \in Account :
              \/ k = AccountOf[t] /\ Tracestate(t, d).first[k] =
                     Entry(t, d.sampled = TRUE, IF d.priority = 0 THEN None ELSE d.priority)
              \/ Tracestate(t, d).first[k] = raw[t].first[k] /\ (k = AccountOf[t] => ~keyed[t])
        /\ \A k \in Tracestate(t, d).again : k \in raw[t].again \/ (k = AccountOf[t] /\ raw[t].first[k] # None)
    BY <1>4, <1>5, TracestateOf
  <2> QED
    BY <1>s, <2>1, Zenon
<1>8. h \in AllHeaders
  <2>1. id \in Tx \cup {Outside}
    BY <1>4, <1>i DEF TypeOK, TraceId
  <2>2. legacy \in {None} \cup [key : Account, sampled : BOOLEAN \cup {None}, priority : Nat]
    BY <1>5, <1>l DEF Payload
  <2> QED
    BY <1>7, <1>h, <2>1, <2>2 DEF Headers, AllHeaders
<1>9. wire' = wire \cup {h}
  BY <1>1, <1>s, <1>i, <1>l, <1>h
<1>10. Fixed(t)' /\ id = TraceId(t)'
  BY <1>2, <1>4, <1>5, <1>i DEF Fixed, TraceId, TypeOK
<1>11. StateSays(s, id)'
  <2> SUFFICES ASSUME NEW k \in Account, s.first[k] # None, s.first[k].by \in Tx
               PROVE  SaidBy(s.first[k], id)'
    BY Zenon DEF StateSays
  <2>1. CASE k = AccountOf[t] /\ s.first[k] =
                 Entry(t, d.sampled = TRUE, IF d.priority = 0 THEN None ELSE d.priority)
    <3> DEFINE e == Entry(t, d.sampled = TRUE, IF d.priority = 0 THEN None ELSE d.priority)
    <3>1. /\ e.by = t
          /\ e.sampled = (d.sampled = TRUE)
          /\ e.priority = IF d.priority = 0 THEN None ELSE d.priority
      BY Zenon DEF Entry
    <3>2. s.first[k] = e
      BY <2>1
    <3> HIDE DEF e
    <3> QED
      BY <1>5, <1>10, <3>1, <3>2, Zenon DEF SaidBy
  <2>2. CASE s.first[k] = raw[t].first[k]
    <3>1. SaidBy(s.first[k], id)
      BY <1>i, <2>2, Zenon DEF Inv, RawSays, StateSays
    <3> QED
      BY <1>3, <3>1, FrameSaidBy, Zenon
  <2> QED
    BY <1>7, <2>1, <2>2, Zenon
<1>12. Says(h)'
  <2>1. h.legacy # None => /\ h.legacy.sampled = sampled'[t]
                           /\ h.legacy.priority = priority'[t]
    <3> DEFINE p == [key |-> AccountOf[t], sampled |-> d.sampled, priority |-> d.priority]
    <3>1. h.legacy # None => h.legacy = p
      BY <1>6, <1>l, Zenon DEF Payload
    <3>2. p.sampled = d.sampled /\ p.priority = d.priority
      BY Zenon
    <3> HIDE DEF p
    <3> QED
      BY <1>5, <3>1, <3>2, Zenon
  <2> QED
    BY <1>6, <1>10, <1>11, <2>1, Zenon DEF Says
<1>13. HandsOn(h)'
  <2>1. Passes'
    BY <1>3
  <2>2. via[t] # None => \A k \in Account \ {AccountOf[t]} : s.first[k] = via[t].first[k]
    BY <1>2, <1>7, <2>1, Zenon DEF Passes
  <2>3. \A k \in s.again : MetTwice(k)'
    <3> SUFFICES ASSUME NEW k \in s.again PROVE MetTwice(k)'
      OBVIOUS
    <3>1. CASE k \in raw[t].again
      BY <1>2, <2>1, <3>1, Zenon DEF Passes
    <3>2. CASE k = AccountOf[t] /\ raw[t].first[k] # None
      BY <1>2, <2>1, <3>2, Zenon DEF Passes, MetTwice
    <3> QED
      BY <1>7, <3>1, <3>2, Zenon
  <2> QED
    BY <1>2, <1>6, <2>2, <2>3, Zenon DEF HandsOn
<1>14. WireSays'
  BY <1>3, <1>9, <1>12, <1>13, Zenon DEF WireSays
<1>15. Recorded'
  BY <1>2, <1>3, RecordedKeeps
<1>16. TypeOK'
  <2>1. wire' \subseteq AllHeaders
    BY <1>4, <1>8, <1>9 DEF TypeOK
  <2> QED
    BY <1>2, <1>3, <1>4, <1>5, <2>1, Zenon DEF TypeOK
<1> QED
  BY <1>3, <1>14, <1>15, <1>16 DEF Inv

-----------------------------------------------------------------------------
(* Accepting *)

(* What a receiver finds says no less than what was sent.                  *)
LEMMA ReceivedSays ==
    ASSUME TypeOK, WireSays, NEW g \in wire, NEW h \in Received(g)
    PROVE  h \in AllHeaders /\ Says(h) /\ HandsOn(h)
<1>1. g \in AllHeaders /\ Says(g) /\ HandsOn(g)
  BY DEF TypeOK, WireSays
<1>2. /\ h.by = g.by /\ h.trace = g.trace /\ h.state = g.state /\ h.legacy = g.legacy
      /\ h \in AllHeaders
  BY <1>1 DEF Received, AllHeaders
<1>3. Says(h)
  BY <1>1, <1>2, Zenon DEF Says
<1>4. HandsOn(h)
  BY <1>1, <1>2, Zenon DEF HandsOn
<1> QED
  BY <1>2, <1>3, <1>4

(* The decision a transaction takes over, and from whom.                   *)
LEMMA AcceptDecides ==
    ASSUME TypeOK, NEW t \in Tx, NEW h \in AllHeaders, heard[t] = None,
           AcceptTraceContext(t, h) \/ AcceptLegacy(t, h)
    PROVE  /\ sampled' \in [Tx -> BOOLEAN \cup {None}]
           /\ priority' \in [Tx -> Nat \cup {None}]
           /\ heard' \in [Tx -> Tx \cup {Outside, None}]
           /\ \A u \in Tx : u # t => /\ sampled'[u] = sampled[u]
                                     /\ priority'[u] = priority[u]
                                     /\ heard'[u] = heard[u]
           /\ \/ heard'[t] = None
              \/ LET own == h.state.first[AccountOf[t]] IN
                 /\ own # None
                 /\ sampled'[t] = own.sampled /\ priority'[t] = own.priority
                 /\ heard'[t] = own.by
              \/ /\ h.legacy # None /\ heard'[t] = h.by
                 /\ h.legacy.priority # 0 => /\ sampled'[t] = h.legacy.sampled
                                             /\ priority'[t] = h.legacy.priority
<1> USE DistributedTraceAssumption
<1>1. /\ sampled \in [Tx -> BOOLEAN \cup {None}] /\ priority \in [Tx -> Nat \cup {None}]
      /\ heard \in [Tx -> Tx \cup {Outside, None}]
  BY DEF TypeOK
<1>2. PICK own : own = h.state.first[AccountOf[t]]
  OBVIOUS
<1>3. own \in {None} \cup [by : Tx \cup {Outside}, sampled : BOOLEAN \cup {None},
                           priority : Nat \cup {None}]
  BY <1>2, StateParts DEF AllHeaders
<1>4. CASE UNCHANGED <<sampled, priority, heard>>
  BY <1>1, <1>4
<1>5. CASE /\ own # None
           /\ sampled' = [sampled EXCEPT ![t] = own.sampled]
           /\ priority' = [priority EXCEPT ![t] = own.priority]
           /\ heard' = [heard EXCEPT ![t] = own.by]
  <2>1. own.sampled \in BOOLEAN \cup {None} /\ own.priority \in Nat \cup {None} /\ own.by \in Tx \cup {Outside}
    BY <1>3, <1>5
  <2>2. /\ sampled' \in [Tx -> BOOLEAN \cup {None}]
        /\ priority' \in [Tx -> Nat \cup {None}]
        /\ heard' \in [Tx -> Tx \cup {Outside, None}]
    BY <1>1, <1>5, <2>1
  <2>3. /\ sampled'[t] = own.sampled /\ priority'[t] = own.priority /\ heard'[t] = own.by
        /\ \A u \in Tx : u # t => /\ sampled'[u] = sampled[u]
                                  /\ priority'[u] = priority[u]
                                  /\ heard'[u] = heard[u]
    BY <1>1, <1>5
  <2> QED
    BY <1>2, <1>5, <2>2, <2>3, Zenon
<1>6. CASE /\ h.legacy # None
           /\ heard' = [heard EXCEPT ![t] = h.by]
           /\ \/ h.legacy.priority = 0 /\ UNCHANGED <<sampled, priority>>
              \/ /\ sampled' = [sampled EXCEPT ![t] = h.legacy.sampled]
                 /\ priority' = [priority EXCEPT ![t] = h.legacy.priority]
  <2>1. /\ h.legacy.sampled \in BOOLEAN \cup {None} /\ h.legacy.priority \in Nat
        /\ h.by \in Tx \cup {Outside}
    BY <1>6 DEF AllHeaders
  <2>2. /\ heard' \in [Tx -> Tx \cup {Outside, None}]
        /\ heard'[t] = h.by
        /\ \A u \in Tx : u # t => heard'[u] = heard[u]
    BY <1>1, <1>6, <2>1
  <2>3. /\ sampled' \in [Tx -> BOOLEAN \cup {None}]
        /\ priority' \in [Tx -> Nat \cup {None}]
        /\ \A u \in Tx : u # t => sampled'[u] = sampled[u] /\ priority'[u] = priority[u]
    BY <1>1, <1>6, <2>1
  <2>4. h.legacy.priority # 0 => /\ sampled'[t] = h.legacy.sampled
                                 /\ priority'[t] = h.legacy.priority
    BY <1>1, <1>6
  <2> QED
    BY <1>6, <2>2, <2>3, <2>4, Zenon
<1> QED
  BY <1>2, <1>4, <1>5, <1>6 DEF AcceptTraceContext, AcceptLegacy

(* The tracestate it keeps.                                                *)
LEMMA AcceptKeeps ==
    ASSUME TypeOK, NEW t \in Tx, NEW h \in AllHeaders, raw[t] = Empty,
           AcceptTraceContext(t, h) \/ AcceptLegacy(t, h)
    PROVE  /\ raw' \in [Tx -> States]
           /\ \A u \in Tx : u # t => raw'[u] = raw[u]
           /\ \/ raw'[t] = Empty /\ ~(h.parent = "valid" /\ h.parses)
              \/ raw'[t] = Others(t, h.state)
              \/ raw'[t] = h.state /\ ~keyed[t]
<1>1. raw \in [Tx -> States] /\ h.state \in States
  BY DEF TypeOK, AllHeaders
<1>2. Others(t, h.state) \in States
  BY <1>1, OthersOf
<1>3. CASE UNCHANGED raw /\ ~(h.parent = "valid" /\ h.parses)
  BY <1>1, <1>3
<1>4. CASE raw' = [raw EXCEPT ![t] = Others(t, h.state)]
  BY <1>1, <1>2, <1>4
<1>5. CASE raw' = [raw EXCEPT ![t] = h.state] /\ ~keyed[t]
  BY <1>1, <1>5
<1> QED
  BY <1>3, <1>4, <1>5 DEF AcceptTraceContext, AcceptLegacy

LEMMA AcceptInv ==
    ASSUME Inv, NEW t \in Tx, NEW g \in wire, NEW h \in Received(g), Accept(t, h)
    PROVE  Inv'
<1> USE DistributedTraceAssumption
<1>1. TypeOK
  BY DEF Inv
<1>2. h \in AllHeaders /\ Says(h) /\ HandsOn(h)
  BY <1>1, ReceivedSays DEF Inv
<1>3. ~joined[t] /\ raw[t] = Empty /\ heard[t] = None /\ ~early[t]
  BY DEF Accept, Inv, Unjoined
<1>4. /\ keyed' = keyed /\ wire' = wire /\ event' = event
      /\ joined' = [joined EXCEPT ![t] = TRUE]
      /\ trace' = [trace EXCEPT ![t] = h.trace]
      /\ via' = [via EXCEPT ![t] = IF h.parent = "valid" /\ h.parses THEN h.state ELSE None]
      /\ early' = [early EXCEPT ![t] = ~keyed[t]]
      /\ late' = [late EXCEPT ![t] = event[t] # None]
      /\ AcceptTraceContext(t, h) \/ AcceptLegacy(t, h)
  BY DEF Accept
<1>5. /\ sampled' \in [Tx -> BOOLEAN \cup {None}]
      /\ priority' \in [Tx -> Nat \cup {None}]
      /\ heard' \in [Tx -> Tx \cup {Outside, None}]
      /\ \A u \in Tx : u # t => /\ sampled'[u] = sampled[u]
                                /\ priority'[u] = priority[u]
                                /\ heard'[u] = heard[u]
  BY <1>1, <1>2, <1>3, <1>4, AcceptDecides
<1>6. /\ raw' \in [Tx -> States]
      /\ \A u \in Tx : u # t => raw'[u] = raw[u]
      /\ \/ raw'[t] = Empty /\ ~(h.parent = "valid" /\ h.parses)
         \/ raw'[t] = Others(t, h.state)
         \/ raw'[t] = h.state /\ ~keyed[t]
  BY <1>1, <1>2, <1>3, <1>4, AcceptKeeps
<1>7. /\ joined' \in [Tx -> BOOLEAN] /\ joined'[t]
      /\ \A u \in Tx : u # t => joined'[u] = joined[u]
  BY <1>1, <1>4 DEF TypeOK
<1>8. /\ trace' \in [Tx -> Tx \cup {Outside, None}] /\ trace'[t] = h.trace /\ h.trace # None
      /\ \A u \in Tx : u # t => trace'[u] = trace[u]
  BY <1>1, <1>2, <1>4 DEF TypeOK, AllHeaders
<1>9. /\ via' \in [Tx -> States \cup {None}]
      /\ via'[t] = IF h.parent = "valid" /\ h.parses THEN h.state ELSE None
      /\ \A u \in Tx : u # t => via'[u] = via[u]
  BY <1>1, <1>2, <1>4 DEF TypeOK, AllHeaders
<1>10. early' \in [Tx -> BOOLEAN] /\ late' \in [Tx -> BOOLEAN]
  BY <1>1, <1>4 DEF TypeOK
<1>11. /\ ~keyed[t] => early'[t]
       /\ \A u \in Tx : early[u] => early'[u]
  BY <1>1, <1>3, <1>4 DEF TypeOK
<1>12. /\ event[t] # None => late'[t]
       /\ \A u \in Tx : u # t => late'[u] = late[u]
  BY <1>1, <1>4 DEF TypeOK
<1>13. TypeOK'
  BY <1>1, <1>4, <1>5, <1>6, <1>7, <1>8, <1>9, <1>10, Zenon DEF TypeOK
<1>14. Frame
  <2> SUFFICES ASSUME NEW u \in Tx, Fixed(u)
               PROVE  /\ joined'[u] /\ trace'[u] = trace[u]
                      /\ sampled'[u] = sampled[u] /\ priority'[u] = priority[u]
    BY Zenon DEF Frame
  <2>1. u # t /\ joined[u]
    BY <1>3 DEF Fixed
  <2> QED
    BY <1>5, <1>7, <1>8, <2>1, Zenon
<1>15. \A k : MetTwice(k) => MetTwice(k)'
  BY <1>11 DEF MetTwice
<1>16. WireSays'
  <2> SUFFICES ASSUME NEW i \in wire PROVE Says(i)' /\ HandsOn(i)'
    BY <1>4, Zenon DEF WireSays
  <2>1. Says(i) /\ HandsOn(i)
    BY DEF Inv, WireSays
  <2>2. Says(i)'
    BY <1>14, <2>1, FrameSays
  <2>3. i.by \in Tx => i.by # t
    BY <1>3, <2>1 DEF Says, Fixed
  <2>4. HandsOn(i)'
    BY <1>9, <1>15, <2>1, <2>3, Zenon DEF HandsOn
  <2> QED
    BY <2>2, <2>4
<1>17. \A k \in Account : \/ raw'[t].first[k] = None
                          \/ raw'[t].first[k] = h.state.first[k] /\ (k = AccountOf[t] => ~keyed[t])
  <2>1. h.state \in States
    BY <1>2 DEF AllHeaders
  <2>2. CASE raw'[t] = Empty
    BY <2>2, EmptyState
  <2>3. CASE raw'[t] = Others(t, h.state)
    BY <2>1, <2>3, OthersOf
  <2>4. CASE raw'[t] = h.state /\ ~keyed[t]
    BY <2>4
  <2> QED
    BY <1>6, <2>2, <2>3, <2>4
<1>18. RawSays'
  <2> SUFFICES ASSUME NEW u \in Tx PROVE StateSays(raw[u], TraceId(u))'
    BY Zenon DEF RawSays
  <2>1. CASE u # t
    <3>1. PICK r : r = raw[u]
      OBVIOUS
    <3>2. PICK id : id = TraceId(u)
      OBVIOUS
    <3>3. StateSays(r, id)
      BY <3>1, <3>2 DEF Inv, RawSays
    <3>4. StateSays(r, id)'
      BY <1>14, <3>3, FrameState
    <3>5. raw'[u] = r /\ TraceId(u)' = id
      BY <1>6, <1>8, <2>1, <3>1, <3>2 DEF TraceId
    <3> QED
      BY <3>4, <3>5, Zenon DEF StateSays
  <2>2. CASE u = t
    <3>1. StateSays(h.state, h.trace)'
      BY <1>2, <1>14, FrameState DEF Says
    <3>2. TraceId(t)' = h.trace
      BY <1>8 DEF TraceId
    <3> QED
      BY <1>17, <2>2, <3>1, <3>2, Zenon DEF StateSays
  <2> QED
    BY <2>1, <2>2
<1>19. Heard'
  <2> SUFFICES ASSUME NEW u \in Tx, heard'[u] \in Tx
               PROVE  /\ joined'[u] /\ Fixed(heard[u])'
                      /\ priority'[heard'[u]] # 0 =>
                            /\ priority'[u] = priority'[heard'[u]]
                            /\ (sampled'[u] = TRUE) <=> (sampled'[heard'[u]] = TRUE)
    BY Zenon DEF Heard
  <2>1. PICK w \in Tx : w = heard'[u]
    OBVIOUS
  <2>2. SUFFICES ASSUME TRUE
                 PROVE  /\ joined'[u] /\ Fixed(w)
                        /\ priority[w] # 0 => /\ priority'[u] = priority[w]
                                              /\ (sampled'[u] = TRUE) <=> (sampled[w] = TRUE)
    <3>1. ASSUME Fixed(w)
          PROVE  Fixed(w)' /\ priority'[w] = priority[w] /\ sampled'[w] = sampled[w]
      BY <1>14, <3>1, Zenon DEF Frame, Fixed
    <3> QED
      BY <2>1, <3>1, Zenon DEF Fixed
  <2>3. CASE u # t
    <3>1. heard[u] = w
      BY <1>5, <2>1, <2>3
    <3>2. /\ joined[u] /\ Fixed(w)
          /\ priority[w] # 0 => /\ priority[u] = priority[w]
                                /\ (sampled[u] = TRUE) <=> (sampled[w] = TRUE)
      BY <3>1, Zenon DEF Inv, Heard
    <3> QED
      BY <1>5, <1>7, <2>3, <3>2, Zenon
  <2>4. CASE u = t
    <3>1. PICK own : own = h.state.first[AccountOf[t]]
      OBVIOUS
    <3>2. \/ /\ own # None
             /\ sampled'[t] = own.sampled /\ priority'[t] = own.priority
             /\ w = own.by
          \/ /\ h.legacy # None /\ w = h.by
             /\ h.legacy.priority # 0 => /\ sampled'[t] = h.legacy.sampled
                                         /\ priority'[t] = h.legacy.priority
      <4>1. heard'[t] # None
        BY <2>1, <2>4
      <4> QED
        BY <1>1, <1>2, <1>3, <1>4, <2>1, <2>4, <3>1, <4>1, AcceptDecides
    <3>3. CASE /\ own # None
               /\ sampled'[t] = own.sampled /\ priority'[t] = own.priority
               /\ w = own.by
      <4>1. SaidBy(own, h.trace)
        BY <1>2, <3>1, <3>3 DEF Says, StateSays
      <4>2. /\ Fixed(w)
            /\ own.sampled = (sampled[w] = TRUE)
            /\ priority[w] # 0 => own.priority = priority[w]
        BY <3>3, <4>1, Zenon DEF SaidBy
      <4> QED
        BY <1>7, <2>4, <3>3, <4>2, Zenon
    <3>4. CASE /\ h.legacy # None /\ w = h.by
               /\ h.legacy.priority # 0 => /\ sampled'[t] = h.legacy.sampled
                                           /\ priority'[t] = h.legacy.priority
      <4>1. /\ Fixed(w)
            /\ h.legacy.sampled = sampled[w] /\ h.legacy.priority = priority[w]
        BY <1>2, <3>4, Zenon DEF Says
      <4> QED
        BY <1>7, <2>4, <3>4, <4>1, Zenon
    <3> QED
      BY <3>2, <3>3, <3>4
  <2> QED
    BY <2>3, <2>4
<1>20. Recorded'
  <2> SUFFICES ASSUME NEW u \in Tx, event[u] # None, ~late'[u]
               PROVE  /\ priority'[u] # None
                      /\ event[u].trace = TraceId(u)'
                      /\ event[u].priority = priority'[u]
                      /\ event[u].sampled = (sampled'[u] = TRUE)
    BY <1>4, Zenon DEF Recorded
  <2>1. u # t /\ ~late[u]
    BY <1>12
  <2>2. /\ priority[u] # None /\ event[u].trace = TraceId(u)
        /\ event[u].priority = priority[u] /\ event[u].sampled = (sampled[u] = TRUE)
    BY <2>1, Zenon DEF Inv, Recorded
  <2>3. sampled'[u] = sampled[u] /\ priority'[u] = priority[u] /\ trace'[u] = trace[u]
    BY <1>5, <1>8, <2>1, Zenon
  <2> QED
    BY <2>2, <2>3, Zenon DEF TraceId
<1>21. Passes'
  <2>1. Passes
    BY DEF Inv
  <2>2. h.state \in States
    BY <1>2 DEF AllHeaders
  <2>3. ASSUME NEW u \in Tx, via'[u] # None, NEW k \in Account \ {AccountOf[u]}
        PROVE  raw'[u].first[k] = via'[u].first[k]
    <3>1. CASE u # t
      <4>1. raw'[u] = raw[u] /\ via'[u] = via[u]
        BY <1>6, <1>9, <3>1, Zenon
      <4>2. raw[u].first[k] = via[u].first[k]
        BY <2>1, <2>3, <4>1 DEF Passes
      <4> QED
        BY <4>1, <4>2
    <3>2. CASE u = t
      <4>1. via'[t] = h.state /\ (raw'[t] = Others(t, h.state) \/ raw'[t] = h.state)
        BY <1>6, <1>9, <2>3, <3>2, Zenon
      <4>2. Others(t, h.state).first[k] = h.state.first[k]
        BY <2>2, <2>3, <3>2, OthersOf
      <4> QED
        BY <3>2, <4>1, <4>2, Zenon
    <3> QED
      BY <3>1, <3>2
  <2>4. ASSUME NEW u \in Tx, raw'[u].first[AccountOf[u]] # None
        PROVE  early'[u]
    <3>1. CASE u # t
      BY <1>6, <1>11, <2>1, <2>4, <3>1, Zenon DEF Passes
    <3>2. CASE u = t
      <4>1. AccountOf[t] \in Account
        OBVIOUS
      <4> QED
        BY <1>11, <1>17, <2>4, <3>2, <4>1, Zenon
    <3> QED
      BY <3>1, <3>2
  <2>5. ASSUME NEW u \in Tx, NEW k \in raw'[u].again
        PROVE  MetTwice(k)'
    <3>1. CASE u # t
      BY <1>6, <1>15, <2>1, <3>1, Zenon DEF Passes
    <3>2. CASE u = t
      <4>1. Others(t, h.state).again \subseteq h.state.again /\ Empty.again = {}
        BY <2>2, OthersOf DEF Empty
      <4>2. k \in h.state.again
        BY <1>6, <3>2, <4>1
      <4>3. MetTwice(k)
        BY <1>2, <4>2 DEF HandsOn
      <4> QED
        BY <1>15, <4>3
    <3> QED
      BY <3>1, <3>2
  <2> QED
    BY <2>3, <2>4, <2>5, Zenon DEF Passes
<1>22. Unjoined'
  <2> SUFFICES ASSUME NEW u \in Tx, ~joined'[u]
               PROVE  raw'[u] = Empty /\ heard'[u] = None /\ ~early'[u]
    BY Zenon DEF Unjoined
  <2>1. u # t /\ ~joined[u]
    BY <1>7
  <2>2. early'[u] = early[u]
    BY <1>1, <1>4, <2>1 DEF TypeOK
  <2> QED
    BY <1>5, <1>6, <2>1, <2>2, Zenon DEF Inv, Unjoined
<1> QED
  BY <1>13, <1>16, <1>18, <1>19, <1>20, <1>21, <1>22 DEF Inv

-----------------------------------------------------------------------------
(* All steps *)

LEMMA InitInv == Init => Inv
<1> SUFFICES ASSUME Init PROVE Inv
  OBVIOUS
<1> USE DistributedTraceAssumption
<1>1. /\ trace = [t \in Tx |-> None] /\ sampled = [t \in Tx |-> None]
      /\ priority = [t \in Tx |-> None] /\ joined = [t \in Tx |-> FALSE]
      /\ raw = [t \in Tx |-> Empty] /\ event = [t \in Tx |-> None]
      /\ via = [t \in Tx |-> None] /\ heard = [t \in Tx |-> None]
      /\ early = [t \in Tx |-> FALSE] /\ late = [t \in Tx |-> FALSE]
      /\ keyed \in [Tx -> BOOLEAN]
  BY DEF Init
<1>2. PICK k \in Clients, s \in {None, TRUE} : wire = {ClientHeaders(k, s)}
  BY Zenon DEF Init
<1>3. PICK c : c = ClientHeaders(k, s)
  OBVIOUS
<1> DEFINE f == [j \in Account |-> IF j = k THEN Entry(Outside, s, None) ELSE None]
<1>4. f \in [Account -> {None} \cup [by : Tx \cup {Outside}, sampled : BOOLEAN \cup {None},
                                     priority : Nat \cup {None}]]
  BY DEF Entry
<1>5. \A j \in Account : f[j] = None \/ f[j] = Entry(Outside, s, None)
  OBVIOUS
<1>6. c = Headers(Outside, Outside, [first |-> f, again |-> {}], None)
  BY <1>3 DEF ClientState, ClientHeaders
<1> HIDE DEF f
<1>7. /\ c.by = Outside /\ c.legacy = None /\ c.state.first = f /\ c.state.again = {}
      /\ c \in AllHeaders
  BY <1>4, <1>6 DEF Headers, AllHeaders, States
<1>8. Entry(Outside, s, None).by = Outside
  BY DEF Entry
<1>9. TypeOK
  BY <1>1, <1>2, <1>3, <1>7, EmptyState DEF TypeOK
<1>10. WireSays
  <2>1. StateSays(c.state, c.trace)
    BY <1>5, <1>7, <1>8 DEF StateSays
  <2>2. Says(c) /\ HandsOn(c)
    BY <1>7, <2>1, Zenon DEF Says, HandsOn
  <2> QED
    BY <1>2, <1>3, <2>2 DEF WireSays
<1>11. RawSays
  BY <1>1, EmptyState DEF RawSays, StateSays
<1>12. Heard /\ Recorded /\ Unjoined
  BY <1>1 DEF Heard, Recorded, Unjoined
<1>13. Passes
  <2>1. Empty.again = {}
    BY DEF Empty
  <2> QED
    BY <1>1, <2>1, EmptyState DEF Passes
<1> QED
  BY <1>9, <1>10, <1>11, <1>12, <1>13 DEF Inv

LEMMA UnchangedInv ==
    ASSUME Inv, keyed' \in [Tx -> BOOLEAN],
           UNCHANGED <<trace, sampled, priority, joined, raw, wire, event, via, heard, early, late>>
    PROVE  Inv'
<1>1. TypeOK'
  BY Zenon DEF Inv, TypeOK
<1>2. \A t : (Fixed(t) <=> Fixed(t)') /\ TraceId(t)' = TraceId(t) /\ (MetTwice(t) <=> MetTwice(t)')
  BY DEF Fixed, TraceId, MetTwice
<1>3. (WireSays /\ RawSays)'
  BY <1>2, Zenon DEF Inv, WireSays, RawSays, Says, HandsOn, StateSays, SaidBy
<1>4. (Heard /\ Recorded)'
  BY <1>2, Zenon DEF Inv, Heard, Recorded
<1>5. (Passes /\ Unjoined)'
  BY <1>2, Zenon DEF Inv, Passes, Unjoined
<1> QED
  BY <1>1, <1>3, <1>4, <1>5 DEF Inv

LEMMA StepInv == Inv /\ [Next]_vars => Inv'
<1> SUFFICES ASSUME Inv, [Next]_vars PROVE Inv'
  OBVIOUS
<1>1. ASSUME NEW t \in Tx, Login(t) PROVE Inv'
  BY <1>1, UnchangedInv DEF Login, Inv, TypeOK
<1>2. ASSUME NEW t \in Tx, NEW g \in wire, NEW h \in Received(g), Accept(t, h) PROVE Inv'
  BY <1>2, AcceptInv
<1>3. CASE UNCHANGED vars
  BY <1>3, UnchangedInv DEF vars, Inv, TypeOK
<1> QED
  BY <1>1, <1>2, <1>3, IsSampledInv, InsertInv, EndInv DEF Next

-----------------------------------------------------------------------------
(* Theorems *)

(* Every state is well typed, for any transactions, accounts and headers   *)
(* that are dropped or spoiled on their way.                               *)
THEOREM TypeCorrect == Spec => []TypeOK
<1>1. Inv => TypeOK
  BY DEF Inv
<1> QED
  BY InitInv, StepInv, <1>1, PTL DEF Spec

(* Transactions joined by intact headers agree on the sampling decision,   *)
(* unless the sender's priority is 0.                                      *)
THEOREM DecisionTravels == Spec => []OneDecision
<1>1. Inv => OneDecision
  BY Zenon DEF Inv, Heard, OneDecision
<1> QED
  BY InitInv, StepInv, <1>1, PTL DEF Spec

(* What a transaction has sent and recorded names its trace and decision.  *)
THEOREM SaysAlways == Spec => []SaysTheSame
<1>1. Inv => SaysTheSame
  BY Zenon DEF Inv, WireSays, Says, StateSays, SaidBy, Recorded, SaysTheSame
<1> QED
  BY InitInv, StepInv, <1>1, PTL DEF Spec

(* What other accounts wrote goes on; double entries need headers that     *)
(* were accepted before a login.                                           *)
THEOREM StateTravels == Spec => []StatePassesOn
<1>1. Inv => StatePassesOn
  BY Zenon DEF Inv, WireSays, HandsOn, MetTwice, StatePassesOn
<1> QED
  BY InitInv, StepInv, <1>1, PTL DEF Spec

-----------------------------------------------------------------------------
(* The bridge to OpenTelemetry *)

Ids == {"none", "span", "root", "segment"} \X Nat
ActiveSpans == [by : {"nobody", "otel", "agent"}, id : Ids]
SpanRecords == [parent : ActiveSpans, seg : Nat, tx : Nat, anchor : Nat, ends : BOOLEAN]
ContextRecords == [tx : Nat, seg : Nat, span : ActiveSpans]

BridgeType ==
    /\ begun \in Nat
    /\ active \subseteq 0..begun
    /\ segments \in Seq([parent : Nat, tx : Nat, of : Nat])
    /\ spans \in Seq(SpanRecords)
    /\ contexts \in Seq(ContextRecords)
    /\ stack \in Seq(Nat)
    /\ \A i \in 1..Len(stack) : stack[i] \in 1..Len(contexts)
    /\ \A s \in 1..Len(spans) : /\ spans[s].seg <= Len(segments)
                                /\ spans[s].tx <= begun
                                /\ spans[s].anchor <= Len(spans)

(* Where a span of OpenTelemetry is active, the context is in the segment  *)
(* and in the transaction of the closest span that has one.                *)
Carries(c) ==
    c.span.by = "otel" =>
        /\ c.span.id[2] \in 1..Len(spans)
        /\ Bridge!Anchor(c.span) # 0 =>
              /\ Bridge!Anchor(c.span) \in 1..Len(spans)
              /\ c.seg = spans[Bridge!Anchor(c.span)].seg
              /\ c.tx = spans[Bridge!Anchor(c.span)].tx

Below(s) ==
    spans[s].seg # 0 /\ ~spans[s].ends /\ spans[s].anchor # 0 =>
        /\ segments[spans[s].seg].parent = spans[spans[s].anchor].seg
        /\ spans[s].tx = spans[spans[s].anchor].tx

Over(s) == s \notin open /\ spans[s].ends => spans[s].tx \notin active

BridgeInv ==
    /\ BridgeType
    /\ \A i \in 1..Len(contexts) : Carries(contexts[i])
    /\ \A s \in 1..Len(spans) : Below(s) /\ Over(s)

LEMMA CurrentCarries ==
    ASSUME BridgeInv
    PROVE  Bridge!Current \in ContextRecords /\ Carries(Bridge!Current)
<1>1. CASE stack = <<>>
  BY <1>1 DEF Bridge!Current, Bridge!NoContext, Bridge!NoSpan, Bridge!NoId, Bridge!Nil,
              ContextRecords, ActiveSpans, Ids, Carries
<1>2. CASE stack # <<>>
  <2>1. Len(stack) \in 1..Len(stack)
    BY <1>2, EmptySeq, LenProperties DEF BridgeInv, BridgeType
  <2>2. stack[Len(stack)] \in 1..Len(contexts)
    BY <2>1 DEF BridgeInv, BridgeType
  <2>3. Bridge!Current = contexts[stack[Len(stack)]]
    BY <1>2 DEF Bridge!Current, Bridge!Last
  <2>4. contexts[stack[Len(stack)]] \in ContextRecords
    BY <2>2, ElementOfSeq DEF BridgeInv, BridgeType
  <2>5. QED  BY <2>2, <2>3, <2>4 DEF BridgeInv
<1>3. QED  BY <1>1, <1>2

LEMMA RuleEntry ==
    ASSUME NEW kind \in Bridge!Kind, NEW has
    PROVE  Bridge!Rule(kind, has) \in Bridge!Entry <=> kind \in {"SERVER", "CONSUMER"}
BY DEF Bridge!Rule, Bridge!Entry, Bridge!Kind

(* Spans are only added, so a context carries what it carried. *)
LEMMA CarriesStays ==
    ASSUME BridgeType, NEW c \in ContextRecords, Carries(c),
           Len(spans') \in Nat, Len(spans) <= Len(spans'),
           \A s \in 1..Len(spans) : spans'[s] = spans[s]
    PROVE  Carries(c)'
<1>1. Len(spans) \in Nat
  BY LenProperties DEF BridgeType
<1>2. 1..Len(spans) \subseteq 1..Len(spans')
  BY <1>1
<1>3. CASE c.span.by = "otel"
  <2>1. c.span.id[2] \in 1..Len(spans)
    BY <1>3 DEF Carries
  <2>2. Bridge!Anchor(c.span)' = Bridge!Anchor(c.span)
    BY <2>1 DEF Bridge!Anchor
  <2>3. QED  BY <1>2, <1>3, <2>1, <2>2 DEF Carries
<1>4. QED  BY <1>3 DEF Carries

LEMMA PushKeeps ==
    ASSUME BridgeType, Len(contexts') = Len(contexts) + 1,
           stack' = Append(stack, Len(contexts) + 1)
    PROVE  /\ stack' \in Seq(Nat)
           /\ \A i \in 1..Len(stack') : stack'[i] \in 1..Len(contexts')
<1>1. stack \in Seq(Nat) /\ Len(stack) \in Nat /\ Len(contexts) \in Nat
  BY LenProperties DEF BridgeType
<1>2. /\ stack' \in Seq(Nat)
      /\ Len(stack') = Len(stack) + 1
      /\ \A i \in 1..Len(stack) : stack'[i] = stack[i]
      /\ stack'[Len(stack) + 1] = Len(contexts) + 1
  BY <1>1, AppendProperties
<1>3. QED  BY <1>1, <1>2 DEF BridgeType

LEMMA EnterKeeps ==
    ASSUME BridgeInv, NEW t \in Nat, NEW seg \in Nat, NEW id \in Ids,
           Bridge!Enter(t, seg, id), UNCHANGED spans
    PROVE  /\ contexts' \in Seq(ContextRecords)
           /\ \A i \in 1..Len(contexts') : Carries(contexts[i])'
           /\ stack' \in Seq(Nat)
           /\ \A i \in 1..Len(stack') : stack'[i] \in 1..Len(contexts')
<1> DEFINE before == IF stack = <<>> THEN contexts
                     ELSE [contexts EXCEPT ![Bridge!Last(stack)].span = Bridge!Fake(id)]
           new == [tx |-> t, seg |-> seg, span |-> Bridge!Fake(id)]
<1>1. contexts' = Append(before, new) /\ stack' = Append(stack, Len(Append(before, new)))
  BY DEF Bridge!Enter, Bridge!Run
<1>2. Bridge!Fake(id) \in ActiveSpans /\ Bridge!Fake(id).by = "agent"
  BY DEF Bridge!Fake, ActiveSpans
<1>3. new \in ContextRecords
  BY <1>2 DEF ContextRecords
<1>4. contexts \in Seq(ContextRecords) /\ Len(contexts) \in Nat
  BY LenProperties DEF BridgeInv, BridgeType
<1>5. /\ before \in Seq(ContextRecords)
      /\ Len(before) = Len(contexts)
      /\ \A i \in 1..Len(contexts) : before[i] = contexts[i] \/ before[i].span.by = "agent"
  <2>1. CASE stack = <<>>
    BY <1>4, <2>1
  <2>2. CASE stack # <<>>
    <3> DEFINE k == Bridge!Last(stack)
               c == [contexts[k] EXCEPT !.span = Bridge!Fake(id)]
    <3>1. Len(stack) \in 1..Len(stack)
      BY <2>2, EmptySeq, LenProperties DEF BridgeInv, BridgeType
    <3>2. k \in 1..Len(contexts)
      BY <3>1 DEF BridgeInv, BridgeType, Bridge!Last
    <3>3. contexts[k] \in ContextRecords
      BY <1>4, <3>2, ElementOfSeq
    <3>4. c \in ContextRecords /\ c.span.by = "agent"
      BY <1>2, <3>3 DEF ContextRecords
    <3>5. before = [contexts EXCEPT ![k] = c]
      BY <2>2
    <3> HIDE DEF before, k, c
    <3>6. QED  BY <1>4, <3>2, <3>4, <3>5, ExceptSeq
  <2>3. QED  BY <2>1, <2>2
<1> HIDE DEF before, new
<1>6. /\ contexts' \in Seq(ContextRecords)
      /\ Len(contexts') = Len(contexts) + 1
      /\ \A i \in 1..Len(contexts) : contexts'[i] = before[i]
      /\ contexts'[Len(contexts) + 1] = new
  BY <1>1, <1>3, <1>5, AppendProperties
<1>7. ASSUME NEW i \in 1..Len(contexts')
      PROVE  Carries(contexts[i])'
  <2>1. CASE i \in 1..Len(contexts) /\ contexts'[i] = contexts[i]
    BY <2>1 DEF BridgeInv, Carries, Bridge!Anchor
  <2>2. CASE contexts'[i].span.by = "agent"
    BY <2>2 DEF Carries
  <2>3. new.span.by = "agent"
    BY <1>2 DEF new
  <2>4. QED  BY <1>4, <1>5, <1>6, <2>1, <2>2, <2>3
<1>8. stack' = Append(stack, Len(contexts) + 1)
  BY <1>1, <1>6
<1>9. QED  BY <1>6, <1>7, <1>8, PushKeeps DEF BridgeInv

(* What is left of the invariant when spans and segments stay. *)
LEMMA SpansStay ==
    ASSUME BridgeInv, UNCHANGED <<segments, spans>>,
           open \subseteq open' \/ \E s \in open : open' = open \ {s} /\ (spans[s].ends => spans[s].tx \notin active'),
           \A t \in active' \ active : t > begun
    PROVE  \A s \in 1..Len(spans') : Below(s)' /\ Over(s)'
<1> SUFFICES ASSUME NEW s \in 1..Len(spans)
             PROVE  Below(s)' /\ Over(s)'
  OBVIOUS
<1>1. Below(s)'
  BY DEF BridgeInv, Below
<1>0. spans[s] \in SpanRecords
  BY ElementOfSeq DEF BridgeInv, BridgeType
<1>2. spans[s].tx \in Nat /\ spans[s].tx <= begun /\ begun \in Nat
  BY <1>0 DEF BridgeInv, BridgeType, SpanRecords
<1>3. Over(s)'
  <2>1. spans[s].tx \in active' => spans[s].tx \in active
    BY <1>2
  <2>2. QED  BY <2>1 DEF BridgeInv, Over
<1>4. QED  BY <1>1, <1>3

LEMMA CurrentTyped ==
    ASSUME BridgeInv
    PROVE  /\ Bridge!Current.tx \in Nat /\ Bridge!Current.seg \in Nat
           /\ Bridge!Current.span \in ActiveSpans
BY CurrentCarries DEF ContextRecords

LEMMA BridgeInit == Bridge!Init => BridgeInv
<1> SUFFICES ASSUME Bridge!Init
             PROVE  BridgeInv
  OBVIOUS
<1>1. /\ begun = 0 /\ active = {} /\ segments = <<>> /\ spans = <<>>
      /\ contexts = <<>> /\ stack = <<>>
  BY DEF Bridge!Init
<1>2. QED  BY <1>1, EmptySeq DEF BridgeInv, BridgeType

LEMMA StartSpanKeeps ==
    ASSUME BridgeInv, NEW kind \in Bridge!Kind, NEW type \in Bridge!Types[kind],
           Bridge!StartSpan(kind, type)
    PROVE  BridgeInv'
<1> DEFINE s == Len(spans) + 1
           t == IF type \in Bridge!Entry THEN begun + 1 ELSE Bridge!Current.tx
           made == type \in Bridge!Entry \/ (type \notin Bridge!Nothing /\ Bridge!Current.tx \in active)
           seg == IF made THEN Len(segments) + 1 ELSE 0
           parent == IF type \in Bridge!Entry THEN 0 ELSE Bridge!Current.seg
           anchor == Bridge!Anchor(Bridge!Current.span)
           span == [parent |-> Bridge!Current.span, seg |-> seg, tx |-> IF made THEN t ELSE 0,
                    anchor |-> anchor, ends |-> kind \in {"SERVER", "CONSUMER"}]
<1>1. /\ begun' = IF type \in Bridge!Entry THEN begun + 1 ELSE begun
      /\ active' = IF type \in Bridge!Entry THEN active \cup {begun + 1} ELSE active
      /\ segments' = IF ~made THEN segments
                     ELSE Append(segments, [parent |-> parent, tx |-> t, of |-> s])
      /\ spans' = Append(spans, span)
      /\ open' = open \cup {s}
  BY DEF Bridge!StartSpan, Bridge!Nil, Bridge!Segment
<1>2. Bridge!Activated(s, t, seg)
  BY DEF Bridge!StartSpan, Bridge!Nil
<1>3. type \in Bridge!Entry <=> kind \in {"SERVER", "CONSUMER"}
  BY RuleEntry DEF Bridge!Types
<1>4. /\ begun \in Nat /\ active \subseteq 0..begun /\ Len(spans) \in Nat /\ Len(segments) \in Nat
      /\ spans \in Seq(SpanRecords) /\ segments \in Seq([parent : Nat, tx : Nat, of : Nat])
      /\ contexts \in Seq(ContextRecords) /\ Len(contexts) \in Nat
  BY LenProperties DEF BridgeInv, BridgeType
<1>5. /\ Bridge!Current.tx \in Nat /\ Bridge!Current.seg \in Nat
      /\ Bridge!Current.span \in ActiveSpans
  BY CurrentTyped
<1>6. anchor \in 0..Len(spans)
  <2>1. CASE Bridge!Current.span.by = "otel"
    <3>1. Bridge!Current.span.id[2] \in 1..Len(spans)
      BY <2>1, CurrentCarries DEF Carries
    <3>2. spans[Bridge!Current.span.id[2]] \in SpanRecords
      BY <1>4, <3>1, ElementOfSeq
    <3>3. spans[Bridge!Current.span.id[2]].anchor \in 0..Len(spans)
      <4>1. /\ spans[Bridge!Current.span.id[2]].anchor \in Nat
            /\ spans[Bridge!Current.span.id[2]].anchor <= Len(spans)
        BY <3>1, <3>2 DEF BridgeInv, BridgeType, SpanRecords
      <4>2. QED  BY <1>4, <4>1
    <3>4. anchor \in {0, Bridge!Current.span.id[2], spans[Bridge!Current.span.id[2]].anchor}
      BY DEF Bridge!Anchor, Bridge!Nil
    <3> HIDE DEF anchor
    <3>5. QED  BY <1>4, <3>1, <3>3, <3>4
  <2>2. CASE Bridge!Current.span.by # "otel"
    BY <1>4, <2>2 DEF Bridge!Anchor, Bridge!Nil
  <2>3. QED  BY <2>1, <2>2
<1>7. anchor # 0 => /\ Bridge!Current.seg = spans[anchor].seg
                    /\ Bridge!Current.tx = spans[anchor].tx
  BY CurrentCarries DEF Carries, Bridge!Anchor, Bridge!Nil
<1>8. t \in Nat /\ s \in Nat /\ seg \in Nat /\ parent \in Nat
  BY <1>4, <1>5
<1>9. span \in SpanRecords
  BY <1>4, <1>5, <1>6, <1>8 DEF SpanRecords
<1>10. /\ span.seg = seg /\ span.tx = (IF made THEN t ELSE 0) /\ span.anchor = anchor
       /\ span.ends <=> type \in Bridge!Entry
  BY <1>3
<1>11. (made => seg = Len(segments) + 1) /\ (~made => seg = 0)
  OBVIOUS
<1>12. \/ /\ t <= begun'
          /\ ~(type \in Bridge!Entry) => t = Bridge!Current.tx /\ parent = Bridge!Current.seg
       \/ ~made
  BY <1>1, <1>4, <1>8
<1> HIDE DEF span, seg, made, anchor, parent
<1>13. /\ spans' \in Seq(SpanRecords)
       /\ Len(spans') = Len(spans) + 1
       /\ \A i \in 1..Len(spans) : spans'[i] = spans[i]
       /\ spans'[s] = span
  BY <1>1, <1>4, <1>9, AppendProperties
<1>14. /\ segments' \in Seq([parent : Nat, tx : Nat, of : Nat])
       /\ Len(segments') = IF made THEN Len(segments) + 1 ELSE Len(segments)
       /\ \A i \in 1..Len(segments) : segments'[i] = segments[i]
       /\ made => segments'[seg].parent = parent
  <2>1. CASE made
    <3>1. [parent |-> parent, tx |-> t, of |-> s] \in [parent : Nat, tx : Nat, of : Nat]
      BY <1>8
    <3>2. QED  BY <1>1, <1>4, <1>11, <2>1, <3>1, AppendProperties
  <2>2. CASE ~made
    BY <1>1, <1>4, <2>2
  <2>3. QED  BY <2>1, <2>2
<1>15. begun' \in Nat /\ begun <= begun' /\ active' \subseteq 0..begun'
  BY <1>1, <1>4
<1>16. /\ contexts' \in Seq(ContextRecords)
       /\ \A i \in 1..Len(contexts') : Carries(contexts[i])'
       /\ stack' \in Seq(Nat)
       /\ \A i \in 1..Len(stack') : stack'[i] \in 1..Len(contexts')
  <2>0. ASSUME NEW c \in ContextRecords, Carries(c)
        PROVE  Carries(c)'
    <3>1. Len(spans') \in Nat /\ Len(spans) <= Len(spans')
      BY <1>4, <1>13
    <3>2. QED  BY <1>13, <2>0, <3>1, CarriesStays DEF BridgeInv
  <2>1. CASE UNCHANGED <<contexts, stack>>
    <3>1. ASSUME NEW i \in 1..Len(contexts')
          PROVE  Carries(contexts[i])'
      <4>1. PICK c \in ContextRecords : c = contexts[i]
        BY <1>4, <2>1, ElementOfSeq
      <4>2. Carries(c)'
        BY <2>0, <2>1, <4>1 DEF BridgeInv
      <4>3. QED  BY <2>1, <4>1, <4>2 DEF Carries, Bridge!Anchor
    <3>2. QED  BY <1>4, <2>1, <3>1 DEF BridgeInv, BridgeType
  <2>2. CASE Bridge!Run(Append(contexts, Bridge!SetValue(Bridge!Current, s, t, seg)))
    <3>1. PICK new : new = Bridge!SetValue(Bridge!Current, s, t, seg)
      OBVIOUS
    <3>2. contexts' = Append(contexts, new) /\ stack' = Append(stack, Len(Append(contexts, new)))
      BY <2>2, <3>1 DEF Bridge!Run
    <3>3. PICK real : real = Bridge!Real(s)
      OBVIOUS
    <3>4. real \in ActiveSpans /\ real.by = "otel" /\ real.id[2] = s
      BY <1>8, <3>3 DEF Bridge!Real, Bridge!SpanId, ActiveSpans, Ids
    <3>5. new = IF seg = 0 THEN [Bridge!Current EXCEPT !.span = real]
                ELSE [tx |-> t, seg |-> seg, span |-> real]
      BY <3>1, <3>3 DEF Bridge!SetValue, Bridge!Nil
    <3>6. /\ new \in ContextRecords
          /\ new.span = real
          /\ new.tx = IF seg = 0 THEN Bridge!Current.tx ELSE t
          /\ new.seg = IF seg = 0 THEN Bridge!Current.seg ELSE seg
      BY <1>8, <3>4, <3>5, CurrentCarries DEF ContextRecords
    <3>7. /\ contexts' \in Seq(ContextRecords)
          /\ Len(contexts') = Len(contexts) + 1
          /\ \A i \in 1..Len(contexts) : contexts'[i] = contexts[i]
          /\ contexts'[Len(contexts) + 1] = new
      BY <1>4, <3>2, <3>6, AppendProperties
    <3>8. Bridge!Anchor(new.span)' = IF seg # 0 THEN s ELSE anchor
      BY <1>10, <1>13, <3>4, <3>6 DEF Bridge!Anchor, Bridge!Nil
    <3>9. Carries(new)'
      <4>1. CASE seg # 0
        <5>1. made
          BY <1>11, <4>1
        <5>2. spans'[s].seg = seg /\ spans'[s].tx = t
          BY <1>10, <1>13, <5>1
        <5>3. QED  BY <1>4, <1>13, <3>4, <3>6, <3>8, <4>1, <5>2 DEF Carries
      <4>2. CASE seg = 0
        <5>1. anchor # 0 => anchor \in 1..Len(spans) /\ spans'[anchor] = spans[anchor]
          BY <1>4, <1>6, <1>13
        <5>2. QED  BY <1>4, <1>7, <1>13, <3>4, <3>6, <3>8, <4>2, <5>1 DEF Carries
      <4>3. QED  BY <4>1, <4>2
    <3>10. stack' = Append(stack, Len(contexts) + 1)
      BY <3>2, <3>7
    <3>11. ASSUME NEW i \in 1..Len(contexts')
           PROVE  Carries(contexts[i])'
      <4>1. PICK c \in ContextRecords : c = contexts'[i] /\ (c = new \/ Carries(c))
        <5>1. CASE i \in 1..Len(contexts)
          BY <1>4, <3>7, <5>1, ElementOfSeq DEF BridgeInv
        <5>2. CASE i = Len(contexts) + 1
          BY <3>6, <3>7, <5>2
        <5>3. QED  BY <1>4, <3>7, <5>1, <5>2
      <4>2. Carries(c)'
        BY <2>0, <3>9, <4>1
      <4>3. QED  BY <4>1, <4>2 DEF Carries, Bridge!Anchor
    <3>12. QED  BY <3>7, <3>10, <3>11, PushKeeps DEF BridgeInv
  <2>3. QED  BY <1>2, <2>1, <2>2 DEF Bridge!Activated
<1>17. ASSUME NEW i \in 1..Len(spans')
       PROVE  /\ spans'[i].seg <= Len(segments')
              /\ spans'[i].tx <= begun'
              /\ spans'[i].anchor <= Len(spans')
              /\ Below(i)' /\ Over(i)'
  <2>1. CASE i \in 1..Len(spans)
    <3>1. spans[i] \in SpanRecords
      BY <1>4, <2>1, ElementOfSeq
    <3>2. /\ spans[i].seg \in 0..Len(segments) /\ spans[i].tx \in 0..begun
          /\ spans[i].anchor \in 0..Len(spans)
      BY <1>4, <2>1, <3>1 DEF BridgeInv, BridgeType, SpanRecords
    <3>3. Below(i)'
      <4>1. Below(i) /\ spans'[i] = spans[i]
        BY <1>13, <2>1 DEF BridgeInv
      <4>2. spans[i].seg # 0 => segments'[spans[i].seg] = segments[spans[i].seg]
        <5>1. spans[i].seg # 0 => spans[i].seg \in 1..Len(segments)
          BY <1>4, <3>2
        <5>2. QED  BY <1>14, <5>1
      <4>3. spans[i].anchor # 0 => spans'[spans[i].anchor] = spans[spans[i].anchor]
        BY <1>4, <1>13, <3>2
      <4>4. QED  BY <4>1, <4>2, <4>3 DEF Below
    <3>4. Over(i)'
      <4>1. i \notin open' => i \notin open
        BY <1>1
      <4>2. spans[i].tx \in active' => spans[i].tx \in active
        BY <1>1, <1>4, <3>2
      <4>3. QED  BY <1>13, <2>1, <4>1, <4>2 DEF BridgeInv, Over
    <3>5. /\ spans'[i].seg <= Len(segments') /\ spans'[i].tx <= begun'
          /\ spans'[i].anchor <= Len(spans')
      <4>1. spans'[i] = spans[i]
        BY <1>13, <2>1
      <4>2. Len(segments) <= Len(segments') /\ Len(segments') \in Nat
        BY <1>4, <1>14
      <4>3. QED  BY <1>4, <1>13, <1>15, <3>2, <4>1, <4>2
    <3>6. QED  BY <3>3, <3>4, <3>5
  <2>2. CASE i = s
    <3>1. spans'[i] = span
      BY <1>13, <2>2
    <3>2. Over(i)'
      BY <1>1, <2>2 DEF Over
    <3>3. Below(i)'
      <4> SUFFICES ASSUME seg # 0, ~(type \in Bridge!Entry), anchor # 0
                   PROVE  /\ segments'[seg].parent = spans'[anchor].seg
                          /\ spans'[i].tx = spans'[anchor].tx
        BY <1>10, <3>1 DEF Below
      <4>1. made
        BY <1>11
      <4>2. spans'[anchor] = spans[anchor]
        BY <1>4, <1>6, <1>13
      <4>3. segments'[seg].parent = Bridge!Current.seg /\ span.tx = Bridge!Current.tx
        BY <1>10, <1>12, <1>14, <4>1
      <4>4. QED  BY <1>7, <3>1, <4>2, <4>3
    <3>4. span.seg <= Len(segments')
      BY <1>4, <1>10, <1>11, <1>14
    <3>5. span.tx <= begun'
      BY <1>10, <1>12, <1>15
    <3>6. span.anchor <= Len(spans')
      BY <1>4, <1>6, <1>10, <1>13
    <3>7. QED  BY <3>1, <3>2, <3>3, <3>4, <3>5, <3>6
  <2>3. QED  BY <1>4, <1>13, <2>1, <2>2
<1>18. QED  BY <1>13, <1>14, <1>15, <1>16, <1>17 DEF BridgeInv, BridgeType

LEMMA EndSpanKeeps ==
    ASSUME BridgeInv, NEW s \in open, Bridge!EndSpan(s)
    PROVE  BridgeInv'
<1>1. /\ open' = open \ {s}
      /\ active' = IF spans[s].ends THEN active \ {spans[s].tx} ELSE active
      /\ UNCHANGED <<begun, segments, spans, contexts, stack>>
  BY DEF Bridge!EndSpan
<1>2. \A i \in 1..Len(spans') : Below(i)' /\ Over(i)'
  BY <1>1, SpansStay
<1>3. BridgeType'
  BY <1>1 DEF BridgeInv, BridgeType
<1>4. \A i \in 1..Len(contexts') : Carries(contexts[i])'
  BY <1>1 DEF BridgeInv, Carries, Bridge!Anchor
<1>5. QED  BY <1>2, <1>3, <1>4 DEF BridgeInv

(* Entering keeps the invariant, whatever else it adds above the spans. *)
LEMMA EnterSegmentKeeps ==
    ASSUME BridgeInv, Bridge!EnterSegment
    PROVE  BridgeInv'
<1> DEFINE segment == [parent |-> Bridge!Current.seg, tx |-> Bridge!Current.tx, of |-> 0]
<1>1. /\ segments' = Append(segments, segment)
      /\ Bridge!Enter(Bridge!Current.tx, Len(segments'), <<"segment", Len(segments')>>)
      /\ UNCHANGED <<begun, active, spans, open>>
  BY DEF Bridge!EnterSegment, Bridge!Segment, Bridge!Nil
<1>2. segment \in [parent : Nat, tx : Nat, of : Nat] /\ Bridge!Current.tx \in Nat
  BY CurrentTyped
<1>3. segments \in Seq([parent : Nat, tx : Nat, of : Nat]) /\ Len(segments) \in Nat
      /\ spans \in Seq(SpanRecords) /\ Len(spans) \in Nat
  BY LenProperties DEF BridgeInv, BridgeType
<1> HIDE DEF segment
<1>4. /\ segments' \in Seq([parent : Nat, tx : Nat, of : Nat])
      /\ Len(segments') = Len(segments) + 1
      /\ \A i \in 1..Len(segments) : segments'[i] = segments[i]
  BY <1>1, <1>2, <1>3, AppendProperties
<1>5. Len(segments') \in Nat /\ <<"segment", Len(segments')>> \in Ids
  BY <1>3, <1>4 DEF Ids
<1>6. /\ contexts' \in Seq(ContextRecords)
      /\ \A i \in 1..Len(contexts') : Carries(contexts[i])'
      /\ stack' \in Seq(Nat)
      /\ \A i \in 1..Len(stack') : stack'[i] \in 1..Len(contexts')
  BY <1>1, <1>2, <1>5, EnterKeeps
<1>7. ASSUME NEW s \in 1..Len(spans)
      PROVE  spans[s].seg \in 0..Len(segments) /\ Below(s)' /\ Over(s)'
  <2>1. spans[s] \in SpanRecords
    BY <1>3, ElementOfSeq
  <2>2. spans[s].seg \in Nat /\ spans[s].seg <= Len(segments)
    BY <2>1 DEF BridgeInv, BridgeType, SpanRecords
  <2>3. spans[s].seg \in 0..Len(segments)
    BY <1>3, <2>2
  <2>4. spans[s].seg # 0 => segments'[spans[s].seg] = segments[spans[s].seg]
    <3>1. spans[s].seg # 0 => spans[s].seg \in 1..Len(segments)
      BY <1>3, <2>3
    <3>2. QED  BY <1>4, <3>1
  <2>5. Below(s)'
    BY <1>1, <2>4 DEF BridgeInv, Below
  <2>6. Over(s)'
    BY <1>1 DEF BridgeInv, Over
  <2>7. QED  BY <2>3, <2>5, <2>6
<1>8. \A s \in 1..Len(spans) : spans[s].seg <= Len(segments')
  BY <1>3, <1>4, <1>7
<1>9. BridgeType'
  BY <1>1, <1>4, <1>6, <1>8 DEF BridgeInv, BridgeType
<1>10. QED  BY <1>1, <1>6, <1>7, <1>9 DEF BridgeInv

LEMMA EnterTransactionKeeps ==
    ASSUME BridgeInv, Bridge!EnterTransaction
    PROVE  BridgeInv'
<1>1. /\ begun' = begun + 1 /\ active' = active \cup {begun + 1}
      /\ Bridge!Enter(begun + 1, 0, <<"root", begun + 1>>)
      /\ UNCHANGED <<segments, spans, open>>
  BY DEF Bridge!EnterTransaction, Bridge!Nil
<1>2. begun \in Nat /\ active \subseteq 0..begun
  BY DEF BridgeInv, BridgeType
<1>3. begun + 1 \in Nat /\ 0 \in Nat /\ <<"root", begun + 1>> \in Ids
  BY <1>2 DEF Ids
<1>4. /\ contexts' \in Seq(ContextRecords)
      /\ \A i \in 1..Len(contexts') : Carries(contexts[i])'
      /\ stack' \in Seq(Nat)
      /\ \A i \in 1..Len(stack') : stack'[i] \in 1..Len(contexts')
  BY <1>1, <1>3, EnterKeeps
<1>5. \A t \in active' \ active : t > begun
  BY <1>1, <1>2
<1>6. \A s \in 1..Len(spans') : Below(s)' /\ Over(s)'
  BY <1>1, <1>5, SpansStay
<1>7. active' \subseteq 0..begun'
  BY <1>1, <1>2
<1>8. \A s \in 1..Len(spans) : spans[s].tx <= begun'
  <2>1. ASSUME NEW s \in 1..Len(spans)
        PROVE  spans[s].tx <= begun'
    <3>1. spans[s] \in SpanRecords
      BY ElementOfSeq DEF BridgeInv, BridgeType
    <3>2. spans[s].tx \in Nat /\ spans[s].tx <= begun
      BY <3>1 DEF BridgeInv, BridgeType, SpanRecords
    <3>3. QED  BY <1>1, <1>2, <3>2
  <2>2. QED  BY <2>1
<1>9. BridgeType'
  <2>1. begun' \in Nat
    BY <1>1, <1>2
  <2>2. \A s \in 1..Len(spans) : /\ spans[s].seg <= Len(segments) /\ spans[s].tx <= begun'
                                 /\ spans[s].anchor <= Len(spans)
    BY <1>8 DEF BridgeInv, BridgeType
  <2>3. QED  BY <1>1, <1>4, <1>7, <2>1, <2>2 DEF BridgeInv, BridgeType
<1>10. QED  BY <1>4, <1>6, <1>9 DEF BridgeInv

(* The calls that make nothing: a transaction ends, a call returns, the    *)
(* event loop takes up a context, or nothing happens.                      *)
LEMMA CallsKeep ==
    ASSUME BridgeInv, UNCHANGED <<begun, segments, spans, open, contexts>>,
           active' \subseteq active, stack' \in Seq(Nat),
           \A i \in 1..Len(stack') : stack'[i] \in 1..Len(contexts)
    PROVE  BridgeInv'
<1>1. \A i \in 1..Len(contexts') : Carries(contexts[i])'
  BY DEF BridgeInv, Carries, Bridge!Anchor
<1>2. \A s \in 1..Len(spans') : Below(s)' /\ Over(s)'
  BY DEF BridgeInv, Below, Over
<1>3. BridgeType'
  BY DEF BridgeInv, BridgeType
<1>4. QED  BY <1>1, <1>2, <1>3 DEF BridgeInv

LEMMA ReturnKeeps ==
    ASSUME BridgeInv, Bridge!Return
    PROVE  BridgeInv'
<1>1. /\ stack # <<>> /\ stack' = SubSeq(stack, 1, Len(stack) - 1)
      /\ UNCHANGED <<begun, active, segments, spans, open, contexts>>
  BY DEF Bridge!Return, Bridge!Front
<1>2. /\ stack \in Seq(Nat) /\ Len(stack) \in Nat /\ Len(stack) # 0
      /\ \A i \in 1..Len(stack) : stack[i] \in 1..Len(contexts)
  BY <1>1, EmptySeq, LenProperties DEF BridgeInv, BridgeType
<1>3. /\ stack' \in Seq(Nat)
      /\ Len(stack') = Len(stack) - 1
      /\ \A i \in 1..Len(stack) - 1 : stack'[i] = stack[i]
  <2>1. \A i \in 1..Len(stack) - 1 : stack[i] \in Nat
    BY <1>2, ElementOfSeq
  <2>2. PICK n \in Nat : n = Len(stack) - 1
    BY <1>2
  <2>3. \A i \in 1..n : stack[i] \in Nat
    BY <2>1, <2>2
  <2>4. /\ SubSeq(stack, 1, n) \in Seq(Nat)
        /\ Len(SubSeq(stack, 1, n)) = n
        /\ \A i \in 1..n : SubSeq(stack, 1, n)[i] = stack[i]
    <3>1. /\ SubSeq(stack, 1, n) \in Seq(Nat)
          /\ Len(SubSeq(stack, 1, n)) = IF 1 <= n THEN n - 1 + 1 ELSE 0
          /\ \A i \in 1..n - 1 + 1 : SubSeq(stack, 1, n)[i] = stack[1 + i - 1]
      BY <2>3, SubSeqProperties
    <3>2. n - 1 + 1 = n /\ \A i \in 1..n : 1 + i - 1 = i
      OBVIOUS
    <3>3. QED  BY <3>1, <3>2
  <2>5. stack' = SubSeq(stack, 1, n)
    BY <1>1, <2>2
  <2>6. QED  BY <2>2, <2>4, <2>5
<1>4. \A i \in 1..Len(stack') : stack'[i] \in 1..Len(contexts)
  BY <1>2, <1>3
<1>5. QED  BY <1>1, <1>3, <1>4, CallsKeep

LEMMA TurnKeeps ==
    ASSUME BridgeInv, Bridge!Turn
    PROVE  BridgeInv'
<1>1. PICK c \in DOMAIN contexts : stack' = <<c>>
  BY DEF Bridge!Turn
<1>2. UNCHANGED <<begun, active, segments, spans, open, contexts>>
  BY DEF Bridge!Turn
<1>3. DOMAIN contexts = 1..Len(contexts) /\ Len(contexts) \in Nat
  BY LenProperties DEF BridgeInv, BridgeType
<1>4. c \in Nat /\ c \in 1..Len(contexts)
  BY <1>3
<1>5. stack' \in Seq(Nat) /\ \A i \in 1..Len(stack') : stack'[i] \in 1..Len(contexts)
  BY <1>1, <1>4
<1>6. QED  BY <1>2, <1>5, CallsKeep

LEMMA BridgeStep == BridgeInv /\ [Bridge!Next]_Bridge!vars => BridgeInv'
<1> SUFFICES ASSUME BridgeInv, [Bridge!Next]_Bridge!vars
             PROVE  BridgeInv'
  OBVIOUS
<1>1. stack \in Seq(Nat) /\ \A i \in 1..Len(stack) : stack[i] \in 1..Len(contexts)
  BY DEF BridgeInv, BridgeType
<1>2. CASE \E kind \in Bridge!Kind : \E type \in Bridge!Types[kind] : Bridge!StartSpan(kind, type)
  BY <1>2, StartSpanKeeps
<1>3. CASE \E s \in open : Bridge!EndSpan(s)
  BY <1>3, EndSpanKeeps
<1>4. CASE Bridge!EnterSegment
  BY <1>4, EnterSegmentKeeps
<1>5. CASE Bridge!EnterTransaction
  BY <1>5, EnterTransactionKeeps
<1>6. CASE \E t \in active : Bridge!EndTransaction(t)
  <2>1. /\ active' \subseteq active
        /\ UNCHANGED <<begun, segments, spans, open, contexts, stack>>
    BY <1>6 DEF Bridge!EndTransaction
  <2>2. QED  BY <1>1, <2>1, CallsKeep
<1>7. CASE Bridge!Return
  BY <1>7, ReturnKeeps
<1>8. CASE Bridge!Turn
  BY <1>8, TurnKeeps
<1>9. CASE UNCHANGED Bridge!vars
  <2>1. UNCHANGED <<begun, active, segments, spans, open, contexts, stack>>
    BY <1>9 DEF Bridge!vars
  <2>2. QED  BY <1>1, <2>1, CallsKeep
<1>10. QED  BY <1>2, <1>3, <1>4, <1>5, <1>6, <1>7, <1>8, <1>9 DEF Bridge!Next

(* Segments stand to each other as the spans they are made for, and a      *)
(* transaction begun by a span does not outlive it: through any nesting of *)
(* calls, callbacks and transactions (segment-synthesis.js, onStart;       *)
(* context.js, setValue; span-processor.js, onEnd).                        *)
THEOREM Mirrored == Bridge!Spec => []SpansAreMirrored
<1>1. BridgeInv => SpansAreMirrored
  <2> SUFFICES ASSUME BridgeInv
               PROVE  SpansAreMirrored
    OBVIOUS
  <2>1. DOMAIN spans = 1..Len(spans)
    BY LenProperties DEF BridgeInv, BridgeType
  <2>2. QED  BY <2>1 DEF BridgeInv, Below, Over, SpansAreMirrored, Bridge!SpansAreMirrored, Bridge!Nil
<1>2. QED  BY <1>1, BridgeInit, BridgeStep, PTL DEF Bridge!Spec
=============================================================================
