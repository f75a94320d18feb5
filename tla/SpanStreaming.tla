--------------------------- MODULE SpanStreaming ---------------------------
(***************************************************************************)
(* Infinite tracing: the span streamers (lib/spans/base-span-streamer.js   *)
(* and its two subclasses) over the gRPC connection (lib/grpc/             *)
(* connection.js), started and stopped by the streaming aggregator         *)
(* (lib/spans/streaming-span-event-aggregator.js) under the harvester.     *)
(*                                                                         *)
(* Spans are numbered in the order they are written.  An action is one     *)
(* turn of the event loop.  The collector's end of a stream, and how much  *)
(* its buffer takes, are external.                                         *)
(***************************************************************************)
EXTENDS Integers, Sequences

CONSTANTS
    QueueSize,      \* infinite_tracing.span_events.queue_size
    BatchSize,      \* batchSize
    MaxSpans,       \* bound on the spans the application records
    MaxStreams,     \* bound on the streams opened
    MaxRuns         \* bound on the agent runs

ASSUME SpanStreamingAssumption ==
    /\ QueueSize \in Nat
    /\ BatchSize \in Nat \ {0}
    /\ MaxSpans \in Nat
    /\ MaxStreams \in Nat
    /\ MaxRuns \in Nat

NoStream == 0

VARIABLES
    batching,   \* infinite_tracing.batching: which of the two streamers
                \* the aggregator was created with
    started,    \* started of the aggregator
    runId,      \* runId of the aggregator
    connRun,    \* _runId of the connection
    stream,     \* stream of connection and streamer; the connection is
                \* "disconnected" when there is none
    opened,     \* how many streams have been opened
    streamRun,  \* the run in the metadata of the last one
    full,       \* the stream met its high-water mark and has not drained since
    drains,     \* "drain" listeners registered on the stream
    writable,   \* _writable of the streamer
    interval,   \* whether the sendTimer of the batch streamer runs
    spans,      \* the streamer's queue
    seen,       \* the SEEN, SENT and DROPPED metrics
    sent,
    dropped,
    timers,     \* reconnect timers set since the aggregator last started
    oldTimers   \* those set before

(* Variables only the properties read. *)
VARIABLES
    lastSent,   \* the latest span written to a stream
    live,       \* streams that have been opened and not ended
    gone,       \* since it last started, the observer was UNIMPLEMENTED
    undone,     \* an old timer has opened a stream
    overtaken   \* since it last started, the aggregator got another run

connVars == <<connRun, opened, streamRun, live>>
queueVars == <<spans, sent, lastSent>>
vars == <<batching, started, runId, connRun, stream, opened, streamRun, full, drains,
          writable, interval, spans, seen, sent, dropped, timers, oldTimers,
          lastSent, live, gone, undone, overtaken>>

Init ==
    /\ batching \in BOOLEAN
    /\ started = FALSE
    /\ runId \in 1..MaxRuns
    /\ connRun = 0
    /\ stream = NoStream
    /\ opened = 0
    /\ streamRun = 0
    /\ full = FALSE
    /\ drains = 0
    /\ writable = FALSE
    /\ interval = FALSE
    /\ spans = <<>>
    /\ seen = 0
    /\ sent = 0
    /\ dropped = 0
    /\ timers = 0
    /\ oldTimers = 0
    /\ lastSent = 0
    /\ live = {}
    /\ gone = FALSE
    /\ undone = FALSE
    /\ overtaken = FALSE

-----------------------------------------------------------------------------
(* Writing to the stream *)

(* SpanStreamer.sendQueue: one span after the other while the stream takes *)
(* them; the write that meets the high-water mark registers a listener.    *)
SendEach(q, d) ==
    \E k \in 1..Len(q), hit \in BOOLEAN :
        /\ k < Len(q) => hit
        /\ spans' = SubSeq(q, k + 1, Len(q))
        /\ sent' = sent + k
        /\ lastSent' = q[k]
        /\ full' = hit
        /\ writable' = ~hit
        /\ drains' = IF hit THEN d + 1 ELSE d

Batches(q) == (Len(q) + BatchSize - 1) \div BatchSize

(* Mutant: every batch counts as a full one. *)
SendBatchesCounted(q, f, d) ==
    \E taken \in 0..Batches(q) :
        /\ spans' = <<>>
        /\ sent' = sent + BatchSize * Batches(q)
        /\ lastSent' = q[Len(q)]
        /\ full' = (f \/ taken < Batches(q))
        /\ writable' = (taken = Batches(q))
        /\ drains' = d + Batches(q) - taken

(* BatchSpanStreamer.sendQueue: all batches are written, whatever the      *)
(* stream says; each write that is told to wait registers a listener.  A   *)
(* stream that has not drained may have some room and take the first ones. *)
SendBatches(q, f, d) ==
    \E taken \in 0..Batches(q) :
        /\ spans' = <<>>
        /\ sent' = sent + Len(q)
        /\ lastSent' = q[Len(q)]
        /\ full' = (f \/ taken < Batches(q))
        /\ writable' = (taken = Batches(q))
        /\ drains' = d + Batches(q) - taken

(* sendQueue of q with the flag w, d listeners and f, whether the stream   *)
(* has still to drain.                                                     *)
SendQueue(q, w, f, d) ==
    \/ /\ q = <<>>
       /\ full' = f
       /\ drains' = d
       /\ writable' = w
       /\ UNCHANGED queueVars
    \/ q # <<>> /\ ~batching /\ SendEach(q, d)
    \/ q # <<>> /\ batching /\ SendBatches(q, f, d)

(* Mutant: a full queue takes one span more. *)
WriteLaterOffByOne(s) ==
    /\ ~writable
    /\ \/ /\ Len(spans) <= QueueSize
          /\ spans' = Append(spans, s)
          /\ UNCHANGED dropped
       \/ /\ Len(spans) > QueueSize
          /\ dropped' = dropped + 1
          /\ UNCHANGED spans
    /\ UNCHANGED <<full, drains, writable, sent, lastSent>>

(* write, when the streamer has to wait: the span is queued or dropped. *)
WriteLater(s) ==
    /\ ~writable
    /\ \/ /\ Len(spans) < QueueSize
          /\ spans' = Append(spans, s)
          /\ UNCHANGED dropped
       \/ /\ Len(spans) >= QueueSize
          /\ dropped' = dropped + 1
          /\ UNCHANGED spans
    /\ UNCHANGED <<full, drains, writable, sent, lastSent>>

(* write, when it does not: SpanStreamer sends the span,                   *)
(* BatchSpanStreamer collects a full queue first.                          *)
WriteNow(s) ==
    /\ writable
    /\ UNCHANGED dropped
    /\ \/ /\ ~batching
          /\ sent' = sent + 1
          /\ lastSent' = s
          /\ full' \in {full, TRUE}
          /\ writable' = ~full'
          /\ drains' = IF full' THEN drains + 1 ELSE drains
          /\ UNCHANGED spans
       \/ /\ batching /\ Len(spans) + 1 < QueueSize
          /\ spans' = Append(spans, s)
          /\ UNCHANGED <<full, drains, writable, sent, lastSent>>
       \/ /\ batching /\ Len(spans) + 1 >= QueueSize
          /\ SendQueue(Append(spans, s), writable, full, drains)

(* addSegment: a span of a stopped aggregator is not even seen. *)
Write ==
    /\ started
    /\ seen < MaxSpans
    /\ seen' = seen + 1
    /\ WriteLater(seen + 1) \/ WriteNow(seen + 1)
    /\ UNCHANGED <<batching, started, runId, stream, interval, timers, oldTimers, gone,
                   undone, overtaken, connVars>>

(* Mutant: the flag is set and the queue forgotten. *)
DrainedOnlyFlags ==
    /\ full' = FALSE
    /\ drains' = 0
    /\ writable' = TRUE
    /\ UNCHANGED queueVars

(* Mutant: the queue is sent and the flag forgotten, so that an empty      *)
(* queue leaves the streamer waiting.                                      *)
DrainedStaysBlocked == SendQueue(spans, FALSE, FALSE, 0)

(* Every listener runs drain: the first sends what is queued, the others   *)
(* find nothing and set the flag once more.                                *)
Drained ==
    \/ drains = 1 /\ SendQueue(spans, TRUE, FALSE, 0)
    \/ /\ drains > 1
       /\ \E hit \in 0..Batches(spans) :
             /\ full' = (hit > 0)
             /\ drains' = hit
             /\ writable' = TRUE
             /\ spans' = <<>>
             /\ sent' = sent + Len(spans)
             /\ lastSent' = IF spans = <<>> THEN lastSent ELSE spans[Len(spans)]

(* The stream emits "drain". *)
Drain ==
    /\ stream # NoStream
    /\ full
    /\ Drained
    /\ UNCHANGED <<batching, started, runId, stream, interval, seen, dropped, timers,
                   oldTimers, gone, undone, overtaken, connVars>>

(* The sendTimer of the batch streamer; it does not look at _writable. *)
Interval ==
    /\ interval
    /\ SendQueue(spans, writable, full, drains)
    /\ UNCHANGED <<batching, started, runId, stream, interval, seen, dropped, timers,
                   oldTimers, gone, undone, overtaken, connVars>>

-----------------------------------------------------------------------------
(* The connection *)

(* connectSpans: nothing when there is a stream; otherwise a stream, whose *)
(* "connected" event sends the queue, or an error and no second attempt.   *)
ConnectSpans(run) ==
    \/ /\ stream = NoStream
       /\ opened < MaxStreams
       /\ opened' = opened + 1
       /\ stream' = opened + 1
       /\ streamRun' = run
       /\ live' = live \cup {opened + 1}
       /\ interval' = batching
       /\ SendQueue(spans, TRUE, FALSE, 0)
    \/ UNCHANGED <<stream, opened, streamRun, live, interval, writable, full,
                   drains, queueVars>>

(* Mutant: the streamer does not hear of the end of its stream. *)
DisconnectUnheard ==
    /\ stream' = NoStream
    /\ live' = live \ {stream}
    /\ full' = FALSE
    /\ drains' = 0
    /\ UNCHANGED <<writable, interval>>

(* _disconnect: the stream loses its listeners and is ended. *)
Disconnect ==
    /\ stream' = NoStream
    /\ live' = live \ {stream}
    /\ full' = FALSE
    /\ drains' = 0
    /\ writable' = FALSE
    /\ interval' = FALSE

(* Mutant: a status of any kind sets the reconnect timer. *)
UnimplementedReconnects ==
    /\ stream # NoStream
    /\ Disconnect
    /\ gone' = TRUE
    /\ timers' = timers + 1
    /\ UNCHANGED <<batching, started, runId, connRun, opened, streamRun, seen, dropped,
                   oldTimers, undone, overtaken, queueVars>>

(* The stream ends with the status UNIMPLEMENTED. *)
Unimplemented ==
    /\ stream # NoStream
    /\ Disconnect
    /\ gone' = TRUE
    /\ UNCHANGED <<batching, started, runId, connRun, opened, streamRun, seen, dropped,
                   timers, oldTimers, undone, overtaken, queueVars>>

(* It ends with any other status: reconnect, at once or after a delay. *)
Ended ==
    /\ stream # NoStream
    /\ Disconnect
    /\ timers' = timers + 1
    /\ UNCHANGED <<batching, started, runId, connRun, opened, streamRun, seen, dropped,
                   oldTimers, gone, undone, overtaken, queueVars>>

(* A reconnect timer fires; nothing ever cancels one. *)
Reconnect ==
    /\ ConnectSpans(connRun)
    /\ \/ /\ timers > 0
          /\ timers' = timers - 1
          /\ UNCHANGED <<oldTimers, undone>>
       \/ /\ oldTimers > 0
          /\ oldTimers' = oldTimers - 1
          /\ undone' = (undone \/ stream' # stream)
          /\ UNCHANGED timers
    /\ UNCHANGED <<batching, started, runId, connRun, seen, dropped, gone, overtaken>>

-----------------------------------------------------------------------------
(* The aggregator *)

(* start: the connection is told of the run and opened. *)
Start ==
    /\ ~started
    /\ started' = TRUE
    /\ connRun' = runId
    /\ gone' = FALSE
    /\ overtaken' = FALSE
    /\ ConnectSpans(runId)
    /\ UNCHANGED <<batching, runId, seen, dropped, timers, oldTimers, undone>>

(* stop: the connection is closed if it is up. *)
Stop ==
    /\ started
    /\ started' = FALSE
    /\ Disconnect
    /\ timers' = 0
    /\ oldTimers' = oldTimers + timers
    /\ UNCHANGED <<batching, runId, connRun, opened, streamRun, seen, dropped, gone,
                   undone, overtaken, queueVars>>

(* reconfigure with a new run.  The agent has stopped its aggregators      *)
(* before it logs in again, but a second restart may overtake the first    *)
(* (AgentLifecycle): then this one has been started already.               *)
Reconfigure ==
    /\ runId < MaxRuns
    /\ runId' = runId + 1
    /\ overtaken' = started
    /\ UNCHANGED <<batching, started, stream, full, drains, writable, interval, seen,
                   dropped, timers, oldTimers, gone, undone, connVars, queueVars>>

Next ==
    \/ Write
    \/ Drain
    \/ Interval
    \/ Unimplemented
    \/ Ended
    \/ Reconnect
    \/ Start
    \/ Stop
    \/ Reconfigure

(* A stream that is read drains, and an interval timer fires.  A stream    *)
(* need not end, and a reconnect need not succeed.                         *)
Fairness == WF_vars(Drain) /\ WF_vars(Interval)

Spec == Init /\ [][Next]_vars /\ Fairness

-----------------------------------------------------------------------------
(* Properties *)

TypeOK ==
    /\ batching \in BOOLEAN
    /\ started \in BOOLEAN
    /\ runId \in 1..MaxRuns
    /\ connRun \in 0..MaxRuns
    /\ stream \in 0..MaxStreams
    /\ opened \in 0..MaxStreams
    /\ streamRun \in 0..MaxRuns
    /\ full \in BOOLEAN
    /\ drains \in Nat
    /\ writable \in BOOLEAN
    /\ interval \in BOOLEAN
    /\ spans \in Seq(1..MaxSpans)
    /\ seen \in 0..MaxSpans
    /\ sent \in 0..MaxSpans
    /\ dropped \in 0..MaxSpans
    /\ timers \in Nat
    /\ oldTimers \in Nat
    /\ lastSent \in 0..MaxSpans
    /\ live \subseteq 1..MaxStreams
    /\ gone \in BOOLEAN
    /\ undone \in BOOLEAN
    /\ overtaken \in BOOLEAN

(* Whatever the streams do, the metrics say what became of every span: it  *)
(* was sent, dropped, or is still queued.                                  *)
LedgerBalances == seen = sent + dropped + Len(spans)

(* The queue never outgrows its configured size. *)
QueueBounded == Len(spans) <= QueueSize

(* Spans reach the streams in the order they were recorded: no span        *)
(* overtakes the queue, across back-pressure and reconnections.            *)
InOrder ==
    /\ \A i \in 1..Len(spans) : lastSent < spans[i] /\ spans[i] <= seen
    /\ \A i, j \in 1..Len(spans) : i < j => spans[i] < spans[j]

(* The streamer writes, from a call, a drain listener or its timer, only   *)
(* while there is a stream: its two flags follow the connection.           *)
WritesHaveAStream == writable \/ interval \/ full => stream # NoStream

(* A streamer that waits with a stream will hear of it: a listener is      *)
(* registered.                                                             *)
WaitIsHeard == stream # NoStream /\ ~writable => full /\ drains > 0

(* No stream is left open behind the connection's back. *)
OneStream == live = {stream} \ {NoStream}

(* The flags of the streamer follow the connection, through every end,     *)
(* reconnection, drain and stop: the three above together.                 *)
FlagsFollow == WritesHaveAStream /\ WaitIsHeard /\ OneStream

(* base-span-streamer.js, lines 84 to 85: after a write that returned      *)
(* false "future writes should be avoided until drained".                  *)
RespectsBackPressure == writable => ~full

(* The queue keeps to its size, and the single-span streamer never takes a *)
(* stream that has still to drain for a writable one (the batching one     *)
(* does): no burst, block or reconnection makes either exceed its limits.  *)
LimitsAreKept == QueueBounded /\ (~batching => RespectsBackPressure)

(* streaming-span-event-aggregator.js, line 67: stop is to "cease          *)
(* streaming of spans to the collector".                                   *)
CeasesStreaming == ~started => stream = NoStream

(* connection.js, line 77: the stream of a started aggregator carries "the *)
(* current agent run id", if the aggregator still has the run with which   *)
(* it started.                                                             *)
CarriesCurrentRun ==
    started /\ ~overtaken /\ stream # NoStream => streamRun = runId

(* A stream carries the run with which the aggregator last started.        *)
CarriesItsRun == stream # NoStream => streamRun = connRun

(* connection.js, lines 264 to 266: after UNIMPLEMENTED the agent must not *)
(* attempt to reconnect, until it is started anew.                         *)
NoReconnectWhenGone == gone => stream = NoStream

(* As long as no reconnect timer from before a stop has opened a stream,   *)
(* there is one only while the aggregator is started, none after           *)
(* UNIMPLEMENTED, and it carries the run with which the aggregator has     *)
(* started, which is the current one unless a reconfigure has reached the  *)
(* started aggregator.                                                     *)
FollowsTheAgent ==
    undone \/ /\ CeasesStreaming /\ NoReconnectWhenGone
              /\ CarriesItsRun /\ CarriesCurrentRun

(* What is queued is sent while the stream lasts. *)
QueueIsSent == spans # <<>> ~> spans = <<>> \/ stream = NoStream
=============================================================================
