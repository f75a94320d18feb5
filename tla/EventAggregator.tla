-------------------------- MODULE EventAggregator --------------------------
(***************************************************************************)
(* The event aggregators (lib/aggregators/base-aggregator.js and           *)
(* event-aggregator.js with its subclasses) under the harvester            *)
(* (lib/harvester.js), which starts, stops, reconfigures and flushes them  *)
(* together.  An aggregator is named by its collector method.  The         *)
(* collector answers each payload once, in any order; what its answer      *)
(* does to the agent run is the subject of AgentLifecycle.                 *)
(***************************************************************************)
EXTENDS TopEvents, CollectorResponse

CONSTANTS
    Method,         \* the collector methods, one aggregator each
    MethodOf,       \* the aggregator an event goes to
    Splitting,      \* methods whose large harvests are sent in two halves
    StopsDisabled,  \* methods whose timer stops when they are disabled
    EmptiesAtZero,  \* methods that drop their events when the limit falls to 0
    SplitThreshold, \* splitThreshold
    DefaultLimit,   \* defaultLimit of each aggregator
    Limits,         \* limits the server may send
    NoLimit,        \* "the server sent no valid limit for this method"
    Answers,        \* the answers the collector may give
    Caller,         \* those who may ask for a forced harvest
    MaxRetained     \* bound on the answers that put events back

ASSUME EventAggregatorAssumption ==
    /\ MethodOf \in [Event -> Method]
    /\ Splitting \subseteq Method
    /\ StopsDisabled \subseteq Method
    /\ EmptiesAtZero \subseteq Method
    /\ SplitThreshold \in Nat /\ SplitThreshold >= 2
    /\ Limits \subseteq Nat
    /\ NoLimit \notin Limits
    /\ DefaultLimit \in [Method -> Nat]
    /\ MaxRetained \in Nat
    /\ IsFiniteSet(Event)

VARIABLES
    enabled,    \* _enabled of each aggregator
    ticking,    \* whether its sendTimer is set
    limit,      \* its limit
    qLimit,     \* _items.limit: the limit of its queue
    qSeen,      \* _items.seen
    qData,      \* the events in _items
    sends,      \* calls of send that have not finished: the method, and the
                \* payloads that are still unanswered
    awaits,     \* the finished events a forced harvest still waits for
    clearing,   \* forced harvests under way
    retained,   \* how many answers have put events back
    metric      \* call counts of the SEEN, SENT and DROPPED metrics

(* Variables only the properties read. *)
VARIABLES
    fresh,      \* events not recorded yet
    delivered,  \* events the collector has received
    dropped,    \* events the agent has given up
    handed,     \* how many events have been handed to the collector API
    resized,    \* the aggregators whose limit has ever changed
    owed,       \* unanswered events that a forced harvest has itself sent
    alone       \* forced harvests that no other send has overlapped

queues  == <<qLimit, qSeen, qData>>
ghosts  == <<fresh, delivered, dropped, handed, resized, owed, alone>>
vars == <<enabled, ticking, limit, qLimit, qSeen, qData, sends, awaits,
          clearing, retained, metric,
          fresh, delivered, dropped, handed, resized, owed, alone>>

Buffered == UNION {qData[m] : m \in Method}
InFlight == UNION {UNION s.payloads : s \in sends}

Init ==
    /\ enabled \in [Method -> BOOLEAN]
    /\ ticking = [m \in Method |-> FALSE]
    /\ limit = DefaultLimit
    /\ qLimit = DefaultLimit
    /\ qSeen = [m \in Method |-> 0]
    /\ qData = [m \in Method |-> {}]
    /\ sends = {}
    /\ awaits = [c \in Caller |-> {}]
    /\ clearing = [c \in Caller |-> FALSE]
    /\ retained = 0
    /\ metric = [m \in Method |-> [seen |-> 0, sent |-> 0, dropped |-> 0]]
    /\ fresh = Event
    /\ delivered = {}
    /\ dropped = {}
    /\ handed = [m \in Method |-> 0]
    /\ resized = {}
    /\ owed = [c \in Caller |-> {}]
    /\ alone = [c \in Caller |-> FALSE]

-----------------------------------------------------------------------------
(* Recording *)

Counted(r, seen, sent, lost) ==
    [seen |-> r.seen + seen, sent |-> r.sent + sent, dropped |-> r.dropped + lost]

(* Mutant: an event that went in counts as sent, whatever it displaced. *)
AddCountsInserted(e) ==
    LET m == MethodOf[e] IN
    /\ e \in fresh
    /\ fresh' = fresh \ {e}
    /\ \E D \in AfterAdd(qLimit[m], qData[m], e) :
        /\ qData' = [qData EXCEPT ![m] = D]
        /\ qSeen' = [qSeen EXCEPT ![m] = @ + 1]
        /\ dropped' = dropped \cup ((qData[m] \cup {e}) \ D)
        /\ metric' = [metric EXCEPT ![m] =
              IF e \in D THEN Counted(@, 1, 1, 0) ELSE Counted(@, 1, 0, 1)]
    /\ UNCHANGED <<enabled, ticking, limit, qLimit, sends, awaits, clearing,
                   retained, delivered, handed, resized, owed, alone>>

(* add: the event counts as sent when it went in and nothing has overflowed, *)
(* as dropped otherwise, even when it took the place of an older event.      *)
Add(e) ==
    LET m == MethodOf[e] IN
    /\ e \in fresh
    /\ fresh' = fresh \ {e}
    /\ \E D \in AfterAdd(qLimit[m], qData[m], e) :
        /\ qData' = [qData EXCEPT ![m] = D]
        /\ qSeen' = [qSeen EXCEPT ![m] = @ + 1]
        /\ dropped' = dropped \cup ((qData[m] \cup {e}) \ D)
        /\ metric' = [metric EXCEPT ![m] =
              IF e \in D /\ OverflowOf(qLimit[m], qSeen[m] + 1) = 0
              THEN Counted(@, 1, 1, 0)
              ELSE Counted(@, 1, 0, 1)]
    /\ UNCHANGED <<enabled, ticking, limit, qLimit, sends, awaits, clearing,
                   retained, delivered, handed, resized, owed, alone>>

-----------------------------------------------------------------------------
(* Sending *)

Halves(D) == {{h, D \ h} : h \in {x \in SUBSET D :
                                    Cardinality(x) = Cardinality(D) \div 2}}

(* The payloads one call of send makes of the events in the queue: none    *)
(* when it is empty, two when TransactionEventAggregator splits them.      *)
Payloads(m) ==
    IF m \in Splitting /\ Cardinality(qData[m]) >= SplitThreshold
    THEN Halves(qData[m])
    ELSE IF qData[m] = {} THEN {{}} ELSE {{qData[m]}}

(* Mutant: an empty or a completed send does not say so. *)
FinishedUnsaid(M, a) == a

(* `finished_data_send' of the methods in M reaches every forced harvest   *)
(* that listens for it, whichever send it is about.                        *)
Finished(M, a) == [c \in Caller |-> a[c] \ M]

(* Mutant: the queue is not replaced, so what was sent stays in it. *)
SendWithoutClear(M, a) ==
    LET empty == {m \in M : qData[m] = {}} IN
    /\ \E P \in [M -> UNION {Payloads(m) : m \in M}] :
        /\ \A m \in M : P[m] \in Payloads(m)
        /\ sends' = sends \cup
              {[method |-> m, payloads |-> P[m]] : m \in M \ empty}
    /\ handed' = [m \in Method |->
          IF m \in M THEN handed[m] + Cardinality(qData[m]) ELSE handed[m]]
    /\ awaits' = Finished(empty, a)
    /\ UNCHANGED <<qData, qSeen>>

(* send() of every aggregator in M, in one turn of the event loop: the     *)
(* queues are emptied, and a send with no payload finishes at once.        *)
Send(M, a) ==
    LET empty == {m \in M : qData[m] = {}} IN
    /\ \E P \in [M -> UNION {Payloads(m) : m \in M}] :
        /\ \A m \in M : P[m] \in Payloads(m)
        /\ sends' = sends \cup
              {[method |-> m, payloads |-> P[m]] : m \in M \ empty}
    /\ qData' = [m \in Method |-> IF m \in M THEN {} ELSE qData[m]]
    /\ qSeen' = [m \in Method |-> IF m \in M THEN 0 ELSE qSeen[m]]
    /\ handed' = [m \in Method |->
          IF m \in M THEN handed[m] + Cardinality(qData[m]) ELSE handed[m]]
    /\ awaits' = Finished(empty, a)

(* The interval timer fires; it does not ask whether the aggregator is     *)
(* still enabled.                                                          *)
Tick(m) ==
    /\ ticking[m]
    /\ Send({m}, awaits)
    /\ alone' = [c \in Caller |-> alone[c] /\ m \notin awaits[c]]
    /\ UNCHANGED <<enabled, ticking, limit, qLimit, clearing, retained, metric,
                   fresh, delivered, dropped, resized, owed>>

(* _merge after an answer that asks for the data to be kept.  SENT is told *)
(* what the aggregator's own limit leaves room for.                        *)
Merge(m, D) ==
    LET room == limit[m] - Cardinality(qData[m])
        toMerge == IF Cardinality(D) <= room THEN Cardinality(D) ELSE room
    IN  /\ \E K \in Top(qLimit[m], qData[m] \cup D) :
              /\ qData' = [qData EXCEPT ![m] = K]
              /\ dropped' = dropped \cup ((qData[m] \cup D) \ K)
        /\ qSeen' = [qSeen EXCEPT ![m] = @ + Cardinality(D)]
        /\ metric' = [metric EXCEPT ![m] =
              Counted(@, Cardinality(D), toMerge, Cardinality(D) - toMerge)]

(* Mutant: a split send is finished with the first of its answers. *)
AnsweredByHalf(s, D) ==
    /\ sends' = (sends \ {s}) \cup
          (IF s.payloads = {D} THEN {}
           ELSE {[s EXCEPT !.payloads = @ \ {D}]})
    /\ awaits' = Finished({s.method}, awaits)
    /\ owed' = [c \in Caller |-> owed[c] \ D]
    /\ UNCHANGED <<enabled, ticking, limit, qLimit, clearing, fresh, handed,
                   resized, alone>>

(* One payload of a send is answered; the send is finished with its last.  *)
Answered(s, D) ==
    /\ sends' = (sends \ {s}) \cup
          (IF s.payloads = {D} THEN {}
           ELSE {[s EXCEPT !.payloads = @ \ {D}]})
    /\ awaits' = IF s.payloads = {D} THEN Finished({s.method}, awaits) ELSE awaits
    /\ owed' = [c \in Caller |-> owed[c] \ D]
    /\ UNCHANGED <<enabled, ticking, limit, qLimit, clearing, fresh, handed,
                   resized, alone>>

Accepted(s, D, answer) ==
    /\ answer \in SUCCESS
    /\ Answered(s, D)
    /\ delivered' = delivered \cup D
    /\ UNCHANGED <<qData, qSeen, metric, retained, dropped>>

(* retainData is false: a payload the collector refuses, one that is too   *)
(* large, and one whose answer closes the run.                             *)
Discarded(s, D, answer) ==
    /\ answer \notin SUCCESS
    /\ ~DataOutcome(answer).retainData
    /\ Answered(s, D)
    /\ dropped' = dropped \cup D
    /\ UNCHANGED <<qData, qSeen, metric, retained, delivered>>

(* Mutant: retainData is ignored. *)
RetainedForgets(s, D, answer) ==
    /\ DataOutcome(answer).retainData
    /\ retained < MaxRetained
    /\ retained' = retained + 1
    /\ Answered(s, D)
    /\ delivered' \in {delivered, delivered \cup D}
    /\ UNCHANGED <<qData, qSeen, metric, dropped>>

(* retainData is true: the payload did not arrive, or it did and only the  *)
(* answer was lost.                                                        *)
Retained(s, D, answer) ==
    /\ DataOutcome(answer).retainData
    /\ retained < MaxRetained
    /\ retained' = retained + 1
    /\ Answered(s, D)
    /\ Merge(s.method, D)
    /\ delivered' \in {delivered, delivered \cup D}

Answer(s, D) ==
    \E answer \in Answers :
        \/ Accepted(s, D, answer)
        \/ Discarded(s, D, answer)
        \/ Retained(s, D, answer)

-----------------------------------------------------------------------------
(* The harvester *)

(* clear: every enabled aggregator is listened to once and told to send.   *)
Clear(c) ==
    LET M == {m \in Method : enabled[m]} IN
    /\ ~clearing[c]
    /\ clearing' = [clearing EXCEPT ![c] = TRUE]
    /\ Send(M, [awaits EXCEPT ![c] = M])
    /\ owed' = [owed EXCEPT ![c] = UNION {qData[m] : m \in M}]
    /\ alone' = [d \in Caller |->
          IF d = c THEN \A s \in sends : s.method \notin M
          ELSE alone[d] /\ awaits[d] \cap M = {}]
    /\ UNCHANGED <<enabled, ticking, limit, qLimit, retained, metric,
                   fresh, delivered, dropped, resized>>

(* Every listener has fired: the callback runs from setImmediate. *)
Cleared(c) ==
    /\ clearing[c]
    /\ awaits[c] = {}
    /\ clearing' = [clearing EXCEPT ![c] = FALSE]
    /\ UNCHANGED <<enabled, ticking, limit, queues, sends, awaits, retained,
                   metric, ghosts>>

(* start: an aggregator that is enabled gets a timer if it has none. *)
Start ==
    /\ ticking' = [m \in Method |-> ticking[m] \/ enabled[m]]
    /\ UNCHANGED <<enabled, limit, queues, sends, awaits, clearing, retained,
                   metric, ghosts>>

(* stop: the timers go, and nothing else does. *)
Stop ==
    /\ ticking' = [m \in Method |-> FALSE]
    /\ UNCHANGED <<enabled, limit, queues, sends, awaits, clearing, retained,
                   metric, ghosts>>

(* ErrorEventAggregator.reconfigure stops the timer of what is disabled. *)
StillTicking(m, newEnabled) ==
    ticking[m] /\ (m \in StopsDisabled => newEnabled[m])

(* LogAggregator.reconfigure clears the queue when the limit falls to 0. *)
Emptied(newLimit) == {m \in EmptiesAtZero : newLimit[m] = 0 /\ limit[m] > 0}

(* update: reconfigure of every aggregator, with the limit the server sent *)
(* for it and whether the configuration enables it.  Without a limit the   *)
(* aggregator returns to its default, but its queue does not.              *)
Update(newLimit, newEnabled) ==
    LET given == {m \in Method : newLimit[m] # NoLimit} IN
    /\ enabled' = newEnabled
    /\ ticking' = [m \in Method |-> StillTicking(m, newEnabled)]
    /\ limit' = [m \in Method |->
          IF m \in given THEN newLimit[m] ELSE DefaultLimit[m]]
    /\ qLimit' = [m \in Method |-> IF m \in given THEN newLimit[m] ELSE qLimit[m]]
    /\ qData' \in {d \in [Method -> SUBSET Buffered] :
          \A m \in Method : IF m \in Emptied(limit') THEN d[m] = {}
                           ELSE d[m] \in Top(qLimit'[m], qData[m])}
    /\ qSeen' = [m \in Method |-> IF m \in Emptied(limit') THEN 0 ELSE qSeen[m]]
    /\ dropped' = dropped \cup (Buffered \ UNION {qData'[m] : m \in Method})
    /\ resized' = resized \cup
          {m \in Method : limit'[m] # limit[m] \/ qLimit'[m] # qLimit[m]}
    /\ UNCHANGED <<sends, awaits, clearing, retained, metric, fresh, delivered,
                   handed, owed, alone>>

Next ==
    \/ \E e \in Event : Add(e)
    \/ \E m \in Method : Tick(m)
    \/ \E s \in sends : \E D \in s.payloads : Answer(s, D)
    \/ \E c \in Caller : Clear(c) \/ Cleared(c)
    \/ Start
    \/ Stop
    \/ \E newLimit \in [Method -> Limits \cup {NoLimit}],
          newEnabled \in [Method -> BOOLEAN] : Update(newLimit, newEnabled)

(* The promises of a forced harvest are resolved.  A request has no time   *)
(* limit: an answer need not come.                                         *)
Fairness == \A c \in Caller : WF_vars(Cleared(c))

Spec == Init /\ [][Next]_vars /\ Fairness

-----------------------------------------------------------------------------
(* Properties *)

SendRecord == [method : Method, payloads : SUBSET (SUBSET Event)]

TypeOK ==
    /\ enabled \in [Method -> BOOLEAN]
    /\ ticking \in [Method -> BOOLEAN]
    /\ limit \in [Method -> Nat]
    /\ qLimit \in [Method -> Nat]
    /\ qSeen \in [Method -> Nat]
    /\ qData \in [Method -> SUBSET Event]
    /\ sends \subseteq SendRecord
    /\ awaits \in [Caller -> SUBSET Method]
    /\ clearing \in [Caller -> BOOLEAN]
    /\ retained \in 0..MaxRetained
    /\ metric \in [Method -> [seen : Nat, sent : Int, dropped : Nat]]
    /\ fresh \subseteq Event
    /\ delivered \subseteq Event
    /\ dropped \subseteq Event
    /\ handed \in [Method -> Nat]
    /\ resized \subseteq Method
    /\ owed \in [Caller -> SUBSET Event]
    /\ alone \in [Caller -> BOOLEAN]

(* An event the agent holds is in one place: in the queue of its own       *)
(* aggregator or in one unanswered payload of that aggregator, so a        *)
(* harvest, a split and a merge back never copy it.                        *)
OnePlace ==
    /\ \A m \in Method : \A e \in qData[m] : MethodOf[e] = m
    /\ \A s \in sends : \A D \in s.payloads : \A e \in D : MethodOf[e] = s.method
    /\ Buffered \cap InFlight = {}
    /\ \A s, t \in sends : \A D \in s.payloads, E \in t.payloads :
          D \cap E # {} => s = t /\ D = E
    /\ fresh \cap (Buffered \cup InFlight) = {}

(* No event disappears: one that was recorded is in a queue, in a payload, *)
(* at the collector, or was dropped by a step that is known to drop.       *)
Accounted == Event = fresh \cup Buffered \cup InFlight \cup delivered \cup dropped

(* Events are neither copied nor lost: the two above together.             *)
Conserved == OnePlace /\ Accounted

(* The supportability metrics agree with each other and with what was done: *)
(* every event counted as seen is counted once more, as sent or as dropped,  *)
(* and until an aggregator's limit changes, its SENT metric is the number of *)
(* events it has handed to the collector API, again for the ones handed over *)
(* again, and of those it still holds.                                       *)
MetricsAgree ==
    /\ \A m \in Method : metric[m].seen = metric[m].sent + metric[m].dropped
    /\ \A m \in Method \ resized :
          metric[m].sent = handed[m] + Cardinality(qData[m])

(* A forced harvest that no other send overlaps calls back only when the   *)
(* collector has answered for everything it flushed.                       *)
AloneHarvestWaits ==
    \A c \in Caller :
        clearing[c] /\ alone[c] /\ awaits[c] = {} => owed[c] = {}

(* The promise of EventDelivery. *)
Delivery == INSTANCE EventDelivery WITH held <- Buffered \cup InFlight
DeliverySpec == Delivery!Spec
=============================================================================
