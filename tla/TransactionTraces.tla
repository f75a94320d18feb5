------------------------- MODULE TransactionTraces -------------------------
(***************************************************************************)
(* Which transaction's trace is reported                                   *)
(* (lib/transaction/trace/aggregator.js): the slowest of each harvest      *)
(* until five harvests have reported one, then only those of up to top_n   *)
(* names, each slower than the last of its name, until five harvests have  *)
(* gone by without a trace.  Traces of synthetic requests are kept beside. *)
(*                                                                         *)
(* A transaction here is a kind of transaction, known by its name and its  *)
(* duration; it may finish whenever none of its kind is kept or being sent *)
(* (two alike, the second is never slower than the first).                 *)
(***************************************************************************)
EXTENDS Naturals, FiniteSets

CONSTANTS
    Transaction,    \* those over the threshold; others are never kept
    NameOf,         \* getFullName of each
    Duration,       \* getDurationInMillis of each, positive
    Synthetic,      \* those with syntheticsData
    None,           \* no trace
    Capacity,       \* transaction_tracer.top_n
    MaxSynthetics,  \* the 20 of addSyntheticsTrace
    Guarantee,      \* the 5 of hasMetGuarantee
    Patience,       \* the 5 of noTraceSubmitted
    MaxPayloads     \* bound on the payloads on their way

VARIABLES
    trace,              \* this.trace
    syntheticsTraces,   \* this.syntheticsTraces
    requestTimes,       \* this.requestTimes, 0 for a name that is not there
    reported,           \* this.reported, up to the guarantee
    noTraceSubmitted,   \* this.noTraceSubmitted
    payloads            \* the payloads that are not answered

(* A variable only the properties read: the longest duration that was      *)
(* offered since the last send or clear.                                   *)
VARIABLE longest

vars == <<trace, syntheticsTraces, requestTimes, reported, noTraceSubmitted,
          payloads, longest>>

Names == {NameOf[t] : t \in Transaction}
DurationOf(t) == IF t = None THEN 0 ELSE Duration[t]
Longer(a, b) == IF a < b THEN b ELSE a

Init ==
    /\ trace = None
    /\ syntheticsTraces = {}
    /\ requestTimes = [n \in Names |-> 0]
    /\ reported = 0
    /\ noTraceSubmitted = 0
    /\ payloads = {}
    /\ longest = 0

Known == {n \in Names : requestTimes[n] # 0}

(* isBetter, over the threshold *)
IsBetter(t) ==
    /\ DurationOf(trace) < Duration[t]
    /\ reported >= Guarantee =>
           /\ requestTimes[NameOf[t]] < Duration[t]
           /\ NameOf[t] \in Known \/ Cardinality(Known) < Capacity

(* add, for a transaction that is not synthetic *)
Keep(t) ==
    /\ IF IsBetter(t)
       THEN /\ trace' = t
            /\ requestTimes' =
                   [requestTimes EXCEPT ![NameOf[t]] = Longer(@, Duration[t])]
       ELSE UNCHANGED <<trace, requestTimes>>
    /\ longest' = Longer(longest, Duration[t])

(* The transactions that are kept or being sent. *)
Held == {trace} \cup syntheticsTraces \cup UNION {{p.trace} \cup p.synthetics : p \in payloads}

(* A transaction finishes. *)
Add(t) ==
    /\ t \notin Held
    /\ IF t \in Synthetic
       THEN /\ syntheticsTraces' =
                   IF Cardinality(syntheticsTraces) < MaxSynthetics
                   THEN syntheticsTraces \cup {t} ELSE syntheticsTraces
            /\ UNCHANGED <<trace, requestTimes, longest>>
       ELSE Keep(t) /\ UNCHANGED syntheticsTraces
    /\ UNCHANGED <<reported, noTraceSubmitted, payloads>>

(* Mutant: a harvest of synthetics traces starts the count anew. *)
GetTracesOfAnyKind ==
    LET none == trace = None /\ syntheticsTraces = {}
    IN  /\ noTraceSubmitted' = IF none THEN (noTraceSubmitted + 1) % Patience ELSE 0
        /\ requestTimes' = IF none /\ noTraceSubmitted + 1 >= Patience
                           THEN [n \in Names |-> 0] ELSE requestTimes

(* getTraces: the timing tracker starts anew when harvest after harvest    *)
(* has had no trace but those of synthetics.                               *)
GetTraces ==
    /\ noTraceSubmitted' =
           IF trace = None THEN (noTraceSubmitted + 1) % Patience ELSE 0
    /\ requestTimes' = IF trace = None /\ noTraceSubmitted + 1 >= Patience
                       THEN [n \in Names |-> 0] ELSE requestTimes

(* send: what is kept goes into the payload, if there is anything. *)
Send ==
    /\ Cardinality(payloads) < MaxPayloads
    /\ GetTraces
    /\ payloads' = IF trace = None /\ syntheticsTraces = {} THEN payloads
                   ELSE payloads \cup {[trace |-> trace, synthetics |-> syntheticsTraces]}
    /\ trace' = None
    /\ syntheticsTraces' = {}
    /\ longest' = 0
    /\ UNCHANGED reported

(* The traces cannot be encoded and are dropped (_runSend, no payload).    *)
(* Traces that are never answered for are out of reach in the same way.    *)
EncodingFails(p) ==
    /\ payloads' = payloads \ {p}
    /\ UNCHANGED <<trace, syntheticsTraces, requestTimes, reported,
                   noTraceSubmitted, longest>>

(* The answer.  Data to be retained comes back, but for the synthetics,    *)
(* which _getMergeData does not find.  Every answer counts as a report.    *)
Answer(p, retain) ==
    /\ payloads' = payloads \ {p}
    /\ IF retain /\ p.trace # None THEN Keep(p.trace)
       ELSE UNCHANGED <<trace, requestTimes, longest>>
    /\ reported' = IF reported < Guarantee THEN reported + 1 ELSE reported
    /\ UNCHANGED <<syntheticsTraces, noTraceSubmitted>>

Lost == \E p \in payloads : EncodingFails(p)

Answered == \E p \in payloads, retain \in BOOLEAN : Answer(p, retain)

(* A security policy is tightened, or the agent is reset. *)
Clear ==
    /\ trace' = None
    /\ syntheticsTraces' = {}
    /\ longest' = 0
    /\ UNCHANGED <<requestTimes, reported, noTraceSubmitted, payloads>>

Next ==
    \/ \E t \in Transaction : Add(t)
    \/ Send
    \/ Clear
    \/ Lost
    \/ Answered

(* The harvest timer goes on.  The collector need not answer: what waits   *)
(* for it may as well be lost, and makes room within MaxPayloads.          *)
Fairness == WF_vars(Send) /\ WF_vars(Answered \/ Lost)

Spec == Init /\ [][Next]_vars /\ Fairness

-----------------------------------------------------------------------------
(* Properties *)

TypeOK ==
    /\ trace \in (Transaction \ Synthetic) \cup {None}
    /\ syntheticsTraces \subseteq Synthetic
    /\ requestTimes \in [Names -> Nat]
    /\ reported \in 0..Guarantee
    /\ noTraceSubmitted \in 0..(Patience - 1)
    /\ payloads \subseteq [trace : (Transaction \ Synthetic) \cup {None},
                           synthetics : SUBSET Synthetic]

(* Until enough harvests have been reported, the trace that is kept is the *)
(* slowest of all transactions since the last harvest and of those that    *)
(* came back, whatever names they have; and the tracker never forgets how  *)
(* slow the kept one is.                                                   *)
SlowestIsKept ==
    /\ reported < Guarantee => DurationOf(trace) = longest
    /\ trace # None => requestTimes[NameOf[trace]] >= Duration[trace]

(* No transaction is shut out for good: again and again there comes a time *)
(* when it would be kept, because harvests without a trace open the timing *)
(* tracker, however many synthetics traces they carry.                     *)
DiversityReturns ==
    \A t \in Transaction \ Synthetic : []<>IsBetter(t)
=============================================================================
