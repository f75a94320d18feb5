--------------------------- MODULE TransactionData ---------------------------
(***************************************************************************)
(* What becomes of a transaction, in parts of the agent that do not know   *)
(* of each other and share no state: the web request it stands for; what   *)
(* is kept of it, its events, its trace and its slow queries, when there   *)
(* is more than fits; the sampler it asks; its segments as they are made,  *)
(* and the times computed from them; its metrics; the Lambda invocation it *)
(* may stand for; and, before all of these, the modules in which calls are *)
(* wrapped so that there is something to record.  The queue of events is   *)
(* the module that this one extends.                                       *)
(***************************************************************************)
EXTENDS PriorityQueue, Sequences

CONSTANT None   \* no trace, no error, no layer, no copy

-----------------------------------------------------------------------------
(* The traces of the slowest transactions *)
CONSTANTS Transaction, NameOf, Duration, Synthetic, Capacity, MaxSynthetics,
          Guarantee, Patience, MaxPayloads
VARIABLES trace, syntheticsTraces, requestTimes, reported, noTraceSubmitted,
          payloads, longest
tracesVars == <<trace, syntheticsTraces, requestTimes, reported,
                noTraceSubmitted, payloads, longest>>

ASSUME TracesAssumption ==
    /\ None \notin Transaction
    /\ Duration \in [Transaction -> Nat \ {0}]
    /\ Guarantee \in Nat /\ Patience \in Nat \ {0}

Traces == INSTANCE TransactionTraces

DiversityReturns == Traces!DiversityReturns

-----------------------------------------------------------------------------
(* The slow queries *)
CONSTANTS Query, MaxDuration, MaxSamples, Slot
VARIABLES samples, sent, slowest, returned
queriesVars == <<samples, sent, slowest, returned>>

ASSUME QueriesAssumption == IsFiniteSet(Query) /\ MaxDuration \in Nat /\ MaxSamples \in Nat

Queries == INSTANCE QueryTraces

(* What a failed send gives back never takes the place of something slower. *)
SlowestAreKept == Traces!SlowestIsKept /\ Queries!SlowestAreKept

-----------------------------------------------------------------------------
(* The adaptive sampler *)
CONSTANTS Target, MaxSeen, MaxChanges
VARIABLES samplingTarget, transactionsSeen, sampled, first, passes, largest, changes
samplerVars == <<samplingTarget, transactionsSeen, sampled, first, passes, largest, changes>>

ASSUME SamplerAssumption == Target \subseteq Nat \ {0}

Sampler == INSTANCE AdaptiveSampler WITH seen <- transactionsSeen

(* A period samples about as many transactions as its targets allow. *)
StaysNearTarget == Sampler!StaysNearTarget

-----------------------------------------------------------------------------
(* The web request *)
CONSTANTS Layer, Mounted, Parent, Route, PathOf, Errorware, Late, Error,
          StringError, Malformed, IgnoredError, IgnoredName, MaxCalls
VARIABLES stack, frozen, txError, errorHandled, pending, open, ended,
          statusCode, finished, closed, active, rule, forceName, ignore,
          forceIgnore, exceptions, userErrors, final, ending, recorded, taken,
          todo, seenObjects, seenStrings, traced, counted, holder,
          failed, settled, recovered, calls
requestVars == <<stack, frozen, txError, errorHandled, pending, open, ended,
                 statusCode, finished, closed, active, rule, forceName, ignore,
                 forceIgnore, exceptions, userErrors, final, ending, recorded, taken,
                 todo, seenObjects, seenStrings, traced, counted, holder,
                 failed, settled, recovered, calls>>

(* Layers are mounted on the application or on other layers, each once; a  *)
(* layer that others are mounted on takes no error, and neither does the   *)
(* first of those that are mounted together.                               *)
ASSUME LayersAssumption ==
    /\ None \notin Layer
    /\ Parent \in [Layer -> Layer \cup {None}] /\ Errorware \subseteq Layer
    /\ \A s \in Mounted :
          /\ s \in Seq(Layer) /\ s # <<>> /\ s[1] \notin Errorware
          /\ \A i \in 1..Len(s) : Parent[s[i]] = Parent[s[1]] /\ Parent[s[i]] \notin Errorware
    /\ \A l \in Layer : \E s \in Mounted : \E i \in 1..Len(s) : s[i] = l
    /\ \A s, t \in Mounted : Parent[s[1]] = Parent[t[1]] => s = t
    /\ \E l \in Layer : Parent[l] = None

ASSUME PathAssumption ==
    /\ PathOf \in [Layer -> Seq({Route[l] : l \in Layer})]
    /\ PathOf = [l \in Layer |->
                   Append(IF Parent[l] = None THEN <<>> ELSE PathOf[Parent[l]], Route[l])]

(* None is none of the values it stands for the absence of. *)
ASSUME ErrorsAssumption ==
    /\ None \notin Error \cup {TRUE, FALSE} /\ "status" \notin Error
    /\ None \notin [step : {"enter", "next", "final"}, at : Layer \cup {None},
                    err : Error \cup {None}]
    /\ None \notin [holder : Layer \cup {None}, failed : Layer \cup {None},
                    error : Error \cup {None}]

Request == INSTANCE WebRequest

(* Its transaction is named by the way it went through the layers. *)
NamedByPath == Request!NamedByPath

(* Its errors are counted once. *)
ErrorsOnce == Request!ErrorsOnce

(* What it leaves behind is taken as a whole or not at all. *)
AllOrNothing == Request!AllOrNothing

TransactionEnds == Request!TransactionEnds

-----------------------------------------------------------------------------
(* The rules for the names of requests *)
CONSTANTS Requests, Uri, Configured, Simple, Sent, MaxAdded, MaxLogins
VARIABLES user, url, names, advanced, tx, config, reverse, added, reply, ruled,
          disturbed, asked
namingVars == <<user, url, names, advanced, tx, config, reverse, added, reply, ruled,
                disturbed, asked>>

Naming == INSTANCE NameRules WITH Path <- Uri

ASSUME NamingAssumption == Naming!RulesAreGiven

(* A request is named and ignored as the rules are meant.                  *)
NamedAsRuled == Naming!NamedAsRuled

-----------------------------------------------------------------------------
(* The segments *)
CONSTANTS MaxTransactions, MaxSegments, MaxBound, MaxListeners, MaxDepth
VARIABLES types, running, segments, opaque, touched, calling, bound
tracerVars == <<types, running, segments, opaque, touched, calling, bound>>

ASSUME TracingAssumption ==
    /\ MaxSegments \in Nat /\ MaxDepth \in Nat /\ MaxBound \in Nat /\ MaxListeners \in Nat

Tracing == INSTANCE Tracer WITH active <- running, stack <- calling

(* A segment is part of the trace of the transaction it counts for. *)
TraceIsWhole == Tracing!TraceIsWhole

-----------------------------------------------------------------------------
(* The exclusive times of the segments, a tree of TreeSize nodes *)
CONSTANTS TreeSize, TreeEnd
VARIABLES parentOf, range, left, parentStack, exclusive
timeVars == <<parentOf, range, left, parentStack, exclusive>>

ASSUME TimeAssumption == TreeSize \in Nat \ {0} /\ TreeEnd \in Nat

Time == INSTANCE ExclusiveTime WITH Size <- TreeSize, End <- TreeEnd

-----------------------------------------------------------------------------
(* The metrics, those of the agent and of the transactions in Measuring *)
CONSTANTS Metric, Value, Measuring, MaxRecords, MaxTime, MaxFlying
VARIABLES now, metrics, own, flying, log, gone
metricsVars == <<now, metrics, own, flying, log, gone>>

ASSUME MetricsAssumption == Value \subseteq Nat /\ MaxTime \in Nat

Collected == INSTANCE Metrics WITH Name <- Metric, Transaction <- Measuring

(* Times and values are added up right: what a segment took, and what the  *)
(* metrics of a harvest say.                                               *)
TotalsAreTrue == Time!TimeIsExclusive /\ Collected!MetricsAreKept

-----------------------------------------------------------------------------
(* The Lambda invocations *)
CONSTANTS MaxInvocations, MaxActs
VARIABLES started, streams, transactionEnders, place, transactionOf, going, errors,
          uncaughtException, enabled, collected, written, done, answered, ran,
          again, overlapped
invocationVars == <<started, streams, transactionEnders, place, transactionOf, going,
                    errors, uncaughtException, enabled, collected, written, done,
                    answered, ran, again, overlapped>>

ASSUME InvocationsAssumption == MaxInvocations \in Nat /\ MaxActs \in Nat

Invocations == INSTANCE AwsLambda WITH active <- going, calls <- done, MaxCalls <- MaxActs

(* An invocation that has been answered is written out. *)
AnsweredIsReported == Invocations!AnsweredIsReported

-----------------------------------------------------------------------------
(* The wrapped modules *)
CONSTANTS Hook, Copy, Picky, MaxTries
VARIABLES items, loaded, late, tries
trackerVars == <<items, loaded, late, tries>>

ASSUME TrackerAssumption == None \notin Copy

Tracker == INSTANCE InstrumentationTracker

(* No hook wraps a copy of a module twice. *)
WrappedOnce == Tracker!WrappedOnce
=============================================================================
