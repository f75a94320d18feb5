------------------------------- MODULE Metrics -------------------------------
(***************************************************************************)
(* The metrics on their way to the collector (lib/metrics, lib/stats): the *)
(* collection of the agent, those of the transactions, which are merged    *)
(* into it when they end, and the harvests, of which some come back after  *)
(* others have started.  A payload tells the collector of which time its   *)
(* metrics are.                                                            *)
(*                                                                         *)
(* totalExclusive and sumOfSquares are sums like total, and a call that is *)
(* only counted is one of value 0.  Names that the server's rules drop     *)
(* from a payload, and apdex metrics, are left out.                        *)
(***************************************************************************)
EXTENDS Naturals, Sequences, FiniteSets, Functions

CONSTANTS
    Name,           \* the metrics, each a name and a scope
    Value,          \* the values that are recorded
    Transaction,    \* the transactions
    MaxRecords, MaxTime, MaxFlying      \* bounds

VARIABLES
    now,            \* Date.now()
    metrics,        \* _metrics of the aggregator
    own,            \* the metrics of each transaction
    flying          \* the payloads without an answer, and the metrics sent

(* Variables only the properties read. *)
VARIABLES
    log,            \* what has been recorded, and when it reached the agent
    gone            \* which of it the collector has, or the agent has given up

vars == <<now, metrics, own, flying, log, gone>>

Pending == MaxTime + 1      \* not yet in the agent's metrics

NoStats == [calls |-> 0, total |-> 0, min |-> 0, max |-> 0]
Larger(a, b) == IF a < b THEN b ELSE a
Smaller(a, b) == IF a < b THEN a ELSE b

(* A new collection.  entries: what was recorded in it, for the properties. *)
Fresh == [started |-> now, stats |-> [n \in Name |-> NoStats], entries |-> {}]

Init ==
    /\ now = 0
    /\ metrics = Fresh
    /\ own = [t \in Transaction |-> Fresh]
    /\ flying = {}
    /\ log = <<>> /\ gone = {}

-----------------------------------------------------------------------------
(* Stats.recordValue *)
Recorded(s, v) ==
    [calls |-> s.calls + 1, total |-> s.total + v,
     min |-> IF s.calls > 0 THEN Smaller(v, s.min) ELSE v,
     max |-> Larger(v, s.max)]

(* Stats.merge *)
Summed(s, other) ==
    [calls |-> s.calls + other.calls, total |-> s.total + other.total,
     min |-> IF s.calls > 0 /\ other.calls > 0 THEN Smaller(s.min, other.min)
             ELSE IF other.calls > 0 THEN other.min ELSE s.min,
     max |-> Larger(s.max, other.max)]

(* Mutant: the start stays that of the newer collection. *)
MergedAsNew(c, other, adjustStartTime) ==
    [started |-> c.started,
     stats |-> [n \in Name |-> Summed(c.stats[n], other.stats[n])],
     entries |-> c.entries \cup other.entries]

(* Metrics.merge *)
Merged(c, other, adjustStartTime) ==
    [started |-> IF adjustStartTime THEN Smaller(c.started, other.started) ELSE c.started,
     stats |-> [n \in Name |-> Summed(c.stats[n], other.stats[n])],
     entries |-> c.entries \cup other.entries]

(* measureMilliseconds, measureBytes: a value of metric n. *)
Measured(c, n, v) ==
    [c EXCEPT !.stats[n] = Recorded(@, v), !.entries = @ \cup {Len(log) + 1}]

Logged(n, v, at) ==
    /\ Len(log) < MaxRecords
    /\ log' = Append(log, [name |-> n, value |-> v, at |-> at])

Measure(n, v) ==
    /\ metrics' = Measured(metrics, n, v)
    /\ Logged(n, v, now)
    /\ UNCHANGED <<now, own, flying, gone>>

MeasureInTransaction(t, n, v) ==
    /\ own' = [own EXCEPT ![t] = Measured(@, n, v)]
    /\ Logged(n, v, Pending)
    /\ UNCHANGED <<now, metrics, flying, gone>>

(* A transaction ends (_transactionFinished), and another takes its place. *)
Finish(t) ==
    /\ own[t].entries # {}
    /\ own' = [own EXCEPT ![t] = Fresh]
    /\ \/ /\ metrics' = Merged(metrics, own[t], FALSE)
          /\ log' = [i \in DOMAIN log |->
                        IF i \in own[t].entries THEN [log[i] EXCEPT !.at = now] ELSE log[i]]
          /\ UNCHANGED gone
       \/ /\ gone' = gone \cup own[t].entries        \* it is ignored
          /\ UNCHANGED <<metrics, log>>
    /\ UNCHANGED <<now, flying>>

(* send: the payload is made, and the next collection begins. *)
Send ==
    /\ metrics' = Fresh
    /\ flying' = IF metrics.entries = {} THEN flying
                 ELSE flying \cup {[metrics |-> metrics, until |-> now]}
    /\ Cardinality(flying') <= MaxFlying
    /\ UNCHANGED <<now, own, log, gone>>

(* The answer to a payload, after which the metrics are done with or are   *)
(* merged back.                                                            *)
Answer(p, retainData) ==
    /\ flying' = flying \ {p}
    /\ \/ retainData /\ metrics' = Merged(metrics, p.metrics, TRUE) /\ UNCHANGED gone
       \/ ~retainData /\ gone' = gone \cup p.metrics.entries /\ UNCHANGED metrics
    /\ UNCHANGED <<now, own, log>>

Tick ==
    /\ now < MaxTime /\ now' = now + 1
    /\ UNCHANGED <<metrics, own, flying, log, gone>>

Next ==
    \/ \E n \in Name, v \in Value :
          Measure(n, v) \/ \E t \in Transaction : MeasureInTransaction(t, n, v)
    \/ \E t \in Transaction : Finish(t)
    \/ Send \/ Tick
    \/ \E p \in flying, retainData \in BOOLEAN : Answer(p, retainData)

Spec == Init /\ [][Next]_vars

-----------------------------------------------------------------------------
(* Properties *)

Collections == {metrics} \cup {own[t] : t \in Transaction} \cup {p.metrics : p \in flying}

Statistics == [calls : Nat, total : Nat, min : Nat, max : Nat]
Collection == [started : 0..MaxTime, stats : [Name -> Statistics], entries : SUBSET (DOMAIN log)]

TypeOK ==
    /\ now \in 0..MaxTime
    /\ log \in Seq([name : Name, value : Value, at : 0..Pending])
    /\ metrics \in Collection /\ own \in [Transaction -> Collection]
    /\ flying \subseteq [metrics : Collection, until : 0..MaxTime]
    /\ gone \subseteq DOMAIN log

(* Every value that was recorded is in exactly one place until the         *)
(* collector has it.                                                       *)
Apart(c, other) == c.entries \cap other.entries = {}
InOnePlace ==
    /\ \A i \in DOMAIN log : i \in gone <=> \A c \in Collections : i \notin c.entries
    /\ \A t \in Transaction : Apart(metrics, own[t]) /\ \A u \in Transaction \ {t} : Apart(own[t], own[u])
    /\ \A p \in flying :
          /\ Apart(p.metrics, metrics) /\ \A t \in Transaction : Apart(p.metrics, own[t])
          /\ \A q \in flying \ {p} : Apart(p.metrics, q.metrics)

(* The statistics of a collection are those of the values in it. *)
Least(m, S) == m \in S /\ \A x \in S : m <= x
Greatest(m, S) == m \in S /\ \A x \in S : x <= m

StatisticsAreTrue(c, records) ==
    \A n \in Name :
        LET recorded == {i \in c.entries : records[i].name = n}
            values == [i \in DOMAIN records |-> records[i].value]
            stats == c.stats[n]
        IN  IF recorded = {} THEN stats = NoStats
            ELSE /\ stats.calls = Cardinality(recorded)
                 /\ stats.total = SumFunctionOnSet(values, recorded)
                 /\ Least(stats.min, {values[i] : i \in recorded})
                 /\ Greatest(stats.max, {values[i] : i \in recorded})

(* The time of a collection covers the moments at which its values reached *)
(* the agent.                                                              *)
TimesAreCovered ==
    /\ \A i \in metrics.entries : metrics.started <= log[i].at
    /\ \A p \in flying : \A i \in p.metrics.entries :
          p.metrics.started <= log[i].at /\ log[i].at <= p.until

(* All of this holds whatever harvests overlap and come back. *)
MetricsAreKept ==
    InOnePlace /\ TimesAreCovered /\ \A c \in Collections : StatisticsAreTrue(c, log)
=============================================================================
