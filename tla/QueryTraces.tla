---------------------------- MODULE QueryTraces ----------------------------
(***************************************************************************)
(* The slow queries of a harvest (lib/db/query-trace-aggregator.js and     *)
(* query-sample.js): the slowest execution of each normalized query, for   *)
(* max_samples queries.  An execution that is not slow, or comes while     *)
(* slow_sql or record_sql is off, leaves no sample; in serverless mode,    *)
(* which is not modelled, no sample is removed.                            *)
(***************************************************************************)
EXTENDS Naturals, FiniteSets

CONSTANTS
    Query,          \* the normalized queries
    MaxDuration,    \* bound on durations, counted from explain_threshold
    MaxSamples,     \* slow_sql.max_samples
    Slot            \* one for each payload that may be on its way

VARIABLES
    samples,    \* this.samples: the duration of the slowest execution of
                \* each query, 0 for a query without a sample
    sent        \* the samples of each payload that is not answered

(* Variables only the properties read. *)
VARIABLES
    slowest,    \* the slowest execution of each query that was recorded or
                \* came back since the last send
    returned    \* how many samples have been added since because they came back

vars == <<samples, sent, slowest, returned>>

Durations == 1..MaxDuration
Empty == [q \in Query |-> 0]
Kept(s) == {q \in Query : s[q] # 0}
Longer(a, b) == IF a < b THEN b ELSE a
LongerOf(s, t) == [q \in Query |-> Longer(s[q], t[q])]

Init ==
    /\ samples = Empty
    /\ sent = [i \in Slot |-> Empty]
    /\ slowest = Empty
    /\ returned = 0

(* Which sample removeShortest takes: of those of equal duration the       *)
(* oldest, which is left open.                                             *)
Shortest(s) == {q \in Kept(s) : \A r \in Kept(s) : s[q] <= s[r]}

(* A new sample, and the removal of one if there are too many. *)
Limited(s, q, d) ==
    LET t == [s EXCEPT ![q] = d]
    IN  IF Cardinality(Kept(t)) > MaxSamples
        THEN {[t EXCEPT ![r] = 0] : r \in Shortest(t)}
        ELSE {t}

(* add: query q has taken d. *)
Add(q, d) ==
    /\ samples' \in IF q \in Kept(samples)
                    THEN {[samples EXCEPT ![q] = Longer(@, d)]}
                    ELSE Limited(samples, q, d)
    /\ slowest' = [slowest EXCEPT ![q] = Longer(@, d)]
    /\ UNCHANGED <<sent, returned>>

Send(i) ==
    /\ sent[i] = Empty /\ samples # Empty
    /\ sent' = [sent EXCEPT ![i] = samples]
    /\ samples' = Empty /\ slowest' = Empty /\ returned' = 0

(* The payload is accepted, is to be discarded, or cannot be encoded. *)
Released(i) ==
    /\ sent' = [sent EXCEPT ![i] = Empty]
    /\ UNCHANGED <<samples, slowest, returned>>

(* Mutant: a sample that comes back replaces the one recorded since. *)
MergeReplaces(s) == samples' = [q \in Query |-> IF s[q] # 0 THEN s[q] ELSE samples[q]]

(* _merge: all samples come back, however many there are then. *)
Merge(s) == samples' = LongerOf(samples, s)

(* The payload is to be retained. *)
Retained(i) ==
    /\ Merge(sent[i])
    /\ slowest' = LongerOf(slowest, sent[i])
    /\ returned' = returned + Cardinality(Kept(sent[i]) \ Kept(samples))
    /\ sent' = [sent EXCEPT ![i] = Empty]

(* A security policy is tightened. *)
Clear ==
    /\ samples' = Empty /\ slowest' = Empty /\ returned' = 0
    /\ UNCHANGED sent

Next ==
    \/ \E q \in Query, d \in Durations : Add(q, d)
    \/ \E i \in Slot : Send(i)
    \/ \E i \in Slot : sent[i] # Empty /\ (Released(i) \/ Retained(i))
    \/ Clear

Spec == Init /\ [][Next]_vars

-----------------------------------------------------------------------------
(* Properties *)

TypeOK ==
    /\ samples \in [Query -> 0..MaxDuration]
    /\ sent \in [Slot -> [Query -> 0..MaxDuration]]
    /\ slowest \in [Query -> 0..MaxDuration]
    /\ returned \in Nat

(* As long as nothing has come back, the samples are the slowest of all    *)
(* executions since the last send: a sample is the slowest execution of    *)
(* its query, and none that was removed was slower than one that is kept.  *)
(* Whatever comes back, the slowest execution of all is not lost, and the  *)
(* number of samples exceeds the configured one by no more than what came. *)
SlowestAreKept ==
    /\ returned = 0 =>
           /\ \A q \in Kept(samples) : /\ samples[q] = slowest[q]
                                       /\ \A r \in Query \ Kept(samples) :
                                              slowest[r] <= samples[q]
           /\ Cardinality(Kept(samples)) < MaxSamples =>
                  Kept(slowest) = Kept(samples)
    /\ MaxSamples > 0 => \A q \in Query : \E r \in Query : samples[r] >= slowest[q]
    /\ Cardinality(Kept(samples)) <= MaxSamples + returned
=============================================================================
