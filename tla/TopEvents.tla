----------------------------- MODULE TopEvents -----------------------------
(***************************************************************************)
(* What lib/priority-queue.js computes: the best `limit' events of the     *)
(* ones it was given.  An event is an element of Event, and Priority[e] is *)
(* the key it sits at in the heap: the priority its transaction was given, *)
(* or the random number drawn when it has none (add, line 36).  The key    *)
(* never changes afterwards, a merge carries it over, so it is a constant. *)
(* The order of equal keys is an accident of the heap's shape and is left  *)
(* open.                                                                   *)
(***************************************************************************)
EXTENDS Integers, FiniteSets

CONSTANTS
    Event,      \* every event the application may record
    Priority    \* the key of each event

ASSUME PriorityAssumption == Priority \in [Event -> Nat]

(* Mutant: a heap that keeps its largest key on top. *)
MinimaOfMaxHeap(D) == {e \in D : \A f \in D : Priority[f] <= Priority[e]}

(* What extractMinimum may take out of a heap that holds D. *)
Minima(D) == {e \in D : \A f \in D : Priority[e] <= Priority[f]}

(* The best k events of S, or all of them when there are no more than k. *)
Top(k, S) ==
    {D \in SUBSET S :
        /\ Cardinality(D) = IF Cardinality(S) <= k THEN Cardinality(S) ELSE k
        /\ \A e \in D, f \in S \ D : Priority[f] <= Priority[e]}

(* add: what a heap with the given limit may hold after e is added to D.   *)
(* A full heap takes e only at the price of an older event of strictly     *)
(* lower key; a limit of zero takes nothing.                               *)
AfterAdd(limit, D, e) ==
    IF limit = 0 THEN {D}
    ELSE IF Cardinality(D) # limit THEN {D \cup {e}}
    ELSE IF \E m \in Minima(D) : Priority[m] < Priority[e]
         THEN {(D \cup {e}) \ {m} : m \in Minima(D)}
         ELSE {D}

(* overflow: how many of the events seen the limit has no room for. *)
OverflowOf(limit, seen) == IF seen >= limit THEN seen - limit ELSE 0
=============================================================================
