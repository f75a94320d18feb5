--------------------------- MODULE PriorityQueue ---------------------------
(***************************************************************************)
(* One PriorityQueue (lib/priority-queue.js): the bounded heap every event *)
(* aggregator keeps its events in.  Other code sees add, merge and         *)
(* setLimit as single operations; here the loops of merge and setLimit are *)
(* taken apart, one iteration a step, so that what they amount to can be   *)
(* compared with what they promise.                                        *)
(***************************************************************************)
EXTENDS TopEvents

CONSTANT Limits     \* the limits a configuration may ask for

ASSUME LimitsAssumption == Limits \subseteq Nat

VARIABLES
    limit,      \* this.limit
    seen,       \* this.seen
    data,       \* the values in this._data
    source,     \* what is left in the queue that is being merged in
    pc,         \* "idle", or the loop that is running
    fresh,      \* events nobody has offered yet
    offered     \* every event offered since the limit was last raised,
                \* and those held then

vars == <<limit, seen, data, source, pc, fresh, offered>>

TypeOK ==
    /\ limit \in Limits
    /\ seen \in Nat
    /\ data \subseteq Event
    /\ source \subseteq Event
    /\ pc \in {"idle", "merging", "shrinking"}
    /\ fresh \subseteq Event
    /\ offered \subseteq Event

Init ==
    /\ limit \in Limits
    /\ seen = 0
    /\ data = {}
    /\ source = {}
    /\ pc = "idle"
    /\ fresh = Event
    /\ offered = {}

(* Mutant: only the events that get in are counted as seen. *)
InsertCountsAccepted(e) ==
    /\ data' \in AfterAdd(limit, data, e)
    /\ seen' = IF e \in data' THEN seen + 1 ELSE seen
    /\ offered' = offered \cup {e}

(* The body of add, for a new event and for one a merge hands over. *)
Insert(e) ==
    /\ seen' = seen + 1
    /\ data' \in AfterAdd(limit, data, e)
    /\ offered' = offered \cup {e}

Add(e) ==
    /\ pc = "idle"
    /\ e \in fresh
    /\ fresh' = fresh \ {e}
    /\ Insert(e)
    /\ UNCHANGED <<limit, source, pc>>

(* addSegment of the span aggregator asks getMinimumPriority first: a      *)
(* segment that would be turned away is only counted.  When the limit is   *)
(* zero there is no minimum to ask for, and the call throws.               *)
AddSegment(e) ==
    /\ pc = "idle"
    /\ e \in fresh
    /\ fresh' = fresh \ {e}
    /\ \/ Cardinality(data) < limit /\ Insert(e)
       \/ /\ Cardinality(data) >= limit
          /\ \E m \in Minima(data) :
                IF Priority[e] < Priority[m]
                THEN seen' = seen + 1 /\ offered' = offered \cup {e} /\ UNCHANGED data
                ELSE Insert(e)
       \/ limit = 0 /\ UNCHANGED <<seen, data, offered>>
    /\ UNCHANGED <<limit, source, pc>>

(* merge(events): an empty source returns at once. *)
Merge(S) ==
    /\ pc = "idle"
    /\ S # {} /\ S \subseteq fresh
    /\ fresh' = fresh \ S
    /\ source' = S
    /\ pc' = "merging"
    /\ UNCHANGED <<limit, seen, data, offered>>

(* One turn of `while (events.length)': the lowest key first. *)
MergeOne ==
    /\ pc = "merging"
    /\ \E e \in Minima(source) :
        /\ source' = source \ {e}
        /\ Insert(e)
    /\ pc' = IF source' = {} THEN "idle" ELSE "merging"
    /\ UNCHANGED <<limit, fresh>>

(* setLimit(newLimit) up to its loop.  Raising the limit cannot bring back *)
(* what has been dropped, so from then on the queue owes no more than what *)
(* it holds.                                                               *)
SetLimit(newLimit) ==
    /\ pc = "idle"
    /\ limit' = newLimit
    /\ pc' = IF Cardinality(data) > newLimit THEN "shrinking" ELSE "idle"
    /\ offered' = IF newLimit > limit THEN data ELSE offered
    /\ UNCHANGED <<seen, data, source, fresh>>

(* One turn of `while (this.length > newLimit)'. *)
ExtractMinimum ==
    /\ pc = "shrinking"
    /\ \E m \in Minima(data) : data' = data \ {m}
    /\ pc' = IF Cardinality(data') > limit THEN "shrinking" ELSE "idle"
    /\ UNCHANGED <<limit, seen, source, fresh, offered>>

Next ==
    \/ \E e \in Event : Add(e) \/ AddSegment(e)
    \/ \E S \in SUBSET Event : Merge(S)
    \/ MergeOne
    \/ \E newLimit \in Limits : SetLimit(newLimit)
    \/ ExtractMinimum

Spec == Init /\ [][Next]_vars

-----------------------------------------------------------------------------
(* Properties *)

(* However adds, merges and changes of the limit follow one another, a     *)
(* queue at rest never holds more than its limit: neither the replacement  *)
(* in a full heap nor a merge of another full queue lets it grow past it.  *)
Bounded == pc # "shrinking" => Cardinality(data) <= limit

(* No event is turned away or evicted while one of lower priority is kept, *)
(* and none at all while there is room: whatever the order in which events *)
(* come, the queue holds the best of those offered to it.                  *)
KeepsBest ==
    /\ data \subseteq offered
    /\ \A e \in data, f \in offered \ data : Priority[f] <= Priority[e]
    /\ Cardinality(data) < limit => data = offered

(* overflow() = 0 tells event-aggregator.js (add, line 53) that no event   *)
(* was dropped; it is right, counting from the last time the limit rose.   *)
OverflowIsHonest ==
    pc = "idle" /\ OverflowOf(limit, seen) = 0 => data = offered
=============================================================================
