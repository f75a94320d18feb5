--------------------------- MODULE EventDelivery ---------------------------
(***************************************************************************)
(* What the event aggregators, taken together, promise for the events the  *)
(* application records: an event is held by the agent until the collector  *)
(* has it or the agent drops it, it is delivered at least once in the      *)
(* first case, and what the agent has let go of never comes back.  An      *)
(* event may be both delivered and held (the answer was lost, it will be   *)
(* sent again) and may then be dropped as well.                            *)
(***************************************************************************)
CONSTANT Event

VARIABLES
    fresh,      \* not recorded yet
    held,       \* somewhere in the agent
    delivered,  \* received by the collector
    dropped     \* given up by the agent

vars == <<fresh, held, delivered, dropped>>

Init ==
    /\ fresh = Event
    /\ held = {}
    /\ delivered = {}
    /\ dropped = {}

(* A new event is taken in; at most one event pays for it, maybe itself. *)
Record(e) ==
    /\ e \in fresh
    /\ fresh' = fresh \ {e}
    /\ \E x \in {{}} \cup {{d} : d \in held \cup {e}} :
        /\ held' = (held \cup {e}) \ x
        /\ dropped' = dropped \cup x
    /\ UNCHANGED delivered

(* The collector has received the events of d and says so. *)
Deliver(d) ==
    /\ held' = held \ d
    /\ delivered' = delivered \cup d
    /\ UNCHANGED <<fresh, dropped>>

(* The collector has received d, which may be empty; the agent does not    *)
(* know, and keeps what it has room for.                                   *)
Keep(d, x) ==
    /\ held' = held \ x
    /\ delivered' = delivered \cup d
    /\ dropped' = dropped \cup x
    /\ UNCHANGED fresh

Next ==
    \/ \E e \in Event : Record(e)
    \/ \E d \in SUBSET held : Deliver(d)
    \/ \E d, x \in SUBSET held : Keep(d, x)

Spec == Init /\ [][Next]_vars
=============================================================================
