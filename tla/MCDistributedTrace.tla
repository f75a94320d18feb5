------------------------- MODULE MCDistributedTrace -------------------------
(* Headers and contexts, one part at a time.  Three transactions pass      *)
(* headers on, the second of another account than the others.              *)
EXTENDS Propagation, TLC

CONSTANTS a, b, c, home, away

MCTx == {a, b, c}
MCAccount == {home, away}
MCAccountOf == (a :> home) @@ (b :> away) @@ (c :> home)
MCDecision == {[sampled |-> FALSE, priority |-> 0],
               [sampled |-> FALSE, priority |-> 1],
               [sampled |-> TRUE,  priority |-> 3]}

-----------------------------------------------------------------------------
(* One part works, and the other stands still in a state of its Init. *)
VARIABLE part   \* the part at work
MCVars == <<vars, bridgeVars, part>>

MCInit ==
    /\ part \in {"headers", "bridge"}
    /\ Init
    /\ part = "headers" \/ (keyed[c] /\ wire = {ClientHeaders(home, None)})
    /\ Bridge!Init

MCNext ==
    /\ \/ part = "headers" /\ Next /\ UNCHANGED bridgeVars
       \/ part = "bridge" /\ Bridge!Next /\ UNCHANGED vars
    /\ UNCHANGED part

MCSpec == MCInit /\ [][MCNext]_MCVars
=============================================================================
