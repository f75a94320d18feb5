------------------------- MODULE MCEventAggregator -------------------------
(* Small instances of EventAggregator, one at a time: one aggregator, that *)
(* splits, with three events, and two aggregators with one event each, of  *)
(* which the second stops when it is disabled and empties at zero.         *)
EXTENDS EventAggregator, TLC

CONSTANTS e1, e2, e3, tx, other, startup, shutdown

MCPriority == (e1 :> 1) @@ (e2 :> 2) @@ (e3 :> 2)
MCMethodOf == [e \in {e1, e2, e3} |-> tx]
MCDefault == tx :> 2

-----------------------------------------------------------------------------
VARIABLES enabled2, ticking2, limit2, qLimit2, qSeen2, qData2, sends2, awaits2,
          clearing2, retained2, metric2, fresh2, delivered2, dropped2, handed2,
          resized2, owed2, alone2
vars2 == <<enabled2, ticking2, limit2, qLimit2, qSeen2, qData2, sends2, awaits2,
           clearing2, retained2, metric2, fresh2, delivered2, dropped2, handed2,
           resized2, owed2, alone2>>

Event2 == {e1, e2}
Method2 == {tx, other}
MethodOf2 == (e1 :> tx) @@ (e2 :> other)
Equal == (e1 :> 1) @@ (e2 :> 1)
DefaultLimit2 == (tx :> 1) @@ (other :> 1)
Stopping == {other}
Limits2 == {0}
Answers2 == {0, 202, 413}
Caller2 == {startup, shutdown}

Two == INSTANCE EventAggregator WITH
    Event <- Event2, Priority <- Equal, Method <- Method2, MethodOf <- MethodOf2,
    Splitting <- {}, StopsDisabled <- Stopping, EmptiesAtZero <- Stopping,
    DefaultLimit <- DefaultLimit2, Limits <- Limits2,
    Answers <- Answers2, Caller <- Caller2, MaxRetained <- 0,
    enabled <- enabled2, ticking <- ticking2, limit <- limit2, qLimit <- qLimit2,
    qSeen <- qSeen2, qData <- qData2, sends <- sends2, awaits <- awaits2,
    clearing <- clearing2, retained <- retained2, metric <- metric2,
    fresh <- fresh2, delivered <- delivered2, dropped <- dropped2,
    handed <- handed2, resized <- resized2, owed <- owed2, alone <- alone2

-----------------------------------------------------------------------------
VARIABLE two    \* whether the two aggregators work
MCVars == <<vars, vars2, two>>

MCInit ==
    /\ two \in BOOLEAN
    /\ Init /\ (two => enabled = (tx :> TRUE))
    /\ Two!Init /\ (~two => enabled2 = (tx :> TRUE) @@ (other :> TRUE))

MCNext ==
    \/ ~two /\ Next /\ UNCHANGED <<vars2, two>>
    \/ two /\ Two!Next /\ UNCHANGED <<vars, two>>

TwoStep(A) == two /\ A /\ UNCHANGED <<vars, two>>
OneStep(A) == ~two /\ A /\ UNCHANGED <<vars2, two>>

MCSpec ==
    /\ MCInit
    /\ [][MCNext]_MCVars
    /\ \A c \in Caller : WF_MCVars(OneStep(Cleared(c)))
    /\ \A c \in Caller2 : WF_MCVars(TwoStep(Two!Cleared(c)))

(* A forced harvest calls back, even when an aggregator is disabled,       *)
(* emptied, stopped or sends by its timer meanwhile: shutdown hangs on it. *)
(* The exception is that the collector leaves a request of an aggregator   *)
(* it waits for unanswered for ever, since a request has no time limit     *)
(* (remote-method.js).  The callers are alike.                             *)
Clearing == IF two THEN clearing2[startup] ELSE clearing[startup]
Unanswered == IF two THEN \E s \in sends2 : s.method \in awaits2[startup]
              ELSE \E s \in sends : s.method \in awaits[startup]

HarvestsReturn == []<>~Clearing \/ <>[]Unanswered
=============================================================================
