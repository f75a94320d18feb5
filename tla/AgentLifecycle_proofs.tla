----------------------- MODULE AgentLifecycle_proofs -----------------------
(***************************************************************************)
(* Proofs about AgentLifecycle, for any number of data requests and of     *)
(* calls of stop, any answers and any number of runs.                      *)
(***************************************************************************)
EXTENDS AgentLifecycle, TLAPS

(* A job that has its turn with a login request or timer pending. *)
LoginStep(j) ==
    /\ phase[j] \in LoginPhase
    /\ \/ PreconnectAccepted(j)
       \/ LoginRefused(j)
       \/ LoginFailed(j)
       \/ Connected(j)
       \/ Mismatched(j)
       \/ RetryTimer(j)

(* A job that has its turn with the answer to a data request. *)
AnswerStep(j) ==
    /\ phase[j] = "posted"
    /\ Settled(j) \/ Restart(j) \/ BeginStop(j)

(* The steps of Next without the answers that cause them. *)
LEMMA NextCases ==
    ASSUME Next
    PROVE  \/ Start
           \/ InitialHarvest
           \/ InitialHarvested
           \/ Outage
           \/ \E j \in Sender : Post(j)
           \/ \E j \in Stopper : Stop(j)
           \/ \E j \in Job : \/ LoginStep(j)
                             \/ AnswerStep(j)
                             \/ RestartClosed(j)
                             \/ Immediate(j)
                             \/ StopStep(j)
<1>1. ASSUME NEW j \in Job, Login(j)
      PROVE  LoginStep(j)
  <2>1. CASE PreconnectAnswer(j)
    BY <2>1 DEF PreconnectAnswer, LoginStep, LoginPhase
  <2>2. CASE ConnectAnswer(j)
    BY <2>2 DEF ConnectAnswer, LoginStep, LoginPhase
  <2>3. CASE RetryTimer(j)
    BY <2>3 DEF RetryTimer, LoginStep, LoginPhase
  <2>4. QED  BY <1>1, <2>1, <2>2, <2>3 DEF Login
<1>2. ASSUME NEW j \in Job, DataStep(j)
      PROVE  AnswerStep(j) \/ RestartClosed(j) \/ Immediate(j)
  BY <1>2 DEF DataStep, DataAnswer, AnswerStep
<1>3. QED  BY <1>1, <1>2 DEF Next

-----------------------------------------------------------------------------

LEMMA JobFacts ==
    /\ "start" \in Job
    /\ "mismatch" \in Job
    /\ "start" \notin Sender
    /\ "start" \notin Stopping
    /\ Sender \subseteq Job
    /\ Stopper \subseteq Job
BY AgentLifecycleAssumption DEF Job, Stopping

LEMMA GotoType ==
    ASSUME NEW j \in Job, NEW p \in Phase, phase \in [Job -> Phase], Goto(j, p)
    PROVE  phase' \in [Job -> Phase]
BY DEF Goto

LEMMA FinishType ==
    ASSUME NEW j \in Job, phase \in [Job -> Phase], harvestAwaits \subseteq Sender,
           Finish(j)
    PROVE  phase' \in [Job -> Phase] /\ harvestAwaits' \subseteq Sender
BY DEF Finish, Goto, Phase

LEMMA OnConnectType ==
    ASSUME NEW j \in Job, NEW run \in {NoRun} \cup Run, TypeOK, OnConnect(j, run)
    PROVE  /\ state' \in State
           /\ aggRunId' \in {NoRun} \cup Run
           /\ ticking' \in BOOLEAN
           /\ phase' \in [Job -> Phase]
           /\ harvestAwaits' \subseteq Sender
BY GotoType DEF OnConnect, TypeOK, State, Phase

LEMMA NewRun ==
    ASSUME TypeOK, lastRun < MaxRuns
    PROVE  lastRun + 1 \in Run /\ lastRun + 1 \in 0..MaxRuns /\ lastRun + 1 # NoRun
BY AgentLifecycleAssumption DEF TypeOK, Run, NoRun

LEMMA PhasesOfStop == FirstStopPhase \in StopPhase /\ AfterHealth \in StopPhase
BY DEF FirstStopPhase, AfterHealth, StopPhase

(* Every step keeps the types. *)
LEMMA TypeStep == TypeOK /\ [Next]_vars => TypeOK'
<1> SUFFICES ASSUME TypeOK, [Next]_vars
             PROVE  TypeOK'
  OBVIOUS
<1> USE JobFacts
<1>1. CASE Start
  BY <1>1, GotoType DEF Start, Connect, TypeOK, State, Phase, LoginPhase, NoRun
<1>2. CASE InitialHarvest
  BY <1>2 DEF InitialHarvest, TypeOK, Phase
<1>3. CASE InitialHarvested
  BY <1>3, GotoType DEF InitialHarvested, TypeOK, Phase
<1>4. CASE Outage
  BY <1>4 DEF Outage, agentVars, TypeOK
<1>5. ASSUME NEW j \in Sender, Post(j)
      PROVE  TypeOK'
  BY <1>5, GotoType DEF Post, TypeOK, Phase
<1>6. ASSUME NEW j \in Job, BeginStop(j)
      PROVE  TypeOK'
  BY <1>6, PhasesOfStop, GotoType
     DEF BeginStop, NoteOverlap, TypeOK, State, Phase
<1>7. ASSUME NEW j \in Job, LoginStep(j)
      PROVE  TypeOK'
  <2>1. CASE PreconnectAccepted(j)
    BY <2>1, GotoType DEF PreconnectAccepted, TypeOK, Phase, LoginPhase
  <2>2. CASE LoginRefused(j)
    <3>1. CASE j = "start"
      BY <2>2, <3>1, FinishType DEF LoginRefused, TypeOK, State
    <3>2. CASE j # "start"
      <4>1. runId \in {NoRun} \cup Run /\ OnConnect(j, runId)
        BY <2>2, <3>2 DEF LoginRefused, TypeOK
      <4>2. QED  BY <2>2, <3>2, <4>1, OnConnectType DEF LoginRefused, TypeOK
    <3>3. QED  BY <3>1, <3>2
  <2>3. CASE LoginFailed(j)
    BY <2>3, GotoType DEF LoginFailed, TypeOK, Phase, LoginPhase
  <2>4. CASE Connected(j)
    BY <2>4, NewRun, OnConnectType DEF Connected, TypeOK
  <2>5. CASE Mismatched(j)
    <3>1. /\ lastRun' \in 0..MaxRuns
          /\ reqHeaders' \in {NoRun} \cup Run
          /\ state' \in State
          /\ ticking' \in BOOLEAN
          /\ aggRunId' \in {NoRun} \cup Run
          /\ rejected' \in BOOLEAN
      BY <2>5, NewRun, AgentLifecycleAssumption DEF Mismatched, TypeOK, State
    <3>2. phase' \in [Job -> Phase]
      BY <2>5, PhasesOfStop DEF Mismatched, TypeOK, Phase
    <3>3. QED  BY <2>5, <3>1, <3>2 DEF Mismatched, TypeOK
  <2>6. CASE RetryTimer(j)
    BY <2>6, GotoType DEF RetryTimer, TypeOK, Phase, LoginPhase
  <2>7. QED  BY <1>7, <2>1, <2>2, <2>3, <2>4, <2>5, <2>6 DEF LoginStep
<1>8. ASSUME NEW j \in Job, Settled(j)
      PROVE  TypeOK'
  BY <1>8, FinishType DEF Settled, TypeOK
<1>9. ASSUME NEW j \in Job, Restart(j)
      PROVE  TypeOK'
  BY <1>9, GotoType DEF Restart, NoteOverlap, TypeOK, Phase
<1>10. ASSUME NEW j \in Job, RestartClosed(j)
       PROVE  TypeOK'
  BY <1>10, GotoType
     DEF RestartClosed, Connect, TypeOK, State, Phase, LoginPhase, NoRun
<1>11. ASSUME NEW j \in Job, Immediate(j)
       PROVE  TypeOK'
  BY <1>11, FinishType DEF Immediate, TypeOK
<1>12. ASSUME NEW j \in Job, StopStep(j)
       PROVE  TypeOK'
  <2>1. CASE HealthStopped(j)
    BY <2>1, PhasesOfStop, GotoType DEF HealthStopped, TypeOK, Phase
  <2>2. CASE StopClosed(j)
    BY <2>2, FinishType DEF StopClosed, TypeOK, State
  <2>3. CASE StopTick(j)
    BY <2>3, FinishType DEF StopTick, TypeOK
  <2>4. QED  BY <1>12, <2>1, <2>2, <2>3 DEF StopStep
<1>13. CASE UNCHANGED vars
  BY <1>13 DEF vars, TypeOK
<1>14. QED
  BY <1>1, <1>2, <1>3, <1>4, <1>5, <1>6, <1>7, <1>8, <1>9, <1>10, <1>11,
     <1>12, <1>13, NextCases DEF AnswerStep, Stop

LEMMA TypeInit == Init => TypeOK
<1> SUFFICES ASSUME Init
             PROVE  TypeOK
  OBVIOUS
<1>1. lastRun \in 0..MaxRuns
  BY AgentLifecycleAssumption DEF Init
<1>2. phase \in [Job -> Phase]
  BY DEF Init, Phase
<1>3. QED  BY <1>1, <1>2 DEF Init, TypeOK, State

(* TypeOK holds of every behaviour, whatever the collector answers and     *)
(* however starts, restarts and stops interleave.                          *)
THEOREM TypeCorrect == Spec => []TypeOK
BY TypeInit, TypeStep, PTL DEF Spec

-----------------------------------------------------------------------------

(* What makes the properties inductive.  As long as nothing overlaps *)
(* one job at most is under way, it has closed its run and stopped the     *)
(* timers before it logs in, and the initial harvest finds the agent as    *)
(* the login left it.                                                      *)
NothingBeforeStart ==
    phase["start"] = "idle" =>
        /\ \A j \in Job : phase[j] = "idle"
        /\ ~IsConnected
        /\ ~ticking

OneUnderWay ==
    ~overlapped => \A j, k \in Job : UnderWay(j) /\ UnderWay(k) => j = k

LoginWithoutRun ==
    ~overlapped => \A j \in Job : phase[j] \in LoginPhase => ~IsConnected

QuietWhileChanging ==
    ~overlapped => \A j \in Job :
        phase[j] \in {"closing"} \cup LoginPhase \cup StopPhase => ~ticking

HarvestOfStarted ==
    ~overlapped /\ phase["start"] \in {"initialDelay", "initialHarvest"} =>
        state = "started"

Ordered ==
    /\ HeadersOfTheRun
    /\ TicksOnlyWhenStarted
    /\ NothingBeforeStart
    /\ OneUnderWay
    /\ LoginWithoutRun
    /\ QuietWhileChanging
    /\ HarvestOfStarted

IInv == TypeOK /\ Ordered

(* What Finish and OnConnect make of the phases. *)
LEMMA FinishPhase ==
    ASSUME NEW j \in Job, phase \in [Job -> Phase], Finish(j)
    PROVE  /\ ~UnderWay(j)'
           /\ phase'[j] = IF j \in Sender THEN "idle" ELSE "done"
           /\ \A k \in Job \ {j} : phase'[k] = phase[k]
BY DEF Finish, Goto, UnderWay, LoginPhase, StopPhase

LEMMA OnConnectPhase ==
    ASSUME NEW j \in Job, NEW run, phase \in [Job -> Phase], OnConnect(j, run)
    PROVE  /\ phase'[j] \in {"initialDelay", "immediate"}
           /\ phase'[j] = "initialDelay" => j = "start" /\ UNCHANGED ticking
           /\ phase'[j] = "immediate" => ticking'
           /\ state' = "started"
           /\ \A k \in Job \ {j} : phase'[k] = phase[k]
BY DEF OnConnect, Goto

LEMMA GotoPhase ==
    ASSUME NEW j \in Job, NEW p, phase \in [Job -> Phase], Goto(j, p)
    PROVE  /\ phase'[j] = p
           /\ \A k \in Job \ {j} : phase'[k] = phase[k]
BY DEF Goto

(* A job that begins to change the run notes whether it overlaps another. *)
LEMMA BeginsAlone ==
    ASSUME NEW j \in Job, NoteOverlap(j), ~overlapped'
    PROVE  ~overlapped /\ \A k \in Job \ {j} : ~UnderWay(k)
BY DEF NoteOverlap

(* The order in which a run is closed, opened and used is kept by every    *)
(* step.  A job may log in or harvest only after it has become the one job *)
(* under way, and has then closed its run and stopped the timers; a job    *)
(* that begins while it does so sets overlapped, and nothing is claimed    *)
(* any more.                                                               *)
LEMMA OrderedStep == IInv /\ [Next]_vars => Ordered'
<1> SUFFICES ASSUME TypeOK, Ordered, [Next]_vars
             PROVE  Ordered'
  BY DEF IInv
<1> USE JobFacts
    DEF Ordered, HeadersOfTheRun, TicksOnlyWhenStarted, NothingBeforeStart,
        OneUnderWay, LoginWithoutRun, QuietWhileChanging, HarvestOfStarted,
        IsConnected, UnderWay, LoginPhase, StopPhase
<1>0. phase \in [Job -> Phase]
  BY DEF TypeOK
<1>1. CASE Start
  \* NothingBeforeStart: no other job is under way and there is no run yet.
  BY <1>0, <1>1, GotoPhase DEF Start, Connect
<1>2. CASE InitialHarvest
  BY <1>0, <1>2 DEF InitialHarvest
<1>3. CASE InitialHarvested
  \* HarvestOfStarted: the timers start in the state "started".
  BY <1>0, <1>3, GotoPhase DEF InitialHarvested
<1>4. CASE Outage
  BY <1>4 DEF Outage, agentVars
<1>5. ASSUME NEW j \in Sender, Post(j)
      PROVE  Ordered'
  BY <1>0, <1>5, GotoPhase DEF Post
<1>6. ASSUME NEW j \in Job, phase["start"] # "idle", BeginStop(j)
      PROVE  Ordered'
  BY <1>0, <1>6, GotoPhase, BeginsAlone, PhasesOfStop DEF BeginStop
<1>7. ASSUME NEW j \in Job, LoginStep(j)
      PROVE  Ordered'
  <2>1. CASE PreconnectAccepted(j)
    BY <1>0, <1>7, <2>1, GotoPhase DEF LoginStep, PreconnectAccepted
  <2>2. CASE LoginRefused(j)
    <3>1. CASE j = "start"
      BY <1>0, <1>7, <2>2, <3>1, FinishPhase DEF LoginStep, LoginRefused
    <3>2. CASE j # "start"
      \* onConnect runs without a login: the agent is "started" all the same.
      <4>1. OnConnect(j, runId) /\ phase[j] \in LoginPhase
        BY <1>7, <2>2, <3>2 DEF LoginStep, LoginRefused
      <4>2. ~overlapped => \A k \in Job \ {j} : ~UnderWay(k)
        BY <4>1
      <4>3. QED
        BY <1>0, <2>2, <4>1, <4>2, OnConnectPhase DEF LoginRefused
    <3>3. QED  BY <3>1, <3>2
  <2>3. CASE LoginFailed(j)
    BY <1>0, <1>7, <2>3, GotoPhase DEF LoginStep, LoginFailed
  <2>4. CASE Connected(j)
    \* The headers and the run id come with the same answer.
    <3>1. OnConnect(j, lastRun + 1) /\ phase[j] \in LoginPhase
      BY <1>7, <2>4 DEF LoginStep, Connected
    <3>2. ~overlapped => \A k \in Job \ {j} : ~UnderWay(k)
      BY <3>1
    <3>3. QED
      BY <1>0, <2>4, <3>1, <3>2, OnConnectPhase DEF Connected
  <2>5. CASE Mismatched(j)
    <3>1. overlapped'
      BY <2>5 DEF Mismatched
    <3>2. phase["start"] # "idle" /\ phase'["start"] # "idle"
      BY <1>0, <1>7, <2>5, PhasesOfStop DEF LoginStep, Mismatched
    <3>3. QED  BY <3>1, <3>2
  <2>6. CASE RetryTimer(j)
    BY <1>0, <1>7, <2>6, GotoPhase DEF LoginStep, RetryTimer
  <2>7. QED  BY <1>7, <2>1, <2>2, <2>3, <2>4, <2>5, <2>6 DEF LoginStep
<1>8. ASSUME NEW j \in Job, phase[j] = "posted", Settled(j)
      PROVE  Ordered'
  BY <1>0, <1>8, FinishPhase DEF Settled
<1>9. ASSUME NEW j \in Job, phase[j] = "posted", Restart(j)
      PROVE  Ordered'
  BY <1>0, <1>9, GotoPhase, BeginsAlone DEF Restart
<1>10. ASSUME NEW j \in Job, RestartClosed(j)
       PROVE  Ordered'
  \* The run goes before the login begins, and the headers go with it.
  BY <1>0, <1>10, GotoPhase DEF RestartClosed, Connect
<1>11. ASSUME NEW j \in Job, Immediate(j)
       PROVE  Ordered'
  BY <1>0, <1>11, FinishPhase DEF Immediate
<1>12. ASSUME NEW j \in Job, StopStep(j)
       PROVE  Ordered'
  <2>1. CASE HealthStopped(j)
    BY <1>0, <2>1, GotoPhase, PhasesOfStop DEF HealthStopped
  <2>2. CASE StopClosed(j)
    BY <1>0, <2>2, FinishPhase DEF StopClosed
  <2>3. CASE StopTick(j)
    BY <1>0, <2>3, FinishPhase DEF StopTick
  <2>4. QED  BY <1>12, <2>1, <2>2, <2>3 DEF StopStep
<1>13. CASE UNCHANGED vars
  BY <1>13 DEF vars
<1>14. ASSUME NEW j \in Job, AnswerStep(j)
       PROVE  Ordered'
  <2>1. phase[j] = "posted" /\ phase["start"] # "idle"
    BY <1>14 DEF AnswerStep
  <2>2. QED  BY <1>6, <1>8, <1>9, <1>14, <2>1 DEF AnswerStep
<1>15. ASSUME NEW j \in Stopper, Stop(j)
       PROVE  Ordered'
  BY <1>6, <1>15 DEF Stop
<1>16. QED
  BY <1>1, <1>2, <1>3, <1>4, <1>5, <1>7, <1>10, <1>11, <1>12, <1>13, <1>14,
     <1>15, NextCases

LEMMA OrderedAlways == Spec => []IInv
<1>1. ASSUME Init
      PROVE  TypeOK /\ Ordered
  <2>1. TypeOK
    BY <1>1, TypeInit
  <2>2. \A j \in Job : phase[j] = "idle"
    BY <1>1 DEF Init
  <2>3. QED
    BY <1>1, <2>1, <2>2, JobFacts
       DEF Init, Ordered, HeadersOfTheRun, TicksOnlyWhenStarted,
           NothingBeforeStart, OneUnderWay, LoginWithoutRun,
           QuietWhileChanging, HarvestOfStarted, IsConnected, UnderWay,
           LoginPhase, StopPhase
<1>2. QED  BY <1>1, TypeStep, OrderedStep, PTL DEF Spec, IInv
(* Data is posted with the request headers of its own run, and the harvest *)
(* timers run only in the state "started", in every behaviour in which     *)
(* nothing has overlapped.                                                 *)
THEOREM Headers == Spec => []HeadersOfTheRun
BY OrderedAlways, PTL DEF IInv, Ordered

THEOREM Timers == Spec => []TicksOnlyWhenStarted
BY OrderedAlways, PTL DEF IInv, Ordered

(* A run is closed before the next one is opened, in every behaviour in    *)
(* which nothing has overlapped: only a login brings a run, and            *)
(* LoginWithoutRun says that it finds none.                                *)
THEOREM RunsClosed == Spec => RunsAreClosed
<1>1. ASSUME IInv, [Next]_vars, IsConnected, ~overlapped', runId' # runId
      PROVE  runId' = NoRun
  <2>1. ~overlapped
    BY <1>1, NextCases
       DEF vars, Start, InitialHarvest, InitialHarvested, Outage, agentVars,
           Post, Stop, BeginStop, NoteOverlap, LoginStep, PreconnectAccepted,
           LoginRefused, LoginFailed, Connected, Mismatched, RetryTimer,
           AnswerStep, Settled, Restart, RestartClosed, Immediate, StopStep,
           HealthStopped, StopClosed, StopTick
  <2>2. \A j \in Job : ~LoginStep(j)
    BY <1>1, <2>1 DEF IInv, Ordered, LoginWithoutRun, LoginStep
  <2>3. \E j \in Job : RestartClosed(j) \/ StopClosed(j)
    BY <1>1, <2>2, NextCases
       DEF vars, Start, InitialHarvest, InitialHarvested, Outage, agentVars,
           Post, Stop, BeginStop, AnswerStep, Settled, Restart, Immediate,
           StopStep, HealthStopped, StopTick
  <2>4. QED  BY <2>3 DEF RestartClosed, StopClosed
<1>2. IInv /\ [Next]_vars =>
        [IsConnected /\ ~overlapped' => runId' \in {runId, NoRun}]_vars
  BY <1>1
<1>3. QED  BY <1>2, OrderedAlways, PTL DEF Spec, RunsAreClosed

-----------------------------------------------------------------------------

(* The following two hold however restarts and stops interleave, and are   *)
(* inductive as they stand.                                                *)

(* The run a payload names is the run of its URL, whenever data may be     *)
(* posted at all: onConnect reconfigures the aggregators in the same turn  *)
(* as the configuration takes the new run.                                 *)
THEOREM PayloadRun == Spec => []PayloadNamesItsRun
<1> USE DEF PayloadNamesItsRun, IsConnected
<1>1. Init => PayloadNamesItsRun
  BY DEF Init
<1>2. ASSUME PayloadNamesItsRun, [Next]_vars
      PROVE  PayloadNamesItsRun'
  <2>1. ASSUME NEW j \in Job, LoginStep(j)
        PROVE  PayloadNamesItsRun'
    BY <1>2, <2>1
       DEF LoginStep, PreconnectAccepted, LoginRefused, LoginFailed, Connected,
           Mismatched, RetryTimer, OnConnect
  <2>2. ASSUME NEW j \in Job, AnswerStep(j)
        PROVE  PayloadNamesItsRun'
    BY <1>2, <2>2 DEF AnswerStep, Settled, Restart, BeginStop
  <2>3. ASSUME NEW j \in Job,
               RestartClosed(j) \/ Immediate(j) \/ StopStep(j)
        PROVE  PayloadNamesItsRun'
    BY <1>2, <2>3
       DEF RestartClosed, Immediate, StopStep, HealthStopped, StopClosed,
           StopTick
  <2>4. QED
    BY <1>2, <2>1, <2>2, <2>3, NextCases
       DEF vars, Start, InitialHarvest, InitialHarvested, Outage, agentVars,
           Post, Stop, BeginStop
<1>3. QED  BY <1>1, <1>2, PTL DEF Spec

(* An agent in the state "started" has a run, unless a restart has ended   *)
(* without one: no timer that outlives a stop, no second restart and no    *)
(* late answer brings it there otherwise.                                  *)
THEOREM StartedWithRun == Spec => []StartedByLogin
<1> USE DEF StartedByLogin, IsConnected
<1>1. Init => StartedByLogin
  BY DEF Init
<1>2. ASSUME TypeOK, StartedByLogin, [Next]_vars
      PROVE  StartedByLogin'
  <2>1. ASSUME NEW j \in Job, LoginStep(j)
        PROVE  StartedByLogin'
    <3>1. CASE Connected(j)
      BY <1>2, <3>1, NewRun DEF Connected, OnConnect
    <3>2. CASE LoginRefused(j)
      <4>1. state' = "errored" \/ rejected'
        BY <3>2 DEF LoginRefused
      <4>2. QED  BY <4>1
    <3>3. CASE Mismatched(j)
      <4>1. state' = "stopping" \/ rejected'
        BY <3>3 DEF Mismatched
      <4>2. QED  BY <4>1
    <3>4. CASE PreconnectAccepted(j) \/ LoginFailed(j) \/ RetryTimer(j)
      BY <1>2, <3>4 DEF PreconnectAccepted, LoginFailed, RetryTimer
    <3>5. QED  BY <2>1, <3>1, <3>2, <3>3, <3>4 DEF LoginStep
  <2>2. ASSUME NEW j \in Job, AnswerStep(j)
        PROVE  StartedByLogin'
    BY <1>2, <2>2 DEF AnswerStep, Settled, Restart, BeginStop
  <2>3. ASSUME NEW j \in Job,
               RestartClosed(j) \/ Immediate(j) \/ StopStep(j)
        PROVE  StartedByLogin'
    BY <1>2, <2>3
       DEF RestartClosed, Connect, Immediate, StopStep, HealthStopped,
           StopClosed, StopTick
  <2>4. QED
    BY <1>2, <2>1, <2>2, <2>3, NextCases
       DEF vars, Start, Connect, InitialHarvest, InitialHarvested, Outage,
           agentVars, Post, Stop, BeginStop
<1>3. QED  BY <1>1, <1>2, TypeCorrect, PTL DEF Spec

(* So the state, the timers, the request headers and the run agree.        *)
THEOREM Agreement == Spec => []RunsAgree
BY Headers, Timers, StartedWithRun, PTL DEF RunsAgree
=============================================================================
