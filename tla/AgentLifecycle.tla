--------------------------- MODULE AgentLifecycle ---------------------------
(***************************************************************************)
(* The life of an agent run: Agent.start, onConnect and stop of            *)
(* lib/agent.js over the connect, restart and shutdown sequences of        *)
(* lib/collector/api.js, with data requests in flight.                     *)
(*                                                                         *)
(* The code is callbacks on one thread.  A job is a chain of them: the     *)
(* start of the agent, one data request with whatever its answer sets off, *)
(* or one call of stop; phase[j] names the callback job j waits for.  An   *)
(* action is one turn of the event loop.  The collector is external and    *)
(* answers each request once.                                              *)
(***************************************************************************)
EXTENDS CollectorResponse, FiniteSets

CONSTANTS
    Sender,             \* data requests that may be in flight together
    Stopper,            \* calls of stop the application or its hooks make
    Answers,            \* the answers the collector may give
    MaxRuns,            \* bound on the runs the collector hands out
    HealthReporting,    \* whether the health reporter is enabled
    HighSecurity,       \* config.high_security
    ImmediateHarvest    \* the negation of config.no_immediate_harvest

ASSUME AgentLifecycleAssumption ==
    /\ MaxRuns \in Nat
    /\ HealthReporting \in BOOLEAN
    /\ HighSecurity \in BOOLEAN
    /\ ImmediateHarvest \in BOOLEAN
    /\ Sender \cap Stopper = {}
    /\ {"start", "mismatch"} \cap (Sender \cup Stopper) = {}

(* "mismatch" is the stop that Agent._enabledChange calls when the         *)
(* collector does not confirm high security mode.                          *)
Stopping == Stopper \cup {"mismatch"}
Job == {"start"} \cup Sender \cup Stopping

NoRun == 0
Run == 1..MaxRuns

VARIABLES
    state,          \* Agent._state
    agentEnabled,   \* config.agent_enabled
    licensed,       \* whether config.license_key is set
    runId,          \* config.run_id
    aggRunId,       \* runId of the aggregators
    reqHeaders,     \* _reqHeadersMap, as the run whose answer brought it
    ticking,        \* whether the harvest timers run
    phase,          \* what each job waits for
    harvestAwaits,  \* data requests the initial harvest waits for
    lastRun,        \* how many runs the collector has handed out
    outage          \* whether the collector is failing

(* Variables only the properties read. *)
VARIABLES
    rejected,       \* a restart has ended without a connection
    overlapped      \* a restart or a stop has begun while another one, or
                    \* the start of the agent, was under way

agentVars == <<state, agentEnabled, licensed, runId, aggRunId, reqHeaders,
               ticking, phase, harvestAwaits>>
vars == <<state, agentEnabled, licensed, runId, aggRunId, reqHeaders, ticking,
          phase, harvestAwaits, lastRun, outage, rejected, overlapped>>

LoginPhase == {"preconnect", "connect", "backoff"}
StopPhase == {"health", "stopClosing", "nextTick"}
Phase == {"idle", "posted", "closing", "initialDelay", "initialHarvest",
          "immediate", "done"} \cup LoginPhase \cup StopPhase

State == {"stopped", "starting", "connecting", "connected", "started",
          "disconnected", "stopping", "errored"}

IsConnected == runId # NoRun

Init ==
    /\ state = "stopped"
    /\ agentEnabled = TRUE       \* index.js makes no agent otherwise
    /\ licensed \in BOOLEAN
    /\ runId = NoRun
    /\ aggRunId = NoRun
    /\ reqHeaders = NoRun
    /\ ticking = FALSE
    /\ phase = [j \in Job |-> "idle"]
    /\ harvestAwaits = {}
    /\ lastRun = 0
    /\ outage \in BOOLEAN
    /\ rejected = FALSE
    /\ overlapped = FALSE

Goto(j, p) == phase' = [phase EXCEPT ![j] = p]

(* What job j does when the callback it carries has run: a data request    *)
(* makes room for another, and the initial harvest hears of it.            *)
Finish(j) ==
    /\ Goto(j, IF j \in Sender THEN "idle" ELSE "done")
    /\ harvestAwaits' = harvestAwaits \ {j}

UnderWay(j) ==
    phase[j] \in {"closing", "initialDelay", "initialHarvest"}
                    \cup LoginPhase \cup StopPhase

NoteOverlap(j) ==
    overlapped' = (overlapped \/ \E k \in Job \ {j} : UnderWay(k))

-----------------------------------------------------------------------------
(* Starting and connecting *)

(* CollectorAPI.connect, up to the request it sends. *)
Connect(j) ==
    /\ state' = "connecting"
    /\ reqHeaders' = NoRun
    /\ Goto(j, "preconnect")

(* Agent.start; index.js calls it once. *)
Start ==
    /\ phase["start"] = "idle"
    /\ \/ /\ agentEnabled /\ licensed
          /\ Connect("start")
       \/ /\ ~(agentEnabled /\ licensed)
          /\ state' = IF agentEnabled THEN "errored" ELSE "stopped"
          /\ Goto("start", "done")
          /\ UNCHANGED reqHeaders
    /\ UNCHANGED <<agentEnabled, licensed, runId, aggRunId, ticking,
                   harvestAwaits, lastRun, outage, rejected, overlapped>>

(* Mutant: the aggregators are not told of the new run. *)
OnConnectWithoutUpdate(j, run) ==
    /\ state' = "started"
    /\ IF j = "start" /\ ImmediateHarvest
       THEN Goto(j, "initialDelay") /\ UNCHANGED ticking
       ELSE Goto(j, "immediate") /\ ticking' = TRUE
    /\ UNCHANGED <<harvestAwaits, aggRunId>>

(* Agent.onConnect for job j: the aggregators are reconfigured, then       *)
(* either the timers start at once or, for the start of the agent, after   *)
(* an initial harvest.                                                     *)
OnConnect(j, run) ==
    /\ aggRunId' = run
    /\ state' = "started"
    /\ IF j = "start" /\ ImmediateHarvest
       THEN Goto(j, "initialDelay") /\ UNCHANGED ticking
       ELSE Goto(j, "immediate") /\ ticking' = TRUE
    /\ UNCHANGED harvestAwaits

(* The collector has refused the agent for good (410, or a security policy *)
(* it does not accept).  start reports it; restart goes on to onConnect as *)
(* if it had connected.                                                    *)
LoginRefused(j) ==
    /\ IF j = "start"
       THEN /\ state' = "errored"
            /\ Finish(j)
            /\ UNCHANGED <<aggRunId, ticking>>
       ELSE OnConnect(j, runId)
    /\ rejected' = (rejected \/ j # "start")
    /\ UNCHANGED <<agentEnabled, licensed, runId, reqHeaders, lastRun, outage,
                   overlapped>>

(* Anything else that goes wrong in a login: try again after a while. *)
LoginFailed(j) ==
    /\ outage
    /\ Goto(j, "backoff")
    /\ UNCHANGED <<state, agentEnabled, licensed, runId, aggRunId, reqHeaders,
                   ticking, harvestAwaits, lastRun, outage, rejected,
                   overlapped>>

PreconnectAccepted(j) ==
    /\ Goto(j, "connect")
    /\ UNCHANGED <<state, agentEnabled, licensed, runId, aggRunId, reqHeaders,
                   ticking, harvestAwaits, lastRun, outage, rejected,
                   overlapped>>

PreconnectAnswer(j) ==
    /\ phase[j] = "preconnect"
    /\ \E answer \in Answers :
          \/ answer \in SUCCESS /\ PreconnectAccepted(j)
          \/ answer \in SUCCESS /\ LoginRefused(j)      \* by applyLasp
          \/ LoginRefusing(answer) /\ LoginRefused(j)
          \/ LoginRetrying(answer) /\ LoginFailed(j)

(* Mutant: the request headers of the answer are not kept. *)
ConnectedWithoutHeaders(j) ==
    /\ lastRun < MaxRuns
    /\ lastRun' = lastRun + 1
    /\ runId' = lastRun + 1
    /\ OnConnect(j, lastRun + 1)
    /\ UNCHANGED <<agentEnabled, licensed, reqHeaders, outage, rejected,
                   overlapped>>

(* _onConnect with a run: state, headers, configuration and onConnect in   *)
(* one turn.                                                               *)
Connected(j) ==
    /\ lastRun < MaxRuns
    /\ lastRun' = lastRun + 1
    /\ runId' = lastRun + 1
    /\ reqHeaders' = lastRun + 1
    /\ OnConnect(j, lastRun + 1)
    /\ UNCHANGED <<agentEnabled, licensed, outage, rejected, overlapped>>

(* Mutant: without a run there is nothing to do, not even the callback. *)
AfterHealthForgets == IF IsConnected THEN "stopClosing" ELSE "idle"

(* The phase a stop is in once the health reporter has written its file. *)
AfterHealth == IF IsConnected THEN "stopClosing" ELSE "nextTick"
FirstStopPhase == IF HealthReporting THEN "health" ELSE AfterHealth

(* The answer does not confirm high security: Config.onConnect returns     *)
(* before it reads the run id and the agent is told to stop, but the       *)
(* caller still hears of a success.                                        *)
Mismatched(j) ==
    /\ HighSecurity
    /\ lastRun < MaxRuns
    /\ phase["mismatch"] = "idle"
    /\ lastRun' = lastRun + 1
    /\ reqHeaders' = lastRun + 1
    /\ agentEnabled' = FALSE
    /\ overlapped' = TRUE
    /\ IF j = "start" /\ ~IsConnected
       THEN /\ state' = "stopping"
            /\ ticking' = FALSE
            /\ phase' = [phase EXCEPT !["mismatch"] = FirstStopPhase, ![j] = "done"]
            /\ UNCHANGED <<aggRunId, rejected>>
       ELSE /\ state' = "started"
            /\ aggRunId' = runId
            /\ ticking' = ~(j = "start" /\ ImmediateHarvest)
            /\ phase' = [phase EXCEPT
                  !["mismatch"] = FirstStopPhase,
                  ![j] = IF ticking' THEN "immediate" ELSE "initialDelay"]
            /\ rejected' = TRUE
    /\ UNCHANGED <<licensed, runId, harvestAwaits, outage>>

ConnectAnswer(j) ==
    /\ phase[j] = "connect"
    /\ \E answer \in Answers :
          \/ answer \in SUCCESS /\ Connected(j)
          \/ answer \in SUCCESS /\ Mismatched(j)
          \/ answer \in SUCCESS /\ LoginFailed(j)       \* no agent_run_id
          \/ LoginRefusing(answer) /\ LoginRefused(j)
          \/ LoginRetrying(answer) /\ LoginFailed(j)

(* The backoff timer; nothing ever cancels it. *)
RetryTimer(j) ==
    /\ phase[j] = "backoff"
    /\ Goto(j, "preconnect")
    /\ UNCHANGED <<state, agentEnabled, licensed, runId, aggRunId, reqHeaders,
                   ticking, harvestAwaits, lastRun, outage, rejected,
                   overlapped>>

-----------------------------------------------------------------------------
(* Harvests *)

(* The timer of _scheduleHarvests, which no stop cancels: every aggregator *)
(* with data sends it, if there is a run to send it to.                    *)
InitialHarvest ==
    /\ phase["start"] = "initialDelay"
    /\ \E S \in SUBSET {j \in Sender : IsConnected /\ phase[j] = "idle"} :
        /\ harvestAwaits' = S
        /\ phase' = [j \in Job |->
              IF j \in S THEN "posted"
              ELSE IF j = "start" THEN "initialHarvest" ELSE phase[j]]
    /\ UNCHANGED <<state, agentEnabled, licensed, runId, aggRunId, reqHeaders,
                   ticking, lastRun, outage, rejected, overlapped>>

(* afterAllAggregatorsSend: the timers start, and so does the application. *)
InitialHarvested ==
    /\ phase["start"] = "initialHarvest"
    /\ harvestAwaits = {}
    /\ ticking' = TRUE
    /\ Goto("start", "done")
    /\ UNCHANGED <<state, agentEnabled, licensed, runId, aggRunId, reqHeaders,
                   harvestAwaits, lastRun, outage, rejected, overlapped>>

(* A harvest timer fires on an aggregator with data; _runLifecycle lets it *)
(* through when there is a run.  (When there is none the data goes back,   *)
(* see EventAggregator.)                                                   *)
Post(j) ==
    /\ ticking
    /\ IsConnected
    /\ phase[j] = "idle"
    /\ Goto(j, "posted")
    /\ UNCHANGED <<state, agentEnabled, licensed, runId, aggRunId, reqHeaders,
                   ticking, harvestAwaits, lastRun, outage, rejected,
                   overlapped>>

(* Any answer that leaves the run alone, or an error. *)
Settled(j) ==
    /\ Finish(j)
    /\ UNCHANGED <<state, agentEnabled, licensed, runId, aggRunId, reqHeaders,
                   ticking, lastRun, outage, rejected, overlapped>>

(* 401 or 409: CollectorAPI.restart stops the harvester and closes the run. *)
Restart(j) ==
    /\ lastRun < MaxRuns
    /\ ticking' = FALSE
    /\ Goto(j, "closing")
    /\ NoteOverlap(j)
    /\ UNCHANGED <<state, agentEnabled, licensed, runId, aggRunId, reqHeaders,
                   harvestAwaits, lastRun, outage, rejected>>

(* Agent.stop, as far as its first callback. *)
BeginStop(j) ==
    /\ state' = "stopping"
    /\ ticking' = FALSE
    /\ Goto(j, FirstStopPhase)
    /\ NoteOverlap(j)
    /\ UNCHANGED <<agentEnabled, licensed, runId, aggRunId, reqHeaders,
                   harvestAwaits, lastRun, outage, rejected>>

(* The answer to a data request; 410 stops the agent before the aggregator *)
(* hears of it.                                                            *)
DataAnswer(j) ==
    /\ phase[j] = "posted"
    /\ \E answer \in Answers :
          LET run == DataOutcome(answer).agentRun IN
          \/ run = "preserve" /\ Settled(j)
          \/ run = "restart" /\ Restart(j)
          \/ run = "shutdown" /\ BeginStop(j)

(* Mutant: the run id survives the shutdown. *)
RestartClosedKeepsRun(j) ==
    /\ phase[j] = "closing"
    /\ Connect(j)
    /\ UNCHANGED <<runId, agentEnabled, licensed, aggRunId, ticking,
                   harvestAwaits, lastRun, outage, rejected, overlapped>>

(* The answer to the shutdown request of a restart, or its failure. *)
RestartClosed(j) ==
    /\ phase[j] = "closing"
    /\ runId' = NoRun
    /\ Connect(j)
    /\ UNCHANGED <<agentEnabled, licensed, aggRunId, ticking, harvestAwaits,
                   lastRun, outage, rejected, overlapped>>

(* The callback of an onConnect that did not harvest. *)
Immediate(j) ==
    /\ phase[j] = "immediate"
    /\ Finish(j)
    /\ UNCHANGED <<state, agentEnabled, licensed, runId, aggRunId, reqHeaders,
                   ticking, lastRun, outage, rejected, overlapped>>

-----------------------------------------------------------------------------
(* Stopping *)

Stop(j) ==
    /\ phase[j] = "idle"
    /\ phase["start"] # "idle"
    /\ BeginStop(j)

HealthStopped(j) ==
    /\ phase[j] = "health"
    /\ Goto(j, AfterHealth)
    /\ UNCHANGED <<state, agentEnabled, licensed, runId, aggRunId, reqHeaders,
                   ticking, harvestAwaits, lastRun, outage, rejected,
                   overlapped>>

(* The shutdown request of a stop is answered or fails. *)
StopClosed(j) ==
    /\ phase[j] = "stopClosing"
    /\ runId' = NoRun
    /\ state' \in {"stopped", "errored"}
    /\ Finish(j)
    /\ UNCHANGED <<agentEnabled, licensed, aggRunId, reqHeaders, ticking,
                   lastRun, outage, rejected, overlapped>>

(* There was no run to shut down: the callback, and the state stays. *)
StopTick(j) ==
    /\ phase[j] = "nextTick"
    /\ Finish(j)
    /\ UNCHANGED <<state, agentEnabled, licensed, runId, aggRunId, reqHeaders,
                   ticking, lastRun, outage, rejected, overlapped>>

-----------------------------------------------------------------------------

(* The collector starts or stops failing. *)
Outage ==
    /\ outage' = ~outage
    /\ UNCHANGED <<agentVars, lastRun, rejected, overlapped>>

Login(j) == PreconnectAnswer(j) \/ ConnectAnswer(j) \/ RetryTimer(j)
StopStep(j) == HealthStopped(j) \/ StopClosed(j) \/ StopTick(j)
DataStep(j) == DataAnswer(j) \/ RestartClosed(j) \/ Immediate(j)

Next ==
    \/ Start
    \/ \E j \in Job : Login(j)
    \/ InitialHarvest
    \/ InitialHarvested
    \/ \E j \in Sender : Post(j)
    \/ \E j \in Job : DataStep(j)
    \/ \E j \in Stopper : Stop(j)
    \/ \E j \in Job : StopStep(j)
    \/ Outage

(* Every timer fires, what is on the event loop runs, and the health file  *)
(* is written or not.  A request has no time limit: the collector need not *)
(* answer it, nor need it fail.  The application need not call stop,       *)
(* harvest timers need not find data, and an outage need not end.          *)
Fairness ==
    /\ WF_vars(Start)
    /\ WF_vars(InitialHarvest)
    /\ WF_vars(InitialHarvested)
    /\ \A j \in Job :
          /\ WF_vars(RetryTimer(j)) /\ WF_vars(Immediate(j))
          /\ WF_vars(HealthStopped(j)) /\ WF_vars(StopTick(j))

Spec == Init /\ [][Next]_vars /\ Fairness

-----------------------------------------------------------------------------
(* Properties *)

TypeOK ==
    /\ state \in State
    /\ agentEnabled \in BOOLEAN
    /\ licensed \in BOOLEAN
    /\ lastRun \in 0..MaxRuns
    /\ runId \in {NoRun} \cup Run
    /\ aggRunId \in {NoRun} \cup Run
    /\ reqHeaders \in {NoRun} \cup Run
    /\ ticking \in BOOLEAN
    /\ phase \in [Job -> Phase]
    /\ harvestAwaits \subseteq Sender
    /\ outage \in BOOLEAN
    /\ rejected \in BOOLEAN
    /\ overlapped \in BOOLEAN

(* A payload names the run of the aggregator that built it, its URL names  *)
(* the run of the configuration (remote-method.js, _path).  Whenever data  *)
(* may be posted the two agree, however restarts and stops interleave.     *)
PayloadNamesItsRun == IsConnected => aggRunId = runId

(* Data is posted with the request headers that came with its run, as long *)
(* as restarts, stops and the start do not overlap.                        *)
HeadersOfTheRun == IsConnected /\ ~overlapped => reqHeaders = runId

(* A run is closed at the collector before the agent opens another one, as *)
(* long as restarts, stops and the start do not overlap.                   *)
RunsAreClosed ==
    [][IsConnected /\ ~overlapped' => runId' \in {runId, NoRun}]_vars

(* Harvest timers run only while the agent is started, as long as          *)
(* restarts, stops and the start do not overlap.                           *)
TicksOnlyWhenStarted == ticking /\ ~overlapped => state = "started"

(* agent.js, lines 399 to 400: onConnect sets the state to "started" "upon *)
(* full connection to Monis Agent servers".                                *)
StartedMeansConnected == state = "started" => IsConnected

(* It does when no restart has ended without a connection, however         *)
(* restarts and stops interleave.                                          *)
StartedByLogin == state = "started" /\ ~rejected => IsConnected

(* State, timers, request headers and run agree: the three above together. *)
RunsAgree == HeadersOfTheRun /\ TicksOnlyWhenStarted /\ StartedByLogin

(* The phases in which a job has a request at the collector. *)
Asking == {"preconnect", "connect", "posted", "closing", "stopClosing"}

(* What job j waits for is an answer: to a request of its own, or to one   *)
(* that the initial harvest has made.                                      *)
AwaitsAnswer(j) ==
    \/ phase[j] \in Asking
    \/ phase[j] = "initialHarvest" /\ \E k \in harvestAwaits : phase[k] \in Asking

AtRest(j) == phase[j] = IF j \in Sender THEN "idle" ELSE "done"

(* Whoever waits for the agent, the caller of start or stop or an          *)
(* aggregator that sends, is called back through any restarts, refusals,   *)
(* retries and stops; but for a stop, only when the collector recovers for *)
(* good.  The exception is that the collector leaves a request unanswered  *)
(* for ever, since a request has no time limit (remote-method.js).         *)
CallbacksCome ==
    \A j \in Job :
        \/ [](phase[j] = "idle")
        \/ []<>AtRest(j)
        \/ <>[]AwaitsAnswer(j)
        \/ j \notin Stopping /\ []<>outage
=============================================================================
