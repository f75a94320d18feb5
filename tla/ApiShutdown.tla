---------------------------- MODULE ApiShutdown ----------------------------
(***************************************************************************)
(* API.shutdown (_doShutdown in api.js): it may wait for the application   *)
(* to be idle, for the agent to start, for a forced harvest, and for a     *)
(* timeout, before it calls Agent.stop with the caller's callback.         *)
(*                                                                         *)
(* Its listeners run inside Agent.setState, in the same turn of the event  *)
(* loop, so the agent is modelled here as far as they see it: its state,   *)
(* whether it has a run, and at most one login at a time (AgentLifecycle   *)
(* takes logins apart).  That a forced harvest calls back is shown by      *)
(* EventAggregator.  A stop the agent makes by itself (410) is that of a   *)
(* caller without options.                                                 *)
(***************************************************************************)
EXTENDS Naturals

CONSTANTS
    Caller,             \* calls of shutdown; each is made at most once
    Options,            \* the sets of options a call may be made with
    HealthReporting,    \* whether the health reporter is enabled
    MaxTransactions,    \* bound on the transactions of the application
    MaxLogins           \* bound on the runs of the agent

(* "timeout" stands for a timeout that is a number; another is ignored. *)
Option == {"waitForIdle", "collectPendingData", "timeout"}

ASSUME ApiShutdownAssumption ==
    /\ Options \in [Caller -> SUBSET SUBSET Option]
    /\ HealthReporting \in BOOLEAN
    /\ MaxTransactions \in Nat
    /\ MaxLogins \in Nat

VARIABLES
    state,      \* Agent._state
    connected,  \* whether the collector has a run
    login,      \* the login under way, or the restart that leads to one
    logins,     \* how many have succeeded
    active,     \* agent.activeTransactions
    begun,      \* how many transactions have begun
    options,    \* the options of each call
    called,     \* whether shutdown has been called
    waiting,    \* "transactionFinished" listeners of each call
    queued,     \* its setImmediate callbacks
    timers,     \* its timeouts
    listening,  \* its "started" and "errored" listeners
    harvests,   \* its forced harvests under way
    health,     \* its stops that wait for the health reporter
    closing,    \* its stops that wait for the collector
    returned    \* how often its callback has run

(* Variables only the properties read. *)
VARIABLES
    sawIdle,    \* no transaction was active at some moment since the call
    flushed,    \* a forced harvest of the call has ended
    excused,    \* its timeout has fired, or it has heard "errored"
    stranded    \* it listens, with no timeout, to an agent that has no login
                \* or whose login has ended without a word

agentVars == <<state, connected, login, logins>>
idleVars  == <<active, begun, options, called, waiting, queued, sawIdle>>
waitVars  == <<timers, listening, harvests, flushed, excused, stranded>>
vars == <<state, connected, login, logins, active, begun, options, called,
          waiting, queued, timers, listening, harvests, health, closing, returned,
          sawIdle, flushed, excused, stranded>>

State == {"connecting", "started", "stopping", "stopped", "errored"}

Plus(f, g) == [c \in Caller |-> f[c] + g[c]]
Zero == [c \in Caller |-> 0]
One(c) == [d \in Caller |-> IF d = c THEN 1 ELSE 0]

(* index.js has started the agent when the application gets the API; one   *)
(* without a license key is errored by then.                               *)
Init ==
    /\ \/ state = "connecting" /\ login = "start"
       \/ state = "errored" /\ login = "none"
    /\ connected = FALSE
    /\ logins = 0
    /\ active = 0
    /\ begun = 0
    /\ options \in [Caller -> SUBSET Option]
    /\ \A c \in Caller : options[c] \in Options[c]
    /\ called = [c \in Caller |-> FALSE]
    /\ waiting = Zero
    /\ queued = Zero
    /\ timers = Zero
    /\ listening = Zero
    /\ harvests = Zero
    /\ health = Zero
    /\ closing = Zero
    /\ returned = Zero
    /\ sawIdle = [c \in Caller |-> FALSE]
    /\ flushed = [c \in Caller |-> FALSE]
    /\ excused = [c \in Caller |-> FALSE]
    /\ stranded = [c \in Caller |-> FALSE]

-----------------------------------------------------------------------------
(* Stopping *)

(* Agent.stop, n[c] times with the callback of c, while the agent has a    *)
(* run or not and cl and ret are the stops at the collector and the        *)
(* callbacks run.  Without a run the callback comes in the same turn.      *)
AgentStop(n, run, cl, ret) ==
    /\ state' = "stopping"
    /\ IF HealthReporting
       THEN health' = Plus(health, n) /\ closing' = cl /\ returned' = ret
       ELSE /\ UNCHANGED health
            /\ closing' = IF run THEN Plus(cl, n) ELSE cl
            /\ returned' = IF run THEN ret ELSE Plus(ret, n)

(* The agent emits "errored": every listener calls Agent.stop. *)
Errored(run, cl, ret) ==
    IF \E c \in Caller : listening[c] > 0
    THEN AgentStop(listening, run, cl, ret)
    ELSE /\ state' = "errored"
         /\ closing' = cl
         /\ returned' = ret
         /\ UNCHANGED health

HeardErrored == excused' = [c \in Caller |-> excused[c] \/ listening[c] > 0]

(* The health reporter has written its file. *)
HealthWritten(c) ==
    /\ health[c] > 0
    /\ health' = [health EXCEPT ![c] = @ - 1]
    /\ \/ connected /\ closing' = Plus(closing, One(c)) /\ UNCHANGED returned
       \/ ~connected /\ returned' = Plus(returned, One(c)) /\ UNCHANGED closing
    /\ UNCHANGED <<agentVars, idleVars, waitVars>>

(* The collector has answered the shutdown of the run, or has not. *)
StopClosed(c) ==
    LET cl == [closing EXCEPT ![c] = @ - 1]
        ret == Plus(returned, One(c))
    IN  /\ closing[c] > 0
        /\ connected' = FALSE
        /\ \/ /\ state' = "stopped"
              /\ closing' = cl
              /\ returned' = ret
              /\ UNCHANGED <<health, excused>>
           \/ Errored(FALSE, cl, ret) /\ HeardErrored
        /\ UNCHANGED <<login, logins, idleVars, timers, listening, harvests,
                       flushed, stranded>>

-----------------------------------------------------------------------------
(* Shutting down *)

StopNow(c) ==
    /\ "collectPendingData" \notin options[c]
    /\ AgentStop(One(c), connected, closing, returned)
    /\ UNCHANGED <<timers, listening, harvests, stranded>>

(* Mutant: a started agent is stopped while its harvest is under way. *)
HarvestNowAndStop(c) ==
    /\ "collectPendingData" \in options[c]
    /\ state = "started"
    /\ harvests' = Plus(harvests, One(c))
    /\ AgentStop(One(c), connected, closing, returned)
    /\ UNCHANGED <<timers, listening, stranded>>

HarvestNow(c) ==
    /\ "collectPendingData" \in options[c]
    /\ state = "started"
    /\ harvests' = Plus(harvests, One(c))
    /\ UNCHANGED <<state, health, closing, returned, timers, listening, stranded>>

(* Mutant: the timeout is not set. *)
ListenWithoutTimeout(c) ==
    /\ "collectPendingData" \in options[c]
    /\ state # "started"
    /\ listening' = Plus(listening, One(c))
    /\ stranded' = [stranded EXCEPT ![c] = @ \/ (login = "none" /\ "timeout" \notin options[c])]
    /\ UNCHANGED <<state, health, closing, returned, timers, harvests>>

(* The agent has not started: wait for it, or for the timeout. *)
Listen(c) ==
    /\ "collectPendingData" \in options[c]
    /\ state # "started"
    /\ listening' = Plus(listening, One(c))
    /\ timers' = IF "timeout" \in options[c] THEN Plus(timers, One(c)) ELSE timers
    /\ stranded' = [stranded EXCEPT ![c] = @ \/ (login = "none" /\ "timeout" \notin options[c])]
    /\ UNCHANGED <<state, health, closing, returned, harvests>>

(* _doShutdown, when it need not wait for the application. *)
DoShutdown(c) ==
    /\ StopNow(c) \/ HarvestNow(c) \/ Listen(c)
    /\ UNCHANGED <<connected, login, logins, flushed, excused>>

(* shutdown, called by the application. *)
Shutdown(c) ==
    /\ ~called[c]
    /\ called' = [called EXCEPT ![c] = TRUE]
    /\ sawIdle' = [sawIdle EXCEPT ![c] = active = 0]
    /\ \/ /\ "waitForIdle" \in options[c] /\ active > 0
          /\ options' = [options EXCEPT ![c] = @ \ {"waitForIdle"}]
          /\ waiting' = Plus(waiting, One(c))
          /\ UNCHANGED <<agentVars, waitVars, health, closing, returned>>
       \/ /\ ~("waitForIdle" \in options[c] /\ active > 0)
          /\ DoShutdown(c)
          /\ UNCHANGED <<options, waiting>>
    /\ UNCHANGED <<active, begun, queued>>

TransactionBegin ==
    /\ begun < MaxTransactions
    /\ begun' = begun + 1
    /\ active' = active + 1
    /\ UNCHANGED <<agentVars, waitVars, health, closing, returned, options,
                   called, waiting, queued, sawIdle>>

(* The listeners stay: each time the last transaction ends they queue the  *)
(* shutdown again.                                                         *)
TransactionEnd ==
    /\ active > 0
    /\ active' = active - 1
    /\ queued' = IF active' = 0 THEN Plus(queued, waiting) ELSE queued
    /\ sawIdle' = [c \in Caller |-> sawIdle[c] \/ (called[c] /\ active' = 0)]
    /\ UNCHANGED <<agentVars, waitVars, health, closing, returned, begun,
                   options, called, waiting>>

(* setImmediate: the shutdown goes on, whatever has begun meanwhile. *)
Idle(c) ==
    /\ queued[c] > 0
    /\ queued' = [queued EXCEPT ![c] = @ - 1]
    /\ DoShutdown(c)
    /\ UNCHANGED <<active, begun, options, called, waiting, sawIdle>>

(* afterHarvest *)
Harvested(c) ==
    /\ harvests[c] > 0
    /\ harvests' = [harvests EXCEPT ![c] = @ - 1]
    /\ flushed' = [flushed EXCEPT ![c] = TRUE]
    /\ AgentStop(One(c), connected, closing, returned)
    /\ UNCHANGED <<connected, login, logins, idleVars, timers, listening,
                   excused, stranded>>

(* shutdownTimeout; nothing cancels it. *)
TimedOut(c) ==
    /\ timers[c] > 0
    /\ timers' = [timers EXCEPT ![c] = @ - 1]
    /\ excused' = [excused EXCEPT ![c] = TRUE]
    /\ AgentStop(One(c), connected, closing, returned)
    /\ UNCHANGED <<connected, login, logins, idleVars, listening, harvests,
                   flushed, stranded>>

-----------------------------------------------------------------------------
(* The agent *)

(* Mutant: a restart is not announced. *)
StartedQuietly ==
    /\ state' = "started"
    /\ harvests' = IF login = "start" THEN Plus(harvests, listening) ELSE harvests
    /\ UNCHANGED <<health, closing, returned, excused>>

(* The agent emits "started": every listener forces a harvest. *)
Started ==
    /\ state' = "started"
    /\ harvests' = Plus(harvests, listening)
    /\ UNCHANGED <<health, closing, returned, excused>>

LoginSucceeds ==
    /\ login \in {"start", "restart"}
    /\ login' = "none"
    /\ connected' = TRUE
    /\ logins < MaxLogins
    /\ logins' = logins + 1
    /\ Started
    /\ UNCHANGED <<idleVars, timers, listening, flushed, stranded>>

(* A restart that is refused, or whose answer does not confirm high        *)
(* security, says "started" all the same.                                  *)
LoginRefused ==
    /\ login \in {"start", "restart"}
    /\ login' = "none"
    /\ \/ /\ login = "start"
          /\ Errored(connected, closing, returned)
          /\ HeardErrored
          /\ UNCHANGED harvests
       \/ login = "restart" /\ Started
    /\ UNCHANGED <<connected, logins, idleVars, timers, listening, flushed,
                   stranded>>

(* The answer to the first login does not confirm high security            *)
(* (Config.onConnect): the agent stops by itself, without a run to close,  *)
(* and start finds no connection and no error, and says neither "started"  *)
(* nor "errored".                                                          *)
LoginMismatched ==
    /\ login = "start"
    /\ login' = "none"
    /\ state' = "stopping"
    /\ stranded' = [c \in Caller |->
          stranded[c] \/ (listening[c] > 0 /\ "timeout" \notin options[c])]
    /\ UNCHANGED <<connected, logins, idleVars, timers, listening, harvests,
                   health, closing, returned, flushed, excused>>

(* A data request is answered with a restart: the run is closed first. *)
Restart ==
    /\ connected
    /\ login = "none"
    /\ logins < MaxLogins
    /\ login' = "closing"
    /\ UNCHANGED <<state, connected, logins, idleVars, waitVars, health,
                   closing, returned>>

RestartClosed ==
    /\ login = "closing"
    /\ login' = "restart"
    /\ connected' = FALSE
    /\ state' = "connecting"
    /\ UNCHANGED <<logins, idleVars, waitVars, health, closing, returned>>

ShutdownStep(c) == Idle(c) \/ Harvested(c) \/ TimedOut(c)
StopStep(c) == HealthWritten(c) \/ StopClosed(c)

Next ==
    \/ \E c \in Caller : Shutdown(c)
    \/ \E c \in Caller : ShutdownStep(c)
    \/ \E c \in Caller : StopStep(c)
    \/ TransactionBegin
    \/ TransactionEnd
    \/ LoginSucceeds
    \/ LoginRefused
    \/ LoginMismatched
    \/ Restart
    \/ RestartClosed

(* Timers and setImmediate run, and the health file is written or is not.  *)
(* Transactions need not end, a login may be retried for ever, and the     *)
(* collector need not answer: a request has no time limit.                 *)
Fairness ==
    \A c \in Caller : WF_vars(Idle(c)) /\ WF_vars(TimedOut(c)) /\ WF_vars(HealthWritten(c))

Spec == Init /\ [][Next]_vars /\ Fairness

-----------------------------------------------------------------------------
(* Properties *)

Counts == [Caller -> Nat]
Flags == [Caller -> BOOLEAN]

TypeOK ==
    /\ state \in State
    /\ connected \in BOOLEAN
    /\ login \in {"none", "start", "closing", "restart"}
    /\ logins \in 0..MaxLogins
    /\ active \in 0..begun
    /\ begun \in 0..MaxTransactions
    /\ options \in [Caller -> SUBSET Option]
    /\ called \in Flags
    /\ waiting \in Counts
    /\ queued \in Counts
    /\ timers \in Counts
    /\ listening \in Counts
    /\ harvests \in Counts
    /\ health \in Counts
    /\ closing \in Counts
    /\ returned \in Counts
    /\ sawIdle \in Flags
    /\ flushed \in Flags
    /\ excused \in Flags
    /\ stranded \in Flags

StopBegun(c) == health[c] + closing[c] + returned[c] > 0

(* collectPendingData: the agent is not stopped for this call before a     *)
(* forced harvest has ended, unless the timeout fired or the agent failed. *)
CollectsFirst ==
    \A c \in Caller :
        "collectPendingData" \in options[c] /\ StopBegun(c) =>
            flushed[c] \/ excused[c]

(* waitForIdle: a shutdown that had to wait neither stops, harvests nor    *)
(* listens before a moment with no active transaction.                     *)
WaitsForIdle ==
    \A c \in Caller :
        /\ waiting[c] > 0
        /\ StopBegun(c) \/ harvests[c] + listening[c] > 0
        => sawIdle[c]

(* A shutdown does not run ahead of what its options make it wait for: an  *)
(* idle moment, and the last harvest (_doShutdown).                        *)
WaitsAsAsked == CollectsFirst /\ WaitsForIdle

(* The callback runs once, and the agent is stopped once, for a call that  *)
(* has registered no listener; whatever comes twice comes from a listener  *)
(* that stays.                                                             *)
OnceWithoutListeners ==
    \A c \in Caller :
        waiting[c] + listening[c] = 0 =>
            health[c] + closing[c] + returned[c] + harvests[c] + queued[c] <= 1

(* Once a shutdown listens, an agent that starts, or comes back from a     *)
(* restart, is on its way to being stopped.                                *)
NotLeftRunning ==
    \A c \in Caller : listening[c] > 0 /\ state = "started" => harvests[c] > 0

Prompt(c) == "timeout" \in options[c] \/ "collectPendingData" \notin options[c]

(* The callback of shutdown comes if the application falls idle again and  *)
(* again.  It does not come if the collector leaves the last harvest, or   *)
(* the close of the run, unanswered for ever, nor, without a timeout, if   *)
(* the login does not end; and a call without a timeout that collects data *)
(* is stranded when the agent will neither start nor fail any more.        *)
CallbackComes ==
    []<>(active = 0) =>
        \A c \in Caller :
            \/ []<>(called[c] => returned[c] > 0 \/ stranded[c])
            \/ <>[](harvests[c] + closing[c] > 0)
            \/ <>[](login # "none" /\ ~Prompt(c))
=============================================================================
