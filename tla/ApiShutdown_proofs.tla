------------------------- MODULE ApiShutdown_proofs -------------------------
(***************************************************************************)
(* Proofs about ApiShutdown: type correctness, what a shutdown waits for,  *)
(* how often it stops the agent, and that an agent which comes back is     *)
(* stopped again, for any number of calls with any options.                *)
(***************************************************************************)
EXTENDS ApiShutdown, TLAPS

(* The stops of a call, from the first callback to the last. *)
Stops(c) == health[c] + closing[c] + returned[c]

(* What holds of each call: the four invariants, and where its pending     *)
(* callbacks come from.                                                    *)
Sound(c) ==
    /\ ~called[c] => /\ waiting[c] = 0 /\ listening[c] = 0 /\ queued[c] = 0
                     /\ harvests[c] = 0 /\ Stops(c) = 0
    /\ queued[c] > 0 => waiting[c] > 0 /\ sawIdle[c]
    /\ timers[c] > 0 => listening[c] > 0
    /\ "collectPendingData" \in options[c] /\ Stops(c) > 0 =>
           flushed[c] \/ excused[c]
    /\ waiting[c] > 0 /\ (Stops(c) > 0 \/ harvests[c] + listening[c] > 0) =>
           sawIdle[c]
    /\ waiting[c] + listening[c] = 0 => Stops(c) + harvests[c] + queued[c] <= 1
    /\ listening[c] > 0 /\ state = "started" => harvests[c] > 0

IInv == TypeOK /\ \A c \in Caller : Sound(c)

-----------------------------------------------------------------------------
LEMMA PlusType ==
    ASSUME NEW f \in Counts, NEW g \in Counts
    PROVE  /\ Plus(f, g) \in Counts
           /\ \A c \in Caller : Plus(f, g)[c] = f[c] + g[c]
BY DEF Counts, Plus

LEMMA OneType ==
    ASSUME NEW c \in Caller
    PROVE  /\ One(c) \in Counts
           /\ One(c)[c] = 1
           /\ \A d \in Caller : d # c => One(c)[d] = 0
BY DEF Counts, One

LEMMA PlusOne ==
    ASSUME NEW f \in Counts, NEW c \in Caller
    PROVE  /\ Plus(f, One(c)) \in Counts
           /\ Plus(f, One(c))[c] = f[c] + 1
           /\ \A d \in Caller : d # c => Plus(f, One(c))[d] = f[d]
BY PlusType, OneType DEF Counts

LEMMA MinusType ==
    ASSUME NEW f \in Counts, NEW c \in Caller, f[c] > 0
    PROVE  /\ [f EXCEPT ![c] = @ - 1] \in Counts
           /\ [f EXCEPT ![c] = @ - 1][c] = f[c] - 1
           /\ \A d \in Caller : d # c => [f EXCEPT ![c] = @ - 1][d] = f[d]
BY DEF Counts

LEMMA StopsType ==
    ASSUME TypeOK, NEW d \in Caller
    PROVE  /\ Stops(d) \in Nat /\ Stops(d) = health[d] + closing[d] + returned[d]
           /\ health[d] \in Nat /\ closing[d] \in Nat /\ returned[d] \in Nat
           /\ waiting[d] \in Nat /\ queued[d] \in Nat /\ timers[d] \in Nat
           /\ listening[d] \in Nat /\ harvests[d] \in Nat
BY DEF TypeOK, Counts, Stops

(* Agent.stop adds its calls to the stops of each caller. *)
LEMMA StopsAdd ==
    ASSUME NEW n \in Counts, NEW cl \in Counts, NEW ret \in Counts,
           NEW run, health \in Counts,
           AgentStop(n, run, cl, ret)
    PROVE  /\ health' \in Counts /\ closing' \in Counts /\ returned' \in Counts
           /\ state' = "stopping"
           /\ \A d \in Caller :
                 Stops(d)' = health[d] + cl[d] + ret[d] + n[d]
<1>1. /\ Plus(health, n) \in Counts /\ Plus(cl, n) \in Counts /\ Plus(ret, n) \in Counts
      /\ \A d \in Caller : /\ Plus(health, n)[d] = health[d] + n[d]
                           /\ Plus(cl, n)[d] = cl[d] + n[d]
                           /\ Plus(ret, n)[d] = ret[d] + n[d]
  BY PlusType
<1>2. \A d \in Caller : health[d] \in Nat /\ n[d] \in Nat /\ cl[d] \in Nat /\ ret[d] \in Nat
  BY DEF Counts
<1>3. CASE HealthReporting
  BY <1>1, <1>2, <1>3 DEF AgentStop, Stops
<1>4. CASE ~HealthReporting /\ run
  BY <1>1, <1>2, <1>4 DEF AgentStop, Stops
<1>5. CASE ~HealthReporting /\ ~run
  BY <1>1, <1>2, <1>5 DEF AgentStop, Stops
<1>6. QED  BY <1>3, <1>4, <1>5

LEMMA ErroredAdds ==
    ASSUME NEW cl \in Counts, NEW ret \in Counts, NEW run,
           health \in Counts, listening \in Counts,
           Errored(run, cl, ret)
    PROVE  /\ health' \in Counts /\ closing' \in Counts /\ returned' \in Counts
           /\ state' \in {"stopping", "errored"}
           /\ \A d \in Caller :
                 Stops(d)' = health[d] + cl[d] + ret[d] + listening[d]
<1>1. CASE \E c \in Caller : listening[c] > 0
  BY <1>1, StopsAdd DEF Errored
<1>2. CASE ~ \E c \in Caller : listening[c] > 0
  <2>1. \A d \in Caller : listening[d] = 0 /\ health[d] \in Nat /\ cl[d] \in Nat /\ ret[d] \in Nat
    BY <1>2 DEF Counts
  <2>2. state' = "errored" /\ closing' = cl /\ returned' = ret /\ health' = health
    BY <1>2 DEF Errored
  <2>3. QED  BY <2>1, <2>2 DEF Stops
<1>3. QED  BY <1>1, <1>2

LEMMA ZeroType ==
    /\ Zero \in Counts
    /\ \A c \in Caller : Zero[c] = 0
BY DEF Zero, Counts

LEMMA InitInv == Init => IInv
<1> SUFFICES ASSUME Init
             PROVE  IInv
  OBVIOUS
<1>1. /\ waiting = Zero /\ queued = Zero /\ timers = Zero /\ listening = Zero
      /\ harvests = Zero /\ health = Zero /\ closing = Zero /\ returned = Zero
  BY DEF Init
<1>2. called \in Flags /\ sawIdle \in Flags /\ flushed \in Flags
      /\ excused \in Flags /\ stranded \in Flags
  BY DEF Init, Flags
<1>3. state \in State /\ login \in {"none", "start", "closing", "restart"}
      /\ connected \in BOOLEAN
      /\ options \in [Caller -> SUBSET Option]
  BY DEF Init, State
<1>4. logins \in 0..MaxLogins /\ begun \in 0..MaxTransactions /\ active \in 0..begun
  BY ApiShutdownAssumption DEF Init
<1>5. TypeOK
  BY <1>1, <1>2, <1>3, <1>4, ZeroType DEF TypeOK
<1>6. ASSUME NEW c \in Caller
      PROVE  Sound(c)
  <2>1. /\ waiting[c] = 0 /\ queued[c] = 0 /\ timers[c] = 0 /\ listening[c] = 0
        /\ harvests[c] = 0 /\ health[c] = 0 /\ closing[c] = 0 /\ returned[c] = 0
    BY <1>1, ZeroType
  <2>2. Stops(c) = 0
    BY <2>1 DEF Stops
  <2>3. QED  BY <2>1, <2>2 DEF Sound
<1>7. QED  BY <1>5, <1>6 DEF IInv

-----------------------------------------------------------------------------
(* One step of a call of shutdown. *)
LEMMA CallKeeps ==
    ASSUME IInv, NEW c \in Caller, DoShutdown(c)
    PROVE  /\ state' \in State
           /\ timers' \in Counts /\ listening' \in Counts /\ harvests' \in Counts
           /\ health' \in Counts /\ closing' \in Counts /\ returned' \in Counts
           /\ stranded' \in Flags
           /\ \A d \in Caller : d # c =>
                 /\ timers'[d] = timers[d] /\ listening'[d] = listening[d]
                 /\ harvests'[d] = harvests[d] /\ Stops(d)' = Stops(d)
           /\ state' = "started" => state = "started" /\ listening' = listening
           /\ \/ /\ "collectPendingData" \notin options[c]
                 /\ Stops(c)' = Stops(c) + 1
                 /\ UNCHANGED <<timers, listening, harvests>>
              \/ /\ harvests'[c] = harvests[c] + 1
                 /\ Stops(c)' = Stops(c)
                 /\ UNCHANGED <<timers, listening>>
              \/ /\ state' # "started"
                 /\ listening'[c] = listening[c] + 1
                 /\ Stops(c)' = Stops(c)
                 /\ UNCHANGED harvests
<1> USE DEF IInv, TypeOK
<1>1. CASE StopNow(c)
  <2>1. AgentStop(One(c), connected, closing, returned)
        /\ "collectPendingData" \notin options[c]
        /\ UNCHANGED <<timers, listening, harvests, stranded>>
    BY <1>1 DEF StopNow
  <2>2. /\ health' \in Counts /\ closing' \in Counts /\ returned' \in Counts
        /\ state' = "stopping"
        /\ \A d \in Caller :
              Stops(d)' = health[d] + closing[d] + returned[d] + One(c)[d]
    BY <2>1, OneType, StopsAdd
  <2>3. \A d \in Caller : Stops(d) \in Nat /\ Stops(d)' = Stops(d) + One(c)[d]
    BY <2>2 DEF Stops, Counts
  <2>4. Stops(c)' = Stops(c) + 1 /\ \A d \in Caller : d # c => Stops(d)' = Stops(d)
    BY <2>3, OneType
  <2>5. QED  BY <2>1, <2>2, <2>4 DEF State
<1>2. CASE HarvestNow(c)
  <2>1. harvests' = Plus(harvests, One(c))
        /\ UNCHANGED <<state, health, closing, returned, timers, listening, stranded>>
    BY <1>2 DEF HarvestNow
  <2>2. harvests' \in Counts /\ harvests'[c] = harvests[c] + 1
        /\ \A d \in Caller : d # c => harvests'[d] = harvests[d]
    BY <2>1, PlusType, OneType DEF Counts
  <2>3. \A d \in Caller : Stops(d)' = Stops(d)
    BY <2>1 DEF Stops
  <2>4. QED  BY <2>1, <2>2, <2>3
<1>3. CASE Listen(c)
  <2>1. /\ listening' = Plus(listening, One(c))
        /\ timers' \in {timers, Plus(timers, One(c))}
        /\ state # "started"
        /\ UNCHANGED <<state, health, closing, returned, harvests>>
    BY <1>3 DEF Listen
  <2>2. listening' \in Counts /\ listening'[c] = listening[c] + 1
        /\ \A d \in Caller : d # c => listening'[d] = listening[d]
    BY <2>1, PlusType, OneType DEF Counts
  <2>3. timers' \in Counts /\ \A d \in Caller : d # c => timers'[d] = timers[d]
    BY <2>1, PlusType, OneType DEF Counts
  <2>4. stranded' \in Flags
    BY <1>3 DEF Listen, Flags
  <2>5. \A d \in Caller : Stops(d)' = Stops(d)
    BY <2>1 DEF Stops
  <2>6. QED  BY <2>1, <2>2, <2>3, <2>4, <2>5
<1>4. QED  BY <1>1, <1>2, <1>3 DEF DoShutdown

(* A step that leaves the listeners and what happened to the calls alone,  *)
(* and moves stops along.                                                  *)
LEMMA SameKeeps ==
    ASSUME NEW d \in Caller, Sound(d),
           UNCHANGED <<idleVars, waitVars>>,
           Stops(d)' = Stops(d),
           state' = "started" => state = "started" \/ listening[d] = 0
    PROVE  Sound(d)'
BY DEF Sound, idleVars, waitVars

LEMMA HealthWrittenKeeps ==
    ASSUME IInv, NEW c \in Caller, HealthWritten(c)
    PROVE  IInv'
<1> USE DEF IInv, TypeOK
<1>1. /\ health[c] > 0
      /\ health' = [health EXCEPT ![c] = @ - 1]
      /\ \/ closing' = Plus(closing, One(c)) /\ returned' = returned
         \/ returned' = Plus(returned, One(c)) /\ closing' = closing
      /\ UNCHANGED <<agentVars, idleVars, waitVars>>
  BY DEF HealthWritten
<1> DEFINE h == [health EXCEPT ![c] = @ - 1]
<1>2. /\ h \in Counts /\ h[c] = health[c] - 1
      /\ \A d \in Caller : d # c => h[d] = health[d]
  BY <1>1, MinusType
<1>3. /\ Plus(closing, One(c)) \in Counts /\ Plus(closing, One(c))[c] = closing[c] + 1
      /\ \A d \in Caller : d # c => Plus(closing, One(c))[d] = closing[d]
      /\ Plus(returned, One(c)) \in Counts /\ Plus(returned, One(c))[c] = returned[c] + 1
      /\ \A d \in Caller : d # c => Plus(returned, One(c))[d] = returned[d]
  BY PlusOne
<1>4. health' \in Counts /\ closing' \in Counts /\ returned' \in Counts
  BY <1>1, <1>2, <1>3
<1>5. ASSUME NEW d \in Caller
      PROVE  Stops(d)' = Stops(d)
  <2>1. /\ health[d] \in Nat /\ closing[d] \in Nat /\ returned[d] \in Nat
        /\ Stops(d) = health[d] + closing[d] + returned[d]
    BY StopsType
  <2>2. Stops(d)' = health'[d] + closing'[d] + returned'[d]
    BY DEF Stops
  <2>3. CASE d # c
    <3>1. health'[d] = health[d] /\ closing'[d] = closing[d] /\ returned'[d] = returned[d]
      BY <1>1, <1>2, <1>3, <2>3
    <3>2. QED  BY <2>1, <2>2, <3>1
  <2>4. CASE d = c
    <3>1. /\ health'[d] = health[d] - 1
          /\ \/ closing'[d] = closing[d] + 1 /\ returned'[d] = returned[d]
             \/ returned'[d] = returned[d] + 1 /\ closing'[d] = closing[d]
      BY <1>1, <1>2, <1>3, <2>4
    <3>2. QED  BY <2>1, <2>2, <3>1
  <2>5. QED  BY <2>3, <2>4
<1>6. \A d \in Caller : Sound(d)'
  BY <1>1, <1>5, SameKeeps DEF agentVars
<1>7. TypeOK'
  BY <1>1, <1>4 DEF agentVars, idleVars, waitVars
<1>8. QED  BY <1>6, <1>7

(* What the listeners do when the agent fails. *)
LEMMA ErroredKeeps ==
    ASSUME IInv, NEW d \in Caller,
           Stops(d)' = Stops(d) + listening[d] \/ Stops(d)' = Stops(d),
           state' # "started",
           UNCHANGED <<idleVars, timers, listening, harvests, flushed>>,
           excused' \in Flags,
           excused[d] => excused'[d],
           Stops(d)' # Stops(d) => excused'[d]
    PROVE  Sound(d)'
<1>1. Sound(d) /\ listening[d] \in Nat /\ waiting[d] \in Nat /\ harvests[d] \in Nat
      /\ queued[d] \in Nat
  BY DEF IInv, TypeOK, Counts
<1>2. Stops(d) \in Nat
  BY DEF IInv, TypeOK, Counts, Stops
<1>3. Stops(d)' # Stops(d) => listening[d] > 0
  BY <1>1, <1>2
<1>4. CASE Stops(d)' = Stops(d)
  BY <1>1, <1>2, <1>4 DEF Sound, idleVars
<1>5. CASE Stops(d)' # Stops(d)
  <2>1. excused'[d] /\ listening[d] > 0 /\ called[d]
    BY <1>1, <1>3, <1>5 DEF Sound
  <2>2. waiting[d] + listening[d] # 0
    BY <1>1, <2>1
  <2>3. waiting[d] > 0 => sawIdle[d]
    BY <1>1, <1>2, <2>1 DEF Sound
  <2>4. QED  BY <1>1, <2>1, <2>2, <2>3 DEF Sound, idleVars
<1>6. QED  BY <1>4, <1>5

LEMMA StopClosedKeeps ==
    ASSUME IInv, NEW c \in Caller, StopClosed(c)
    PROVE  IInv'
<1> DEFINE cl == [closing EXCEPT ![c] = @ - 1]
           ret == Plus(returned, One(c))
<1> USE DEF IInv, TypeOK
<1>1. /\ closing[c] > 0
      /\ connected' = FALSE
      /\ \/ /\ state' = "stopped" /\ closing' = cl /\ returned' = ret
            /\ UNCHANGED <<health, excused>>
         \/ Errored(FALSE, cl, ret) /\ HeardErrored
      /\ UNCHANGED <<login, logins, idleVars, timers, listening, harvests,
                     flushed, stranded>>
  BY DEF StopClosed
<1>2. cl \in Counts /\ cl[c] = closing[c] - 1
      /\ \A d \in Caller : d # c => cl[d] = closing[d]
  BY <1>1, MinusType
<1>3. ret \in Counts /\ ret[c] = returned[c] + 1
      /\ \A d \in Caller : d # c => ret[d] = returned[d]
  BY PlusType, OneType DEF Counts
<1> HIDE DEF cl, ret
<1>4. ASSUME NEW d \in Caller
      PROVE  health[d] \in Nat /\ cl[d] \in Nat /\ ret[d] \in Nat
             /\ health[d] + cl[d] + ret[d] = Stops(d)
  <2>1. /\ health[d] \in Nat /\ closing[d] \in Nat /\ returned[d] \in Nat
        /\ Stops(d) = health[d] + closing[d] + returned[d]
    BY StopsType
  <2>2. cl[d] \in Nat /\ ret[d] \in Nat
    BY <1>2, <1>3 DEF Counts
  <2>3. CASE d # c
    BY <1>2, <1>3, <2>1, <2>3
  <2>4. CASE d = c
    <3>1. cl[d] = closing[d] - 1 /\ ret[d] = returned[d] + 1
      BY <1>2, <1>3, <2>4
    <3>2. QED  BY <2>1, <2>2, <3>1
  <2>5. QED  BY <2>1, <2>2, <2>3, <2>4
<1>5. CASE /\ state' = "stopped" /\ closing' = cl /\ returned' = ret
           /\ UNCHANGED <<health, excused>>
  <2>1. \A d \in Caller : Stops(d)' = Stops(d)
    BY <1>4, <1>5 DEF Stops
  <2>2. \A d \in Caller : Sound(d)'
    BY <1>1, <1>5, <2>1, SameKeeps DEF waitVars
  <2>3. TypeOK'
    BY <1>1, <1>2, <1>3, <1>5 DEF State, idleVars
  <2>4. QED  BY <2>2, <2>3
<1>6. CASE Errored(FALSE, cl, ret) /\ HeardErrored
  <2>1. /\ health' \in Counts /\ closing' \in Counts /\ returned' \in Counts
        /\ state' \in {"stopping", "errored"}
        /\ \A d \in Caller : Stops(d)' = Stops(d) + listening[d]
    <3>1. /\ health' \in Counts /\ closing' \in Counts /\ returned' \in Counts
          /\ state' \in {"stopping", "errored"}
          /\ \A d \in Caller :
                Stops(d)' = health[d] + cl[d] + ret[d] + listening[d]
      BY <1>2, <1>3, <1>6, ErroredAdds
    <3>2. QED  BY <1>4, <3>1
  <2>2. excused' \in Flags
        /\ \A d \in Caller : excused'[d] <=> excused[d] \/ listening[d] > 0
    BY <1>6 DEF HeardErrored, Flags
  <2>3. \A d \in Caller : Stops(d)' # Stops(d) => listening[d] > 0
    BY <2>1, <1>4 DEF Counts
  <2>4. \A d \in Caller : Sound(d)'
    BY <1>1, <2>1, <2>2, <2>3, ErroredKeeps
  <2>5. TypeOK'
    BY <1>1, <2>1, <2>2 DEF State, idleVars
  <2>6. QED  BY <2>4, <2>5
<1>7. QED  BY <1>1, <1>5, <1>6

(* What a call does to the caller that makes it. *)
LEMMA CallSound ==
    ASSUME IInv, NEW c \in Caller, DoShutdown(c),
           queued'[c] \in Nat, queued'[c] <= queued[c],
           called'[c], sawIdle'[c] \/ waiting[c] = 0,
           UNCHANGED <<waiting, options>>,
           waiting[c] > 0 \/ ~called[c]
    PROVE  Sound(c)'
<1>1. /\ Sound(c)
      /\ Stops(c) \in Nat /\ waiting[c] \in Nat /\ queued[c] \in Nat
      /\ timers[c] \in Nat /\ listening[c] \in Nat /\ harvests[c] \in Nat
  BY StopsType DEF IInv
<1>2. UNCHANGED <<flushed, excused>>
  BY DEF DoShutdown
<1>3. queued'[c] > 0 => waiting[c] > 0 /\ sawIdle'[c]
  BY <1>1 DEF Sound
<1>4. waiting[c] > 0 \/
        (listening[c] = 0 /\ harvests[c] = 0 /\ Stops(c) = 0 /\ queued'[c] = 0)
  BY <1>1 DEF Sound
<1>5. waiting[c] > 0 => sawIdle'[c]
  BY <1>1
<1>6. CASE /\ "collectPendingData" \notin options[c]
           /\ Stops(c)' = Stops(c) + 1
           /\ UNCHANGED <<timers, listening, harvests>>
  <2>1. state' = "started" => state = "started"
    BY CallKeeps
  <2>2. QED  BY <1>1, <1>2, <1>3, <1>4, <1>5, <1>6, <2>1 DEF Sound
<1>7. CASE /\ harvests'[c] = harvests[c] + 1
           /\ Stops(c)' = Stops(c)
           /\ UNCHANGED <<timers, listening>>
  BY <1>1, <1>2, <1>3, <1>4, <1>5, <1>7 DEF Sound
<1>8. CASE /\ state' # "started"
           /\ listening'[c] = listening[c] + 1
           /\ Stops(c)' = Stops(c)
           /\ UNCHANGED harvests
  BY <1>1, <1>2, <1>3, <1>4, <1>5, <1>8 DEF Sound
<1>9. QED  BY <1>6, <1>7, <1>8, CallKeeps

(* What it does to the others. *)
LEMMA OthersSound ==
    ASSUME IInv, NEW c \in Caller, DoShutdown(c), NEW d \in Caller, d # c,
           called'[d] <=> called[d], sawIdle'[d] <=> sawIdle[d],
           queued'[d] = queued[d], waiting'[d] = waiting[d], options'[d] = options[d]
    PROVE  Sound(d)'
<1>1. Sound(d)
  BY DEF IInv
<1>2. /\ timers'[d] = timers[d] /\ listening'[d] = listening[d]
      /\ harvests'[d] = harvests[d] /\ Stops(d)' = Stops(d)
      /\ state' = "started" => state = "started"
  BY CallKeeps
<1>3. UNCHANGED <<flushed, excused>>
  BY DEF DoShutdown
<1>4. QED  BY <1>1, <1>2, <1>3 DEF Sound

LEMMA ShutdownKeeps ==
    ASSUME IInv, NEW c \in Caller, Shutdown(c)
    PROVE  IInv'
<1> USE DEF IInv
<1>1. /\ ~called[c]
      /\ called' = [called EXCEPT ![c] = TRUE]
      /\ sawIdle' = [sawIdle EXCEPT ![c] = active = 0]
      /\ UNCHANGED <<active, begun, queued>>
  BY DEF Shutdown
<1>2. /\ called' \in Flags /\ called'[c]
      /\ \A d \in Caller : d # c => (called'[d] <=> called[d])
      /\ sawIdle' \in Flags
      /\ \A d \in Caller : d # c => (sawIdle'[d] <=> sawIdle[d])
  BY <1>1 DEF TypeOK, Flags
<1>3. /\ Sound(c)
      /\ waiting[c] = 0 /\ listening[c] = 0 /\ queued[c] = 0 /\ harvests[c] = 0
      /\ Stops(c) = 0 /\ timers[c] \in Nat
  BY <1>1, StopsType DEF Sound
<1>4. CASE /\ options' = [options EXCEPT ![c] = @ \ {"waitForIdle"}]
           /\ waiting' = Plus(waiting, One(c))
           /\ UNCHANGED <<agentVars, waitVars, health, closing, returned>>
  <2>1. /\ options' \in [Caller -> SUBSET Option]
        /\ \A d \in Caller : d # c => options'[d] = options[d]
    BY <1>4 DEF TypeOK
  <2>2. /\ waiting' \in Counts /\ waiting'[c] = 1
        /\ \A d \in Caller : d # c => waiting'[d] = waiting[d]
    BY <1>3, <1>4, PlusOne DEF TypeOK
  <2>3. TypeOK'
    BY <1>1, <1>2, <1>4, <2>1, <2>2 DEF TypeOK, agentVars, waitVars
  <2>4. \A d \in Caller : Stops(d)' = Stops(d)
    BY <1>4 DEF Stops
  <2>5. Sound(c)'
    BY <1>1, <1>2, <1>3, <1>4, <2>2, <2>4 DEF Sound, waitVars, agentVars
  <2>6. ASSUME NEW d \in Caller, d # c
        PROVE  Sound(d)'
    BY <1>1, <1>2, <1>4, <2>1, <2>2, <2>4, <2>6 DEF Sound, waitVars, agentVars
  <2>7. QED  BY <2>3, <2>5, <2>6
<1>5. CASE DoShutdown(c) /\ UNCHANGED <<options, waiting>>
  <2>1. Sound(c)'
    <3>1. queued'[c] \in Nat /\ queued'[c] <= queued[c]
      BY <1>1, <1>3
    <3>2. QED  BY <1>1, <1>2, <1>3, <1>5, <3>1, CallSound
  <2>2. ASSUME NEW d \in Caller, d # c
        PROVE  Sound(d)'
    BY <1>1, <1>2, <1>5, <2>2, OthersSound
  <2>3. TypeOK'
    BY <1>1, <1>2, <1>5, CallKeeps DEF TypeOK, DoShutdown
  <2>4. QED  BY <2>1, <2>2, <2>3
<1>6. QED  BY <1>1, <1>4, <1>5 DEF Shutdown

LEMMA IdleKeeps ==
    ASSUME IInv, NEW c \in Caller, Idle(c)
    PROVE  IInv'
<1> USE DEF IInv
<1>1. /\ queued[c] > 0
      /\ queued' = [queued EXCEPT ![c] = @ - 1]
      /\ DoShutdown(c)
      /\ UNCHANGED <<active, begun, options, called, waiting, sawIdle>>
  BY DEF Idle
<1>2. /\ queued' \in Counts /\ queued'[c] = queued[c] - 1 /\ queued[c] \in Nat
      /\ \A d \in Caller : d # c => queued'[d] = queued[d]
  <2> DEFINE f == [queued EXCEPT ![c] = @ - 1]
  <2>1. queued \in Counts /\ queued[c] \in Nat
    BY StopsType DEF TypeOK
  <2>2. /\ f \in Counts /\ f[c] = queued[c] - 1
        /\ \A d \in Caller : d # c => f[d] = queued[d]
    BY <1>1, <2>1, MinusType
  <2>3. QED  BY <1>1, <2>1, <2>2
<1>3. waiting[c] > 0 /\ waiting[c] \in Nat /\ sawIdle[c] /\ called[c]
  BY <1>1, StopsType DEF Sound
<1>4. Sound(c)'
  <2>1. queued'[c] \in Nat /\ queued'[c] <= queued[c]
    BY <1>1, <1>2
  <2>2. QED  BY <1>1, <1>3, <2>1, CallSound
<1>5. ASSUME NEW d \in Caller, d # c
      PROVE  Sound(d)'
  BY <1>1, <1>2, <1>5, OthersSound
<1>6. TypeOK'
  BY <1>1, <1>2, CallKeeps DEF TypeOK, DoShutdown
<1>7. QED  BY <1>4, <1>5, <1>6

LEMMA BeginKeeps == IInv /\ TransactionBegin => IInv'
<1> SUFFICES ASSUME IInv, TransactionBegin
             PROVE  IInv'
  OBVIOUS
<1>1. /\ begun < MaxTransactions /\ begun' = begun + 1 /\ active' = active + 1
      /\ UNCHANGED <<agentVars, waitVars, health, closing, returned, options,
                     called, waiting, queued, sawIdle>>
  BY DEF TransactionBegin
<1>2. active' \in 0..begun' /\ begun' \in 0..MaxTransactions
  BY <1>1, ApiShutdownAssumption DEF IInv, TypeOK
<1>3. TypeOK'
  BY <1>1, <1>2 DEF IInv, TypeOK, agentVars, waitVars
<1>4. \A d \in Caller : Sound(d)'
  BY <1>1 DEF IInv, Sound, Stops, agentVars, waitVars
<1>5. QED  BY <1>3, <1>4 DEF IInv

LEMMA EndKeeps == IInv /\ TransactionEnd => IInv'
<1> SUFFICES ASSUME IInv, TransactionEnd
             PROVE  IInv'
  OBVIOUS
<1> USE DEF IInv
<1>1. /\ active > 0 /\ active' = active - 1
      /\ queued' = IF active' = 0 THEN Plus(queued, waiting) ELSE queued
      /\ sawIdle' = [c \in Caller |-> sawIdle[c] \/ (called[c] /\ active' = 0)]
      /\ UNCHANGED <<agentVars, waitVars, health, closing, returned, begun,
                     options, called, waiting>>
  BY DEF TransactionEnd
<1>2. active' \in 0..begun' /\ begun' \in 0..MaxTransactions
  BY <1>1, ApiShutdownAssumption DEF TypeOK
<1>3. /\ queued' \in Counts
      /\ \A d \in Caller : queued'[d] = queued[d] \/
            (active' = 0 /\ queued'[d] = queued[d] + waiting[d])
  BY <1>1, PlusType DEF TypeOK
<1>4. /\ sawIdle' \in Flags
      /\ \A d \in Caller : sawIdle'[d] <=> sawIdle[d] \/ (called[d] /\ active' = 0)
  BY <1>1 DEF TypeOK, Flags
<1>5. TypeOK'
  BY <1>1, <1>2, <1>3, <1>4 DEF TypeOK, agentVars, waitVars
<1>6. ASSUME NEW d \in Caller
      PROVE  Sound(d)'
  <2>1. /\ Sound(d) /\ Stops(d)' = Stops(d)
        /\ waiting[d] \in Nat /\ queued[d] \in Nat /\ listening[d] \in Nat
        /\ harvests[d] \in Nat /\ Stops(d) \in Nat
    BY <1>1, StopsType DEF Stops
  <2>2. waiting[d] = 0 => queued'[d] = queued[d]
    BY <1>3, <2>1
  <2>3. queued'[d] > 0 => waiting[d] > 0 /\ sawIdle'[d]
    <3>1. CASE waiting[d] = 0
      BY <2>1, <2>2, <3>1 DEF Sound
    <3>2. CASE waiting[d] > 0 /\ active' = 0
      BY <1>4, <2>1, <3>2 DEF Sound
    <3>3. CASE waiting[d] > 0 /\ queued'[d] = queued[d]
      BY <1>4, <2>1, <3>3 DEF Sound
    <3>4. QED  BY <1>3, <2>1, <3>1, <3>2, <3>3
  <2>4. sawIdle[d] => sawIdle'[d]
    BY <1>4
  <2>5. ~called[d] => queued'[d] = 0
    BY <2>1, <2>2 DEF Sound
  <2>6. UNCHANGED <<called, waiting, options, waitVars, state>>
    BY <1>1 DEF agentVars
  <2>7. QED  BY <2>1, <2>2, <2>3, <2>4, <2>5, <2>6 DEF Sound, waitVars
<1>7. QED  BY <1>5, <1>6

(* A stop for c that a callback of c has asked for. *)
LEMMA StopSound ==
    ASSUME IInv, NEW c \in Caller, NEW d \in Caller,
           AgentStop(One(c), connected, closing, returned)
    PROVE  /\ health' \in Counts /\ closing' \in Counts /\ returned' \in Counts
           /\ state' = "stopping"
           /\ Stops(d)' = IF d = c THEN Stops(d) + 1 ELSE Stops(d)
<1>1. /\ health' \in Counts /\ closing' \in Counts /\ returned' \in Counts
      /\ state' = "stopping"
      /\ Stops(d)' = health[d] + closing[d] + returned[d] + One(c)[d]
  BY OneType, StopsAdd DEF IInv, TypeOK
<1>2. Stops(d) \in Nat /\ Stops(d) = health[d] + closing[d] + returned[d]
  BY StopsType DEF IInv
<1>3. Stops(d)' = Stops(d) + One(c)[d]
  BY <1>1, <1>2
<1>4. CASE d = c
  BY <1>1, <1>3, <1>4, OneType
<1>5. CASE d # c
  BY <1>1, <1>2, <1>3, <1>5, OneType
<1>6. QED  BY <1>4, <1>5

LEMMA HarvestedKeeps ==
    ASSUME IInv, NEW c \in Caller, Harvested(c)
    PROVE  IInv'
<1> USE DEF IInv
<1>1. /\ harvests[c] > 0
      /\ harvests' = [harvests EXCEPT ![c] = @ - 1]
      /\ flushed' = [flushed EXCEPT ![c] = TRUE]
      /\ AgentStop(One(c), connected, closing, returned)
      /\ UNCHANGED <<connected, login, logins, idleVars, timers, listening,
                     excused, stranded>>
  BY DEF Harvested
<1>2. /\ harvests' \in Counts /\ harvests'[c] = harvests[c] - 1
      /\ \A d \in Caller : d # c => harvests'[d] = harvests[d]
  <2> DEFINE f == [harvests EXCEPT ![c] = @ - 1]
  <2>1. harvests \in Counts /\ harvests[c] \in Nat
    BY StopsType DEF TypeOK
  <2>2. /\ f \in Counts /\ f[c] = harvests[c] - 1
        /\ \A d \in Caller : d # c => f[d] = harvests[d]
    BY <1>1, <2>1, MinusType
  <2>3. QED  BY <1>1, <2>1, <2>2
<1>3. /\ flushed' \in Flags /\ flushed'[c]
      /\ \A d \in Caller : flushed[d] => flushed'[d]
  BY <1>1 DEF TypeOK, Flags
<1>4. ASSUME NEW d \in Caller
      PROVE  Sound(d)'
  <2>1. /\ Sound(d) /\ state' = "stopping"
        /\ waiting[d] \in Nat /\ queued[d] \in Nat /\ listening[d] \in Nat
        /\ harvests[d] \in Nat /\ Stops(d) \in Nat
        /\ Stops(d)' = IF d = c THEN Stops(d) + 1 ELSE Stops(d)
    BY <1>1, StopsType, StopSound
  <2>2. CASE d = c
    BY <1>1, <1>2, <1>3, <2>1, <2>2 DEF Sound, idleVars
  <2>3. CASE d # c
    BY <1>1, <1>2, <1>3, <2>1, <2>3 DEF Sound, idleVars
  <2>4. QED  BY <2>2, <2>3
<1>5. TypeOK'
  BY <1>1, <1>2, <1>3, StopSound DEF TypeOK, idleVars, State
<1>6. QED  BY <1>4, <1>5

LEMMA TimedOutKeeps ==
    ASSUME IInv, NEW c \in Caller, TimedOut(c)
    PROVE  IInv'
<1> USE DEF IInv
<1>1. /\ timers[c] > 0
      /\ timers' = [timers EXCEPT ![c] = @ - 1]
      /\ excused' = [excused EXCEPT ![c] = TRUE]
      /\ AgentStop(One(c), connected, closing, returned)
      /\ UNCHANGED <<connected, login, logins, idleVars, listening, harvests,
                     flushed, stranded>>
  BY DEF TimedOut
<1>2. /\ timers' \in Counts /\ timers'[c] = timers[c] - 1
      /\ \A d \in Caller : d # c => timers'[d] = timers[d]
  <2> DEFINE f == [timers EXCEPT ![c] = @ - 1]
  <2>1. timers \in Counts /\ timers[c] \in Nat
    BY StopsType DEF TypeOK
  <2>2. /\ f \in Counts /\ f[c] = timers[c] - 1
        /\ \A d \in Caller : d # c => f[d] = timers[d]
    BY <1>1, <2>1, MinusType
  <2>3. QED  BY <1>1, <2>1, <2>2
<1>3. /\ excused' \in Flags /\ excused'[c]
      /\ \A d \in Caller : excused[d] => excused'[d]
  BY <1>1 DEF TypeOK, Flags
<1>4. ASSUME NEW d \in Caller
      PROVE  Sound(d)'
  <2>1. /\ Sound(d) /\ state' = "stopping"
        /\ waiting[d] \in Nat /\ queued[d] \in Nat /\ listening[d] \in Nat
        /\ harvests[d] \in Nat /\ Stops(d) \in Nat /\ timers[d] \in Nat
        /\ Stops(d)' = IF d = c THEN Stops(d) + 1 ELSE Stops(d)
    BY <1>1, StopsType, StopSound
  <2>2. CASE d = c
    BY <1>1, <1>2, <1>3, <2>1, <2>2 DEF Sound, idleVars
  <2>3. CASE d # c
    BY <1>1, <1>2, <1>3, <2>1, <2>3 DEF Sound, idleVars
  <2>4. QED  BY <2>2, <2>3
<1>5. TypeOK'
  BY <1>1, <1>2, <1>3, StopSound DEF TypeOK, idleVars, State
<1>6. QED  BY <1>4, <1>5

(* Every listener that hears "started" forces a harvest. *)
LEMMA StartedKeeps ==
    ASSUME IInv, Started, NEW d \in Caller,
           UNCHANGED <<idleVars, timers, listening, flushed>>
    PROVE  harvests' \in Counts /\ Sound(d)'
<1>1. /\ Sound(d) /\ listening[d] \in Nat /\ harvests[d] \in Nat
      /\ waiting[d] \in Nat /\ queued[d] \in Nat /\ Stops(d) \in Nat
  BY StopsType DEF IInv
<1>2. harvests' \in Counts /\ harvests'[d] = harvests[d] + listening[d]
  BY PlusType DEF Started, IInv, TypeOK
<1>3. Stops(d)' = Stops(d) /\ excused' = excused
  BY DEF Started, Stops
<1>4. QED  BY <1>1, <1>2, <1>3 DEF Sound, idleVars

LEMMA LoginSucceedsKeeps == IInv /\ LoginSucceeds => IInv'
<1> SUFFICES ASSUME IInv, LoginSucceeds
             PROVE  IInv'
  OBVIOUS
<1>1. /\ login' = "none" /\ connected' = TRUE
      /\ logins < MaxLogins /\ logins' = logins + 1
      /\ Started
      /\ UNCHANGED <<idleVars, timers, listening, flushed, stranded>>
  BY DEF LoginSucceeds
<1>2. \A d \in Caller : harvests' \in Counts /\ Sound(d)'
  BY <1>1, StartedKeeps
<1>3. harvests' \in Counts
  BY <1>1, PlusType DEF Started, IInv, TypeOK
<1>4. logins' \in 0..MaxLogins
  BY <1>1, ApiShutdownAssumption DEF IInv, TypeOK
<1>5. TypeOK'
  BY <1>1, <1>3, <1>4 DEF IInv, TypeOK, Started, idleVars, State
<1>6. QED  BY <1>2, <1>5 DEF IInv

LEMMA LoginRefusedKeeps == IInv /\ LoginRefused => IInv'
<1> SUFFICES ASSUME IInv, LoginRefused
             PROVE  IInv'
  OBVIOUS
<1>1. /\ login' = "none"
      /\ UNCHANGED <<connected, logins, idleVars, timers, listening, flushed,
                     stranded>>
  BY DEF LoginRefused
<1>2. CASE Errored(connected, closing, returned) /\ HeardErrored /\ UNCHANGED harvests
  <2>1. /\ health' \in Counts /\ closing' \in Counts /\ returned' \in Counts
        /\ state' \in {"stopping", "errored"}
        /\ \A d \in Caller :
              Stops(d)' = health[d] + closing[d] + returned[d] + listening[d]
    BY <1>2, ErroredAdds DEF IInv, TypeOK
  <2>2. \A d \in Caller : Stops(d)' = Stops(d) + listening[d]
    BY <2>1, StopsType DEF IInv
  <2>3. excused' \in Flags
        /\ \A d \in Caller : excused'[d] <=> excused[d] \/ listening[d] > 0
    BY <1>2 DEF HeardErrored, Flags
  <2>4. \A d \in Caller : Stops(d)' # Stops(d) => listening[d] > 0
    BY <2>2, StopsType DEF IInv
  <2>5. \A d \in Caller : Sound(d)'
    BY <1>1, <1>2, <2>1, <2>2, <2>3, <2>4, ErroredKeeps
  <2>6. TypeOK'
    BY <1>1, <1>2, <2>1, <2>3 DEF IInv, TypeOK, State, idleVars
  <2>7. QED  BY <2>5, <2>6 DEF IInv
<1>3. CASE Started
  <2>1. \A d \in Caller : Sound(d)'
    BY <1>1, <1>3, StartedKeeps
  <2>2. harvests' \in Counts
    BY <1>3, PlusType DEF Started, IInv, TypeOK
  <2>3. TypeOK'
    BY <1>1, <1>3, <2>2 DEF IInv, TypeOK, Started, idleVars, State
  <2>4. QED  BY <2>1, <2>3 DEF IInv
<1>4. QED  BY <1>2, <1>3 DEF LoginRefused

LEMMA LoginMismatchedKeeps == IInv /\ LoginMismatched => IInv'
<1> SUFFICES ASSUME IInv, LoginMismatched
             PROVE  IInv'
  OBVIOUS
<1>1. /\ login' = "none" /\ state' = "stopping"
      /\ UNCHANGED <<connected, logins, idleVars, timers, listening, harvests,
                     health, closing, returned, flushed, excused>>
  BY DEF LoginMismatched
<1>2. stranded' \in Flags
  BY DEF LoginMismatched, Flags, IInv, TypeOK
<1>3. TypeOK'
  BY <1>1, <1>2 DEF IInv, TypeOK, idleVars, State
<1>4. ASSUME NEW d \in Caller
      PROVE  Sound(d)'
  <2>1. Sound(d) /\ Stops(d)' = Stops(d)
    BY <1>1 DEF IInv, Stops
  <2>2. QED  BY <1>1, <2>1 DEF Sound, idleVars
<1>5. QED  BY <1>3, <1>4 DEF IInv

LEMMA RestartKeeps == IInv /\ (Restart \/ RestartClosed) => IInv'
<1> SUFFICES ASSUME IInv, Restart \/ RestartClosed
             PROVE  IInv'
  OBVIOUS
<1>1. /\ UNCHANGED <<logins, idleVars, waitVars, health, closing, returned>>
      /\ login' \in {"closing", "restart"}
      /\ connected' \in {connected, FALSE}
      /\ state' \in {state, "connecting"}
  BY DEF Restart, RestartClosed
<1>2. TypeOK'
  BY <1>1 DEF IInv, TypeOK, idleVars, waitVars, State
<1>3. ASSUME NEW d \in Caller
      PROVE  Sound(d)'
  BY <1>1, SameKeeps DEF IInv, Stops
<1>4. QED  BY <1>2, <1>3 DEF IInv

LEMMA InvNext == IInv /\ [Next]_vars => IInv'
<1> SUFFICES ASSUME IInv, [Next]_vars
             PROVE  IInv'
  OBVIOUS
<1>1. ASSUME NEW c \in Caller, Shutdown(c)
      PROVE  IInv'
  BY <1>1, ShutdownKeeps
<1>2. ASSUME NEW c \in Caller, ShutdownStep(c)
      PROVE  IInv'
  BY <1>2, IdleKeeps, HarvestedKeeps, TimedOutKeeps DEF ShutdownStep
<1>3. ASSUME NEW c \in Caller, StopStep(c)
      PROVE  IInv'
  BY <1>3, HealthWrittenKeeps, StopClosedKeeps DEF StopStep
<1>4. CASE UNCHANGED vars
  <2>1. TypeOK'
    BY <1>4 DEF IInv, TypeOK, vars
  <2>2. \A d \in Caller : Sound(d)'
    BY <1>4 DEF IInv, Sound, Stops, vars
  <2>3. QED  BY <2>1, <2>2 DEF IInv
<1>5. QED  BY <1>1, <1>2, <1>3, <1>4, BeginKeeps, EndKeeps, LoginSucceedsKeeps,
              LoginRefusedKeeps, LoginMismatchedKeeps, RestartKeeps DEF Next

-----------------------------------------------------------------------------
(* The invariant of ApiShutdown. *)
THEOREM InvAlways == Spec => []IInv
<1>1. QED  BY InitInv, InvNext, PTL DEF Spec

(* Every state is well typed. *)
THEOREM TypeCorrect == Spec => []TypeOK
<1>1. IInv => TypeOK
  BY DEF IInv
<1>2. QED  BY <1>1, InvAlways, PTL

(* collectPendingData of _doShutdown: no stop before a harvest has ended,  *)
(* the timeout has fired or the agent has failed.                          *)
THEOREM Collects == Spec => []CollectsFirst
<1>1. IInv => CollectsFirst
  BY DEF IInv, Sound, CollectsFirst, StopBegun, Stops
<1>2. QED  BY <1>1, InvAlways, PTL

(* waitForIdle of _doShutdown: nothing happens before an idle moment. *)
THEOREM Waits == Spec => []WaitsForIdle
<1>1. IInv => WaitsForIdle
  BY DEF IInv, Sound, WaitsForIdle, StopBegun, Stops
<1>2. QED  BY <1>1, InvAlways, PTL

(* A shutdown does not run ahead of what its options make it wait for.     *)
THEOREM WaitsAsTold == Spec => []WaitsAsAsked
<1>1. CollectsFirst /\ WaitsForIdle => WaitsAsAsked
  BY DEF WaitsAsAsked
<1>2. QED  BY <1>1, Collects, Waits, PTL

(* A call that registers no listener stops the agent once. *)
THEOREM Once == Spec => []OnceWithoutListeners
<1>1. IInv => OnceWithoutListeners
  <2> SUFFICES ASSUME IInv, NEW c \in Caller, waiting[c] + listening[c] = 0
               PROVE  health[c] + closing[c] + returned[c] + harvests[c] + queued[c] <= 1
    BY DEF OnceWithoutListeners
  <2>1. Stops(c) + harvests[c] + queued[c] <= 1
    BY DEF IInv, Sound
  <2>2. QED  BY <2>1, StopsType DEF IInv
<1>2. QED  BY <1>1, InvAlways, PTL

(* The "started" listener of _doShutdown: an agent that comes back while   *)
(* a shutdown listens is on its way to being stopped.                      *)
THEOREM NeverLeft == Spec => []NotLeftRunning
<1>1. IInv => NotLeftRunning
  BY DEF IInv, Sound, NotLeftRunning
<1>2. QED  BY <1>1, InvAlways, PTL
=============================================================================
