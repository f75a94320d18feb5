--------------------------- MODULE Settings_proofs ---------------------------
(***************************************************************************)
(* Proofs about the settings, for any files and environment, any policies  *)
(* and any replies of the server.                                          *)
(***************************************************************************)
EXTENDS Settings, TLAPS

(* The constructor refuses high security together with policies, so no     *)
(* policy ever meets a setting that high security has set.                 *)
NeverBoth == highSecurity /\ token => phase = "off"

(* Policies only tighten, and the server has no say in what they are about.*)
NeverLooser ==
    \A p \in Policy : level[p] <= given[p] /\ level[p] <= local[p]

(* The policies that were reported at a login that has not failed are      *)
(* those in effect.                                                        *)
Told ==
    token /\ phase \in {"preconnected", "reply", "running"} =>
        \A p \in Policy : reported[p] <=> level[p] = 1

Inv ==
    /\ TypeOK
    /\ NeverBoth /\ HighSecurityHolds
    /\ NeverLooser /\ Told
    /\ OldDataIsDropped

-----------------------------------------------------------------------------
(* Lemmas about the settings *)

LEMMA Members ==
    /\ Policy \subseteq Setting /\ HighSecurity \subseteq Setting
    /\ Nested \subseteq Setting /\ Disabled \subseteq Setting
    /\ "include" \in Setting /\ "include" \notin Policy \cup Nested \cup Disabled
    /\ "include_enabled" \in Policy
    /\ \A p \in Policy : p \notin Nested \cup Disabled
    /\ \A s \in Disabled : Required(s) = 0
BY DEF Setting, Policy, HighSecurity, Nested, Disabled, Required

LEMMA LevelsPassed ==
    ASSUME NEW lv \in [Setting -> Level], NEW f \in [Setting -> Level \cup {Unset}]
    PROVE  FromPassed(lv, f) \in [Setting -> Level] /\ FromEnvironment(lv, f) \in [Setting -> Level]
BY DEF FromPassed, FromEnvironment

LEMMA LevelsCoerced ==
    ASSUME NEW lv \in [Setting -> Level]
    PROVE  /\ ApplyHighSecurity(lv) \in [Setting -> Level]
           /\ \A s \in HighSecurity : ApplyHighSecurity(lv)[s] = Required(s)
BY Members DEF ApplyHighSecurity, Required, Level

(* Whatever the server sends, it sets what is not a policy's, and changes  *)
(* nothing that high security has set.                                     *)
LEMMA FromServerSets ==
    ASSUME TypeOK, HighSecurityHolds,
           NEW s \in Key, NEW to \in 0..1, NEW side \in BOOLEAN,
           FromServer(s, to, side)
    PROVE  /\ level' \in [Setting -> Level]
           /\ level'["include"] = level["include"]
           /\ \A p \in Policy : level'[p] = level[p]
           /\ highSecurity => \A t \in HighSecurity : level'[t] = Required(t)
<1> USE Members
<1>1. s \in Setting /\ to \in Level /\ level \in [Setting -> Level]
  BY SettingsAssumption DEF TypeOK, Level
<1>2. CASE UNCHANGED level
  BY <1>1, <1>2 DEF HighSecurityHolds
<1>3. CASE s \in Nested /\ ~(highSecurity /\ s \in HighSecurity) /\ level' = [level EXCEPT ![s] = to]
  <2>1. \A t \in Setting : level'[t] = IF t = s THEN to ELSE level[t]
    BY <1>1, <1>3
  <2>2. level' \in [Setting -> Level]
    BY <1>1, <1>3
  <2>3. highSecurity => \A t \in HighSecurity : level'[t] = Required(t)
    BY <1>3, <2>1 DEF HighSecurityHolds
  <2> QED
    BY <1>3, <2>1, <2>2, <2>3
<1>4. CASE s \in Disabled /\ to = 0 /\ level' = [level EXCEPT ![s] = 0]
  <2>1. \A t \in Setting : level'[t] = IF t = s THEN 0 ELSE level[t]
    BY <1>1, <1>4
  <2>2. level' \in [Setting -> Level]
    BY <1>1, <1>4
  <2>3. highSecurity => \A t \in HighSecurity : level'[t] = Required(t)
    BY <1>4, <2>1 DEF HighSecurityHolds
  <2> QED
    BY <1>4, <2>1, <2>2, <2>3
<1> QED
  BY <1>2, <1>3, <1>4 DEF FromServer, UpdateNested, DisableOption

(* What a login under policies does to levels and data. *)
LEMMA PreConnectSets ==
    ASSUME TypeOK, token,
           NEW sent \in SUBSET Policy, NEW enabled \in SUBSET Policy, NEW complete \in BOOLEAN,
           PreConnect(sent, enabled, complete)
    PROVE  /\ phase = "login"
           /\ level' \in [Setting -> Level]
           /\ level'["include"] = level["include"]
           /\ \A p \in Policy :
                 /\ level'[p] <= level[p]
                 /\ p \notin sent => level'[p] = level[p] /\ given'[p] = given[p]
                 /\ p \in sent => level'[p] <= given'[p] /\ given'[p] \in Level
                 /\ reported'[p] <=> (p \in sent /\ level'[p] = 1)
           /\ given' \in [Policy -> Level]
           /\ reported' \in [Policy -> BOOLEAN]
<1> USE Members
<1>1. level \in [Setting -> Level] /\ given \in [Policy -> Level]
  BY DEF TypeOK
<1>2. \A p \in Policy : Allowed(p, enabled) \in Level
  BY DEF Allowed, Level
<1>3. \A p \in Policy : /\ MostSecure(level, p, enabled) \in Level
                        /\ MostSecure(level, p, enabled) <= level[p]
                        /\ MostSecure(level, p, enabled) <= Allowed(p, enabled)
  BY <1>1, <1>2 DEF MostSecure, Least, Level
<1>4. /\ level' = [s \in Setting |-> IF s \in sent THEN MostSecure(level, s, enabled) ELSE level[s]]
      /\ given' = [p \in Policy |-> IF p \in sent THEN Allowed(p, enabled) ELSE given[p]]
      /\ reported' = Reported(level', sent)
      /\ phase = "login"
  BY DEF PreConnect
<1>5. \A s \in Setting : level'[s] = IF s \in sent THEN MostSecure(level, s, enabled) ELSE level[s]
  BY <1>4
<1>6. level' \in [Setting -> Level]
  BY <1>1, <1>3, <1>4
<1>7. \A p \in Policy : level[p] <= level[p]
  BY <1>1 DEF Level
<1>8. \A p \in Policy : level'[p] <= level[p]
  BY <1>3, <1>5, <1>7
<1>9. \A p \in Policy : given'[p] = IF p \in sent THEN Allowed(p, enabled) ELSE given[p]
  BY <1>4
<1>10. \A p \in Policy : p \in sent => level'[p] <= given'[p] /\ given'[p] \in Level
  BY <1>2, <1>3, <1>5, <1>9
<1>11. \A p \in Policy : p \notin sent => level'[p] = level[p] /\ given'[p] = given[p]
  BY <1>5, <1>9
<1>12. given' \in [Policy -> Level]
  BY <1>1, <1>2, <1>4
<1>13. \A p \in Policy : reported'[p] <=> (p \in sent /\ level'[p] = 1)
  BY <1>4, Zenon DEF Reported
<1>14. reported' \in [Policy -> BOOLEAN]
  BY <1>4, Zenon DEF Reported
<1>15. level'["include"] = level["include"]
  BY <1>5
<1> QED
  BY <1>4, <1>6, <1>8, <1>10, <1>11, <1>12, <1>13, <1>14, <1>15

(* The data that is dropped when policies tighten settings. *)
LEMMA ClearDataDrops ==
    ASSUME TypeOK, NEW sent \in SUBSET Policy, NEW lv, ClearData(sent, lv)
    PROVE  /\ held' \in [Policy -> Level]
           /\ returned' \subseteq Policy /\ letIn' \subseteq Policy
           /\ \A p \in Policy : held'[p] = 0 \/ held'[p] = held[p]
           /\ \A p \in Policy :
                 \/ held'[p] = 0
                 \/ /\ p \in returned \cup letIn => p \in returned' \cup letIn'
                    /\ \/ p \notin sent
                       \/ lv[p] = level[p]
                       \/ p = "include_enabled" /\ level["include"] = 0
<1> DEFINE tightened == {p \in sent : lv[p] # level[p]}
           cleared == IF level["include"] = 0 THEN tightened \ {"include_enabled"} ELSE tightened
<1>1. /\ held' = [p \in Policy |-> IF p \in cleared THEN 0 ELSE held[p]]
      /\ returned' = returned \ cleared
      /\ letIn' = letIn \ cleared
  BY DEF ClearData
<1>2. \A p \in Policy : \/ p \in cleared
                        \/ p \notin sent
                        \/ lv[p] = level[p]
                        \/ p = "include_enabled" /\ level["include"] = 0
  OBVIOUS
<1> HIDE DEF cleared
<1>3. \A p \in Policy : held'[p] = IF p \in cleared THEN 0 ELSE held[p]
  BY <1>1
<1>4. held' \in [Policy -> Level]
  BY <1>1 DEF TypeOK, Level
<1>5. returned' \subseteq Policy /\ letIn' \subseteq Policy
  BY <1>1 DEF TypeOK
<1> QED
  BY <1>1, <1>2, <1>3, <1>4, <1>5

-----------------------------------------------------------------------------
LEMMA InitInv == Init => Inv
<1> SUFFICES ASSUME Init PROVE Inv
  OBVIOUS
<1> USE Members
<1>1. PICK f \in File, e \in Environment :
         LET lv == FromEnvironment(FromPassed(Default, f), e)
         IN  level = IF highSecurity THEN ApplyHighSecurity(lv) ELSE lv
  BY DEF Init
<1> DEFINE lv == FromEnvironment(FromPassed(Default, f), e)
<1>2. Default \in [Setting -> Level]
  BY DEF Default, Level
<1>3. lv \in [Setting -> Level]
  <2>1. f \in [Setting -> Level \cup {Unset}] /\ e \in [Setting -> Level \cup {Unset}]
    BY SettingsAssumption
  <2>2. FromPassed(Default, f) \in [Setting -> Level]
    BY <1>2, <2>1, LevelsPassed
  <2> QED
    BY <2>1, <2>2, LevelsPassed
<1>4. level = IF highSecurity THEN ApplyHighSecurity(lv) ELSE lv
  BY <1>1
<1> HIDE DEF lv
<1>5. level \in [Setting -> Level] /\ HighSecurityHolds
  BY <1>3, <1>4, LevelsCoerced DEF HighSecurityHolds
<1>6. TypeOK
  <2>1. highSecurity \in BOOLEAN /\ token \in BOOLEAN /\ ignoreServer \in BOOLEAN /\ excluded \in BOOLEAN
    BY DEF Init
  <2>2. rules \in [include : BOOLEAN, exclude : BOOLEAN]
    BY <2>1 DEF Init, Rules
  <2>3. reported \in [Policy -> BOOLEAN]
    BY DEF Init
  <2>4. /\ given \in [Policy -> Level] /\ held \in [Policy -> Level]
        /\ inFlight \in [Policy -> Level]
    BY DEF Init, Level
  <2> QED
    BY <1>5, <2>1, <2>2, <2>3, <2>4 DEF Init, TypeOK
<1>7. NeverLooser
  BY <1>5 DEF Init, NeverLooser, Level
<1>8. OldDataIsDropped
  BY <1>5 DEF Init, OldDataIsDropped, Level
<1>9. NeverBoth /\ Told
  BY DEF Init, NeverBoth, Told
<1> QED
  BY <1>5, <1>6, <1>7, <1>8, <1>9 DEF Inv

-----------------------------------------------------------------------------
(* The steps *)

LEMMA PreConnectInv ==
    ASSUME Inv, NEW sent \in SUBSET Policy, NEW enabled \in SUBSET Policy,
           NEW complete \in BOOLEAN, PreConnect(sent, enabled, complete)
    PROVE  Inv'
<1> USE Members
<1>1. TypeOK /\ phase = "login" /\ UNCHANGED <<sourceVars, rules, inFlight>>
  BY DEF Inv, PreConnect
<1>2. CASE ~token
  <2>1. UNCHANGED <<settingVars, reported, given, held, returned, letIn>> /\ phase' \in {"preconnected", "off"}
    BY <1>1, <1>2 DEF PreConnect
  <2>2. TypeOK'
    BY <1>1, <2>1 DEF TypeOK, sourceVars, settingVars
  <2>3. NeverBoth' /\ Told'
    BY <1>1, <1>2 DEF NeverBoth, Told, sourceVars
  <2>4. (HighSecurityHolds /\ NeverLooser /\ OldDataIsDropped)'
    BY <1>1, <2>1 DEF Inv, HighSecurityHolds, NeverLooser,
                      OldDataIsDropped, sourceVars, settingVars
  <2> QED
    BY <2>2, <2>3, <2>4 DEF Inv
<1>3. CASE token
  <2>1. ~highSecurity
    BY <1>1, <1>3 DEF Inv, NeverBoth
  <2>2. /\ highSecurity' = highSecurity /\ token' = token /\ local' = local
        /\ ignoreServer' = ignoreServer /\ rules' = rules /\ inFlight' = inFlight
    BY <1>1 DEF sourceVars
  <2>3. /\ level' \in [Setting -> Level]
        /\ level'["include"] = level["include"]
        /\ given' \in [Policy -> Level]
        /\ reported' \in [Policy -> BOOLEAN]
    BY <1>1, <1>3, PreConnectSets
  <2>4. \A p \in Policy :
           /\ level'[p] <= level[p]
           /\ p \notin sent => level'[p] = level[p] /\ given'[p] = given[p]
           /\ p \in sent => level'[p] <= given'[p]
    BY <1>1, <1>3, PreConnectSets
  <2>5. \A p \in Policy : reported'[p] <=> (p \in sent /\ level'[p] = 1)
    BY <1>1, <1>3, PreConnectSets
  <2>6. ClearData(sent, level')
    BY <1>1, <1>3 DEF PreConnect
  <2>7. /\ held' \in [Policy -> Level]
        /\ returned' \subseteq Policy /\ letIn' \subseteq Policy
        /\ \A p \in Policy : held'[p] = 0 \/ held'[p] = held[p]
    BY <1>1, <2>6, ClearDataDrops
  <2>8. \A p \in Policy :
           \/ held'[p] = 0
           \/ /\ p \in returned \cup letIn => p \in returned' \cup letIn'
              /\ \/ p \notin sent
                 \/ level'[p] = level[p]
                 \/ p = "include_enabled" /\ level["include"] = 0
    BY <1>1, <2>6, ClearDataDrops
  <2>9. /\ phase' = IF sent = Policy /\ complete THEN "preconnected" ELSE "off"
        /\ excluded' = (excluded \/ ("include_enabled" \in sent /\ level'["include_enabled"] = 0))
    BY <1>1, <1>3 DEF PreConnect
  <2>10. TypeOK'
    <3>1. excluded' \in BOOLEAN
      BY <2>9
    <3>2. phase' \in {"off", "preconnected"}
      BY <2>9
    <3> QED
      BY <1>1, <2>2, <2>3, <2>7, <3>1, <3>2 DEF TypeOK
  <2>11. NeverBoth' /\ HighSecurityHolds'
    BY <2>1, <2>2 DEF NeverBoth, HighSecurityHolds
  <2>12. NeverLooser'
    <3> SUFFICES ASSUME NEW p \in Policy
                 PROVE  level'[p] <= given'[p] /\ level'[p] <= local[p]
      BY <2>2 DEF NeverLooser
    <3>1. /\ level[p] <= given[p] /\ level[p] <= local[p]
          /\ level[p] \in Nat /\ local[p] \in Nat /\ level'[p] \in Nat
      BY <1>1, <2>3 DEF Inv, NeverLooser, TypeOK, Level
    <3>2. level'[p] <= local[p]
      BY <2>4, <3>1
    <3>3. level'[p] <= given'[p]
      BY <2>4, <3>1
    <3> QED
      BY <3>2, <3>3
  <2>13. Told'
    <3>1. phase' \in {"preconnected", "reply", "running"} => sent = Policy
      BY <2>9
    <3> QED
      BY <2>5, <3>1 DEF Told
  <2>14. OldDataIsDropped'
    <3> SUFFICES ASSUME NEW p \in Policy, held'[p] > level'[p],
                        ~(p = "include_enabled" /\ level'["include"] = 0)
                 PROVE  p \in returned' \cup letIn'
      BY DEF OldDataIsDropped
    <3>1. level'[p] \in Nat
      BY <2>3 DEF Level
    <3>2. held'[p] # 0 /\ held'[p] = held[p]
      BY <2>7, <3>1
    <3>3. ~(p = "include_enabled" /\ level["include"] = 0)
      BY <2>3
    <3>4. level'[p] = level[p]
      BY <2>4, <2>8, <3>2, <3>3
    <3>5. p \in returned \cup letIn
      BY <3>2, <3>3, <3>4 DEF Inv, OldDataIsDropped
    <3> QED
      BY <2>8, <3>2, <3>5
  <2> QED
    BY <2>10, <2>11, <2>12, <2>13, <2>14 DEF Inv
<1> QED
  BY <1>2, <1>3

LEMMA FromServerInv ==
    ASSUME Inv, NEW s \in Key, NEW to \in 0..1, NEW side \in BOOLEAN,
           FromServer(s, to, side)
    PROVE  Inv'
<1>1. /\ level' \in [Setting -> Level]
      /\ level'["include"] = level["include"]
      /\ \A p \in Policy : level'[p] = level[p]
  BY FromServerSets DEF Inv
<1>2. highSecurity => \A t \in HighSecurity : level'[t] = Required(t)
  BY FromServerSets DEF Inv
<1>3. /\ highSecurity' = highSecurity /\ token' = token /\ ignoreServer' = ignoreServer
      /\ local' = local /\ excluded' = excluded /\ rules' = rules
      /\ phase' = phase /\ reported' = reported /\ given' = given
      /\ held' = held /\ inFlight' = inFlight /\ returned' = returned
      /\ letIn' = letIn
  BY DEF FromServer, sourceVars, dataVars
<1>4. TypeOK'
  BY <1>1, <1>3 DEF Inv, TypeOK
<1>5. NeverBoth' /\ HighSecurityHolds'
  BY <1>2, <1>3 DEF Inv, NeverBoth, HighSecurityHolds
<1>6. NeverLooser' /\ Told'
  BY <1>1, <1>3 DEF Inv, NeverLooser, Told
<1>7. OldDataIsDropped'
  BY <1>1, <1>3 DEF Inv, OldDataIsDropped
<1> QED
  BY <1>4, <1>5, <1>6, <1>7 DEF Inv

(* The other steps of a login, and a restart, touch nothing but the phase; *)
(* none of them enters a phase of a login that has not reported policies.  *)
LEMMA PhaseInv ==
    ASSUME Inv,
           UNCHANGED <<sourceVars, settingVars, rules, reported, given, dataVars>>,
           \/ phase' \in {"off", "login"} /\ phase # "off"
           \/ phase = "preconnected" /\ phase' = "reply"
           \/ phase = "reply" /\ phase' = "running"
           \/ phase' = phase
    PROVE  Inv'
<1>1. /\ highSecurity' = highSecurity /\ token' = token /\ ignoreServer' = ignoreServer
      /\ local' = local /\ level' = level /\ excluded' = excluded /\ rules' = rules
      /\ reported' = reported /\ given' = given
      /\ held' = held /\ inFlight' = inFlight /\ returned' = returned
      /\ letIn' = letIn
  BY DEF sourceVars, settingVars, dataVars
<1>2. TypeOK'
  BY <1>1 DEF Inv, TypeOK
<1>3. NeverBoth' /\ Told'
  BY <1>1 DEF Inv, NeverBoth, Told
<1>4. (HighSecurityHolds /\ NeverLooser /\ OldDataIsDropped)'
  BY <1>1 DEF Inv, HighSecurityHolds, NeverLooser, OldDataIsDropped
<1> QED
  BY <1>2, <1>3, <1>4 DEF Inv

(* The steps of the data leave all settings alone. *)
LEMMA DataInv ==
    ASSUME Inv, UNCHANGED <<sourceVars, settingVars, rules, phase, reported, given>>,
           held' \in [Policy -> Level], inFlight' \in [Policy -> Level],
           returned' \subseteq Policy, letIn' \subseteq Policy,
           OldDataIsDropped'
    PROVE  Inv'
<1>1. /\ highSecurity' = highSecurity /\ token' = token /\ ignoreServer' = ignoreServer
      /\ local' = local /\ level' = level /\ excluded' = excluded /\ rules' = rules
      /\ phase' = phase /\ reported' = reported /\ given' = given
  BY DEF sourceVars, settingVars
<1>2. TypeOK'
  BY <1>1 DEF Inv, TypeOK
<1>3. (NeverBoth /\ Told /\ HighSecurityHolds /\ NeverLooser)'
  BY <1>1 DEF Inv, NeverBoth, Told, HighSecurityHolds, NeverLooser
<1> QED
  BY <1>2, <1>3 DEF Inv

LEMMA RecordInv == ASSUME Inv, NEW p \in Policy, Record(p) PROVE Inv'
<1> USE Members
<1>1. /\ held \in [Policy -> Level] /\ inFlight \in [Policy -> Level]
      /\ level \in [Setting -> Level]
      /\ returned \subseteq Policy /\ letIn \subseteq Policy
  BY DEF Inv, TypeOK
<1>2. /\ inFlight' = inFlight /\ returned' = returned /\ level' = level
      /\ held' = [held EXCEPT ![p] = Most(held[p], Shown(p))]
      /\ letIn' = IF Shown(p) > level[p] THEN letIn \cup {p} ELSE letIn
  BY DEF Record, settingVars
<1>3. Shown(p) \in Level
  BY <1>1 DEF Shown, Level
<1> HIDE DEF Shown
<1>4. /\ Most(held[p], Shown(p)) \in Level
      /\ Most(held[p], Shown(p)) > level[p] => held[p] > level[p] \/ Shown(p) > level[p]
  BY <1>1, <1>3 DEF Most, Level
<1>5. \A q \in Policy : held'[q] = IF q = p THEN Most(held[p], Shown(p)) ELSE held[q]
  BY <1>1, <1>2
<1>6. held' \in [Policy -> Level]
  BY <1>1, <1>2, <1>4
<1>7. letIn' \subseteq Policy /\ letIn \subseteq letIn'
  BY <1>1, <1>2
<1>8. OldDataIsDropped'
  <2> SUFFICES ASSUME NEW q \in Policy, held'[q] > level[q],
                      ~(q = "include_enabled" /\ level["include"] = 0)
               PROVE  q \in returned \cup letIn'
    BY <1>2 DEF OldDataIsDropped
  <2>1. CASE held[q] > level[q]
    BY <1>7, <2>1 DEF Inv, OldDataIsDropped
  <2>2. CASE ~(held[q] > level[q])
    BY <1>2, <1>4, <1>5, <2>2
  <2> QED
    BY <2>1, <2>2
<1> QED
  BY <1>1, <1>2, <1>6, <1>7, <1>8, DataInv DEF Record

LEMMA SendInv == ASSUME Inv, NEW p \in Policy, Send(p) PROVE Inv'
<1> USE Members
<1>1. /\ held \in [Policy -> Level] /\ inFlight \in [Policy -> Level]
      /\ level \in [Setting -> Level]
      /\ returned \subseteq Policy /\ letIn \subseteq Policy
  BY DEF Inv, TypeOK
<1>2. /\ inFlight' = [inFlight EXCEPT ![p] = held[p]]
      /\ held' = [held EXCEPT ![p] = 0]
      /\ returned' = returned \ {p} /\ letIn' = letIn \ {p} /\ level' = level
      /\ held[p] # 0
  BY DEF Send, settingVars
<1>3. \A q \in Policy : /\ held'[q] = IF q = p THEN 0 ELSE held[q]
                        /\ inFlight'[q] = IF q = p THEN held[p] ELSE inFlight[q]
  BY <1>1, <1>2
<1>4. held' \in [Policy -> Level] /\ inFlight' \in [Policy -> Level]
  BY <1>1, <1>2 DEF Level
<1>5. OldDataIsDropped'
  <2> SUFFICES ASSUME NEW q \in Policy, held'[q] > level[q],
                      ~(q = "include_enabled" /\ level["include"] = 0)
               PROVE  q \in returned' \cup letIn'
    BY <1>2 DEF OldDataIsDropped
  <2>1. q # p
    BY <1>1, <1>3 DEF Level
  <2>2. q \in returned \cup letIn
    BY <1>3, <2>1 DEF Inv, OldDataIsDropped
  <2> QED
    BY <1>2, <2>1, <2>2
<1>6. returned' \subseteq Policy /\ letIn' \subseteq Policy
  BY <1>1, <1>2
<1> QED
  BY <1>4, <1>5, <1>6, DataInv DEF Send

LEMMA AnswerInv ==
    ASSUME Inv, NEW p \in Policy, NEW failed \in BOOLEAN, Answer(p, failed) PROVE Inv'
<1> USE Members
<1>1. /\ held \in [Policy -> Level] /\ inFlight \in [Policy -> Level]
      /\ level \in [Setting -> Level]
      /\ returned \subseteq Policy /\ letIn \subseteq Policy
  BY DEF Inv, TypeOK
<1>2. /\ inFlight[p] # 0
      /\ inFlight' = [inFlight EXCEPT ![p] = 0]
      /\ held' = IF failed THEN [held EXCEPT ![p] = Most(held[p], inFlight[p])] ELSE held
      /\ returned' = IF failed /\ inFlight[p] > level[p] THEN returned \cup {p} ELSE returned
      /\ letIn' = letIn /\ level' = level
  BY DEF Answer, settingVars
<1>3. /\ Most(held[p], inFlight[p]) \in Level
      /\ Most(held[p], inFlight[p]) > level[p] => held[p] > level[p] \/ inFlight[p] > level[p]
  BY <1>1 DEF Most, Level
<1>4. \A q \in Policy :
         /\ inFlight'[q] = IF q = p THEN 0 ELSE inFlight[q]
         /\ q # p \/ ~failed => held'[q] = held[q]
         /\ q = p /\ failed => held'[q] = Most(held[p], inFlight[p])
  BY <1>1, <1>2
<1>5. held' \in [Policy -> Level] /\ inFlight' \in [Policy -> Level]
  BY <1>1, <1>2, <1>3 DEF Level
<1>6. returned' \subseteq Policy /\ returned \subseteq returned'
  BY <1>1, <1>2
<1>7. OldDataIsDropped'
  <2> SUFFICES ASSUME NEW q \in Policy, held'[q] > level[q],
                      ~(q = "include_enabled" /\ level["include"] = 0)
               PROVE  q \in returned' \cup letIn'
    BY <1>2 DEF OldDataIsDropped
  <2>1. CASE held[q] > level[q]
    BY <1>2, <1>6, <2>1 DEF Inv, OldDataIsDropped
  <2>2. CASE ~(held[q] > level[q])
    <3>1. q = p /\ failed
      BY <1>4, <2>2
    <3>2. inFlight[p] > level[p]
      BY <1>3, <1>4, <2>2, <3>1
    <3> QED
      BY <1>2, <3>1, <3>2
  <2> QED
    BY <2>1, <2>2
<1> QED
  BY <1>1, <1>2, <1>5, <1>6, <1>7, DataInv DEF Answer

LEMMA StepInv == Inv /\ [Next]_vars => Inv'
<1> SUFFICES ASSUME Inv, [Next]_vars PROVE Inv'
  OBVIOUS
<1> USE SettingsAssumption
<1>1. CASE \E missing \in {{}, Policy} \cup {{p} : p \in Watched},
              closed \in SUBSET Watched, complete \in BOOLEAN :
               PreConnect(Policy \ missing, Policy \ closed, complete)
  BY <1>1, PreConnectInv
<1>2. CASE LoginFails
  BY <1>2, PhaseInv DEF LoginFails
<1>3. CASE \E secure \in BOOLEAN : OnConnect(secure)
  BY <1>3, PhaseInv DEF OnConnect
<1>4. CASE \E s \in Key, to \in 0..1, side \in BOOLEAN : FromServer(s, to, side)
  BY <1>4, FromServerInv
<1>5. CASE Connected
  BY <1>5, PhaseInv DEF Connected
<1>6. CASE Restart
  BY <1>6, PhaseInv DEF Restart
<1>7. CASE \E p \in Watched : Record(p) \/ Send(p)
  BY <1>7, RecordInv, SendInv
<1>8. CASE \E p \in Watched, failed \in BOOLEAN : Answer(p, failed)
  BY <1>8, AnswerInv
<1>9. CASE UNCHANGED vars
  BY <1>9, PhaseInv DEF vars
<1> QED
  BY <1>1, <1>2, <1>3, <1>4, <1>5, <1>6, <1>7, <1>8, <1>9 DEF Next

-----------------------------------------------------------------------------
(* Theorems *)

(* Every state is well typed, whatever files, environment, policies and    *)
(* replies.                                                                *)
THEOREM TypeCorrect == Spec => []TypeOK
<1>1. Inv => TypeOK
  BY DEF Inv
<1> QED
  BY InitInv, StepInv, <1>1, PTL DEF Spec

(* No reply of the server moves what high security has set.                *)
THEOREM HighSecurityStays == Spec => []HighSecurityHolds
<1>1. Inv => HighSecurityHolds
  BY DEF Inv
<1> QED
  BY InitInv, StepInv, <1>1, PTL DEF Spec

(* An agent under policies is as strict as its configuration and the last  *)
(* policies, and has reported what is in effect.                           *)
THEOREM PoliciesStay == Spec => []PoliciesHold
<1>1. Inv => PoliciesHold
  BY DEF Inv, PoliciesHold, NeverLooser, Told
<1> QED
  BY InitInv, StepInv, <1>1, PTL DEF Spec

(* Data recorded before a policy tightened its setting is not held         *)
(* afterwards, unless it was being sent and came back, or only a           *)
(* destination's include rule let it in.                                   *)
THEOREM OldDataDropped == Spec => []OldDataIsDropped
<1>1. Inv => OldDataIsDropped
  BY DEF Inv
<1> QED
  BY InitInv, StepInv, <1>1, PTL DEF Spec
=============================================================================
