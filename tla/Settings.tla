------------------------------ MODULE Settings ------------------------------
(***************************************************************************)
(* The agent's settings (lib/config): where their values come from, what   *)
(* high security, security policies and the server may do to them at each  *)
(* login, the attribute filter that is built from them, and the data that  *)
(* was recorded under them.                                                *)
(*                                                                         *)
(* A setting has a level, 0 being its most secure value.  record_sql has   *)
(* three: off, obfuscated, raw; strip_exception_messages is at level 0     *)
(* when messages are stripped, include and destination_include when the    *)
(* global list of include rules and those of the destinations are empty.   *)
(***************************************************************************)
EXTENDS Naturals, FiniteSets

CONSTANTS
    File,       \* what configuration files may say: functions on settings
    Environment,\* what environment variables may say
    Watched,    \* the policies the collector varies; the others stay enabled
    Key         \* the settings the server sends

Unset == 3
Level == 0..2

(* The settings with a security policy, those high security coerces, those *)
(* the server sets, those it only disables.                                *)
Policy == {"record_sql", "include_enabled", "strip_exception_messages",
           "custom_events", "custom_attributes"}
HighSecurity == {"strip_exception_messages", "allow_all_headers", "include",
                 "destination_include", "record_sql", "slow_sql", "forwarding",
                 "ai_monitoring"}
Nested == {"allow_all_headers", "slow_sql", "capture_events"}
Disabled == {"ai_monitoring", "capture_events", "custom_insights_events"}
Setting == Policy \cup HighSecurity \cup Nested \cup Disabled

ASSUME SettingsAssumption ==
    /\ Watched \subseteq Policy
    /\ Key \subseteq Setting
    /\ \A f \in File \cup Environment : f \in [Setting -> Level \cup {Unset}]

VARIABLES
    highSecurity,   \* config.high_security
    token,          \* config.security_policies_token is set
    ignoreServer,   \* config.ignore_server_configuration
    level,          \* the settings
    excluded,       \* attributes.exclude has request.parameters.*
    rules,          \* what the attribute filter was built from
    phase,          \* of the agent: off, login, preconnected, reply, running
    reported,       \* the policies reported with the connect
    held,           \* the highest level the data shows that a policy's
                    \* clearData is there to drop and that is still held
    inFlight        \* the same for data that is being sent

(* Variables only the properties read. *)
VARIABLES
    local,          \* the settings before the first login
    given,          \* the policies of the last login
    returned,       \* policies that were tightened while data was being
                    \* sent that came back
    letIn           \* policies that were tightened and whose data the filter
                    \* has let in since

sourceVars == <<highSecurity, token, ignoreServer, local>>
settingVars == <<level, excluded>>
dataVars == <<held, inFlight, returned, letIn>>
vars == <<sourceVars, settingVars, rules, phase, reported, given, dataVars>>

Least(a, b) == IF a < b THEN a ELSE b
Most(a, b) == IF a < b THEN b ELSE a

-----------------------------------------------------------------------------
(* Where settings come from *)

Default == [s \in Setting |->
    IF s \in {"allow_all_headers", "include", "destination_include", "slow_sql",
              "ai_monitoring"}
    THEN 0 ELSE 1]

(* The file overwrites the defaults, the environment the file. *)
FromPassed(lv, file) ==
    [s \in Setting |-> IF file[s] = Unset THEN lv[s] ELSE file[s]]
FromEnvironment(lv, env) ==
    [s \in Setting |-> IF env[s] = Unset THEN lv[s] ELSE env[s]]

Required(s) == IF s = "record_sql" THEN 1 ELSE 0

(* Coerces to the required value, also from a stricter one. *)
ApplyHighSecurity(lv) ==
    [s \in Setting |-> IF s \in HighSecurity THEN Required(s) ELSE lv[s]]

(* AttributeFilter.update: the include rules, the global ones and those of *)
(* the destinations, count only when enabled.                              *)
Rules(lv, ex) ==
    [include |-> /\ lv["include_enabled"] = 1
                 /\ lv["include"] = 1 \/ lv["destination_include"] = 1,
     exclude |-> ex]

(* The constructor.  It throws when high security and policies are both    *)
(* configured, and the agent is disabled.                                  *)
Init ==
    /\ highSecurity \in BOOLEAN /\ token \in BOOLEAN /\ ignoreServer \in BOOLEAN
    /\ \E f \in File, e \in Environment :
           LET lv == FromEnvironment(FromPassed(Default, f), e)
           IN  level = IF highSecurity THEN ApplyHighSecurity(lv) ELSE lv
    /\ excluded = highSecurity
    /\ rules = Rules(level, excluded)
    /\ phase = IF highSecurity /\ token THEN "off" ELSE "login"
    /\ reported = [p \in Policy |-> FALSE]
    /\ local = level
    /\ given = [p \in Policy |-> 2]
    /\ held = [p \in Policy |-> 0]
    /\ inFlight = [p \in Policy |-> 0]
    /\ returned = {}
    /\ letIn = {}

-----------------------------------------------------------------------------
(* The login *)

(* What a policy allows at most. *)
Allowed(p, enabled) == IF p \in enabled THEN 1 ELSE 0

(* Mutant: a policy is adopted as it is sent. *)
AdoptPolicy(lv, p, enabled) == Allowed(p, enabled)

(* _getMostSecure *)
MostSecure(lv, p, enabled) == Least(lv[p], Allowed(p, enabled))

(* The final policies: what is in effect now. *)
Reported(lv, sent) == [p \in Policy |-> p \in sent /\ lv[p] = 1]

(* Mutant: data is kept when a policy is tightened. *)
Kept(sent, lv) == UNCHANGED <<held, returned, letIn>>

(* clearData: tightened settings drop the data they are about, the include *)
(* rules only when there are global ones.                                  *)
ClearData(sent, lv) ==
    LET tightened == {p \in sent : lv[p] # level[p]}
        cleared == IF level["include"] = 0 THEN tightened \ {"include_enabled"}
                   ELSE tightened
    IN  /\ held' = [p \in Policy |-> IF p \in cleared THEN 0 ELSE held[p]]
        /\ returned' = returned \ cleared
        /\ letIn' = letIn \ cleared

(* applyLasp.  The policies are applied one and all, then the agent shuts  *)
(* down if one is missing, or one is required that it does not know.       *)
PreConnect(sent, enabled, complete) ==
    /\ phase = "login"
    /\ \/ /\ token
          /\ level' = [s \in Setting |->
                          IF s \in sent THEN MostSecure(level, s, enabled) ELSE level[s]]
          /\ excluded' = (excluded \/ ("include_enabled" \in sent /\ level'["include_enabled"] = 0))
          /\ reported' = Reported(level', sent)
          /\ ClearData(sent, level')
          /\ given' = [p \in Policy |-> IF p \in sent THEN Allowed(p, enabled) ELSE given[p]]
          /\ phase' = IF sent = Policy /\ complete THEN "preconnected" ELSE "off"
       \/ /\ ~token
          /\ phase' = IF sent = {} THEN "preconnected" ELSE "off"
          /\ UNCHANGED <<settingVars, reported, given, held, returned, letIn>>
    /\ UNCHANGED <<sourceVars, rules, inFlight>>

(* preconnect or connect failed: the login is tried again. *)
LoginFails ==
    /\ phase = "preconnected"
    /\ phase' = "login"
    /\ UNCHANGED <<sourceVars, settingVars, rules, reported, given, dataVars>>

(* onConnect.  A reply without high security disables an agent that has    *)
(* it; the keys of any other are taken over one by one, in one turn.       *)
OnConnect(secure) ==
    /\ phase = "preconnected"
    /\ phase' = IF highSecurity /\ ~secure THEN "off" ELSE "reply"
    /\ UNCHANGED <<sourceVars, settingVars, rules, reported, given, dataVars>>

(* Mutant: the server may change what high security has set. *)
UpdateUnguarded(s, to) == level' = [level EXCEPT ![s] = to]

(* _updateNestedIfChanged *)
UpdateNested(s, to) ==
    level' = IF highSecurity /\ s \in HighSecurity THEN level
             ELSE [level EXCEPT ![s] = to]

(* _disableOption *)
DisableOption(s, to) == level' = IF to = 0 THEN [level EXCEPT ![s] = 0] ELSE level

(* _fromServer: `side' tells the keys of agent_config, which may be        *)
(* ignored.  All other settings are not the server's to change.            *)
FromServer(s, to, side) ==
    /\ phase = "reply"
    /\ \/ /\ s \in Nested /\ ~(side /\ ignoreServer)
          /\ UpdateNested(s, to)
       \/ /\ s \in Disabled /\ ~(side /\ ignoreServer)
          /\ DisableOption(s, to)
       \/ /\ s \notin Nested \cup Disabled \/ (side /\ ignoreServer)
          /\ UNCHANGED level
    /\ UNCHANGED <<sourceVars, excluded, rules, phase, reported, given, dataVars>>

Connected ==
    /\ phase = "reply"
    /\ phase' = "running"
    /\ UNCHANGED <<sourceVars, settingVars, rules, reported, given, dataVars>>

(* An answer asks for a restart. *)
Restart ==
    /\ phase = "running"
    /\ phase' = "login"
    /\ UNCHANGED <<sourceVars, settingVars, rules, reported, given, dataVars>>

-----------------------------------------------------------------------------
(* The data.  Sends that were under way go on while the agent logs in.     *)

Recording == phase \in {"login", "preconnected", "running"}

(* What a policy is about is recorded as its setting says at that moment;  *)
(* an attribute gets in because of an include rule when the rules that the *)
(* filter was built from have one.                                         *)
Shown(p) == IF p = "include_enabled" /\ rules.include THEN 1 ELSE level[p]

Record(p) ==
    /\ Recording
    /\ p # "include_enabled" \/ rules.include
    /\ held' = [held EXCEPT ![p] = Most(@, Shown(p))]
    /\ letIn' = IF Shown(p) > level[p] THEN letIn \cup {p} ELSE letIn
    /\ UNCHANGED <<sourceVars, settingVars, rules, phase, reported, given,
                   inFlight, returned>>

Send(p) ==
    /\ phase = "running"
    /\ held[p] # 0 /\ inFlight[p] = 0
    /\ inFlight' = [inFlight EXCEPT ![p] = held[p]]
    /\ held' = [held EXCEPT ![p] = 0]
    /\ returned' = returned \ {p}
    /\ letIn' = letIn \ {p}
    /\ UNCHANGED <<sourceVars, settingVars, rules, phase, reported, given>>

(* The data comes back when the send has failed. *)
Answer(p, failed) ==
    /\ Recording
    /\ inFlight[p] # 0
    /\ inFlight' = [inFlight EXCEPT ![p] = 0]
    /\ held' = IF failed THEN [held EXCEPT ![p] = Most(@, inFlight[p])] ELSE held
    /\ returned' = IF failed /\ inFlight[p] > level[p] THEN returned \cup {p} ELSE returned
    /\ UNCHANGED <<sourceVars, settingVars, rules, phase, reported, given, letIn>>

Next ==
    \/ \E missing \in {{}, Policy} \cup {{p} : p \in Watched},
          closed \in SUBSET Watched, complete \in BOOLEAN :
           PreConnect(Policy \ missing, Policy \ closed, complete)
    \/ LoginFails
    \/ \E secure \in BOOLEAN : OnConnect(secure)
    \/ \E s \in Key, to \in 0..1, side \in BOOLEAN : FromServer(s, to, side)
    \/ Connected
    \/ Restart
    \/ \E p \in Watched : Record(p) \/ Send(p)
    \/ \E p \in Watched, failed \in BOOLEAN : Answer(p, failed)

Spec == Init /\ [][Next]_vars

-----------------------------------------------------------------------------
(* Properties *)

TypeOK ==
    /\ highSecurity \in BOOLEAN /\ token \in BOOLEAN /\ ignoreServer \in BOOLEAN
    /\ level \in [Setting -> Level] /\ local \in [Setting -> Level]
    /\ excluded \in BOOLEAN
    /\ rules \in [include : BOOLEAN, exclude : BOOLEAN]
    /\ phase \in {"off", "login", "preconnected", "reply", "running"}
    /\ reported \in [Policy -> BOOLEAN]
    /\ given \in [Policy -> Level]
    /\ held \in [Policy -> Level] /\ inFlight \in [Policy -> Level]
    /\ returned \subseteq Policy /\ letIn \subseteq Policy

(* No sequence of replies of the server, at either of their two levels,    *)
(* moves a setting that high security has set.                             *)
HighSecurityHolds ==
    highSecurity => \A s \in HighSecurity : level[s] = Required(s)

(* An agent that runs under security policies is at least as strict as its *)
(* own configuration and as the last policies it was given, whatever the   *)
(* server's replies and earlier logins did, and it has told the collector  *)
(* what is in effect.                                                      *)
PoliciesHold ==
    token /\ phase \in {"preconnected", "reply", "running"} =>
        \A p \in Policy : /\ level[p] <= given[p]
                          /\ level[p] <= local[p]
                          /\ reported[p] <=> level[p] = 1

(* No data that was recorded before a policy tightened its setting is held *)
(* after the login, except for what was being sent at that moment and came *)
(* back because the send failed, and for what only a destination's include *)
(* rule let in.  What the filter lets in later, by rules that the policy   *)
(* has closed, is not old data: FilterFollows is about it.                 *)
OldDataIsDropped ==
    \A p \in Policy :
        held[p] > level[p] =>
            \/ p \in returned \cup letIn
            \/ p = "include_enabled" /\ level["include"] = 0

(* While the agent runs, the attribute filter tests keys against the       *)
(* configuration, not against what it was when the agent was built.        *)
FilterFollows == phase = "running" => rules = Rules(level, excluded)
=============================================================================
