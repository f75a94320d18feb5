-------------------------- MODULE MCTransactionData ---------------------------
(* What becomes of a transaction, one part at a time. *)
EXTENDS TransactionData, TLC

(* The queue of events: five events, two of them of equal priority, and    *)
(* limits on both sides of their number.                                   *)
CONSTANTS e1, e2, e3, e4, e5

MCPriority == (e1 :> 1) @@ (e2 :> 2) @@ (e3 :> 2) @@ (e4 :> 3) @@ (e5 :> 4)

(* Two transactions of one name, a slower one of another, two synthetics. *)
CONSTANTS t1, t2, t3, s1, s2

MCNameOf == (t1 :> "a") @@ (t2 :> "a") @@ (t3 :> "b") @@ (s1 :> "s") @@ (s2 :> "s")
MCDuration == (t1 :> 1) @@ (t2 :> 3) @@ (t3 :> 2) @@ (s1 :> 3) @@ (s2 :> 1)

(* A router with two layers, of which the first has the route "/", beside  *)
(* an errorware and a layer behind it.                                     *)
CONSTANTS router, auth, list, handler, rest, x, y, word, blank

MCMounted == {<<router, handler, rest>>, <<auth, list>>}
MCParent == (router :> None) @@ (handler :> None) @@ (rest :> None) @@
            (auth :> router) @@ (list :> router)
MCRoute == (router :> "/a") @@ (auth :> "/") @@ (list :> "/b") @@
           (handler :> "/") @@ (rest :> "/a")
MCPathOf[l \in Layer] ==
    Append(IF Parent[l] = None THEN <<>> ELSE MCPathOf[Parent[l]], Route[l])

(* An error: x, one of an ignored class, a string, and an object without   *)
(* message and stack.  They take the same way, so that but one layer       *)
(* raises y and the last, which is not reported within the transaction;    *)
(* outside of it y is like x.  What is reported or sent after the end      *)
(* waits for the response to be closed: these touch nothing of each other. *)
(* Where a rule or the API has its say there is but x and nothing outside: *)
(* their words and the errors meet in whether the transaction is ignored.  *)
(* A rule of the user says nothing of a name that is given.                *)
RequestNext ==
    /\ Request!Next
    /\ ~active /\ ~closed => UNCHANGED <<calls, traced>> \/ ending # "no"
    /\ txError' \in {y, blank} => txError' = txError \/ holder = list
    /\ \A i \in 1..Len(userErrors') : userErrors'[i].error # blank
    /\ \A entry \in seenObjects' : entry.tx = "Unknown" => entry.exception.error # y
    /\ rule = "none" \/ ~forceName'
    /\ rule # "none" \/ forceName' \/ forceIgnore' # None =>
          /\ txError' \in {None, x}
          /\ \A i \in 1..Len(userErrors') : userErrors'[i].error = x
          /\ ~active => UNCHANGED calls

(* One transaction of each type, the first of type "web": two of one type  *)
(* do nothing that these do not, and the types may be exchanged.           *)
TracingNext == Tracing!Next /\ types' \in {<<>>, <<"web">>, <<"web", "bg">>}

-----------------------------------------------------------------------------
(* Two paths, and rules of every kind that match one or both: in the       *)
(* configuration two of equal precedence and an ignoring one that          *)
(* remembers; two that the application adds; and two replies, which also   *)
(* match what other rules make of a path.                                  *)
UriA == <<"/a">>
UriB == <<"/b">>
MCUri == {UriA, UriB}

NamingRule(precedence, matches, to, terminal) ==
    [precedence |-> precedence, matches |-> matches, to |-> to, ignore |-> FALSE,
     terminal |-> terminal, global |-> FALSE]
IgnoringRule(precedence, matches, global) ==
    [precedence |-> precedence, matches |-> matches, to |-> <<>>, ignore |-> TRUE,
     terminal |-> global, global |-> global]

NoRules == [name |-> <<>>, ignore |-> <<>>]
MCConfigured ==
    {NoRules,
     [name |-> <<NamingRule(500, {UriA}, <<"x">>, TRUE),
                 NamingRule(500, {UriA, UriB}, <<"y">>, FALSE),
                 NamingRule(1, {UriB}, <<"z">>, FALSE)>>,
      ignore |-> <<IgnoringRule(0, {UriB}, TRUE)>>]}
MCSimple == {IgnoringRule(0, {UriA}, TRUE), NamingRule(0, {UriB}, <<"api">>, TRUE)}
MCSent ==
    {[url |-> <<NamingRule(2, {UriA, UriB, <<"y">>}, <<"s">>, TRUE),
                IgnoringRule(1, {UriB, <<"z">>}, FALSE)>>,
      name |-> <<>>],
     [url |-> <<NamingRule(1, {UriB}, <<"t">>, TRUE)>>,
      name |-> <<NamingRule(2, {<<"route">>}, <<"n">>, TRUE),
                 NamingRule(1, {<<"custom">>, <<"route">>}, <<"m">>, FALSE)>>]}

(* The requests may be exchanged: r1 is the first to come in.  The order   *)
(* of the configuration is reversed where no other rules come in.          *)
CONSTANTS r1, r2
NamingNext ==
    /\ Naming!Next
    /\ tx'[r1].phase = "none" => tx'[r2].phase = "none"
    /\ reverse => UNCHANGED <<added, reply>>

-----------------------------------------------------------------------------
VARIABLE part   \* the part at work

(* The walk that is not taken while another part works. *)
Idle == /\ parentOf = [s \in 1..TreeSize |-> s - 1]
        /\ range = [s \in 1..TreeSize |-> <<0, TreeEnd>>]

-----------------------------------------------------------------------------
(* One part works, and the others stand still in a state of their Init. *)
MCVars == <<vars, tracesVars, queriesVars, samplerVars, requestVars, tracerVars,
            timeVars, metricsVars, invocationVars, trackerVars, namingVars, part>>

MCInit ==
    /\ part \in {"request", "queue", "traces", "queries", "sampler", "tracer", "time",
                 "metrics", "invocation", "tracker", "naming"}
    /\ Init /\ (part = "queue" \/ limit = 0)
    /\ Traces!Init
    /\ Queries!Init
    /\ Sampler!Init /\ (part = "sampler" \/ samplingTarget = 1)
    /\ Request!Init /\ (part = "request" \/ rule = "none")
    /\ Tracing!Init
    /\ part = "time" \/ Idle
    /\ Time!Init
    /\ Collected!Init
    /\ Invocations!Init
    /\ Tracker!Init
    /\ Naming!Init /\ IF part = "naming" THEN config # NoRules ELSE config = NoRules /\ ~reverse

MCNext ==
    /\ \/ part = "queue" /\ Next
       \/ part # "queue" /\ UNCHANGED vars
    /\ \/ part = "traces" /\ Traces!Next
       \/ part # "traces" /\ UNCHANGED tracesVars
    /\ \/ part = "queries" /\ Queries!Next
       \/ part # "queries" /\ UNCHANGED queriesVars
    /\ \/ part = "sampler" /\ Sampler!Next
       \/ part # "sampler" /\ UNCHANGED samplerVars
    /\ \/ part = "request" /\ RequestNext
       \/ part # "request" /\ UNCHANGED requestVars
    /\ \/ part = "tracer" /\ TracingNext
       \/ part # "tracer" /\ UNCHANGED tracerVars
    /\ \/ part = "time" /\ Time!Next
       \/ part # "time" /\ UNCHANGED timeVars
    /\ \/ part = "metrics" /\ Collected!Next
       \/ part # "metrics" /\ UNCHANGED metricsVars
    /\ \/ part = "invocation" /\ Invocations!Next
       \/ part # "invocation" /\ UNCHANGED invocationVars
    /\ \/ part = "tracker" /\ Tracker!Next
       \/ part # "tracker" /\ UNCHANGED trackerVars
    /\ \/ part = "naming" /\ NamingNext
       \/ part # "naming" /\ UNCHANGED namingVars
    /\ UNCHANGED part

(* The fairness of the parts. *)
OthersWait(of) ==
    /\ part = of /\ UNCHANGED part
    /\ of # "traces" => UNCHANGED tracesVars
    /\ of # "request" => UNCHANGED requestVars
    /\ UNCHANGED <<vars, queriesVars, samplerVars, tracerVars, timeVars, metricsVars,
                   invocationVars, trackerVars, namingVars>>

TracesStep(A) == OthersWait("traces") /\ A
RequestStep(A) == OthersWait("request") /\ A

MCSpec ==
    /\ MCInit
    /\ [][MCNext]_MCVars
    /\ WF_MCVars(TracesStep(Traces!Send)) /\ WF_MCVars(TracesStep(Traces!Answered \/ Traces!Lost))
    /\ WF_MCVars(RequestStep(Request!Turn))
    /\ WF_MCVars(RequestStep(Request!Finish \/ Request!Close))
=============================================================================
