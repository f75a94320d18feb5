------------------------------ MODULE AwsLambda ------------------------------
(***************************************************************************)
(* Invocations of a Lambda function (lib/serverless/aws-lambda.js,         *)
(* lib/collector/serverless.js): each has a transaction, which ends at     *)
(* whatever answers the invocation first, and what has been recorded is    *)
(* written out in the turn that ends it, since the process may be frozen   *)
(* as soon as the runtime has the answer.                                  *)
(*                                                                         *)
(* The runtime and the function are external.  The runtime may invoke      *)
(* again before the last invocation has answered (it has timed out), and   *)
(* what an invocation has left behind may run during later ones.  An       *)
(* unhandled rejection or exception need not end the process.              *)
(***************************************************************************)
EXTENDS Naturals, Sequences, FiniteSets

CONSTANTS
    MaxInvocations, \* bound on the invocations
    MaxCalls        \* bound on what an invocation does

Invocation == 1..MaxInvocations     \* in the order they begin
Nil == 0                           \* no invocation, no transaction, no error

(* What is in a place of the array whose ender has run, and what is in one *)
(* nothing was ever put into.                                              *)
Clean == MaxInvocations + 1
Undefined == MaxInvocations + 2

(* A transaction and an error are named after the invocation they are of.  *)
VARIABLES
    started,            \* how many invocations have begun
    streams,            \* those of a handler that streams its response
    transactionEnders,  \* transactionEnders, of which invocations
    place,              \* the ender's place in it
    transactionOf,      \* the transaction of each invocation
    active,             \* the transactions that have not ended
    errors,             \* the errors of each transaction
    uncaughtException,
    enabled,            \* the agent has not been stopped
    collected,          \* ended transactions whose data is in the aggregators
    written,            \* those whose data has been written out
    calls               \* how much each invocation has done

(* Variables only the properties read. *)
VARIABLES
    answered,           \* what the runtime has got: no answer, ok, an error,
                        \* or that the promise of a streaming handler rejects
    ran,                \* the invocations whose enders have run
    again,              \* one has run again
    overlapped          \* an invocation has begun before the last had answered

appVars == <<started, streams, enabled>>
endVars == <<transactionEnders, errors, active, uncaughtException, collected,
             written, ran, again>>
vars == <<appVars, endVars, place, transactionOf, calls, answered, overlapped>>

Init ==
    /\ started = 0 /\ streams = {} /\ enabled = TRUE
    /\ transactionEnders = <<>>
    /\ place = [i \in Invocation |-> 0]
    /\ transactionOf = [i \in Invocation |-> Nil]
    /\ active = {} /\ errors = [t \in Invocation |-> {}]
    /\ uncaughtException = Nil
    /\ collected = {} /\ written = {}
    /\ calls = [i \in Invocation |-> 0]
    /\ answered = [i \in Invocation |-> "no"]
    /\ ran = {} /\ again = FALSE /\ overlapped = FALSE

-----------------------------------------------------------------------------
At(p) == IF p <= Len(transactionEnders) THEN transactionEnders[p] ELSE Undefined

(* transactionEnders[p] = cleanClosure, maybe behind the end of the array. *)
CleanAt(p) ==
    [q \in 1..(IF p > Len(transactionEnders) THEN p ELSE Len(transactionEnders)) |->
        IF q = p THEN Clean ELSE At(q)]

(* errors.add: a transaction that has ended takes no error. *)
WithError(errs, t, e) ==
    IF t \in active /\ e # Nil THEN [errs EXCEPT ![t] = @ \cup {e}] ELSE errs

(* The end of the transactions T, and harvestSync, which throws when the   *)
(* agent has been stopped.  A payload that cannot be written is dropped,   *)
(* and counts as written here.                                             *)
EndAndHarvest(T) ==
    LET finished == collected \cup (T \cap active) IN
    /\ active' = active \ T
    /\ collected' = IF enabled THEN {} ELSE finished
    /\ written' = IF enabled THEN written \cup finished ELSE written

(* endTransaction for invocation i, when the transactions have the errors  *)
(* errs and `uncaught' is set.                                             *)
EndTransaction(i, errs, uncaught) ==
    IF transactionEnders = <<>> \/ At(place[i]) = Clean
    THEN /\ errors' = errs /\ uncaughtException' = uncaught
         /\ UNCHANGED <<transactionEnders, active, collected, written, ran, again>>
    ELSE /\ errors' = WithError(errs, transactionOf[i], uncaught)
         /\ uncaughtException' = Nil
         /\ transactionEnders' = CleanAt(place[i])
         /\ EndAndHarvest({transactionOf[i]})
         /\ ran' = ran \cup {i} /\ again' = (again \/ i \in ran)

(* The runtime takes the first answer. *)
Answer(i, how) ==
    answered' = IF answered[i] = "no" THEN [answered EXCEPT ![i] = how] ELSE answered

-----------------------------------------------------------------------------
(* Mutant: the enders that have run are not counted. *)
PlaceAmongOpen ==
    Cardinality({p \in DOMAIN transactionEnders : transactionEnders[p] \in Invocation}) + 1

(* The place of the next ender. *)
NextPlace == Len(transactionEnders) + 1

(* The runtime invokes the handler, in the context of a call that answered *)
(* an earlier invocation or in none: it hears of a promise in its own.  A  *)
(* transaction that is active there is taken over; a stopped agent makes   *)
(* none.                                                                   *)
Invoke(context, streaming) ==
    LET i == started + 1
        t == IF context # Nil THEN context ELSE IF enabled THEN i ELSE Nil
    IN
    /\ started < MaxInvocations
    /\ started' = i
    /\ streams' = IF streaming THEN streams \cup {i} ELSE streams
    /\ transactionOf' = [transactionOf EXCEPT ![i] = t]
    /\ active' = IF t = i THEN active \cup {i} ELSE active
    /\ IF t = Nil
       THEN UNCHANGED <<transactionEnders, place>>
       ELSE /\ place' = [place EXCEPT ![i] = NextPlace]
            /\ transactionEnders' = Append(transactionEnders, i)
    /\ overlapped' = (overlapped \/ \E j \in 1..started : answered[j] = "no")
    /\ UNCHANGED <<enabled, errors, uncaughtException, collected, written, calls,
                   answered, ran, again>>

Contexts == {Nil} \cup (active \cap {transactionOf[i] :
                                          i \in {j \in 1..started : answered[j] \in {"ok", "error"}}})

(* Something invocation i does or has left behind. *)
Does(i) ==
    /\ i <= started /\ transactionOf[i] # Nil
    /\ calls[i] < MaxCalls
    /\ calls' = [calls EXCEPT ![i] = @ + 1]
    /\ UNCHANGED <<appVars, place, transactionOf, overlapped>>

(* The callback, context.done, context.fail, and context.succeed, which    *)
(* knows no error; a promise that resolves.                                *)
Callback(i, failing) ==
    /\ i \notin streams
    /\ EndTransaction(i, WithError(errors, transactionOf[i], IF failing THEN i ELSE Nil),
                      uncaughtException)
    /\ Answer(i, IF failing THEN "error" ELSE "ok")

(* The handler throws, or its promise rejects.  The promise of one that    *)
(* streams is not listened to: it can but throw, before all else.          *)
Fail(i) ==
    /\ i \in streams => i = started /\ calls[i] = 0
    /\ EndTransaction(i, errors, i)
    /\ Answer(i, "error")

(* The promise of a handler that streams rejects.  The runtime has its     *)
(* answer, and the agent hears nothing of it.                              *)
StreamRejects(i) ==
    /\ i \in streams
    /\ Answer(i, "rejected")
    /\ UNCHANGED endVars

(* The response stream of i emits `error'. *)
StreamError(i) ==
    /\ i \in streams
    /\ errors' = WithError(errors, transactionOf[i], i)
    /\ UNCHANGED <<transactionEnders, active, uncaughtException, collected, written, ran,
                   again, answered>>

(* It closes. *)
StreamClose(i) ==
    /\ i \in streams
    /\ EndTransaction(i, errors, uncaughtException)
    /\ Answer(i, "ok")

Act(i) ==
    /\ Does(i)
    /\ \/ \E failing \in BOOLEAN : Callback(i, failing)
       \/ Fail(i)
       \/ StreamRejects(i)
       \/ StreamError(i)
       \/ StreamClose(i)

(* All enders run, the first with `uncaught', and the array is replaced.   *)
(* The runtime takes it for the answer of those that have not answered.    *)
EndAll(uncaught) ==
    LET live == {p \in DOMAIN transactionEnders : transactionEnders[p] \in Invocation}
        invocations == {transactionEnders[p] : p \in live}
        first == transactionEnders[CHOOSE p \in live : \A q \in live : p <= q]
    IN
    /\ transactionEnders' = <<>>
    /\ EndAndHarvest({transactionOf[i] : i \in invocations})
    /\ uncaughtException' = IF live = {} THEN uncaught ELSE Nil
    /\ errors' = IF live = {} THEN errors
                 ELSE WithError(errors, transactionOf[first], uncaught)
    /\ ran' = ran \cup invocations
    /\ again' = (again \/ invocations \cap ran # {})
    /\ answered' = [i \in Invocation |->
          IF answered[i] # "no" \/ i \notin invocations THEN answered[i]
          ELSE IF invocations = {uncaught} THEN "error" ELSE "ok"]
    /\ UNCHANGED <<appVars, place, transactionOf, overlapped>>

(* The event loop is empty. *)
BeforeExit ==
    /\ transactionEnders # <<>>
    /\ EndAll(uncaughtException)
    /\ UNCHANGED calls

(* `unhandledRejection' and _fatalException, of work of invocation i. *)
Uncaught(i) ==
    /\ i <= started /\ calls[i] < MaxCalls
    /\ calls' = [calls EXCEPT ![i] = @ + 1]
    /\ EndAll(i)

(* Agent.stop disables the collector. *)
Stop ==
    /\ enabled
    /\ enabled' = FALSE
    /\ UNCHANGED <<started, streams, endVars, place, transactionOf, calls, answered, overlapped>>

Next ==
    \/ \E context \in Contexts, streaming \in BOOLEAN : Invoke(context, streaming)
    \/ \E i \in Invocation : Act(i)
    \/ BeforeExit
    \/ \E i \in Invocation : Uncaught(i)
    \/ Stop

Spec == Init /\ [][Next]_vars

-----------------------------------------------------------------------------
TypeOK ==
    /\ started \in 0..MaxInvocations /\ streams \subseteq Invocation
    /\ enabled \in BOOLEAN
    /\ transactionEnders \in Seq(Invocation \cup {Clean, Undefined})
    /\ place \in [Invocation -> Nat]
    /\ transactionOf \in [Invocation -> Invocation \cup {Nil}]
    /\ active \subseteq Invocation
    /\ errors \in [Invocation -> SUBSET Invocation]
    /\ uncaughtException \in Invocation \cup {Nil}
    /\ collected \subseteq Invocation /\ written \subseteq Invocation
    /\ calls \in [Invocation -> 0..MaxCalls]
    /\ answered \in [Invocation -> {"no", "ok", "error", "rejected"}]
    /\ ran \subseteq Invocation /\ again \in BOOLEAN /\ overlapped \in BOOLEAN

(* When the runtime has the answer of an invocation, and may freeze the    *)
(* process, its transaction has ended and is written out, with the error   *)
(* it was answered with, whatever else the function and what earlier       *)
(* invocations left behind do, until an ender has run again.  The          *)
(* rejection of a handler that streams is not such an answer: nothing has  *)
(* ended, until the stream closes.                                         *)
AnsweredIsReported ==
    \A i \in Invocation :
        transactionOf[i] # Nil /\ answered[i] \in {"ok", "error"} /\ ~again =>
            /\ transactionOf[i] \in written \cup collected
            /\ enabled => transactionOf[i] \in written
            /\ answered[i] = "error" => i \in errors[transactionOf[i]]

(* An ender that has run does nothing when it is called again              *)
(* (aws-lambda.js:458-460 says so).                                        *)
EndersRunOnce == ~again

(* An uncaught error is related to the transaction of the invocation that  *)
(* raised it (aws-lambda.js:35-36 says so), as long as invocations do not  *)
(* overlap.                                                                *)
ErrorsAreItsOwn ==
    overlapped \/ again \/ \A t \in Invocation : errors[t] \subseteq {t}
=============================================================================
