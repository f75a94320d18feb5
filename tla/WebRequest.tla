----------------------------- MODULE WebRequest -----------------------------
(***************************************************************************)
(* One web request from its arrival to the end of its transaction: the     *)
(* HTTP server's instrumentation (lib/instrumentation/core/http.js), the   *)
(* middleware of an Express-like framework (lib/shim/webframework-shim,    *)
(* lib/instrumentation/express.js), the name state, and what the           *)
(* transaction, the agent and the error collector make of it at the end.   *)
(*                                                                         *)
(* The framework and the application are external: the framework tries the *)
(* layers that match the request in their order, a layer does what it      *)
(* likes in any number of turns, and the client may go away.               *)
(***************************************************************************)
EXTENDS Naturals, Sequences, FiniteSets

CONSTANTS
    None,
    Layer,          \* the layers that match the request
    Mounted,        \* the sequences of layers that are mounted together
    Parent,         \* the router a layer is mounted on; None: the application
    Errorware,      \* the layers that take an error
    Route,          \* the route of each layer
    PathOf,         \* the routes from the application down to each layer
    Late,           \* the layers that may respond after they have called next
    Error,          \* errors that layers raise or report
    StringError,    \* those that are strings
    Malformed,      \* objects that have neither a message nor a stack
    IgnoredError,   \* those of a class the configuration ignores
    IgnoredName,    \* kinds of names a naming rule of the server may ignore
    MaxCalls        \* bound on the calls of noticeError and of res.end

Response == {"ok", "failed", "missing"}   \* "missing": 404, an ignored error
Status == Response \cup {"none"}

VARIABLES
    stack,          \* nameState.pathStack
    frozen,         \* nameState._frozen
    txError,        \* txInfo.error
    errorHandled,   \* txInfo.errorHandled
    pending,        \* what the framework does next in the same turn
    open,           \* layers that have been called and have not called next
    ended,          \* res.end has been called
    statusCode,     \* of the response
    finished,       \* the response has emitted `finish'
    closed,         \* it has emitted `close'
    active,         \* the transaction's timer runs
    rule,           \* what the user's naming rules say of the URL
    forceName,      \* whether the API has named the transaction
    ignore,
    forceIgnore,
    exceptions,     \* Transaction.exceptions
    userErrors,     \* Transaction.userErrors
    final,          \* Transaction.name and statusCode, once it has ended
    ending,         \* what Transaction.end does next in the same turn
    recorded,       \* its recorders, span events and logs have run
    taken,          \* the agent has merged its metrics, and adds its event
    todo,           \* what the error collector has still to process of it
    seenObjects,    \* ErrorCollector.seenObjectsByTransaction
    seenStrings,    \* ErrorCollector.seenStringsByTransaction
    traced          \* error traces collected since the last were sent

(* Variables only the properties read. *)
VARIABLES
    holder,         \* the layer that has the request
    failed,         \* the layer whose error is on its way
    settled,        \* these two when the response or the transaction ended,
                    \* and the error the response is about
    recovered,      \* an errorware has passed the request on without an error
    counted,        \* the errors that have been collected for the transaction
    calls           \* calls of noticeError and of res.end

frameVars == <<pending, open, holder, failed, recovered>>
nameVars == <<stack, frozen>>
errorVars == <<txError, errorHandled>>
txErrors == <<exceptions, userErrors>>
responseVars == <<ended, statusCode, finished, closed>>
collectorVars == <<seenObjects, seenStrings, traced, counted>>
endVars == <<active, ignore, final, ending, recorded, taken, todo, collectorVars>>
apiVars == <<rule, forceName, forceIgnore>>
ghosts == <<settled, calls>>
vars == <<frameVars, nameVars, errorVars, txErrors, responseVars, endVars,
          apiVars, ghosts>>

(* A transaction that is not finalized. *)
Unnamed == [name |-> None, status |-> "none"]

(* The code of the framework, or of Transaction.end, is at work. *)
InTurn == pending # None \/ ending # "no"

(* An Exception: of the error itself, or of the Error noticeError makes of *)
(* a string, a new one each time.  The last is that of the status.         *)
Exception(e) == [error |-> e, copy |-> 0]
UserException(e) == [error |-> e, copy |-> IF e \in StringError THEN calls + 1 ELSE 0]
StatusException == Exception("status")

Enter(l) == [step |-> "enter", at |-> l, err |-> None]
Passed(l, e) == [step |-> "next", at |-> l, err |-> e]
Final(e) == [step |-> "final", at |-> None, err |-> e]

(* The layers mounted on p, in the order the framework tries them. *)
On(p) == IF \E s \in Mounted : Parent[s[1]] = p
         THEN CHOOSE s \in Mounted : Parent[s[1]] = p
         ELSE <<>>

(* wrapEmitWithTransaction; the naming rules are applied early. *)
Init ==
    /\ pending = Enter(On(None)[1])
    /\ open = {} /\ holder = None /\ failed = None /\ recovered = FALSE
    /\ stack = <<>> /\ frozen = FALSE
    /\ txError = None /\ errorHandled = FALSE
    /\ exceptions = <<>> /\ userErrors = <<>>
    /\ ended = FALSE /\ statusCode = "ok" /\ finished = FALSE /\ closed = FALSE
    /\ rule \in {"none", "renames", "ignores"}
    /\ active = TRUE /\ ignore = (rule = "ignores")
    /\ final = Unnamed /\ ending = "no" /\ recorded = FALSE /\ taken = FALSE
    /\ todo = <<>> /\ seenObjects = {} /\ seenStrings = {}
    /\ traced = <<>> /\ counted = <<>>
    /\ forceName = FALSE /\ forceIgnore = None
    /\ settled = None /\ calls = 0

-----------------------------------------------------------------------------
(* The name state *)

AppendPath(r) == IF frozen THEN stack ELSE Append(stack, r)

(* popPath: back to the last entry with this route. *)
PopPath(r) ==
    LET at == {i \in 1..Len(stack) : stack[i] = r}
    IN  IF frozen \/ at = {} THEN stack
        ELSE SubSeq(stack, 1, (CHOOSE i \in at : \A j \in at : j <= i) - 1)

(* getPath: a route "/" adds nothing. *)
Path(s) == SelectSeq(s, LAMBDA r : r # "/")

-----------------------------------------------------------------------------
(* The framework *)

(* What comes after layer l on its router: the next layer that takes an    *)
(* error, or the next that takes none.                                     *)
After(l, e) ==
    LET s == On(Parent[l])
        here == CHOOSE i \in 1..Len(s) : s[i] = l
        fit == {i \in here + 1..Len(s) : (s[i] \in Errorware) <=> (e # None)}
    IN  IF fit # {} THEN Enter(s[CHOOSE i \in fit : \A j \in fit : i <= j])
        ELSE IF Parent[l] # None THEN Passed(Parent[l], e)
        ELSE Final(e)

(* middlewareWithCallbackRecorder: a layer is called. *)
EnterLayer ==
    LET l == pending.at IN
    /\ pending.step = "enter"
    /\ errorHandled' = (errorHandled \/ l \in Errorware)
    /\ stack' = IF l \in Errorware THEN stack ELSE AppendPath(Route[l])
    /\ open' = open \cup {l}
    /\ holder' = l
    /\ pending' = IF On(l) = <<>> THEN None ELSE Enter(On(l)[1])
    /\ UNCHANGED <<failed, recovered, frozen, txError, txErrors, responseVars,
                   endVars, apiVars, ghosts>>

(* Mutant: the path of a layer that fails is popped too. *)
BoundNextPops(l, e) ==
    /\ txError' = IF e # None THEN e ELSE txError
    /\ errorHandled' = (errorHandled /\ e = None)
    /\ stack' = IF l \in Errorware THEN stack ELSE PopPath(Route[l])

(* boundNext: an error is noted and leaves the path to its layer. *)
BoundNext(l, e) ==
    /\ txError' = IF e # None THEN e ELSE txError
    /\ errorHandled' = (errorHandled /\ e = None)
    /\ stack' = IF e # None \/ l \in Errorware THEN stack ELSE PopPath(Route[l])

Pass(l, e) ==
    /\ BoundNext(l, e)
    /\ open' = open \ {l}
    /\ pending' = After(l, e)
    /\ failed' = IF e # None /\ failed = None THEN l ELSE failed
    /\ recovered' = (recovered \/ (l \in Errorware /\ e = None))
    /\ UNCHANGED <<holder, frozen, txErrors, responseVars, endVars, apiVars, ghosts>>

(* The layer that has the request calls next, with or without an error, or *)
(* throws, which comes to the same.                                        *)
CallNext(l, e) ==
    /\ ~InTurn
    /\ active
    /\ holder = l /\ l \in open
    /\ Pass(l, e)

(* A router has run out of layers: it calls the next it was given. *)
RouterPasses == pending.step = "next" /\ Pass(pending.at, pending.err)

-----------------------------------------------------------------------------
(* The response *)

(* wrappedResEnd, errors.add: the error goes to the transaction if no      *)
(* errorware has seen it or the response is an error all the same.         *)
ErrorAdded(status) ==
    exceptions' = IF /\ txError # None
                     /\ ~errorHandled \/ status = "failed"
                     /\ txError \notin IgnoredError
                  THEN Append(exceptions, Exception(txError)) ELSE exceptions

Settle(h, e) ==
    settled' = IF settled # None THEN settled
               ELSE [holder |-> h, failed |-> failed, error |-> e]

(* wrappedResEnd.  Only the first call changes the response, but every     *)
(* call of an active transaction is listened to.                           *)
ResEnd(status, h, e) ==
    /\ IF active THEN ErrorAdded(status) /\ frozen' = TRUE
                 ELSE UNCHANGED <<exceptions, frozen>>
    /\ ended' = TRUE
    /\ statusCode' = status
    /\ Settle(h, e)
    /\ UNCHANGED <<stack, errorVars, userErrors, finished, closed, endVars, apiVars>>

(* A layer responds, or calls res.end once more. *)
Respond(l, status) ==
    /\ ~InTurn
    /\ active
    /\ l \in open \/ (l \in Late /\ holder # None)
    /\ calls < MaxCalls
    /\ calls' = calls + 1
    /\ status = statusCode \/ ~ended
    /\ ResEnd(status, holder, IF status = "failed" THEN txError ELSE None)
    /\ UNCHANGED frameVars

(* finalhandler: nobody has responded. *)
FinalHandler ==
    /\ pending.step = "final"
    /\ pending' = None
    /\ holder' = None
    /\ IF ended
       THEN UNCHANGED <<nameVars, errorVars, txErrors, responseVars, endVars,
                        apiVars, settled>>
       ELSE ResEnd(IF pending.err # None THEN "failed" ELSE "missing", None, pending.err)
    /\ UNCHANGED <<open, failed, recovered, calls>>

-----------------------------------------------------------------------------
(* The end of the transaction *)

(* _partialNameFromUri and getFullName. *)
FullName(status) ==
    IF forceName THEN [kind |-> "custom", path |-> <<>>]
    ELSE IF rule = "renames" THEN [kind |-> "rule", path |-> <<>>]
    ELSE IF stack # <<>> THEN [kind |-> "path", path |-> Path(stack)]
    ELSE IF status = "missing" THEN [kind |-> "status", path |-> <<>>]
    ELSE [kind |-> "uri", path |-> <<>>]

(* What the naming rules may say of the name when they are asked: one that *)
(* has a memory does not say the same twice.                               *)
Verdicts(name) == IF name.kind \in IgnoredName THEN BOOLEAN ELSE {FALSE}

(* The name that was given is normalized each time it is asked for, and    *)
(* the rules may then have the transaction ignored.                        *)
AskedAgain(name) ==
    IF forceName THEN {ignore \/ v : v \in Verdicts(name)} ELSE {ignore}

(* Mutant: the API is not asked before the transaction is recorded. *)
FinalizeNameByRules(name) ==
    \E first, again \in Verdicts(name) :
       ignore' = (ignore \/ first \/ (forceName /\ again))

(* finalizeNameFromUri: the naming rules, then what the API has said; then *)
(* the base segment asks for the name once more.                           *)
FinalizeName(name) ==
    \E first, again \in Verdicts(name) :
       ignore' = \/ IF forceIgnore # None THEN forceIgnore ELSE ignore \/ first
                 \/ forceName /\ again

(* What ends the transaction: its name is finalized and its timer stops.   *)
(* A second end does nothing, and a name that is finalized after the first *)
(* is used by nobody.                                                      *)
End(status) ==
    \/ /\ active
       /\ active' = FALSE
       /\ FinalizeName(FullName(status))
       /\ final' = [name |-> FullName(status), status |-> status]
       /\ ending' = "record"
       /\ UNCHANGED <<recorded, taken, todo, collectorVars>>
    \/ ~active /\ UNCHANGED endVars

(* Transaction.end reads `ignore' before it records. *)
Record ==
    /\ ending = "record"
    /\ recorded' = ~ignore
    /\ ending' = "agent"
    /\ UNCHANGED <<active, ignore, final, taken, todo, collectorVars>>

(* Agent._transactionFinished asks the API first, and reads it again. *)
TransactionFinished ==
    /\ ending = "agent"
    /\ ignore' = IF forceIgnore # None THEN forceIgnore ELSE ignore
    /\ taken' = ~ignore'
    /\ ending' = IF ignore' THEN "no" ELSE "errors"
    /\ UNCHANGED <<active, final, recorded, todo, collectorVars>>

(* What ErrorCollector.onTransactionFinished goes through: user errors     *)
(* always, then exceptions unless the status is ignored, or else an error  *)
(* of the status itself.                                                   *)
ToProcess ==
    userErrors \o (IF exceptions # <<>> /\ final.status # "missing" THEN exceptions
                   ELSE IF exceptions = <<>> /\ final.status = "failed"
                   THEN <<StatusException>> ELSE <<>>)

(* It reads `ignore' once more. *)
ErrorsOfTransaction ==
    /\ ending = "errors"
    /\ todo' = IF ignore THEN <<>> ELSE ToProcess
    /\ ending' = IF todo' = <<>> THEN "no" ELSE "loop"
    /\ UNCHANGED <<active, ignore, final, recorded, taken, collectorVars>>

(* _haveSeen knows an object by what it is and a string by what it says,   *)
(* and marks what it is asked of.                                          *)
IsString(x) == x.error \in StringError /\ x.copy = 0

(* Mutant: both are kept in one map. *)
MarkSeenAmongObjects(entry) ==
    /\ seenObjects' = seenObjects \cup {entry}
    /\ UNCHANGED seenStrings

MarkSeen(entry) ==
    IF IsString(entry.exception)
    THEN seenStrings' = seenStrings \cup {entry} /\ UNCHANGED seenObjects
    ELSE seenObjects' = seenObjects \cup {entry} /\ UNCHANGED seenStrings

HaveSeen(entry) ==
    entry \in IF IsString(entry.exception) THEN seenStrings ELSE seenObjects

(* collect and _isValidException, for a transaction or "Unknown".  What is *)
(* no error after all counts as one of the status, if there is a status.   *)
Collect(tx, x) ==
    LET entry == [tx |-> tx, exception |-> x] IN
    IF x # StatusException /\ HaveSeen(entry)
    THEN UNCHANGED collectorVars
    ELSE /\ IF x # StatusException THEN MarkSeen(entry)
            ELSE UNCHANGED <<seenObjects, seenStrings>>
         /\ IF x.error \in Malformed /\ (tx = "Unknown" \/ final.status = "none")
            THEN UNCHANGED <<traced, counted>>
            ELSE /\ traced' = Append(traced, entry)
                 /\ counted' = IF tx = "own" THEN Append(counted, x) ELSE counted

(* One turn of the loop of _processErrors. *)
ProcessError ==
    /\ ending = "loop"
    /\ Collect("own", Head(todo))
    /\ todo' = Tail(todo)
    /\ ending' = IF todo' = <<>> THEN "no" ELSE "loop"
    /\ ignore' \in AskedAgain(final.name)
    /\ UNCHANGED <<active, final, recorded, taken>>

EndTurn ==
    /\ Record \/ TransactionFinished \/ ErrorsOfTransaction \/ ProcessError
    /\ UNCHANGED <<frameVars, nameVars, errorVars, txErrors, responseVars, apiVars, ghosts>>

(* instrumentedFinish is bound to both events, and neither is removed by   *)
(* the other: removeListener is given the unbound function.                *)
Finish ==
    /\ ~InTurn
    /\ ended /\ ~finished /\ ~closed
    /\ finished' = TRUE
    /\ End(statusCode)
    /\ UNCHANGED <<frameVars, nameVars, errorVars, txErrors, ended, statusCode,
                   closed, apiVars, ghosts>>

(* Mutant: `close' is not listened to. *)
CloseUnheard ==
    /\ ~InTurn
    /\ ~closed
    /\ closed' = TRUE
    /\ Settle(holder, None)
    /\ UNCHANGED <<frameVars, nameVars, errorVars, txErrors, ended, statusCode,
                   finished, endVars, apiVars, calls>>

(* The response is closed, or the client has gone away. *)
Close ==
    /\ ~InTurn
    /\ ~closed
    /\ closed' = TRUE
    /\ Settle(holder, None)
    /\ End(statusCode)
    /\ UNCHANGED <<frameVars, nameVars, errorVars, txErrors, ended, statusCode,
                   finished, apiVars, calls>>

-----------------------------------------------------------------------------
(* The API, called by the application while the transaction is active *)

SetTransactionName ==
    /\ ~InTurn
    /\ active
    /\ forceName' = TRUE
    /\ UNCHANGED <<frameVars, nameVars, errorVars, txErrors, responseVars,
                   endVars, rule, forceIgnore, ghosts>>

SetForceIgnore(b) ==
    /\ ~InTurn
    /\ active
    /\ forceIgnore' = b
    /\ UNCHANGED <<frameVars, nameVars, errorVars, txErrors, responseVars,
                   endVars, rule, forceName, ghosts>>

(* User errors are not subject to the ignored classes.  Without an active  *)
(* transaction they are collected at once.                                 *)
NoticeError(e) ==
    /\ ~InTurn
    /\ calls < MaxCalls
    /\ calls' = calls + 1
    /\ IF active
       THEN userErrors' = Append(userErrors, UserException(e)) /\ UNCHANGED endVars
       ELSE /\ Collect("Unknown", UserException(e))
            /\ UNCHANGED <<userErrors, active, ignore, final, ending, recorded, taken, todo>>
    /\ UNCHANGED <<frameVars, nameVars, errorVars, exceptions, responseVars,
                   apiVars, settled>>

(* Error data is sent: `starting_data_send-error_data'. *)
SendErrors ==
    /\ ~InTurn
    /\ seenObjects' = {} /\ seenStrings' = {} /\ traced' = <<>>
    /\ UNCHANGED <<frameVars, nameVars, errorVars, txErrors, responseVars, active, ignore,
                   final, ending, recorded, taken, todo, counted, apiVars, ghosts>>

(* endTransaction finalizes the name with the status 0, the end of a       *)
(* handle with the one it has, of which there is none yet.                 *)
EndTransaction ==
    /\ ~InTurn
    /\ active
    /\ Settle(holder, None)
    /\ End("none")
    /\ UNCHANGED <<frameVars, nameVars, errorVars, txErrors, responseVars,
                   apiVars, calls>>

Turn ==
    \/ pending # None /\ (EnterLayer \/ RouterPasses \/ FinalHandler)
    \/ EndTurn

Next ==
    \/ Turn
    \/ \E l \in Layer, e \in Error \cup {None} : CallNext(l, e)
    \/ \E l \in Layer, s \in Response : Respond(l, s)
    \/ Finish
    \/ Close
    \/ SetTransactionName
    \/ \E b \in BOOLEAN : SetForceIgnore(b)
    \/ \E e \in Error : NoticeError(e)
    \/ SendErrors
    \/ EndTransaction

(* Synchronous calls return, and a response that has been ended is         *)
(* finished or closed.                                                     *)
Spec == Init /\ [][Next]_vars /\ WF_vars(Turn) /\ WF_vars(Finish \/ Close)

-----------------------------------------------------------------------------
(* Properties *)

(* A transaction that neither the API nor a rule names is named by the     *)
(* routes that lead to the layer that had the request when the response    *)
(* ended, the client went away or the transaction was ended: after an      *)
(* error, by those that lead to the layer that failed.  It has no path     *)
(* when no layer had it.  A layer that responds after it has passed the    *)
(* request on does not change that; an errorware that passes it on as      *)
(* recovered may.                                                          *)
NamedByPath ==
    taken /\ ~forceName /\ rule # "renames" /\ ~recovered =>
        LET l == IF settled.failed # None THEN settled.failed ELSE settled.holder
        IN  IF l = None THEN final.name.kind \in {"status", "uri"}
            ELSE final.name = [kind |-> "path", path |-> Path(PathOf[l])]

Among(x, s) == \E i \in 1..Len(s) : s[i] = x

(* However often an error is raised, reported, and the response ended, it  *)
(* is traced once for the transaction, and once more at most between two   *)
(* sends if it is reported outside of it.  It is turned away only if it    *)
(* has been traced since the last send, or cannot be.  What the            *)
(* application reports always counts; the error of a failed response does  *)
(* unless its class is ignored; a failed response counts one in any case.  *)
ErrorsOnce ==
    /\ \A i, j \in 1..Len(traced) : traced[i] = traced[j] => i = j
    /\ \A i, j \in 1..Len(counted) : counted[i] = counted[j] => i = j
    /\ \A entry \in seenObjects \cup seenStrings :
          Among(entry, traced) \/ entry.exception.error \in Malformed
    /\ taken /\ ending = "no" =>
          /\ \A i \in 1..Len(userErrors) :
                Among(userErrors[i], counted) \/ userErrors[i].error \in Malformed
          /\ settled.error \in Error \ (IgnoredError \cup Malformed) =>
                Among(Exception(settled.error), counted)
          /\ final.status = "failed" => counted # <<>>

(* What a transaction leaves behind, its metrics and spans, what the agent *)
(* makes of it and its errors, is taken as a whole or not at all, though   *)
(* each asks anew whether the transaction is ignored; and the last word is *)
(* with the API.  The exception is one that the API has named and told not *)
(* to be ignored, of a name that a rule ignores: the agent takes it over   *)
(* without what its recorders, spans and logs should have left.            *)
AllOrNothing ==
    ending = "no" /\ ~active =>
        /\ recorded => taken
        /\ counted # <<>> => taken
        /\ taken =>
              \/ recorded
              \/ forceIgnore = FALSE /\ forceName /\ final.name.kind \in IgnoredName
        /\ forceIgnore # None => (taken <=> ~forceIgnore)
        /\ ~taken => ignore

(* A request that has been responded to does not leave its transaction     *)
(* active, whichever events the response still emits.                      *)
TransactionEnds == ended ~> ~active
=============================================================================
