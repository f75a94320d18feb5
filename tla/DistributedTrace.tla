--------------------------- MODULE DistributedTrace ---------------------------
(***************************************************************************)
(* Distributed tracing across transactions of several processes: what a    *)
(* transaction takes over from the headers of a request it receives, what  *)
(* it writes into the headers of the requests it makes, and when it asks   *)
(* the sampler (transaction/index.js, tracecontext.js, dt-payload.js).     *)
(*                                                                         *)
(* A process may receive requests before its agent has logged in, when it  *)
(* does not know its account.  Requests reach any number of receivers, in  *)
(* any order, and an intermediary may drop or spoil headers.               *)
(***************************************************************************)
EXTENDS Naturals

CONSTANTS
    Tx,             \* transactions, each in a process of its own
    Outside,        \* a client with another kind of agent (browser, mobile)
    None,           \* null
    Account,        \* trusted account keys
    AccountOf,      \* the key of each transaction's process, once logged in
    Clients,        \* the keys of clients' entries
    ExcludeLegacy,  \* the transactions whose exclude_monisagent_header is set
    Careless,       \* the transactions that may be given headers after their end
    Starting,       \* the transactions that may begin before their process has logged in
    Decision        \* what the random generator and the sampler may yield

ASSUME DistributedTraceAssumption ==
    /\ Outside \notin Tx
    /\ None \notin Tx \cup {Outside} \cup BOOLEAN \cup Nat
    /\ AccountOf \in [Tx -> Account]
    /\ Clients \subseteq Account
    /\ ExcludeLegacy \subseteq Tx
    /\ Careless \subseteq Tx
    /\ Starting \subseteq Tx
    /\ Decision \subseteq [sampled : BOOLEAN, priority : Nat]
    /\ \A d \in Decision : d.sampled => d.priority # 0     \* a 1 is added

VARIABLES
    keyed,      \* whether the process has logged in
    trace,      \* Transaction.traceId; None until it is generated or accepted
    sampled,    \* Transaction.sampled
    priority,   \* Transaction.priority
    joined,     \* isDistributedTrace
    raw,        \* traceContext._traceStateRaw
    wire,       \* headers that have been sent
    event       \* what the transaction's event and spans say of it

(* Variables only the properties read. *)
VARIABLES
    via,        \* the tracestate accepted, if it could be parsed
    heard,      \* whose decision they carried for this account
    early,      \* they were accepted before the login
    late        \* they were accepted after the end

vars == <<keyed, trace, sampled, priority, joined, raw, wire, event,
          via, heard, early, late>>

(* What a tracestate tells each account: the first entry under its key,    *)
(* and whether there are more.                                             *)
Empty == [first |-> [k \in Account |-> None], again |-> {}]

Entry(by, s, p) == [by |-> by, sampled |-> s, priority |-> p]

(* Without an intermediary a header holds a valid traceparent and a        *)
(* tracestate that can be parsed.  legacy is the `monisagent' header.      *)
Headers(by, id, state, legacy) ==
    [by |-> by, trace |-> id, parent |-> "valid", parses |-> TRUE,
     state |-> state, legacy |-> legacy]

(* A client whose entry has no decision, or a decision without priority.   *)
ClientState(k, s) ==
    [first |-> [j \in Account |-> IF j = k THEN Entry(Outside, s, None) ELSE None],
     again |-> {}]

ClientHeaders(k, s) == Headers(Outside, Outside, ClientState(k, s), None)

(* What a receiver may find of headers that were sent. *)
Received(h) ==
    {h, [h EXCEPT !.parent = "invalid"], [h EXCEPT !.parent = "absent"],
     [h EXCEPT !.parses = FALSE]}

Init ==
    /\ \E ts \in SUBSET Starting : keyed = [t \in Tx |-> t \notin ts]
    /\ trace = [t \in Tx |-> None]
    /\ sampled = [t \in Tx |-> None]
    /\ priority = [t \in Tx |-> None]
    /\ joined = [t \in Tx |-> FALSE]
    /\ raw = [t \in Tx |-> Empty]
    /\ \E k \in Clients, s \in {None, TRUE} : wire = {ClientHeaders(k, s)}
    /\ event = [t \in Tx |-> None]
    /\ via = [t \in Tx |-> None]
    /\ heard = [t \in Tx |-> None]
    /\ early = [t \in Tx |-> FALSE]
    /\ late = [t \in Tx |-> FALSE]

-----------------------------------------------------------------------------
(* A trace id that is generated names the transaction it is made for. *)
TraceId(t) == IF trace[t] = None THEN t ELSE trace[t]

(* A _calculatePriority that decides on each call. *)
CalculatePriorityAgain(t) == Decision

(* _calculatePriority: the decision is made once, unless headers without a *)
(* priority come in.                                                       *)
CalculatePriority(t) ==
    IF priority[t] = None
    THEN Decision
    ELSE {[sampled |-> sampled[t], priority |-> priority[t]]}

Decided(t, d) ==
    /\ sampled' = [sampled EXCEPT ![t] = d.sampled]
    /\ priority' = [priority EXCEPT ![t] = d.priority]

(* Transaction.isSampled *)
IsSampled(t) ==
    /\ \E d \in CalculatePriority(t) : Decided(t, d)
    /\ UNCHANGED <<keyed, trace, joined, raw, wire, event, via, heard, early, late>>

-----------------------------------------------------------------------------
(* Accepting *)

(* The tracestate without the entries under the key of t. *)
Others(t, state) ==
    [first |-> [state.first EXCEPT ![AccountOf[t]] = None],
     again |-> state.again \ {AccountOf[t]}]

(* acceptTraceContextPayload: the trace is taken over from the traceparent *)
(* alone, the decision from the first entry of the account, even when it   *)
(* has none.  A process without a key keeps every entry as another's.      *)
AcceptTraceContext(t, h) ==
    /\ h.parent = "valid"
    /\ LET own == h.state.first[AccountOf[t]]
           found == h.parses /\ keyed[t] /\ own # None
       IN /\ sampled' = IF found THEN [sampled EXCEPT ![t] = own.sampled] ELSE sampled
          /\ priority' = IF found THEN [priority EXCEPT ![t] = own.priority] ELSE priority
          /\ heard' = IF found THEN [heard EXCEPT ![t] = own.by] ELSE heard
    /\ raw' = IF h.parses
              THEN [raw EXCEPT ![t] = IF keyed[t] THEN Others(t, h.state) ELSE h.state]
              ELSE raw

(* _acceptDistributedTracePayload: read only without a traceparent.  A     *)
(* priority of 0 is falsy, and then neither it nor the decision is taken.  *)
AcceptLegacy(t, h) ==
    /\ h.parent = "absent"
    /\ keyed[t]
    /\ h.legacy # None
    /\ h.legacy.key = AccountOf[t]
    /\ IF h.legacy.priority # 0
       THEN /\ sampled' = [sampled EXCEPT ![t] = h.legacy.sampled]
            /\ priority' = [priority EXCEPT ![t] = h.legacy.priority]
       ELSE UNCHANGED <<sampled, priority>>
    /\ heard' = [heard EXCEPT ![t] = h.by]
    /\ UNCHANGED raw

(* acceptDistributedTraceHeaders.  Nothing keeps the application from      *)
(* calling it on a transaction that has ended.                             *)
Accept(t, h) ==
    /\ event[t] # None => t \in Careless
    /\ ~joined[t]
    /\ AcceptTraceContext(t, h) \/ AcceptLegacy(t, h)
    /\ joined' = [joined EXCEPT ![t] = TRUE]
    /\ trace' = [trace EXCEPT ![t] = h.trace]
    /\ via' = [via EXCEPT ![t] = IF h.parent = "valid" /\ h.parses THEN h.state ELSE None]
    /\ early' = [early EXCEPT ![t] = ~keyed[t]]
    /\ late' = [late EXCEPT ![t] = event[t] # None]
    /\ UNCHANGED <<keyed, wire, event>>

-----------------------------------------------------------------------------
(* Inserting *)

(* A createTracestate that forgets the entries of others. *)
TracestateAlone(t, d) ==
    [first |-> [k \in Account |-> IF k = AccountOf[t] /\ keyed[t]
                                  THEN Entry(t, d.sampled = TRUE, d.priority)
                                  ELSE None],
     again |-> {}]

(* createTracestate: a priority of 0 is written as none. *)
Tracestate(t, d) ==
    IF keyed[t]
    THEN [first |-> [raw[t].first EXCEPT ![AccountOf[t]] =
                        Entry(t, d.sampled = TRUE,
                              IF d.priority = 0 THEN None ELSE d.priority)],
          again |-> IF raw[t].first[AccountOf[t]] = None
                    THEN raw[t].again ELSE raw[t].again \cup {AccountOf[t]}]
    ELSE raw[t]

(* _createDistributedTracePayload: a stub before the login. *)
Payload(t, d) ==
    IF keyed[t] /\ t \notin ExcludeLegacy
    THEN [key |-> AccountOf[t], sampled |-> d.sampled, priority |-> d.priority]
    ELSE None

(* An insert after which headers may still be accepted. *)
InsertAndStayOpen(t) ==
    /\ \E d \in CalculatePriority(t) :
        /\ Decided(t, d)
        /\ wire' = wire \cup
               {Headers(t, TraceId(t), Tracestate(t, d), Payload(t, d))}
    /\ UNCHANGED <<keyed, trace, joined, raw, event, via, heard, early, late>>

(* insertDistributedTraceHeaders *)
Insert(t) ==
    /\ \E d \in CalculatePriority(t) :
        /\ Decided(t, d)
        /\ wire' = wire \cup
               {Headers(t, TraceId(t), Tracestate(t, d), Payload(t, d))}
    /\ joined' = [joined EXCEPT ![t] = TRUE]
    /\ UNCHANGED <<keyed, trace, raw, event, via, heard, early, late>>

(* Transaction.end: decides at the latest, and the event is recorded with  *)
(* the intrinsics of addDistributedTraceIntrinsics.                        *)
End(t) ==
    /\ event[t] = None
    /\ \E d \in CalculatePriority(t) :
        /\ Decided(t, d)
        /\ event' = [event EXCEPT ![t] = [trace |-> TraceId(t),
                         sampled |-> d.sampled = TRUE, priority |-> d.priority]]
    /\ UNCHANGED <<keyed, trace, joined, raw, wire, via, heard, early, late>>

(* The agent of t's process connects: onConnect sets the trusted account   *)
(* key, account id and application id together.                            *)
Login(t) ==
    /\ ~keyed[t]
    /\ keyed' = [keyed EXCEPT ![t] = TRUE]
    /\ UNCHANGED <<trace, sampled, priority, joined, raw, wire, event,
                   via, heard, early, late>>

Next ==
    \E t \in Tx :
        \/ Login(t)
        \/ IsSampled(t)
        \/ \E g \in wire : \E h \in Received(g) : Accept(t, h)
        \/ Insert(t)
        \/ End(t)

Spec == Init /\ [][Next]_vars

-----------------------------------------------------------------------------
(* Properties *)

States == [first : [Account -> {None} \cup [by : Tx \cup {Outside},
                                           sampled : BOOLEAN \cup {None},
                                           priority : Nat \cup {None}]],
           again : SUBSET Account]

AllHeaders == [by : Tx \cup {Outside}, trace : Tx \cup {Outside},
               parent : {"valid", "invalid", "absent"}, parses : BOOLEAN,
               state : States,
               legacy : {None} \cup [key : Account, sampled : BOOLEAN \cup {None},
                                    priority : Nat]]

TypeOK ==
    /\ keyed \in [Tx -> BOOLEAN]
    /\ trace \in [Tx -> Tx \cup {Outside, None}]
    /\ sampled \in [Tx -> BOOLEAN \cup {None}]
    /\ priority \in [Tx -> Nat \cup {None}]
    /\ joined \in [Tx -> BOOLEAN]
    /\ raw \in [Tx -> States]
    /\ wire \subseteq AllHeaders
    /\ event \in [Tx -> {None} \cup [trace : Tx \cup {Outside},
                                     sampled : BOOLEAN, priority : Nat]]
    /\ via \in [Tx -> States \cup {None}]
    /\ heard \in [Tx -> Tx \cup {Outside, None}]
    /\ early \in [Tx -> BOOLEAN]
    /\ late \in [Tx -> BOOLEAN]

(* Two transactions of an account that are joined by intact headers agree  *)
(* on the sampling decision, also when processes of other accounts lie     *)
(* between them, whatever either of them does before, between and after.   *)
(* Only a priority that was rolled as 0 does not travel.                   *)
OneDecision ==
    \A t \in Tx : heard[t] \in Tx /\ priority[heard[t]] # 0 =>
        /\ priority[t] = priority[heard[t]]
        /\ (sampled[t] = TRUE) <=> (sampled[heard[t]] = TRUE)

(* All headers a transaction sends, to whomever, name its trace and its    *)
(* decision, and so do the event and the spans it records, unless it       *)
(* accepts headers after its end.                                          *)
SaysTheSame ==
    /\ \A h \in wire : h.by \in Tx => h.trace = TraceId(h.by)
    /\ \A h \in wire : \A k \in Account :
          LET e == h.state.first[k] IN
          e # None /\ e.by \in Tx =>
              /\ h.trace = TraceId(e.by)
              /\ e.sampled = (sampled[e.by] = TRUE)
              /\ e.priority = IF priority[e.by] = 0 THEN None ELSE priority[e.by]
    /\ \A t \in Tx : event[t] # None /\ ~late[t] =>
          /\ event[t].trace = TraceId(t)
          /\ event[t].priority = priority[t]
          /\ event[t].sampled = (sampled[t] = TRUE)

(* What other accounts wrote into the tracestate goes on unchanged.  Two   *)
(* entries under one key arise only where a process accepts headers before *)
(* its login and sends after it.                                           *)
StatePassesOn ==
    /\ \A h \in wire : h.by \in Tx /\ via[h.by] # None =>
              \A k \in Account \ {AccountOf[h.by]} :
                  h.state.first[k] = via[h.by].first[k]
    /\ \A h \in wire : \A k \in h.state.again :
          \E t \in Tx : AccountOf[t] = k /\ early[t]

=============================================================================
