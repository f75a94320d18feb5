----------------------------- MODULE OtelBridge -----------------------------
(***************************************************************************)
(* The bridge that lets the spans of the OpenTelemetry API become segments *)
(* and transactions of the agent (lib/otel): the span processor, the rules *)
(* that say what becomes of a span, and the contexts, which carry a        *)
(* transaction and a segment for the agent, and an active span for         *)
(* OpenTelemetry.                                                          *)
(*                                                                         *)
(* A context is an object: whatever is written to one is seen by all calls *)
(* that run in it, now or later.  The spans here are started and made      *)
(* active in one step (startActiveSpan), or never made active.             *)
(***************************************************************************)
EXTENDS Naturals, Sequences, SequencesExt

CONSTANTS MaxTransactions, MaxSpans, MaxSegments, MaxContexts, MaxDepth   \* bounds

VARIABLES
    started,    \* how many transactions have been started
    active,     \* the transactions that have not ended
    segments,   \* the segments but the roots, in the order they were made
    spans,      \* the spans of OpenTelemetry, in the order of their starts
    open,       \* the spans that have not ended
    contexts,   \* the contexts that have been made
    stack       \* the calls under way: the contexts they run in

vars == <<started, active, segments, spans, open, contexts, stack>>

Nil == 0       \* no transaction, no span, and as a segment the root, or none

(* What a span is known by: a segment made for a span has the id of it. *)
NoId == <<"none", Nil>>
SpanId(s) == <<"span", s>>
SegmentId(t, s) ==
    IF s = Nil THEN <<"root", t>>
    ELSE IF segments[s].of = Nil THEN <<"segment", s>> ELSE SpanId(segments[s].of)

(* The active span of a context is one of OpenTelemetry, or one that the   *)
(* agent puts in its place for a segment (FakeSpan).                       *)
NoSpan == [by |-> "nobody", id |-> NoId]
Real(s) == [by |-> "otel", id |-> SpanId(s)]
Fake(id) == [by |-> "agent", id |-> id]

(* The context of the call under way.  Outside of calls a new one is made  *)
(* whenever it is asked for, and what is written to it is lost.            *)
NoContext == [tx |-> Nil, seg |-> Nil, span |-> NoSpan]
Current == IF stack = <<>> THEN NoContext ELSE contexts[Last(stack)]

Init ==
    /\ started = 0 /\ active = {}
    /\ segments = <<>> /\ spans = <<>> /\ open = {}
    /\ contexts = <<>> /\ stack = <<>>

(* The closest span, at or above the one that is active, that has a        *)
(* segment, as long as they are spans of OpenTelemetry.  A span remembers  *)
(* it, for the property alone: it is known from the parents of the spans.  *)
Anchor(span) ==
    IF span.by # "otel" THEN Nil
    ELSE IF spans[span.id[2]].seg # Nil THEN span.id[2]
    ELSE spans[span.id[2]].anchor

-----------------------------------------------------------------------------
(* What the rules make of a span of some kind with some attributes. *)
Kind == {"SERVER", "CONSUMER", "CLIENT", "PRODUCER", "INTERNAL"}
Attribute == {"http", "rpc", "messaging", "db"}

Rule(kind, has) ==
    CASE kind \in {"SERVER", "CONSUMER"} ->
             IF "messaging" \in has /\ {"http", "rpc"} \cap has = {} THEN "consumer" ELSE "server"
      [] kind = "CLIENT" ->
             IF "db" \in has THEN "db"
             ELSE IF "rpc" \in has /\ "http" \notin has THEN "client" ELSE "external"
      [] kind = "PRODUCER" -> "producer"
      [] kind = "INTERNAL" -> "internal"

Types == [kind \in Kind |-> {Rule(kind, has) : has \in SUBSET Attribute}]

Entry == {"server", "consumer"}   \* these begin a transaction
Nothing == {"client"}             \* nothing is built for these

(* A call that runs in a new context. *)
Run(made) ==
    /\ Len(contexts) < MaxContexts /\ Len(stack) < MaxDepth
    /\ contexts' = made
    /\ stack' = Append(stack, Len(made))

(* Mutant: the context goes on in the segment it was in. *)
SetValueInPlace(c, s, t, seg) == [c EXCEPT !.span = Real(s)]

(* OtelContext.setValue: span s of segment seg is made active. *)
SetValue(c, s, t, seg) ==
    IF seg = Nil THEN [c EXCEPT !.span = Real(s)]
    ELSE [tx |-> t, seg |-> seg, span |-> Real(s)]

Activated(s, t, seg) ==
    \/ Run(Append(contexts, SetValue(Current, s, t, seg)))
    \/ UNCHANGED <<contexts, stack>>

Segment(parent, t, of) == [parent |-> parent, tx |-> t, of |-> of]

(* A span is started (onStart).  One that begins a transaction has its     *)
(* segment below the root of it; another one below that of the context,    *)
(* while the transaction of the context is active.  Its transaction is     *)
(* ended with it, according to its kind (reconcileAttributes).             *)
StartSpan(kind, type) ==
    LET s == Len(spans) + 1
        t == IF type \in Entry THEN started + 1 ELSE Current.tx
        made == type \in Entry \/ (type \notin Nothing /\ Current.tx \in active)
        seg == IF made THEN Len(segments) + 1 ELSE Nil
    IN  /\ s <= MaxSpans
        /\ started' = IF type \in Entry THEN t ELSE started
        /\ started' <= MaxTransactions
        /\ active' = IF type \in Entry THEN active \cup {t} ELSE active
        /\ segments' =
               IF ~made THEN segments
               ELSE Append(segments, Segment(IF type \in Entry THEN Nil ELSE Current.seg, t, s))
        /\ spans' = Append(spans, [parent |-> Current.span, seg |-> seg,
                                   tx |-> IF made THEN t ELSE Nil,
                                   anchor |-> Anchor(Current.span),
                                   ends |-> kind \in {"SERVER", "CONSUMER"}])
        /\ open' = open \cup {s}
        /\ Activated(s, t, seg)

(* A span ends (onEnd); for one without a segment nothing is done. *)
EndSpan(s) ==
    /\ s \in open
    /\ open' = open \ {s}
    /\ active' = IF spans[s].ends THEN active \ {spans[s].tx} ELSE active
    /\ UNCHANGED <<started, segments, spans, contexts, stack>>

-----------------------------------------------------------------------------
(* The agent enters a segment or a transaction: the span that stands for   *)
(* it becomes the active one of the new context, and of the one before.    *)
Enter(t, seg, id) ==
    LET before == IF stack = <<>> THEN contexts
                  ELSE [contexts EXCEPT ![Last(stack)].span = Fake(id)]
    IN  Run(Append(before, [tx |-> t, seg |-> seg, span |-> Fake(id)]))

(* An instrumented function is called, or the API starts a segment. *)
EnterSegment ==
    /\ Current.tx \in active /\ Len(segments) < MaxSegments
    /\ segments' = Append(segments, Segment(Current.seg, Current.tx, Nil))
    /\ Enter(Current.tx, Len(segments'), <<"segment", Len(segments')>>)
    /\ UNCHANGED <<started, active, spans, open>>

(* A transaction is started by the API or an instrumentation, within none  *)
(* or one of another type.                                                 *)
EnterTransaction ==
    /\ started < MaxTransactions
    /\ started' = started + 1
    /\ active' = active \cup {started'}
    /\ Enter(started', Nil, <<"root", started'>>)
    /\ UNCHANGED <<segments, spans, open>>

(* A transaction is ended otherwise than by its span. *)
EndTransaction(t) ==
    /\ active' = active \ {t}
    /\ UNCHANGED <<started, segments, spans, open, contexts, stack>>

(* A call returns; the event loop calls something that runs in a context   *)
(* made earlier (ContextManager.with, and AsyncLocalStorage).              *)
Return ==
    /\ stack # <<>>
    /\ stack' = Front(stack)
    /\ UNCHANGED <<started, active, segments, spans, open, contexts>>

Turn ==
    /\ stack = <<>>
    /\ \E c \in DOMAIN contexts : stack' = <<c>>
    /\ UNCHANGED <<started, active, segments, spans, open, contexts>>

Next ==
    \/ \E kind \in Kind : \E type \in Types[kind] : StartSpan(kind, type)
    \/ \E s \in open : EndSpan(s)
    \/ EnterSegment \/ EnterTransaction
    \/ \E t \in active : EndTransaction(t)
    \/ Return \/ Turn

Spec == Init /\ [][Next]_vars

-----------------------------------------------------------------------------
(* Properties *)

(* Where only OpenTelemetry makes spans active, segments stand to each     *)
(* other as the spans they are made for, through calls, callbacks, spans   *)
(* that have ended and transactions within transactions; and a transaction *)
(* that a span has begun is over when the span is.                         *)
SpansAreMirrored ==
    /\ \A s \in DOMAIN spans :
          spans[s].seg # Nil /\ ~spans[s].ends /\ spans[s].anchor # Nil =>
              /\ segments[spans[s].seg].parent = spans[spans[s].anchor].seg
              /\ spans[s].tx = spans[spans[s].anchor].tx
    /\ \A s \in DOMAIN spans \ open : spans[s].ends => spans[s].tx \notin active

(* span-key-interceptor.js, line 16: the agent makes a span active for the *)
(* segment it enters "so that when using otel API it will return the       *)
(* appropriate traceId and spanId".                                        *)
ActiveSpanIsSegment ==
    Current.span.by = "agent" => Current.span.id = SegmentId(Current.tx, Current.seg)
=============================================================================
