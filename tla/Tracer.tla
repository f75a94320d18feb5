------------------------------- MODULE Tracer -------------------------------
(***************************************************************************)
(* How calls of instrumented functions become the segments of a trace      *)
(* (lib/transaction/tracer/index.js, lib/shim/shim.js, lib/context-manager *)
(* and the transactions of api.js): the context that follows the calls,    *)
(* the segments made in it, and the callbacks, promises and streams that   *)
(* outlive the call that made them.                                        *)
(*                                                                         *)
(* A segment starts when it is made, which is why no time is kept; touch   *)
(* gives it an end.  When its transaction ends, one without an end is cut  *)
(* off and named so (TraceSegment.finalize).                               *)
(***************************************************************************)
EXTENDS Naturals, Sequences, SequencesExt, FiniteSets

CONSTANTS
    MaxTransactions, MaxSegments, MaxBound, MaxListeners, MaxDepth   \* bounds

VARIABLES
    types,      \* the type of each transaction, in the order of their starts
    active,     \* the transactions that have not ended
    segments,   \* the segments but the roots, in the order they were made
    opaque,     \* the segments with `opaque' set
    touched,    \* the segments that have an end
    stack,      \* the calls under way, each with the context it runs in
    bound       \* what outlives its call: callbacks, promises, streams and
                \* transactions that are ended later

vars == <<types, active, segments, opaque, touched, stack, bound>>

Nil == 0       \* no transaction, no segment, and as a parent the root
Failed == MaxSegments + 1
Segment == 1..Len(segments)

(* The context of the call under way; there is none in the event loop. *)
NoCall == [tx |-> Nil, seg |-> Nil, full |-> FALSE, then |-> "nothing"]
Current == IF stack = <<>> THEN NoCall ELSE Last(stack)

Init ==
    /\ types = <<>> /\ active = {}
    /\ segments = <<>> /\ opaque = {} /\ touched = {}
    /\ stack = <<>> /\ bound = {}

-----------------------------------------------------------------------------
(* A segment below p that counts for transaction t, and that is entered in *)
(* the context of transaction `within'.  SegmentTree.add looks for p in    *)
(* the tree of t.  streamed is for the property alone: it was made by an   *)
(* event or a listener of a stream, or below a segment that was.           *)
Hangs(p, t) == p = Nil \/ (segments[p].tx = t /\ segments[p].hangs)
Streamed(p, from) == from \in {"event", "listener"} \/ (p # Nil /\ segments[p].streamed)

Make(p, t, within, kind, from) ==
    /\ Len(segments) < MaxSegments
    /\ segments' = Append(segments,
           [parent |-> p, tx |-> t, within |-> within, hangs |-> Hangs(p, t),
            kind |-> kind, from |-> from, streamed |-> Streamed(p, from)])

(* A call in the context of transaction t and segment s.  full: s ends     *)
(* with it.  then: what it leaves behind.                                  *)
Call(t, s, full, then) ==
    /\ Len(stack) < MaxDepth
    /\ stack' = Append(stack, [tx |-> t, seg |-> s, full |-> full, then |-> then])

(* What is bound to segment s in the context of the call under way.  event:*)
(* the segment of the event that a stream measures.                        *)
Binding(is, s) == [is |-> is, tx |-> Current.tx, seg |-> s, event |-> Nil]

Bind(b) ==
    /\ bound' = bound \cup {b}
    /\ LET listeners == {c \in bound' : c.is = "listener"}
       IN  Cardinality(listeners) <= MaxListeners /\ Cardinality(bound' \ listeners) <= MaxBound

-----------------------------------------------------------------------------
(* The event loop calls the application in a context in which it waits. *)
Turn ==
    /\ stack = <<>>
    /\ \E s \in Segment : Call(segments[s].within, s, FALSE, "nothing")
    /\ UNCHANGED <<types, active, segments, opaque, touched, bound>>

(* startWebTransaction, startBackgroundTransaction within no transaction   *)
(* or one of another type; transactionProxy where there is no segment.     *)
Begin(type) ==
    /\ Len(types) < MaxTransactions
    /\ Current.tx \in active => types[Current.tx] # type
    /\ types' = Append(types, type)
    /\ active' = active \cup {Len(types')}
    /\ Make(Nil, Len(types'), Len(types'), "plain", "begin")
    /\ Call(Len(types'), Len(segments'), FALSE, "end")
    /\ UNCHANGED <<opaque, touched, bound>>

(* The same within one of this type (addSegment), where an opaque segment  *)
(* stands for the one it would get.                                        *)
BeginNested(type) ==
    /\ Current.tx \in active /\ types[Current.tx] = type
    /\ \/ /\ Current.seg \in opaque
          /\ Call(Current.tx, Current.seg, TRUE, "nothing")
          /\ UNCHANGED segments
       \/ /\ Current.seg \notin opaque
          /\ Make(Current.seg, Current.tx, Current.tx, "plain", "call")
          /\ Call(Current.tx, Len(segments'), TRUE, "nothing")
    /\ UNCHANGED <<types, active, opaque, touched, bound>>

(* Transaction.end: whatever is still without an end is cut off. *)
End(t) ==
    /\ active' = active \ {t}
    /\ touched' = touched \cup {s \in Segment : segments[s].tx = t /\ segments[s].hangs}

EndLater(b) ==
    /\ b.is = "end"
    /\ End(b.tx)
    /\ bound' = bound \ {b}
    /\ UNCHANGED <<types, segments, opaque, stack>>

-----------------------------------------------------------------------------
(* A recorded function is called (recordWrapper) and gets a segment.       *)
RecordOwn(kind, leaves) ==
    /\ Make(Current.seg, Current.tx, Current.tx, kind, "call")
    /\ opaque' = IF kind = "opaque" THEN opaque \cup {Len(segments')} ELSE opaque
    /\ \/ /\ leaves = "callback"
          /\ Bind(Binding("callback", Len(segments')))
          /\ Call(Current.tx, Len(segments'), TRUE, "nothing")
       \/ /\ leaves # "callback"
          /\ Call(Current.tx, Len(segments'), TRUE, leaves)
          /\ UNCHANGED bound

(* It gets none, and its callback and stream are only bound to the         *)
(* segment it is called in.                                                *)
RecordWithin(leaves) ==
    /\ \/ /\ leaves = "callback"
          /\ Bind(Binding("bound", Current.seg))
          /\ Call(Current.tx, Current.seg, TRUE, "nothing")
       \/ /\ leaves # "callback"
          /\ Call(Current.tx, Current.seg, TRUE, IF leaves = "stream" THEN "innerstream" ELSE leaves)
          /\ UNCHANGED bound
    /\ UNCHANGED <<segments, opaque>>

Record(kind, leaves) ==
    /\ Current.tx \in active
    /\ IF \/ Current.seg \in opaque
          \/ kind = "internal" /\ segments[Current.seg].kind = "internal"
       THEN RecordWithin(leaves)
       ELSE RecordOwn(kind, leaves)
    /\ UNCHANGED <<types, active, touched>>

(* The topmost call returns, and what it leaves behind is bound; or it     *)
(* throws, which leaves nothing behind, and a transaction open.            *)
Return ==
    /\ stack # <<>>
    /\ stack' = Front(stack)
    /\ \/ /\ Current.then = "end"
          /\ End(Current.tx)
          /\ UNCHANGED bound
       \/ /\ touched' = IF Current.full THEN touched \cup {Current.seg} ELSE touched
          /\ \/ /\ Current.then # "nothing"
                /\ Bind(Binding(Current.then, Current.seg))
             \/ UNCHANGED bound
          /\ UNCHANGED active
    /\ UNCHANGED <<types, segments, opaque>>

-----------------------------------------------------------------------------
(* Mutant: the transaction is the one of the caller. *)
CallBackOfCaller(b) ==
    /\ b.is \in {"callback", "listener"}
    /\ opaque' = opaque \ {b.seg}
    /\ touched' = touched \cup {b.seg}
    /\ \/ /\ Current.tx \in active
          /\ Make(b.seg, Current.tx, b.tx, "plain", b.is)
          /\ Call(b.tx, Len(segments'), TRUE, "nothing")
       \/ /\ Current.tx \notin active
          /\ Call(Current.tx, Current.seg, FALSE, "nothing")
          /\ UNCHANGED segments
    /\ UNCHANGED bound

(* wrapCallback: the callback of a recorded function is called, which may  *)
(* happen any number of times.  It gets a segment while its transaction is *)
(* active; afterwards it runs in the context of its caller.                *)
CallBack(b) ==
    /\ b.is \in {"callback", "listener"}
    /\ opaque' = opaque \ {b.seg}
    /\ touched' = touched \cup {b.seg}
    /\ \/ /\ b.tx \in active
          /\ Make(b.seg, b.tx, b.tx, "plain", b.is)
          /\ Call(b.tx, Len(segments'), TRUE, "nothing")
       \/ /\ b.tx \notin active
          /\ Call(Current.tx, Current.seg, FALSE, "nothing")
          /\ UNCHANGED segments
    /\ UNCHANGED bound

(* A function that is only bound (bindContext), and the emit of a stream   *)
(* for all events but those below.                                         *)
CallBound(b) ==
    /\ b.is \in {"bound", "stream", "innerstream"}
    /\ Call(b.tx, b.seg, TRUE, "nothing")
    /\ UNCHANGED <<segments, opaque, touched, bound>>

(* A stream emits "end" or "error" (wrappedEmit). *)
EmitEnd(b) ==
    /\ b.is = "stream"
    /\ opaque' = opaque \ {b.seg}
    /\ touched' = touched \cup {b.seg}
    /\ Call(b.tx, b.seg, TRUE, "nothing")
    /\ UNCHANGED <<segments, bound>>

(* It emits the event that is to be measured.  The first time a segment is *)
(* made for all of them, in the transaction of whoever emits it: where     *)
(* there is none, none is made, and emit fails from then on.               *)
EmitMeasured(b) ==
    /\ b.is = "stream" /\ b.tx \in active /\ b.event # Failed
    /\ \/ /\ b.event # Nil
          /\ Call(b.tx, b.event, TRUE, "nothing")
          /\ UNCHANGED <<segments, bound>>
       \/ /\ b.event = Nil /\ b.seg \in opaque
          /\ bound' = (bound \ {b}) \cup {[b EXCEPT !.event = b.seg]}
          /\ Call(b.tx, b.seg, TRUE, "nothing")
          /\ UNCHANGED segments
       \/ /\ b.event = Nil /\ Current.tx \in active /\ b.seg \notin opaque
          /\ Make(b.seg, Current.tx, b.tx, "plain", "event")
          /\ bound' = (bound \ {b}) \cup {[b EXCEPT !.event = Len(segments')]}
          /\ Call(b.tx, Len(segments'), TRUE, "nothing")
       \/ /\ b.event = Nil /\ b.seg \notin opaque /\ Current.tx \notin active
          /\ bound' = (bound \ {b}) \cup {[b EXCEPT !.event = Failed]}
          /\ UNCHANGED <<segments, stack>>
    /\ UNCHANGED <<opaque, touched>>

(* A listener for the end of a stream is a callback of its segment, bound  *)
(* in the context of whoever adds it.                                      *)
Listen(b) ==
    /\ b.is \in {"stream", "innerstream"}
    /\ Bind(Binding("listener", b.seg))
    /\ UNCHANGED <<segments, opaque, touched, stack>>

CallOf(b) ==
    /\ CallBack(b) \/ CallBound(b) \/ EmitEnd(b) \/ EmitMeasured(b) \/ Listen(b)
    /\ UNCHANGED <<types, active>>

(* A promise is settled, in a microtask (bindPromise). *)
Settle(b) ==
    /\ b.is = "promise" /\ stack = <<>>
    /\ opaque' = opaque \ {b.seg}
    /\ touched' = touched \cup {b.seg}
    /\ bound' = bound \ {b}
    /\ UNCHANGED <<types, active, segments, stack>>

Next ==
    \/ Turn \/ Return
    \/ \E type \in {"web", "bg"} : Begin(type) \/ BeginNested(type)
    \/ \E kind \in {"plain", "opaque", "internal"},
          leaves \in {"nothing", "callback", "promise", "stream"} : Record(kind, leaves)
    \/ \E b \in bound : CallOf(b) \/ Settle(b) \/ EndLater(b)

Spec == Init /\ [][Next]_vars

-----------------------------------------------------------------------------
(* Properties *)

TypeOK ==
    /\ types \in Seq({"web", "bg"}) /\ active \subseteq 1..Len(types)
    /\ opaque \subseteq Segment /\ touched \subseteq Segment
    /\ Len(stack) <= MaxDepth /\ Cardinality(bound) <= MaxBound + MaxListeners

(* However calls, callbacks and transactions of both types interleave, a   *)
(* segment is part of the trace of the transaction it counts for, unless a *)
(* stream was used in another transaction.  And the only segments that a   *)
(* transaction can cut off are those of functions that run and have not    *)
(* called back.                                                            *)
TraceIsWhole ==
    /\ \A s \in Segment : segments[s].hangs \/ segments[s].streamed
    /\ \A s \in Segment \ touched :
          /\ \/ segments[s].from = "begin"
             \/ \E i \in 1..Len(stack) : stack[i].seg = s /\ stack[i].full
          /\ \A c \in Segment : segments[c].from = "callback" => segments[c].parent # s

(* A stream's event is measured whoever emits it. *)
EventsAreMeasured == \A b \in bound : b.event # Failed
=============================================================================
