----------------------------- MODULE Propagation -----------------------------
(***************************************************************************)
(* How the place of what is recorded is carried on: between processes, by  *)
(* headers (DistributedTrace), and within one, by the contexts that the    *)
(* agent shares with OpenTelemetry (OtelBridge).  The two share no state.  *)
(***************************************************************************)
EXTENDS DistributedTrace

CONSTANTS MaxTransactions, MaxSpans, MaxSegments, MaxContexts, MaxDepth   \* bounds

VARIABLES begun, active, segments, spans, open, contexts, stack
bridgeVars == <<begun, active, segments, spans, open, contexts, stack>>

Bridge == INSTANCE OtelBridge WITH started <- begun

(* Segments stand to each other as the spans of OpenTelemetry they are     *)
(* made for (OtelBridge, SpansAreMirrored).                                *)
SpansAreMirrored == Bridge!SpansAreMirrored
=============================================================================
