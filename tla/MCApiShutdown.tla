--------------------------- MODULE MCApiShutdown ---------------------------
(* Small instances of ApiShutdown: a call of the application with any      *)
(* options, and one without, which also stands for a stop the agent makes. *)
EXTENDS ApiShutdown, TLC

CONSTANTS app, gone

MCCaller == {app, gone}
MCOptions == (app :> SUBSET Option) @@ (gone :> {{}})
=============================================================================
