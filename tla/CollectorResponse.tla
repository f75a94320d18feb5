------------------------- MODULE CollectorResponse -------------------------
(***************************************************************************)
(* What the agent makes of an answer of the collector: the code sets of    *)
(* lib/collector/api.js and the CollectorResponse (lib/collector/          *)
(* response.js) it builds from them.  An answer is an HTTP status, or one  *)
(* of two failures that bring none.                                        *)
(***************************************************************************)
EXTENDS Naturals

NetworkError == 0   \* the request or its answer was lost
TooLarge == 1       \* NR_REMOTE_METHOD_MAX_PAYLOAD_SIZE_EXCEEDED: never sent

SUCCESS == {200, 202}
RESTART == {401, 409}
FAILURE_SAVE_DATA == {408, 429, 500, 503}
FAILURE_DISCARD_DATA == {400, 403, 404, 405, 407, 411, 413, 414, 415, 417, 431}
Gone == 410

Response(retain, run) == [retainData |-> retain, agentRun |-> run]

success   == Response(FALSE, "preserve")
discard   == success
error     == Response(TRUE, "preserve")
fatal     == Response(FALSE, "shutdown")
reconnect == Response(FALSE, "restart")

(* _handleResponseCode; a status of no set counts as the agent's fault. *)
HandleResponseCode(code) ==
    CASE code \in SUCCESS              -> success
      [] code \in RESTART              -> reconnect
      [] code \in FAILURE_DISCARD_DATA -> discard
      [] code \in FAILURE_SAVE_DATA    -> error
      [] code = Gone                   -> fatal
      [] OTHER                         -> discard

(* _sendData: what the aggregator and the agent run are told. *)
DataOutcome(answer) ==
    CASE answer = NetworkError -> error
      [] answer = TooLarge     -> discard
      [] OTHER                 -> HandleResponseCode(answer)

(* _retry: a login goes on, is refused for good, or is tried again. *)
LoginRefusing(answer) == answer = Gone
LoginRetrying(answer) == answer \notin SUCCESS /\ answer # Gone
=============================================================================
