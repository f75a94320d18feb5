-------------------------- MODULE MCAgentLifecycle --------------------------
(* Small instances of AgentLifecycle. *)
EXTENDS AgentLifecycle

CONSTANTS d1, d2, s1, s2
=============================================================================
