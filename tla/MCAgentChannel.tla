---------------------------- MODULE MCAgentChannel ----------------------------
(* Model-checking instance of AgentChannel. *)
EXTENDS AgentChannel
=============================================================================
