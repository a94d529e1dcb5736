--------------------------- MODULE MCAgentSidecar ---------------------------
(* Model-checking instance of AgentSidecar. *)
EXTENDS AgentSidecar, TLC

Invocations == Permutations(Agent)
=============================================================================
