---------------------------- MODULE MCDurableRun ----------------------------
(* Model-checking instance of DurableRun: three invocations of one run. *)
EXTENDS DurableRun, TLC

Invocations == Permutations(Agent)
=============================================================================
