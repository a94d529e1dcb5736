------------------------------ MODULE MCMailbox ------------------------------
(* Model-checking instance of Mailbox. *)
EXTENDS Mailbox, TLC

Agents == Permutations(Agent)
=============================================================================
