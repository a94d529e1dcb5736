---------------------------- MODULE MCEditReview ----------------------------
(***************************************************************************)
(* Two runs, the second of which may start while the edit tool of the      *)
(* first, which timed out, is still on its way.                            *)
(***************************************************************************)
EXTENDS EditReview
=============================================================================
