----------------------------- MODULE MCServices -----------------------------
(***************************************************************************)
(* Model-checking instance of Services: four requests for two slots and a  *)
(* history of one; a request with its reply and one message more, and a    *)
(* handler that stays or goes; two runs, the second of which may start     *)
(* while the edit tool of the first is still on its way; three files of    *)
(* which two are kept; a session that may cost half of a day; a device     *)
(* that comes back on a new socket before or after the old one is lost;    *)
(* and tasks without a limit, and with a limit of one run and of two.      *)
(***************************************************************************)
EXTENDS Services, TLC

\* Callers differ in nothing, and no liveness is checked here.
Interchangeable == Permutations(Caller)

Models == <<"m1", "m2">>

\* A step that depends on later ones, one that depends on earlier ones, and a cycle.
Workflows ==
  {<< <<2, 3>>, <<3>>, <<>> >>, << <<>>, <<1>>, <<1, 2>> >>, << <<3>>, <<1>>, <<2>> >>}
=============================================================================
