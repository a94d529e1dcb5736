--------------------------- MODULE ReplayPromise ---------------------------
(***************************************************************************)
(* What the durable run promises about tool calls, without the loop, the   *)
(* process or the file: a call is asked for once, its side effect may be   *)
(* tried while it is pending, a further attempt needs a confirmation, and  *)
(* once its observation is recorded it is never tried or asked for again.  *)
(***************************************************************************)
EXTENDS Naturals

CONSTANT Action

VARIABLES
  pending,    \* calls recorded as asked for and not answered
  observed,   \* calls whose observation is recorded
  attempts,   \* how often the side effect of each call was started
  grants      \* how often a further attempt was confirmed

vars == <<pending, observed, attempts, grants>>

Init ==
  /\ pending = {}
  /\ observed = {}
  /\ attempts = [a \in Action |-> 0]
  /\ grants = [a \in Action |-> 0]

Ask ==
  \E S \in SUBSET (Action \ (pending \cup observed)) :
    /\ pending = {}
    /\ pending' = S
    /\ UNCHANGED <<observed, attempts, grants>>

Attempt(a) ==
  /\ a \in pending
  /\ attempts[a] <= grants[a]
  /\ attempts' = [attempts EXCEPT ![a] = @ + 1]
  /\ UNCHANGED <<pending, observed, grants>>

Observe(a) ==
  /\ a \in pending
  /\ pending' = pending \ {a}
  /\ observed' = observed \cup {a}
  /\ UNCHANGED <<attempts, grants>>

Confirm ==
  /\ grants' = [a \in Action |-> IF a \in pending THEN grants[a] + 1 ELSE grants[a]]
  /\ UNCHANGED <<pending, observed, attempts>>

Next == Ask \/ Confirm \/ \E a \in Action : Attempt(a) \/ Observe(a)

Spec == Init /\ [][Next]_vars
=============================================================================
