----------------------------- MODULE AtLeastOnce -----------------------------
(***************************************************************************)
(* What the mailbox promises about messages: one that was accepted waits   *)
(* until it is settled, it is settled only after it was given to its       *)
(* consumer, and a settled message is never given again.                   *)
(***************************************************************************)
EXTENDS Naturals

CONSTANT Message

VARIABLES
  waiting,  \* accepted and not settled
  given,    \* given to the consumer at least once
  settled   \* acknowledged

vars == <<waiting, given, settled>>

Init == waiting = {} /\ given = {} /\ settled = {}

Accept(m) ==
  /\ m \notin waiting \cup settled
  /\ waiting' = waiting \cup {m}
  /\ UNCHANGED <<given, settled>>

Give(S) ==
  /\ S \subseteq waiting
  /\ given' = given \cup S
  /\ UNCHANGED <<waiting, settled>>

Settle(S) ==
  /\ S \subseteq waiting
  /\ S \subseteq given
  /\ waiting' = waiting \ S
  /\ settled' = settled \cup S
  /\ UNCHANGED given

\* Given and settled in one call.
HandOver(S) ==
  /\ S \subseteq waiting
  /\ given' = given \cup S
  /\ waiting' = waiting \ S
  /\ settled' = settled \cup S

Next ==
  \/ \E m \in Message : Accept(m)
  \/ \E S \in SUBSET Message : Give(S) \/ Settle(S) \/ HandOver(S)

Spec == Init /\ [][Next]_vars
=============================================================================
