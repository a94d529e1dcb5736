------------------------------ MODULE Sublists ------------------------------
(* Array.prototype.filter: what SelectSeq does, without its recursion. *)
EXTENDS Naturals, Sequences, FiniteSets

\* The elements of s at the positions I, in their order.
Sublist(s, I) ==
  [j \in 1..Cardinality(I) |-> s[CHOOSE i \in I : Cardinality({k \in I : k <= i}) = j]]

\* Those that are not in S.
Without(s, S) == Sublist(s, {i \in DOMAIN s : s[i] \notin S})
=============================================================================
