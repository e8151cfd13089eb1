------------------------------- MODULE Filter -------------------------------
(***************************************************************************)
(* The filter of an array: the elements at some of its positions, in their *)
(* order.  SelectSeq says the same by recursion; positions can be reasoned *)
(* about.                                                                  *)
(***************************************************************************)
EXTENDS Integers, FiniteSets

Nth(P, k) == CHOOSE i \in P : Cardinality({j \in P : j <= i}) = k
Filtered(s, P) == [k \in 1..Cardinality(P) |-> s[Nth(P, k)]]

Dropping(s, x) == Filtered(s, {i \in DOMAIN s : s[i] # x})
=============================================================================
