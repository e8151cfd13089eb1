----------------------------- MODULE MCStudios -----------------------------
(***************************************************************************)
(* Studios for TLC.  Which id a card has makes no difference.              *)
(***************************************************************************)
EXTENDS Studios

Symmetry == Permutations(Ids)
=============================================================================
