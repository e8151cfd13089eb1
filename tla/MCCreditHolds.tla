---------------------------- MODULE MCCreditHolds ---------------------------
(***************************************************************************)
(* Instances of CreditHolds for TLC.                                        *)
(***************************************************************************)
EXTENDS CreditHolds, TLC

CONSTANTS j1, j2, c1, c2, g1, g2

Alike == Permutations({j1, j2}) \cup Permutations({c1, c2})
=============================================================================
