---------------------------- MODULE MCNodeLease -----------------------------
(***************************************************************************)
(* Instances of NodeLease for TLC: one worker with two goroutines that      *)
(* stays, and one with a single goroutine that may stop.                    *)
(***************************************************************************)
EXTENDS NodeLease, TLC

CONSTANTS s1, s2, s3, w1, w2

TwoAndOne == (s1 :> w1) @@ (s2 :> w1) @@ (s3 :> w2)
OneAndOne == (s1 :> w1) @@ (s3 :> w2)

(* The two goroutines of w1 are alike. *)
Alike == Permutations({s1, s2})
=============================================================================
