----------------------------- MODULE MCJobGraph -----------------------------
(***************************************************************************)
(* Instances of JobGraph for TLC: the plan shapes the repository builds     *)
(* (workflows/*.go) in small, and some it does not build but accepts.        *)
(***************************************************************************)
EXTENDS JobGraph, TLC

(* A fan-out and fan-in: panels of a comic between a script and a layout;    *)
(* and two roots with a common dependent.                                   *)
Fan == ("a" :> {}) @@ ("b" :> {"a"}) @@ ("c" :> {"a"}) @@ ("d" :> {"b", "c"})
Roots == ("b" :> {}) @@ ("c" :> {}) @@ ("d" :> {"b", "c"})

(* A gate with a dependent of its own beside an unrelated branch, and a plan *)
(* that starts with its review; a decision appends "redo" or nothing.        *)
Side == ("a" :> {}) @@ ("gate" :> {"a"}) @@ ("d" :> {"gate", "b"}) @@ ("b" :> {})
GateFirst == ("gate" :> {}) @@ ("d" :> {"gate"})
Again == "redo" :> {"gate"}
AgainAfterA == "redo" :> {"gate", "a"}
NoPatch == [n \in {} |-> {}]

(* A video sequence: shots in a chain, a review, then redo and concat.       *)
Chain == ("shot" :> {}) @@ ("gate" :> {"shot"})
Keep == "concat" :> {"gate"}
Redo == ("redo" :> {"gate"}) @@ ("concat" :> {"gate", "redo"})

ShapesNodes == {"a", "b", "c", "d", "gate", "redo"}
ShapesAttempts == [n \in ShapesNodes |-> IF n = "b" THEN 2 ELSE 1]
PlansShapes == {Fan, Roots, Side, GateFirst}
PatchesShapes == {Again, AgainAfterA, NoPatch}

ReviewNodes == {"shot", "gate", "redo", "concat"}
ReviewAttempts == [n \in ReviewNodes |-> IF n \in {"gate", "concat"} THEN 1 ELSE 2]
PlansReview == {Chain}
PatchesReview == {Keep, Redo}
=============================================================================
