---------------------------- MODULE JobContract -----------------------------
(***************************************************************************)
(* What one orchestrated job promises to its owner, with the plan, the      *)
(* workers and the attempts abstracted away.  The owner sees the job's      *)
(* status and the credits reserved for it:                                  *)
(*                                                                          *)
(*   - a job once started never looks queued again, unless its first steps  *)
(*     were all reviews;                                                    *)
(*   - a job being cancelled only ever ends cancelled or failed;            *)
(*   - the end is final, and the rest of the reservation is given back in   *)
(*     the step that ends the job, neither before nor after.                *)
(*                                                                          *)
(* JobGraph, the transactions of internal/infra/orchestrator, implements    *)
(* this specification.                                                      *)
(***************************************************************************)
EXTENDS WorkflowStatus

VARIABLES
  seen,   \* jobs.status, "none" before the job exists
  hold    \* credit_holds.status of the job, "none" while nothing is reserved

vars == <<seen, hold>>

Live == {"queued", "running", "awaiting_review"}

Init == seen = "none" /\ hold = "none"

(* The job is created together with its reservation, if it has a price. *)
Create ==
  /\ seen = "none"
  /\ seen' = "queued"
  /\ hold' \in {"none", "open"}

(* Work or a review decision moves a live job; a decision may reserve more. *)
Move ==
  /\ seen \in Live
  /\ seen' \in Live
  /\ seen = "running" => seen' # "queued"
  /\ hold' = hold \/ (hold = "none" /\ hold' = "open")

Stop ==
  /\ seen \in Live
  /\ seen' = "cancelling"
  /\ UNCHANGED hold

(* Whatever was reserved is given back as the job ends. *)
GiveBack(h) == IF h = "open" THEN "closed" ELSE h

End ==
  /\ \/ seen \in Live /\ JobTerminal(seen')
     \/ seen = "cancelling" /\ seen' \in {"cancelled", "failed"}
  /\ hold' = GiveBack(hold)

Next == Create \/ Move \/ Stop \/ End

Spec == Init /\ [][Next]_vars
=============================================================================
