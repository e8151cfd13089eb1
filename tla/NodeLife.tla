------------------------------ MODULE NodeLife ------------------------------
(***************************************************************************)
(* The life of one node of a job, as everything outside the orchestrator    *)
(* may rely on it: which status may follow which, when an attempt is        *)
(* counted, and that a node which has ended stays ended.  Both the job's    *)
(* transactions (JobGraph, one copy per node) and the workers, leases and   *)
(* queue messages behind one node (NodeLease) implement it.                 *)
(***************************************************************************)
EXTENDS Integers, WorkflowStatus

CONSTANT Budget   \* the attempts the plan allows the node

VARIABLES
  status,     \* job_nodes.status, or "absent"
  attempt,    \* job_nodes.attempt
  ref,        \* a remote task of the node is recorded
  cancelReq   \* job_nodes.cancel_requested

vars == <<status, attempt, ref, cancelReq>>

Init == status = "absent" /\ attempt = 0 /\ ref = FALSE /\ cancelReq = FALSE

(* The node is inserted by its plan or by a review decision. *)
Appear ==
  /\ status = "absent" /\ status' \in {"pending", "ready", "suspended"}
  /\ UNCHANGED <<attempt, ref, cancelReq>>

(* Its last dependency succeeded. *)
Release ==
  /\ status = "pending" /\ status' \in {"ready", "suspended"}
  /\ UNCHANGED <<attempt, ref, cancelReq>>

(* A worker starts an attempt; there is one left. *)
Start ==
  /\ status = "ready" /\ attempt < Budget
  /\ status' = "running" /\ attempt' = attempt + 1
  /\ UNCHANGED <<ref, cancelReq>>

Park ==
  /\ status = "running" /\ status' = "waiting" /\ ref' = TRUE
  /\ UNCHANGED <<attempt, cancelReq>>

Poll ==
  /\ status = "waiting" /\ status' = "running"
  /\ UNCHANGED <<attempt, ref, cancelReq>>

(* The attempt failed and another is left, or it is given back. *)
Requeue ==
  /\ status = "running" /\ status' = "ready" /\ ref' = FALSE
  /\ \/ attempt < Budget /\ attempt' = attempt
     \/ attempt' = attempt - 1
  /\ UNCHANGED cancelReq

End ==
  /\ status = "running"
  /\ \/ status' \in {"succeeded", "failed"}
     \/ status' = "cancelled" /\ cancelReq
  /\ UNCHANGED <<attempt, ref, cancelReq>>

Answer ==
  /\ status = "suspended" /\ status' = "succeeded"
  /\ UNCHANGED <<attempt, ref, cancelReq>>

(* A node nobody runs is skipped behind a failure or cancelled at once. *)
Discard ==
  /\ \/ status = "pending" /\ status' = "skipped"
     \/ status \in {"pending", "ready", "suspended"} /\ status' = "cancelled"
  /\ UNCHANGED <<attempt, ref, cancelReq>>

(* A node in a worker's or a provider's hands is asked to stop. *)
AskStop ==
  /\ status \in {"running", "waiting"} /\ cancelReq' = TRUE
  /\ UNCHANGED <<status, attempt, ref>>

Next ==
  Appear \/ Release \/ Start \/ Park \/ Poll \/ Requeue \/ End \/ Answer \/ Discard
    \/ AskStop

Spec == Init /\ [][Next]_vars
=============================================================================
