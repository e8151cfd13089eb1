--------------------------- MODULE WorkflowStatus ---------------------------
(***************************************************************************)
(* The status words of internal/domain/workflow/status.go, shared by every *)
(* module that speaks of a job or of one of its nodes.                      *)
(***************************************************************************)

NodeStatus == {"pending", "ready", "running", "waiting", "suspended",
               "succeeded", "failed", "cancelled", "skipped"}

NodeTerminal(s) == s \in {"succeeded", "failed", "cancelled", "skipped"}

JobStatus == {"queued", "running", "awaiting_review", "succeeded", "partial",
              "failed", "cancelling", "cancelled"}

JobTerminal(s) == s \in {"succeeded", "partial", "failed", "cancelled"}
=============================================================================
