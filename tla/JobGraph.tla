------------------------------ MODULE JobGraph ------------------------------
(***************************************************************************)
(* One orchestrated job at the grain of its database transactions           *)
(* (internal/infra/orchestrator).  Every function of the package that       *)
(* changes job_nodes or jobs first locks the job row, so each such          *)
(* transaction is one action here: submit, claim, toWaiting, finish with    *)
(* its outcomes, the recovery of an expired lease, Resume, Abort and the    *)
(* sweeper's reads.  What happens between two transactions (leases, queue   *)
(* messages, provider calls) is the subject of NodeLease.                   *)
(***************************************************************************)
EXTENDS Integers, FiniteSets, WorkflowStatus

CONSTANTS
  Node,         \* every node name a plan or a patch may use
  Gate,         \* nodes whose executor is "gate": a human decision
  Async,        \* nodes whose executor is an AsyncPlugin (Submit, then Poll)
  MaxAttempts,  \* [Node -> positive number of attempts]
  Plans,        \* the plans a job may be submitted with: node -> dependencies
  Patches       \* what a gate decision may append, in the same form

ASSUME NodeAssumption ==
  /\ IsFiniteSet(Node)
  /\ Gate \subseteq Node
  /\ Async \subseteq Node
  /\ MaxAttempts \in [Node -> Nat \ {0}]
  /\ \A p \in Plans \cup Patches :
       /\ DOMAIN p \subseteq Node
       /\ \A n \in DOMAIN p : p[n] \subseteq Node

VARIABLES
  status,       \* job_nodes.status, "absent" while the row does not exist
  deps,         \* job_nodes.deps
  depsPending,  \* job_nodes.deps_pending
  attempt,      \* job_nodes.attempt
  ref,          \* job_nodes.provider_ref is set: a remote task is known
  cancelReq,    \* job_nodes.cancel_requested
  started,      \* some node other than a gate has a started_at
  anyAssets,    \* some succeeded or failed node has an asset in its outputs
  jobStatus,    \* jobs.status, "none" before the job is submitted
  jobCode,      \* jobs.error_code; every node failure counts as "node_error"
  armed,        \* jobs.deadline_at is set
  hold,         \* credit_holds.status of the job, "none" without a row
  suspects,     \* aborts the sweeper decided on from rows it read unlocked
  asked         \* history: the codes of the aborts that took effect

vars == <<status, deps, depsPending, attempt, ref, cancelReq, started, anyAssets,
          jobStatus, jobCode, armed, hold, suspects, asked>>

nodeVars == <<deps, attempt, ref, cancelReq>>

AbortCodes == {"", "deadline_exceeded", "gate_expired"}

Present == {n \in Node : status[n] # "absent"}

In(st, words) == {n \in Node : st[n] \in words}
-----------------------------------------------------------------------------
(* Faulty variants of the operators below, each a bug its code could have.   *)
(* No specification uses them: they are put in the place of the operator to  *)
(* see that a property notices.                                              *)
BadAdvancedStatus(st, dp, dd, done) ==
  [n \in Node |-> IF st[n] = "pending" /\ done \in dd[n]
                  THEN IF n \in Gate THEN "suspended" ELSE "ready"
                  ELSE st[n]]

GateUnderReview(st, dp, dd, done) ==
  [n \in Node |-> IF st[n] = "pending" /\ done \in dd[n] /\ dp[n] <= 1
                  THEN IF n \in Gate THEN "awaiting_review" ELSE "ready"
                  ELSE st[n]]

OnlyDirect(from, st) == {n \in In(st, {"pending"}) : from \in deps[n]}

NothingBehind(from, st) == {}

OnlyRunning(st) == In(st, {"running"})

OnlyExhausted(st) == {n \in In(st, {"failed"}) : attempt[n] = MaxAttempts[n]}

OnlyDeadline(current, code) == current = "cancelling" /\ code = "deadline_exceeded"

KeptOnCancel(current, sum, h) ==
  IF JobTerminal(sum) /\ sum # "cancelled" /\ h = "open" THEN "closed" ELSE h

GivenBackEarly(current, sum, h) ==
  IF (JobTerminal(sum) \/ sum = "cancelling") /\ h = "open" THEN "closed" ELSE h

WaitingCancelled == {"pending", "ready", "suspended", "waiting"}

StillDisarmed == armed' = armed
-----------------------------------------------------------------------------
(* advance: release the dependents of done.  dp holds deps_pending, dd deps. *)
AdvancedPending(st, dp, dd, done) ==
  [n \in Node |-> IF st[n] = "pending" /\ done \in dd[n] THEN dp[n] - 1 ELSE dp[n]]

AdvancedStatus(st, dp, dd, done) ==
  [n \in Node |->
     IF st[n] = "pending" /\ done \in dd[n] /\ dp[n] <= 1
     THEN IF n \in Gate THEN "suspended" ELSE "ready"
     ELSE st[n]]

(* skipDownstream: the least set of pending nodes that has every pending     *)
(* node with a dependency in it or on from; its loop runs to this fixpoint.  *)
ClosedUnder(S, from, st) ==
  \A n \in In(st, {"pending"}) : deps[n] \cap (S \cup {from}) # {} => n \in S

Downstream(from, st) ==
  {n \in In(st, {"pending"}) :
     \A S \in SUBSET In(st, {"pending"}) : ClosedUnder(S, from, st) => n \in S}

Skipped(from, st) ==
  [n \in Node |-> IF n \in Downstream(from, st) THEN "skipped" ELSE st[n]]

ActiveNodes(st) == In(st, {"running", "waiting"})

FailedNodes(st) == In(st, {"failed"})

(* summarize: the job status its nodes add up to, in the order of its cases. *)
Summary(current, st, ran, assets) ==
  LET active    == ActiveNodes(st) # {}
      suspended == In(st, {"suspended"}) # {}
      toRun     == In(st, {"ready", "pending"}) # {}
      failed    == FailedNodes(st) # {}
  IN IF current = "cancelling"
     THEN IF active \/ suspended \/ toRun THEN "cancelling" ELSE "cancelled"
     ELSE IF active THEN "running"
     ELSE IF suspended THEN "awaiting_review"
     ELSE IF toRun THEN IF ran THEN "running" ELSE "queued"
     ELSE IF failed THEN IF assets THEN "partial" ELSE "failed"
     ELSE IF In(st, {"cancelled"}) # {} THEN "cancelled"
     ELSE "succeeded"

(* A job being cancelled with a code on its row ends as failed with it. *)
Aborted(current, code) == current = "cancelling" /\ code # ""

(* ReleaseTx: a job that just became terminal gives back what is left of h.  *)
Released(current, sum, h) ==
  IF JobTerminal(sum) /\ ~JobTerminal(current) /\ h = "open" THEN "closed" ELSE h

(* finalizeJob: write the job row from its nodes. *)
Finalize(current, code, st, ran, assets, h) ==
  LET sum == Summary(current, st, ran, assets) IN
  /\ jobStatus' = IF Aborted(current, code) /\ JobTerminal(sum) THEN "failed" ELSE sum
  /\ jobCode' = IF Aborted(current, code) THEN code
                ELSE IF FailedNodes(st) # {} THEN "node_error" ELSE ""
  /\ hold' = Released(current, sum, h)

(* The deadline is cleared at the end and while a review is awaited ... *)
Disarm == armed' = (armed /\ ~JobTerminal(jobStatus') /\ jobStatus' # "awaiting_review")

(* ... and a decision gives a job that goes on a new one. *)
Rearm == armed' = ~JobTerminal(jobStatus')
-----------------------------------------------------------------------------
Init ==
  /\ status = [n \in Node |-> "absent"]
  /\ deps = [n \in Node |-> {}]
  /\ depsPending = [n \in Node |-> 0]
  /\ attempt = [n \in Node |-> 0]
  /\ ref = [n \in Node |-> FALSE]
  /\ cancelReq = [n \in Node |-> FALSE]
  /\ started = FALSE
  /\ anyAssets = FALSE
  /\ jobStatus = "none"
  /\ jobCode = ""
  /\ armed = FALSE
  /\ hold = "none"
  /\ suspects = {}
  /\ asked = {}

(* workflow.Validate: names are new, every dependency is in the plan or among *)
(* the existing nodes, and the plan is acyclic: any set of its nodes has one  *)
(* that depends on none of them, which is what the search there decides.      *)
ValidPlan(p, existing) ==
  /\ DOMAIN p \cap existing = {}
  /\ \A n \in DOMAIN p : p[n] \subseteq DOMAIN p \cup existing
  /\ \A S \in SUBSET (DOMAIN p) \ {{}} : \E n \in S : p[n] \cap S = {}

(* SubmitTx, in the transaction that inserts the job and reserves its price. *)
SubmitTx(p) ==
  /\ jobStatus = "none"
  /\ DOMAIN p # {} /\ ValidPlan(p, {})
  /\ status' = [n \in Node |->
                  CASE n \notin DOMAIN p -> "absent"
                    [] n \in DOMAIN p /\ p[n] # {} -> "pending"
                    [] n \in DOMAIN p /\ p[n] = {} ->
                         IF n \in Gate THEN "suspended" ELSE "ready"]
  /\ deps' = [n \in Node |-> IF n \in DOMAIN p THEN p[n] ELSE {}]
  /\ depsPending' = [n \in Node |-> IF n \in DOMAIN p THEN Cardinality(p[n]) ELSE 0]
  /\ jobStatus' = "queued"
  /\ armed' = TRUE
  /\ hold' \in {"none", "open"}
  /\ UNCHANGED <<attempt, ref, cancelReq, started, anyAssets, jobCode, suspects, asked>>

(* claim from ready: a new attempt starts; the cancel flag is not looked at. *)
Claim(n) ==
  /\ status[n] = "ready"
  /\ ~JobTerminal(jobStatus)
  /\ status' = [status EXCEPT ![n] = "running"]
  /\ attempt' = [attempt EXCEPT ![n] = @ + 1]
  /\ started' = TRUE
  /\ jobStatus' = IF jobStatus = "queued" THEN "running" ELSE jobStatus
  /\ UNCHANGED <<deps, depsPending, ref, cancelReq, anyAssets, jobCode, armed, hold,
                 suspects, asked>>

(* claim from waiting: a poll of the remote task, in the same attempt. *)
ClaimPoll(n) ==
  /\ status[n] = "waiting"
  /\ ~JobTerminal(jobStatus)
  /\ status' = [status EXCEPT ![n] = "running"]
  /\ jobStatus' = IF jobStatus = "queued" THEN "running" ELSE jobStatus
  /\ UNCHANGED <<depsPending, nodeVars, started, anyAssets, jobCode, armed, hold,
                 suspects, asked>>

(* toWaiting: the job row is locked but not written. *)
ToWaiting(n) ==
  /\ status[n] = "running" /\ n \in Async
  /\ status' = [status EXCEPT ![n] = "waiting"]
  /\ ref' = [ref EXCEPT ![n] = TRUE]
  /\ UNCHANGED <<deps, depsPending, attempt, cancelReq, started, anyAssets, jobStatus,
                 jobCode, armed, hold, suspects, asked>>
-----------------------------------------------------------------------------
(* finish with status succeeded *)
FinishSucceeded(n) ==
  LET st == [status EXCEPT ![n] = "succeeded"] IN
  /\ status[n] = "running"
  /\ status' = AdvancedStatus(st, depsPending, deps, n)
  /\ depsPending' = AdvancedPending(st, depsPending, deps, n)
  /\ \E asset \in BOOLEAN : anyAssets' = (anyAssets \/ asset)
  /\ Finalize(jobStatus, jobCode, status', started, anyAssets', hold)
  /\ Disarm
  /\ UNCHANGED <<nodeVars, started, suspects, asked>>

(* finish with status failed or cancelled; a failed node may have assets. *)
Terminate(n, word) ==
  LET st == [status EXCEPT ![n] = word] IN
  /\ status' = Skipped(n, st)
  /\ \E asset \in BOOLEAN : anyAssets' = (anyAssets \/ (asset /\ word = "failed"))
  /\ Finalize(jobStatus, jobCode, status', started, anyAssets', hold)
  /\ Disarm
  /\ UNCHANGED <<depsPending, nodeVars, started, suspects, asked>>

(* finish with status ready: the node waits for its next attempt and forgets *)
(* its remote task; a refunded attempt (shutdown, no capacity) is not used.  *)
Requeue(n, refund) ==
  /\ status' = [status EXCEPT ![n] = "ready"]
  /\ attempt' = [attempt EXCEPT ![n] = @ - refund]
  /\ ref' = [ref EXCEPT ![n] = FALSE]
  /\ Finalize(jobStatus, jobCode, status', started, anyAssets, hold)
  /\ Disarm
  /\ UNCHANGED <<deps, depsPending, cancelReq, started, anyAssets, suspects, asked>>

FinishFailed(n) == status[n] = "running" /\ Terminate(n, "failed")

(* An execution ends as cancelled only because it saw the cancel flag. *)
FinishCancelled(n) == status[n] = "running" /\ cancelReq[n] /\ Terminate(n, "cancelled")

(* retryOrFail with attempts left *)
FinishRetry(n) ==
  status[n] = "running" /\ attempt[n] < MaxAttempts[n] /\ Requeue(n, 0)

(* errShutdown or NoCapacity: the attempt is given back *)
FinishRefunded(n) == status[n] = "running" /\ Requeue(n, 1)

(* sweepExpiredLeases: a dead worker's node is re-attached to its remote     *)
(* task, cancelled if that was asked, and otherwise retried or failed.       *)
SweepExpiredLease(n) ==
  /\ status[n] = "running"
  /\ IF ref[n] THEN ToWaiting(n)
     ELSE IF cancelReq[n] THEN Terminate(n, "cancelled")
     ELSE IF attempt[n] < MaxAttempts[n] THEN Requeue(n, 0)
     ELSE Terminate(n, "failed")
-----------------------------------------------------------------------------
Succeeded == In(status, {"succeeded"})

(* Resume: complete gate g with a decision that appends the nodes of p.  A   *)
(* patch holds no gate and, as VideoSequenceResume builds it, depends on the *)
(* gate, on succeeded nodes and on its own nodes only.                       *)
Resume(g, p) ==
  LET placed == [n \in Node |->
                   IF n \notin DOMAIN p THEN status[n]
                   ELSE IF p[n] \subseteq Succeeded THEN "ready" ELSE "pending"]
      dp == [n \in Node |-> IF n \in DOMAIN p THEN Cardinality(p[n] \ Succeeded)
                            ELSE depsPending[n]]
      st == [placed EXCEPT ![g] = "succeeded"]
  IN
  /\ jobStatus # "none" /\ ~JobTerminal(jobStatus) /\ jobStatus # "cancelling"
  /\ g \in Gate /\ status[g] = "suspended"
  /\ ValidPlan(p, Present)
  /\ DOMAIN p \cap Gate = {}
  /\ \A n \in DOMAIN p : p[n] \subseteq DOMAIN p \cup Succeeded \cup {g}
  /\ deps' = [n \in Node |-> IF n \in DOMAIN p THEN p[n] ELSE deps[n]]
  /\ status' = AdvancedStatus(st, dp, deps', g)
  /\ depsPending' = AdvancedPending(st, dp, deps', g)
  /\ \E more \in BOOLEAN :
       LET h == IF more /\ hold = "none" /\ DOMAIN p # {} THEN "open" ELSE hold
       IN Finalize(jobStatus, jobCode, status', started, anyAssets, h)
  /\ Rearm
  /\ UNCHANGED <<attempt, ref, cancelReq, started, anyAssets, suspects, asked>>

(* The statuses in which Abort cancels a node at once; others are asked.     *)
CancelledAtOnce == {"pending", "ready", "suspended"}

(* Abort of a job that has not ended. *)
Abort(code) ==
  /\ jobStatus # "none" /\ ~JobTerminal(jobStatus)
  /\ status' = [n \in Node |-> IF status[n] \in CancelledAtOnce THEN "cancelled"
                               ELSE status[n]]
  /\ cancelReq' = [n \in Node |-> cancelReq[n] \/ status[n] \in {"running", "waiting"}]
  /\ Finalize("cancelling", code, status', started, anyAssets, hold)
  /\ Disarm
  /\ asked' = asked \cup {code}
  /\ UNCHANGED <<deps, depsPending, attempt, ref, started, anyAssets>>

Cancel == Abort("") /\ UNCHANGED suspects

(* sweepDeadlines first reads, without a lock, the jobs past their deadline  *)
(* and those whose gate is past its TTL ...                                  *)
SweepFindOverdue ==
  /\ jobStatus \in {"queued", "running"} /\ armed
  /\ suspects' = suspects \cup {"deadline_exceeded"}
  /\ UNCHANGED <<status, depsPending, nodeVars, started, anyAssets, jobStatus, jobCode,
                 armed, hold, asked>>

SweepFindExpiredGate ==
  /\ In(status, {"suspended"}) # {}
  /\ suspects' = suspects \cup {"gate_expired"}
  /\ UNCHANGED <<status, depsPending, nodeVars, started, anyAssets, jobStatus, jobCode,
                 armed, hold, asked>>

(* ... then aborts each of them; an Abort of an ended job does nothing. *)
SweepAbort(code) ==
  /\ code \in suspects
  /\ suspects' = suspects \ {code}
  /\ \/ Abort(code)
     \/ /\ JobTerminal(jobStatus)
        /\ UNCHANGED <<status, depsPending, nodeVars, started, anyAssets, jobStatus,
                       jobCode, armed, hold, asked>>
-----------------------------------------------------------------------------
(* A job that has ended stays as it is. *)
Ended == JobTerminal(jobStatus) /\ suspects = {} /\ UNCHANGED vars

Execute(n) ==
  \/ Claim(n)
  \/ ClaimPoll(n)
  \/ ToWaiting(n)
  \/ FinishSucceeded(n)
  \/ FinishFailed(n)
  \/ FinishCancelled(n)
  \/ FinishRetry(n)
  \/ FinishRefunded(n)
  \/ SweepExpiredLease(n)

Sweep ==
  \/ SweepFindOverdue
  \/ SweepFindExpiredGate
  \/ \E code \in AbortCodes : SweepAbort(code)

Next ==
  \/ \E p \in Plans : SubmitTx(p)
  \/ \E n \in Node : Execute(n)
  \/ \E g \in Gate, p \in Patches : Resume(g, p)
  \/ Cancel
  \/ Sweep
  \/ Ended

Spec == Init /\ [][Next]_vars

(* An execution that ends for good, in success, failure or a used attempt. *)
FinishDefinite(n) ==
  FinishSucceeded(n) \/ FinishFailed(n) \/ FinishCancelled(n) \/ FinishRetry(n)

(* Queue messages are redelivered or re-sent by the sweeper every few        *)
(* seconds, so a ready or waiting node is eventually claimed.  Each attempt  *)
(* has a timeout, and a worker is not for ever restarted or out of provider  *)
(* capacity, so an execution that keeps starting eventually ends for good.   *)
(* The sweeper runs in every worker and finds a gate past its TTL.  Nobody   *)
(* is obliged to submit, to cancel or to answer a review.                    *)
Fairness ==
  /\ \A n \in Node : /\ WF_vars(Claim(n))
                     /\ WF_vars(ClaimPoll(n))
                     /\ SF_vars(FinishDefinite(n))
  /\ WF_vars(SweepFindExpiredGate)
  /\ WF_vars(SweepAbort("gate_expired"))

FairSpec == Spec /\ Fairness
-----------------------------------------------------------------------------
(* Types of all variables, and the range of every status word. *)
TypeOK ==
  /\ status \in [Node -> NodeStatus \cup {"absent"}]
  /\ deps \in [Node -> SUBSET Node]
  /\ depsPending \in [Node -> Int]
  /\ attempt \in [Node -> Int]
  /\ ref \in [Node -> BOOLEAN]
  /\ cancelReq \in [Node -> BOOLEAN]
  /\ started \in BOOLEAN
  /\ anyAssets \in BOOLEAN
  /\ jobStatus \in JobStatus \cup {"none"}
  /\ jobCode \in AbortCodes \cup {"node_error"}
  /\ armed \in BOOLEAN
  /\ hold \in {"none", "open", "closed"}
  /\ suspects \subseteq AbortCodes
  /\ asked \subseteq AbortCodes

(* A node is offered to a worker, run, parked, shown for review or done only *)
(* once every node it depends on has succeeded: advance never releases one   *)
(* early, whatever order its dependencies finish in (store.go:276-301).      *)
DependenciesFirst ==
  \A n \in Node :
    status[n] \in {"ready", "running", "waiting", "suspended", "succeeded"}
      => deps[n] \subseteq Succeeded

(* The stored counter of a pending node is the number of its dependencies    *)
(* that have not succeeded, and is never zero: no decrement is lost or made  *)
(* twice, through retries, reviews and appended nodes (store.go:279-287).    *)
PendingCountExact ==
  \A n \in Node : status[n] = "pending" =>
    /\ depsPending[n] = Cardinality(deps[n] \ Succeeded)
    /\ depsPending[n] > 0

(* No pending node waits for one that will never succeed: skipDownstream and *)
(* Abort reach every node behind a failed or cancelled one.                  *)
NoDoomedPending ==
  \A n \in Node : status[n] = "pending" =>
    \A d \in deps[n] : status[d] \notin {"failed", "cancelled", "skipped"}

(* The job row is terminal exactly when all its nodes are, in every          *)
(* committed state, so sweepStuckJobs (sweeper.go:297-304) finds nothing.    *)
EndedTogether ==
  jobStatus # "none" =>
    (JobTerminal(jobStatus) <=> \A n \in Present : NodeTerminal(status[n]))

(* The reservation is open while any node can still spend from it and is     *)
(* given back when the job ends (store.go:455-464).                          *)
HoldFollowsJob ==
  /\ hold = "open" => \E n \in Node : status[n] # "absent" /\ ~NodeTerminal(status[n])
  /\ hold = "closed" => JobTerminal(jobStatus)

(* While a job is being cancelled nothing new can start behind the workers'  *)
(* backs: no node is pending or in review, and each node still alive carries *)
(* the cancel flag (submit.go:242-258).                                      *)
CancellingIsDraining ==
  jobStatus = "cancelling" =>
    \A n \in Node :
      /\ status[n] \notin {"pending", "suspended"}
      /\ status[n] \in {"ready", "running", "waiting"} => cancelReq[n]

(* A job reported as succeeded has no failed, cancelled or skipped step.     *)
SuccessIsComplete ==
  jobStatus = "succeeded" => \A n \in Present : status[n] = "succeeded"

(* An abort with a reason ends the job as failed with that reason, whatever  *)
(* the nodes that were still running do meanwhile (submit.go:219-220).       *)
AbortReasonKept ==
  \A code \in AbortCodes \ {""} : asked = {code} =>
    jobStatus \in {"cancelling", "failed"} /\ jobCode = code

(* A job that is queued or running has a deadline, also after a review. True *)
(* of plans whose gate is the last node, as all the repository's plans are.  *)
RunningHasDeadline == jobStatus \in {"queued", "running"} => armed

(* No node starts more often than its plan allows: a node offered again has  *)
(* an attempt left, refunded attempts included (runner.go:426-436, 577-585). *)
AttemptsBounded ==
  \A n \in Node :
    /\ attempt[n] \in 0 .. MaxAttempts[n]
    /\ status[n] = "ready" => attempt[n] < MaxAttempts[n]

(* Every job that was accepted ends, provided fairness as above.             *)
EveryJobEnds == jobStatus = "queued" ~> JobTerminal(jobStatus)

(* The job and its reservation as its owner sees them. *)
Contract == INSTANCE JobContract WITH seen <- jobStatus

ContractSpec == Contract!Spec

(* Each node of the job lives as NodeLife says: the initial state and every   *)
(* step of the job, seen from any one node, are NodeLife's.                  *)
Life(n) == INSTANCE NodeLife WITH
  Budget <- MaxAttempts[n], status <- status[n], attempt <- attempt[n],
  ref <- ref[n], cancelReq <- cancelReq[n]

NodesLive ==
  /\ \A n \in Node : Life(n)!Init
  /\ [][\A n \in Node :
           Life(n)!Next \/ UNCHANGED <<status[n], attempt[n], ref[n], cancelReq[n]>>]_vars
=============================================================================
