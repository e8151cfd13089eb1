----------------------------- MODULE NodeLease ------------------------------
(***************************************************************************)
(* One node of a job and the workers that execute it: queue messages, the   *)
(* lease, the executions in their goroutines, shutdown and crash of a       *)
(* worker, the sweeper's recovery and a cancellation, at the grain of one   *)
(* database statement or transaction per action (internal/infra/            *)
(* orchestrator: runner.go, sweeper.go, transport.go).  The rest of the job *)
(* is the subject of JobGraph; both implement NodeLife.                     *)
(***************************************************************************)
EXTENDS Integers, FiniteSets, WorkflowStatus

CONSTANTS
  Worker,       \* worker identities; a restarted process has a new one
  Mortal,       \* those that may shut down or crash
  Slot,         \* handler and sweeper goroutines
  Host,         \* [Slot -> Worker]: the process of each goroutine
  Async,        \* the node's executor is an AsyncPlugin (Submit, then Poll)
  Priced,       \* the node's executor reports what its work cost
  MaxAttempts,  \* attempts the plan allows the node
  MaxTrouble    \* bound on delays and failures of the surroundings

ASSUME LeaseAssumption ==
  /\ IsFiniteSet(Slot)
  /\ Mortal \subseteq Worker
  /\ Host \in [Slot -> Worker]
  /\ Async \in BOOLEAN
  /\ Priced \in BOOLEAN
  /\ MaxAttempts \in Nat \ {0}
  /\ MaxTrouble \in Nat

VARIABLES
  status,     \* job_nodes.status, "absent" until the job offers the node
  attempt,    \* job_nodes.attempt
  seq,        \* job_nodes.dispatch_seq
  owner,      \* job_nodes.lease_owner, as a set of at most one worker
  lease,      \* job_nodes.lease_until: "none", "live" or "expired"
  ref,        \* job_nodes.provider_ref: the attempt that submitted the task, or 0
  cancelReq,  \* job_nodes.cancel_requested
  charged,    \* attempts with a ledger entry "job:<id>:node:<name>:a<attempt>:commit"
  queue,      \* the message of the current seq: "none", "there" or "archived"
  run,        \* [Slot -> what the goroutine is doing and has read]
  active,     \* [Worker -> the runner's active entry of this node, {} or one slot]
  up,         \* [Worker -> "up", "stopping" or "down"]
  trouble,    \* how much of MaxTrouble is used
  contested   \* history: a lease ran out although its holder was at work, or the
              \* transaction of an outcome failed

row == <<status, attempt, seq, owner, lease, ref, cancelReq, charged>>
vars == <<row, queue, run, active, up, trouble, contested>>

Attempts == 1 .. MaxAttempts

(* A goroutine's locals: the row as it was loaded (seq, att, ref, canc, own), *)
(* why its context was cancelled, and the outcome it is about to write.       *)
Idle == [pc |-> "idle", kind |-> "run", seq |-> 0, att |-> 0, ref |-> 0,
         canc |-> FALSE, own |-> {}, why |-> "none", out |-> "none", cost |-> FALSE,
         tracked |-> FALSE]

(* What is not read again is left out, or reset by the step that read it last.*)
Loaded(kind, pc) ==
  [Idle EXCEPT !.pc = pc, !.kind = kind, !.seq = seq, !.att = attempt, !.ref = ref,
               !.canc = IF kind = "run" THEN FALSE ELSE cancelReq,
               !.own = IF kind = "sweep" THEN owner ELSE {}]

(* toWaiting compares the status and the owner, finish also the attempt.      *)
Owns(s) == status = "running" /\ owner = {Host[s]}

Holds(s) == Owns(s) /\ attempt = run[s].att

(* claim compares the status and dispatch_seq with the loaded row.            *)

Claimable(s) ==
  /\ seq = run[s].seq
  /\ status = IF run[s].kind = "run" THEN "ready" ELSE "waiting"

RetryOrFail(att) == IF att < MaxAttempts THEN "retry" ELSE "failed"

Spend == trouble < MaxTrouble /\ trouble' = trouble + 1
Suffer == Spend /\ UNCHANGED contested
Contest == Spend /\ contested' = TRUE

(* The message that follows a commit may be lost before it reaches the queue. *)
Dispatch == queue' \in {"none", "there"}

Release == owner' = {} /\ lease' = "none"

(* stop(), deferred by every execution, deletes whatever entry the map holds. *)
Untracked(s) == IF run[s].tracked THEN [active EXCEPT ![Host[s]] = {}] ELSE active

Init ==
  /\ status = "absent" /\ attempt = 0 /\ seq = 0 /\ owner = {} /\ lease = "none"
  /\ ref = 0 /\ cancelReq = FALSE /\ charged = {}
  /\ queue = "none"
  /\ run = [s \in Slot |-> Idle]
  /\ active = [w \in Worker |-> {}]
  /\ up = [w \in Worker |-> "up"]
  /\ trouble = 0
  /\ contested = FALSE
-----------------------------------------------------------------------------
(* The job's transaction makes the node ready and sends its message.          *)
Offer ==
  /\ status = "absent" /\ status' = "ready"
  /\ Dispatch
  /\ UNCHANGED <<attempt, seq, owner, lease, ref, cancelReq, charged, run, active, up, trouble, contested>>

(* RunNode, PollNode: a message of the current seq arrives, the row is loaded. *)
(* Messages of an earlier seq are dropped by the same comparison.              *)
Receive(s) ==
  /\ run[s].pc = "idle" /\ up[Host[s]] = "up"
  /\ queue = "there" /\ status \in {"ready", "waiting"}
  /\ run' = [run EXCEPT ![s] = Loaded(IF status = "ready" THEN "run" ELSE "poll", "loaded")]
  /\ UNCHANGED <<row, queue, active, up, trouble, contested>>

(* deferNode: no capacity, or another worker has the executor.                 *)
Defer(s) ==
  /\ run[s].pc = "loaded" /\ run[s].kind = "run" /\ Claimable(s)
  /\ Suffer
  /\ seq' = seq + 1 /\ Dispatch
  /\ run' = [run EXCEPT ![s] = Idle]
  /\ UNCHANGED <<status, attempt, owner, lease, ref, cancelReq, charged, active, up>>

(* claim: the node runs under this worker's lease; a run counts an attempt.    *)
Claim(s) ==
  LET more == IF run[s].kind = "run" THEN 1 ELSE 0 IN
  /\ run[s].pc = "loaded" /\ Claimable(s)
  /\ status' = "running" /\ attempt' = attempt + more
  /\ owner' = {Host[s]} /\ lease' = "live"
  /\ run' = [run EXCEPT ![s].pc = "claimed", ![s].att = @ + more]
  /\ UNCHANGED <<seq, ref, cancelReq, charged, queue, active, up, trouble, contested>>

(* A claim, a deferral or a takeover whose comparison fails does nothing.      *)
Outrun(s) ==
  /\ \/ run[s].pc = "loaded" /\ ~Claimable(s)
     \/ run[s].pc = "found" /\ ~(status = "running" /\ owner = run[s].own
                                  /\ attempt = run[s].att)
  /\ run' = [run EXCEPT ![s] = Idle]
  /\ UNCHANGED <<row, queue, active, up, trouble, contested>>

(* Outcomes decided before anything is executed: no executor, no inputs; for   *)
(* a poll also a cancellation seen when the row was loaded and a task that is   *)
(* past the node's timeout.                                                    *)
Early(s) ==
  IF run[s].kind = "run" THEN {"failed"}
  ELSE IF run[s].canc THEN {"cancelled"}
  ELSE {"failed", RetryOrFail(run[s].att)}

FailFast(s) ==
  /\ run[s].pc = "claimed"
  /\ \E out \in Early(s) : run' = [run EXCEPT ![s].pc = "write", ![s].out = out,
                                              ![s].canc = FALSE]
  /\ UNCHANGED <<row, queue, active, up, trouble, contested>>

(* execContext: the execution is tracked and its heartbeat starts.             *)
StartExec(s) ==
  /\ run[s].pc = "claimed" /\ ~(run[s].kind = "poll" /\ run[s].canc)
  /\ run' = [run EXCEPT ![s].pc = "exec", ![s].tracked = TRUE]
  /\ active' = [active EXCEPT ![Host[s]] = {s}]
  /\ UNCHANGED <<row, queue, up, trouble, contested>>
-----------------------------------------------------------------------------
(* heartbeat: renew the lease, or learn that it is lost or a cancel is asked.  *)
(* A poll is one short request: to outlast a heartbeat is trouble.             *)
Heartbeat(s) ==
  /\ run[s].pc = "exec" /\ run[s].why = "none"
  /\ \/ /\ Owns(s) /\ lease' = "live"
        /\ run' = [run EXCEPT ![s].why = IF cancelReq THEN "userCancel" ELSE "none"]
        /\ UNCHANGED <<trouble, contested>>
     \/ /\ ~Owns(s) /\ UNCHANGED lease
        /\ run' = [run EXCEPT ![s].why = "leaseLost"]
        /\ IF run[s].kind = "poll" THEN Suffer ELSE UNCHANGED <<trouble, contested>>
  /\ UNCHANGED <<status, attempt, seq, owner, ref, cancelReq, charged, queue, active, up>>

(* Cancelling the tracked context of w; the first cause stays.                 *)
Interrupted(w, why) ==
  [s \in Slot |-> IF s \in active[w] /\ run[s].pc = "exec" /\ run[s].why = "none"
                  THEN [run[s] EXCEPT !.why = why] ELSE run[s]]

(* CancelLocal, when the signal that follows an Abort reaches worker w.        *)
CancelLocal(w) ==
  /\ cancelReq /\ up[w] # "down"
  /\ run' = Interrupted(w, "userCancel")
  /\ UNCHANGED <<row, queue, active, up, trouble, contested>>

Shutdown(w) ==
  /\ w \in Mortal /\ up[w] = "up"
  /\ up' = [up EXCEPT ![w] = "stopping"]
  /\ run' = Interrupted(w, "shutdown")
  /\ UNCHANGED <<row, queue, active, trouble, contested>>

(* The process of w ends, after a shutdown or without one.                     *)
Crash(w) ==
  /\ w \in Mortal /\ up[w] # "down"
  /\ up' = [up EXCEPT ![w] = "down"]
  /\ run' = [s \in Slot |-> IF Host[s] = w THEN Idle ELSE run[s]]
  /\ active' = [active EXCEPT ![w] = {}]
  /\ UNCHANGED <<row, queue, trouble, contested>>
-----------------------------------------------------------------------------
Decide(s, out, cost) ==
  run' = [run EXCEPT ![s].pc = "write", ![s].out = out, ![s].cost = cost,
                     ![s].why = "none"]

(* Submit accepted the task: it is parked whatever happened meanwhile.         *)
Submit(s) ==
  /\ run[s].pc = "exec" /\ run[s].kind = "run" /\ Async
  /\ run' = [run EXCEPT ![s].pc = "write", ![s].out = "park", ![s].ref = run[s].att,
                     ![s].why = "none"]
  /\ UNCHANGED <<row, queue, active, up, trouble, contested>>

(* settle of an execution: a lost lease drops it, a shutdown gives the attempt *)
(* back, a cancel ends the node; work done so far has its cost.                *)
Drop(s) ==
  /\ run[s].pc = "exec" /\ run[s].kind = "run" /\ run[s].why = "leaseLost"
  /\ run' = [run EXCEPT ![s] = Idle]
  /\ active' = Untracked(s)
  /\ UNCHANGED <<row, queue, up, trouble, contested>>

Outcomes(s) ==
  CASE run[s].why = "shutdown" -> {"refund"}
    [] run[s].why = "userCancel" -> {"cancelled"}
    [] run[s].why = "none" -> {"succeeded", "failed", RetryOrFail(run[s].att)}
    [] OTHER -> {}

Settle(s) ==
  /\ run[s].pc = "exec" /\ run[s].kind = "run"
  /\ \E out \in Outcomes(s), cost \in {FALSE, Priced} : Decide(s, out, cost)
  /\ UNCHANGED <<row, queue, active, up, trouble, contested>>

(* The provider has no capacity: the attempt is given back.                    *)
NoCapacity(s) ==
  /\ run[s].pc = "exec" /\ run[s].kind = "run" /\ run[s].why = "none"
  /\ Suffer
  /\ Decide(s, "refund", FALSE)
  /\ UNCHANGED <<row, queue, active, up>>

(* PollNode: an interrupted poll is parked even if it found the task done, and *)
(* its result is dropped, ...                                                  *)
PollInterrupted(s) ==
  /\ run[s].pc = "exec" /\ run[s].kind = "poll" /\ run[s].why # "none"
  /\ Decide(s, "park", FALSE)
  /\ UNCHANGED <<row, queue, active, up, trouble, contested>>

(* ... one that failed or found the task running is parked, ...                *)
PollAgain(s) ==
  /\ run[s].pc = "exec" /\ run[s].kind = "poll" /\ run[s].why = "none"
  /\ Suffer
  /\ Decide(s, "park", FALSE)
  /\ UNCHANGED <<row, queue, active, up>>

(* ... and a finished task, or too many poll errors, decide the attempt.       *)
PollDone(s) ==
  /\ run[s].pc = "exec" /\ run[s].kind = "poll" /\ run[s].why = "none"
  /\ \/ \E out \in {"succeeded", "failed", RetryOrFail(run[s].att)}, cost \in {FALSE, Priced} :
          Decide(s, out, cost)
     \/ Decide(s, RetryOrFail(run[s].att), FALSE)
  /\ UNCHANGED <<row, queue, active, up, trouble, contested>>
-----------------------------------------------------------------------------
Return(s) ==
  /\ run' = [run EXCEPT ![s] = Idle]
  /\ active' = Untracked(s)

(* toWaiting: the next poll is due under a new seq.                            *)
ToWaiting(s) ==
  /\ run[s].pc = "write" /\ run[s].out = "park" /\ Owns(s)
  /\ status' = "waiting" /\ ref' = run[s].ref
  /\ seq' = seq + 1 /\ Dispatch /\ Release
  /\ Return(s)
  /\ UNCHANGED <<attempt, cancelReq, charged, up, trouble, contested>>

(* CommitTx: the cost is charged under the key of the node's attempt; a key    *)
(* that is in the ledger already charges nothing.                              *)
Commit(s) == charged' = IF run[s].cost THEN charged \cup {run[s].att} ELSE charged

(* finish with an outcome that ends the node, ...                              *)
FinishEnd(s) ==
  /\ run[s].pc = "write" /\ run[s].out \in {"succeeded", "failed", "cancelled"} /\ Holds(s)
  /\ status' = run[s].out
  /\ Commit(s) /\ Release /\ Return(s)
  /\ UNCHANGED <<attempt, seq, ref, cancelReq, queue, up, trouble, contested>>

(* A faulty variant of FinishReady: the seq is left as it was.                  *)
SameSeq(s) ==
  /\ run[s].pc = "write" /\ run[s].out \in {"retry", "refund"} /\ Holds(s)
  /\ status' = "ready" /\ ref' = 0
  /\ attempt' = IF run[s].out = "refund" THEN attempt - 1 ELSE attempt
  /\ UNCHANGED seq /\ Dispatch
  /\ Commit(s) /\ Release /\ Return(s)
  /\ UNCHANGED <<cancelReq, up, trouble, contested>>

(* ... or gives it its next attempt, the last one back if it is refunded.      *)
FinishReady(s) ==
  /\ run[s].pc = "write" /\ run[s].out \in {"retry", "refund"} /\ Holds(s)
  /\ status' = "ready" /\ ref' = 0
  /\ attempt' = IF run[s].out = "refund" THEN attempt - 1 ELSE attempt
  /\ seq' = seq + 1 /\ Dispatch
  /\ Commit(s) /\ Release /\ Return(s)
  /\ UNCHANGED <<cancelReq, up, trouble, contested>>

(* A write whose comparison fails is skipped.                                  *)
Rejected(s) ==
  /\ run[s].pc = "write"
  /\ IF run[s].out = "park" THEN ~Owns(s) ELSE ~Holds(s)
  /\ Return(s)
  /\ UNCHANGED <<row, queue, up, trouble, contested>>

(* The transaction fails: the node keeps running under a lease nobody renews.  *)
WriteFails(s) ==
  /\ run[s].pc = "write"
  /\ Contest
  /\ Return(s)
  /\ UNCHANGED <<row, queue, up>>
-----------------------------------------------------------------------------
Executing(s) == run[s].pc \in {"claimed", "exec", "write"}

(* Time passes: the lease of an execution that is gone runs out, and that of   *)
(* one whose heartbeats are late or failing may.                               *)
Expire ==
  /\ status = "running" /\ lease = "live" /\ lease' = "expired"
  /\ UNCHANGED <<status, attempt, seq, owner, ref, cancelReq, charged, queue, run, active, up>>

LeaseRunsOut ==
  Expire /\ UNCHANGED <<trouble, contested>> /\ ~ \E s \in Slot : Owns(s) /\ Executing(s)

LeaseSlips == Expire /\ Contest

(* sweepExpiredLeases loads the row without a lock, ...                        *)
SweepFind(s) ==
  /\ run[s].pc = "idle" /\ up[Host[s]] = "up"
  /\ status = "running" /\ lease = "expired"
  /\ run' = [run EXCEPT ![s] = Loaded("sweep", "found")]
  /\ UNCHANGED <<row, queue, active, up, trouble, contested>>

(* A faulty variant that gives the lost attempt back.                          *)
GivesBack(s) ==
  IF run[s].ref # 0 THEN "park" ELSE IF run[s].canc THEN "cancelled" ELSE "refund"

(* A faulty variant that forgets the remote task.                              *)
ForgetsTask(s) == IF run[s].canc THEN "cancelled" ELSE RetryOrFail(run[s].att)

(* A node whose remote task was loaded is parked.                              *)
Recovery(s) ==
  IF run[s].ref # 0 THEN "park"
  ELSE IF run[s].canc THEN "cancelled" ELSE RetryOrFail(run[s].att)

(* ... takes the lease over if owner and attempt are still the same, ...       *)
SweepTake(s) ==
  /\ run[s].pc = "found" /\ status = "running"
  /\ owner = run[s].own /\ attempt = run[s].att
  /\ owner' = {Host[s]} /\ lease' = "live"
  /\ run' = [run EXCEPT ![s].pc = "write", ![s].out = Recovery(s),
                     ![s].canc = FALSE, ![s].own = {}]
  /\ UNCHANGED <<status, attempt, seq, ref, cancelReq, charged, queue, active, up, trouble, contested>>

(* ... and then writes the outcome as an execution does (ToWaiting, Finish).   *)

(* A faulty variant without the resending of polls.                            *)
ResendRuns ==
  /\ status = "ready" /\ queue = "none" /\ queue' = "there"
  /\ UNCHANGED <<row, run, active, up, trouble, contested>>

(* sweepStaleReady, sweepOverduePolls: the message is sent again under its     *)
(* TaskID; while the queue keeps a task of that id, nothing is added.          *)
Resend ==
  /\ status \in {"ready", "waiting"} /\ queue = "none" /\ queue' = "there"
  /\ UNCHANGED <<row, run, active, up, trouble, contested>>

(* A provider's callback asks for a poll under a TaskID of its own.            *)
Nudge ==
  /\ status = "waiting" /\ ref # 0 /\ queue' = "there"
  /\ UNCHANGED <<row, run, active, up, trouble, contested>>

Lose ==
  /\ status \in {"ready", "waiting"} /\ queue = "there" /\ queue' = "none"
  /\ Suffer
  /\ UNCHANGED <<row, run, active, up>>

(* Every delivery (MaxRetry 5) failed before the claim: the queue keeps the    *)
(* task, and its id, in the archive.                                           *)
Archive ==
  /\ status \in {"ready", "waiting"} /\ queue = "there" /\ queue' = "archived"
  /\ Suffer
  /\ UNCHANGED <<row, run, active, up>>

(* A faulty variant that cancels a waiting node at once.                       *)
AbortAtOnce ==
  /\ \/ status \in {"ready", "waiting"} /\ status' = "cancelled"
        /\ UNCHANGED <<cancelReq, queue>>
     \/ status = "running" /\ ~cancelReq /\ cancelReq' = TRUE /\ UNCHANGED <<status, queue>>
  /\ UNCHANGED <<attempt, seq, owner, lease, ref, charged, run, active, up, trouble, contested>>

(* Abort of the job: a ready node is cancelled, one that runs or waits is      *)
(* asked to stop, and a waiting one is polled at once.                         *)
Abort ==
  /\ \/ status = "ready" /\ status' = "cancelled" /\ UNCHANGED <<cancelReq, queue>>
     \/ /\ status \in {"running", "waiting"} /\ ~cancelReq /\ cancelReq' = TRUE
        /\ queue' \in IF status = "waiting" THEN {queue, "there"} ELSE {queue}
        /\ UNCHANGED status
  /\ UNCHANGED <<attempt, seq, owner, lease, ref, charged, run, active, up, trouble, contested>>
-----------------------------------------------------------------------------
Ended == NodeTerminal(status) /\ UNCHANGED vars

Handle(s) ==
  \/ Receive(s) \/ Defer(s) \/ Claim(s) \/ Outrun(s) \/ FailFast(s) \/ StartExec(s)

Execute(s) ==
  \/ Heartbeat(s) \/ Submit(s) \/ Drop(s) \/ Settle(s) \/ NoCapacity(s)
  \/ PollInterrupted(s) \/ PollAgain(s) \/ PollDone(s)

Finish(s) ==
  \/ ToWaiting(s) \/ FinishEnd(s) \/ FinishReady(s) \/ Rejected(s) \/ WriteFails(s)

Sweep(s) == SweepFind(s) \/ SweepTake(s)

Process(w) == CancelLocal(w) \/ Shutdown(w) \/ Crash(w)

Surroundings ==
  Offer \/ LeaseRunsOut \/ LeaseSlips \/ Resend \/ Nudge \/ Lose \/ Archive \/ Abort \/ Ended

Next ==
  \/ \E s \in Slot : Handle(s) \/ Execute(s) \/ Finish(s) \/ Sweep(s)
  \/ \E w \in Worker : Process(w)
  \/ Surroundings

Spec == Init /\ [][Next]_vars

(* What a goroutine does by itself.  A provider call has a timeout, a deferral  *)
(* and a failed write are trouble, and nobody is obliged to renew a lease.      *)
Proceed(s) ==
  \/ Receive(s) \/ Claim(s) \/ Outrun(s) \/ FailFast(s) \/ StartExec(s)
  \/ Submit(s) \/ Drop(s) \/ Settle(s) \/ PollInterrupted(s) \/ PollDone(s)
  \/ ToWaiting(s) \/ FinishEnd(s) \/ FinishReady(s) \/ Rejected(s)
  \/ SweepFind(s) \/ SweepTake(s)

(* Goroutines are scheduled, leases run out and the sweeper, which runs every   *)
(* few seconds in every worker, sends a lost message again.                     *)
Fairness ==
  /\ \A s \in Slot : WF_vars(Proceed(s))
  /\ WF_vars(LeaseRunsOut)
  /\ WF_vars(Resend)

FairSpec == Spec /\ Fairness
-----------------------------------------------------------------------------
(* Types of all variables. *)
Locals == [pc : {"idle", "loaded", "claimed", "exec", "write", "found"},
           kind : {"run", "poll", "sweep"}, seq : Nat, att : Nat, ref : Nat,
           canc : BOOLEAN, own : SUBSET Worker,
           why : {"none", "leaseLost", "userCancel", "shutdown"},
           out : {"none", "park", "succeeded", "failed", "cancelled", "retry", "refund"},
           cost : BOOLEAN, tracked : BOOLEAN]

TypeOK ==
  /\ status \in NodeStatus \cup {"absent"}
  /\ attempt \in 0 .. MaxAttempts
  /\ seq \in Nat
  /\ owner \in SUBSET Worker
  /\ lease \in {"none", "live", "expired"}
  /\ ref \in 0 .. MaxAttempts
  /\ cancelReq \in BOOLEAN
  /\ charged \subseteq Attempts
  /\ queue \in {"none", "there", "archived"}
  /\ run \in [Slot -> Locals]
  /\ active \in [Worker -> SUBSET Slot]
  /\ up \in [Worker -> {"up", "stopping", "down"}]
  /\ trouble \in 0 .. MaxTrouble
  /\ contested \in BOOLEAN

(* A claim compares only the status and dispatch_seq, yet what the goroutine    *)
(* loaded before it is then still the row's attempt and remote task: both       *)
(* change only together with the seq (runner.go:294-303).                       *)
SnapshotCurrent ==
  \A s \in Slot : run[s].pc = "loaded" /\ Claimable(s) =>
    run[s].att = attempt /\ run[s].ref = ref

(* However often a message is delivered, resent or duplicated, one goroutine    *)
(* at most executes for it (runner.go:294-312).                                 *)
OneClaimPerMessage ==
  \A s, t \in Slot :
    /\ Executing(s) /\ Executing(t)
    /\ run[s].kind # "sweep" /\ run[t].kind # "sweep"
    /\ run[s].seq = run[t].seq
    => s = t

(* What a goroutine that has claimed a message takes for granted: it is alone   *)
(* with the message, and its copy of the row is the row.                        *)
OneHolder == TypeOK /\ SnapshotCurrent /\ OneClaimPerMessage

(* No two goroutines execute the same attempt at a time, also when a lease      *)
(* was lost, taken over or an attempt given back.                               *)
DistinctAttempts ==
  \A s, t \in Slot :
    /\ Executing(s) /\ Executing(t)
    /\ run[s].kind = "run" /\ run[t].kind = "run"
    /\ run[s].att = run[t].att
    => s = t

(* Who polled the task that is recorded, and says that the attempt is over.     *)
Polled(s) ==
  /\ run[s].pc = "write" /\ run[s].kind = "poll" /\ run[s].ref = ref /\ run[s].out = "retry"
  /\ run'[s].pc = "idle"

(* Whoever crashes, stops, cancels or takes over, a remote task that was        *)
(* recorded stays recorded, and the node is not made ready for another          *)
(* submission, until one that polled this very task says that its attempt is    *)
(* over; unless two held the row at once, because a lease ran out under its     *)
(* holder or a transaction failed (runner.go:148-209, sweeper.go:89-137).       *)
TaskIsNotResubmitted ==
  [][~contested /\ ref # 0 =>
       \/ ref' = ref /\ status' # "ready"
       \/ \E s \in Slot : Polled(s)]_vars

(* The row lives as NodeLife says.                                              *)
Life == INSTANCE NodeLife WITH Budget <- MaxAttempts, ref <- (ref # 0)

LifeSpec == Life!Spec

(* Every node that was offered ends, whatever is lost, delayed or crashed, if   *)
(* some worker stays; except when the queue has archived its message.           *)
EveryNodeEnds == status = "ready" ~> NodeTerminal(status) \/ queue = "archived"

(* What sweeper.go:120-121 says of the comparisons: they apply to exactly one   *)
(* attempt, so the task that is polled belongs to the current attempt.          *)
RefMatchesAttempt == status = "waiting" => ref = attempt

(* What orchestrator.go:99-100 says of CommitTx: it charges the cost of an      *)
(* execution, so no cost is about to be written under a key used before.        *)
CostIsCharged ==
  \A s \in Slot : run[s].pc = "write" /\ run[s].cost /\ Holds(s) =>
    run[s].att \notin charged
=============================================================================
