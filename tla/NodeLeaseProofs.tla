-------------------------- MODULE NodeLeaseProofs ---------------------------
(***************************************************************************)
(* Theorems about NodeLease for every set of workers and goroutines, every  *)
(* number of attempts and every amount of trouble, with their proofs.       *)
(***************************************************************************)
EXTENDS NodeLease, TLAPS

(* What the row says by itself.                                             *)
RowInv ==
  /\ status = "absent" => attempt = 0 /\ ref = 0
  /\ status = "ready" => attempt < MaxAttempts /\ ref = 0
  /\ status \in {"running", "waiting"} => attempt >= 1
  /\ status = "waiting" => ref # 0

(* A goroutine knows nothing newer than the row.                             *)
NotAhead(r) == r.att <= MaxAttempts /\ r.ref <= MaxAttempts /\ r.seq <= seq

(* It works on an attempt that was counted, has a task when it polls or parks, *)
(* and retries and refunds only where it may.                                  *)
AtWork(r) ==
  /\ status = "absent" => r.pc = "idle"
  /\ r.kind = "sweep" => r.pc \in {"found", "write"}
  /\ r.pc = "found" => r.kind = "sweep"
  /\ r.kind # "run" \/ r.pc \in {"claimed", "exec", "write"} => r.att >= 1
  /\ r.kind = "poll" \/ (r.pc = "write" /\ r.out = "park") => r.ref # 0
  /\ r.pc = "write" /\ r.out = "retry" => r.att < MaxAttempts
  /\ r.pc = "write" /\ r.out = "refund" => r.kind = "run"

(* It stops for a cancellation only when one was asked for.                    *)
StopsAsked(r) ==
  r.canc \/ r.why = "userCancel" \/ (r.pc = "write" /\ r.out = "cancelled") => cancelReq

KnowsRow(r) == NotAhead(r) /\ AtWork(r) /\ StopsAsked(r)

(* The message of a goroutine that executes is spent: as long as the dispatch *)
(* number is the same, the row is not offered again.                          *)
MessageSpent(r) ==
  r.pc \in {"claimed", "exec", "write"} /\ r.kind # "sweep" /\ r.seq = seq
    => status \notin {"absent", "ready", "waiting"}

(* No attempt that is being executed is still to be counted.                  *)
AttemptCounted(r) ==
  r.pc \in {"claimed", "exec", "write"} /\ r.kind = "run" => r.att <= attempt

LeaseInv ==
  /\ TypeOK /\ RowInv
  /\ \A s \in Slot : KnowsRow(run[s]) /\ MessageSpent(run[s]) /\ AttemptCounted(run[s])
  /\ SnapshotCurrent /\ OneClaimPerMessage /\ DistinctAttempts
-----------------------------------------------------------------------------
LEMMA IdleLocals == Idle \in Locals
  BY DEF Idle, Locals

LEMMA LoadedLocals ==
  ASSUME TypeOK, NEW kind \in {"run", "poll", "sweep"}, NEW pc \in {"loaded", "found"}
  PROVE  Loaded(kind, pc) \in Locals
<1>1. PICK c \in BOOLEAN, w \in SUBSET Worker :
        Loaded(kind, pc) = [Idle EXCEPT !.pc = pc, !.kind = kind, !.seq = seq, !.att = attempt,
                                        !.ref = ref, !.canc = c, !.own = w]
  BY DEF Loaded, TypeOK
<1>2. attempt \in Nat /\ seq \in Nat /\ ref \in Nat
  BY LeaseAssumption DEF TypeOK
<1>3. [Idle EXCEPT !.pc = pc, !.kind = kind, !.seq = seq, !.att = attempt,
                   !.ref = ref, !.canc = c, !.own = w] \in Locals
  BY <1>2, IdleLocals DEF Locals
<1> QED
  BY <1>1, <1>3

(* A goroutine's step leaves the others alone.                               *)
LEMMA OneTurn ==
  ASSUME TypeOK, NEW s \in Slot, NEW r \in Locals, run' = [run EXCEPT ![s] = r]
  PROVE  /\ run' \in [Slot -> Locals]
         /\ run'[s] = r
         /\ \A t \in Slot \ {s} : run'[t] = run[t]
  BY DEF TypeOK

(* What a step may do to a goroutine without counting an attempt for it.     *)
Continues(s) ==
  /\ KnowsRow(run[s])'
  /\ Executing(s)' /\ run'[s].kind # "sweep" =>
       /\ Executing(s) /\ run'[s].kind = run[s].kind
       /\ run'[s].seq = run[s].seq /\ run'[s].att = run[s].att
  /\ run'[s].pc = "loaded" =>
       \/ run'[s] = run[s]
       \/ run'[s].att = attempt' /\ run'[s].ref = ref'

LEMMA Untouched ==
  ASSUME LeaseInv, NEW s \in Slot, run'[s] = run[s], seq' \in Nat, seq' >= seq,
         status' = "absent" => status = "absent", cancelReq => cancelReq'
  PROVE  Continues(s)
  BY DEF LeaseInv, TypeOK, Locals, KnowsRow, NotAhead, AtWork, StopsAsked, Continues, Executing

LEMMA Returned ==
  ASSUME NEW s \in Slot, run'[s] = Idle, seq' \in Nat
  PROVE  Continues(s)
  BY LeaseAssumption DEF Idle, KnowsRow, NotAhead, AtWork, StopsAsked, Continues, Executing

(* The row may move on behind the goroutines when it takes a new dispatch     *)
(* number before it is offered again, and no attempt back that still runs.    *)
LEMMA Continuing ==
  ASSUME LeaseInv, TypeOK', RowInv', \A s \in Slot : Continues(s), seq' >= seq,
         status' \in {"absent", "ready", "waiting"} =>
           seq' > seq \/ UNCHANGED <<status, attempt, ref>>,
         \/ attempt' >= attempt
         \/ \A s \in Slot : AttemptCounted(run[s])'
  PROVE  LeaseInv'
<1> USE DEF LeaseInv
<1>t. \A s \in Slot : run[s] \in Locals /\ run'[s] \in Locals
  BY DEF TypeOK
<1>n. seq \in Nat /\ seq' \in Nat /\ attempt \in Nat /\ attempt' \in Nat
  BY LeaseAssumption DEF TypeOK
<1>1. ASSUME NEW s \in Slot PROVE MessageSpent(run[s])'
  BY <1>t, <1>n DEF MessageSpent, KnowsRow, NotAhead, AtWork, StopsAsked, Continues,
     Executing, Locals
<1>2. ASSUME NEW s \in Slot PROVE AttemptCounted(run[s])'
  BY <1>t, <1>n DEF AttemptCounted, KnowsRow, NotAhead, AtWork, StopsAsked, Continues,
     Executing, Locals
<1>3. SnapshotCurrent'
  BY <1>t, <1>n DEF SnapshotCurrent, Claimable, KnowsRow, NotAhead, AtWork, StopsAsked,
     Continues, Locals
<1>4. OneClaimPerMessage'
  BY DEF OneClaimPerMessage, Continues
<1>5. DistinctAttempts'
  BY DEF DistinctAttempts, Continues
<1> QED
  BY <1>1, <1>2, <1>3, <1>4, <1>5 DEF Continues

LEMMA RowFacts ==
  ASSUME LeaseInv
  PROVE  /\ MaxAttempts \in Nat /\ MaxAttempts >= 1
         /\ attempt \in Nat /\ attempt <= MaxAttempts
         /\ ref \in Nat /\ ref <= MaxAttempts
         /\ seq \in Nat /\ cancelReq \in BOOLEAN
         /\ \A s \in Slot : run[s] \in Locals /\ KnowsRow(run[s])
  BY LeaseAssumption DEF LeaseInv, TypeOK

(* A step of goroutine s: it goes on as q, and nothing else of it matters.    *)
GoesOn(s, q) ==
  /\ q \in Locals /\ run' = [run EXCEPT ![s] = q]
  /\ KnowsRow(q)'
  /\ q.pc \in {"claimed", "exec", "write"} /\ q.kind # "sweep" =>
       Executing(s) /\ q.kind = run[s].kind /\ q.seq = run[s].seq /\ q.att = run[s].att
  /\ q.pc = "loaded" => q.att = attempt' /\ q.ref = ref'

(* Then every goroutine continues.                                            *)
LEMMA Turn ==
  ASSUME LeaseInv, NEW s \in Slot, NEW q, GoesOn(s, q), TypeOK',
         seq' >= seq, status' = "absent" => status = "absent", cancelReq => cancelReq'
  PROVE  \A t \in Slot : Continues(t)
<1> USE DEF GoesOn
<1>1. run'[s] = q /\ \A t \in Slot \ {s} : run'[t] = run[t]
  BY OneTurn DEF LeaseInv
<1>2. Continues(s)
  BY <1>1 DEF Continues, KnowsRow, NotAhead, AtWork, StopsAsked, Executing
<1>3. ASSUME NEW t \in Slot \ {s} PROVE Continues(t)
  BY <1>1, <1>3, Untouched DEF TypeOK
<1> QED BY <1>2, <1>3

(* Steps that leave the row alone.                                            *)
LEMMA OwnStep ==
  ASSUME LeaseInv, NEW s \in Slot, NEW q, GoesOn(s, q), UNCHANGED row,
         queue' \in {"none", "there", "archived"}, active' \in [Worker -> SUBSET Slot],
         up' \in [Worker -> {"up", "stopping", "down"}], trouble' \in 0 .. MaxTrouble,
         contested' \in BOOLEAN
  PROVE  LeaseInv'
<1>1. TypeOK'
  BY OneTurn DEF LeaseInv, GoesOn, TypeOK, row
<1>2. seq' = seq /\ attempt' = attempt /\ seq \in Nat /\ attempt \in Nat
  BY LeaseAssumption DEF LeaseInv, TypeOK, row
<1>3. \A t \in Slot : Continues(t)
  BY <1>1, <1>2, Turn DEF row
<1>4. RowInv'
  BY DEF LeaseInv, RowInv, row
<1> QED BY <1>1, <1>2, <1>3, <1>4, Continuing DEF row

(* A goroutine that gives up returns, whatever the row is by now.             *)
LEMMA GivesUp ==
  ASSUME LeaseInv, NEW s \in Slot, run' = [run EXCEPT ![s] = Idle], seq' \in Nat
  PROVE  GoesOn(s, Idle)
  BY LeaseAssumption, IdleLocals DEF GoesOn, Idle, KnowsRow, NotAhead, AtWork, StopsAsked

LEMMA UntrackedType ==
  ASSUME TypeOK, NEW s \in Slot
  PROVE  Untracked(s) \in [Worker -> SUBSET Slot]
  BY LeaseAssumption DEF TypeOK, Untracked

LEMMA ReceiveKeeps ==
  ASSUME LeaseInv, NEW s \in Slot, Receive(s)
  PROVE  LeaseInv'
<1>1. PICK kind \in {"run", "poll"} :
        /\ kind = "poll" => status = "waiting"
        /\ run' = [run EXCEPT ![s] = Loaded(kind, "loaded")]
  BY DEF Receive
<1>2. PICK q \in Locals : q = Loaded(kind, "loaded")
  BY LoadedLocals DEF LeaseInv
<1>3. /\ q.pc = "loaded" /\ q.kind = kind /\ q.seq = seq /\ q.att = attempt /\ q.ref = ref
      /\ q.canc => cancelReq
      /\ q.why = "none"
  BY <1>2 DEF Loaded, Idle, LeaseInv, TypeOK
<1>r. UNCHANGED row /\ status \in {"ready", "waiting"}
  BY DEF Receive
<1>4. NotAhead(q)'
  BY <1>3, <1>r, RowFacts DEF NotAhead, row
<1>5. AtWork(q)'
  BY <1>1, <1>3, <1>r, RowFacts DEF AtWork, LeaseInv, RowInv, row
<1>6. StopsAsked(q)'
  BY <1>3, <1>r DEF StopsAsked, row
<1>7. GoesOn(s, q)
  BY <1>1, <1>2, <1>3, <1>r, <1>4, <1>5, <1>6 DEF GoesOn, KnowsRow, row
<1> QED BY <1>r, <1>7, OwnStep DEF Receive, LeaseInv, TypeOK

LEMMA OutrunKeeps ==
  ASSUME LeaseInv, NEW s \in Slot, Outrun(s)
  PROVE  LeaseInv'
<1>1. GoesOn(s, Idle)
  BY GivesUp DEF Outrun, LeaseInv, TypeOK, row
<1> QED BY <1>1, OwnStep DEF Outrun, LeaseInv, TypeOK

(* An execution that goes on, or is about to write an outcome.                *)
LEMMA Proceeds ==
  ASSUME LeaseInv, NEW s \in Slot, Executing(s), NEW q \in Locals,
         run' = [run EXCEPT ![s] = q], UNCHANGED row,
         q.kind = run[s].kind, q.seq = run[s].seq, q.att = run[s].att,
         q.ref \in {run[s].ref, run[s].att},
         q.pc \in {"exec", "write"}, q.kind = "sweep" => q.pc = "write",
         q.canc \/ q.why = "userCancel" => cancelReq,
         q.pc = "write" =>
           /\ q.out = "park" => q.ref # 0
           /\ q.out = "retry" => q.att < MaxAttempts
           /\ q.out = "refund" => q.kind = "run"
           /\ q.out = "cancelled" => cancelReq
  PROVE  GoesOn(s, q)
<1>1. /\ run[s] \in Locals /\ q.att \in Nat /\ q.ref \in Nat /\ q.seq \in Nat
      /\ run[s].ref \in Nat
  BY RowFacts DEF Locals
<1>2. status # "absent" /\ run[s].att >= 1 /\ run[s].att <= MaxAttempts
      /\ run[s].ref <= MaxAttempts /\ run[s].seq <= seq
      /\ (run[s].kind = "poll" => run[s].ref # 0)
  BY RowFacts DEF KnowsRow, NotAhead, AtWork, StopsAsked, Executing
<1>3. KnowsRow(q)'
  BY <1>1, <1>2 DEF KnowsRow, NotAhead, AtWork, StopsAsked, row
<1> QED BY <1>3 DEF GoesOn

LEMMA FailFastKeeps ==
  ASSUME LeaseInv, NEW s \in Slot, FailFast(s)
  PROVE  LeaseInv'
<1>t. run[s] \in Locals /\ KnowsRow(run[s])
  BY RowFacts
<1>1. PICK out \in Early(s) :
        run' = [run EXCEPT ![s] = [run[s] EXCEPT !.pc = "write", !.out = out, !.canc = FALSE]]
  BY <1>t DEF FailFast, LeaseInv, TypeOK, Locals
<1>2. out \in {"failed", "cancelled", "retry"} /\ (out = "retry" => run[s].att < MaxAttempts)
      /\ (out = "cancelled" => run[s].canc)
  BY DEF Early, RetryOrFail
<1>3. PICK q \in Locals : q = [run[s] EXCEPT !.pc = "write", !.out = out, !.canc = FALSE]
  BY <1>t, <1>2 DEF Locals
<1>4. /\ q.pc = "write" /\ q.kind = run[s].kind /\ q.seq = run[s].seq /\ q.att = run[s].att
      /\ q.ref = run[s].ref /\ q.canc = FALSE /\ q.why = run[s].why /\ q.out = out
  BY <1>t, <1>3 DEF Locals
<1>5. run[s].pc = "claimed" /\ UNCHANGED row /\ Executing(s)
  BY DEF FailFast, Executing
<1>6. run[s].kind # "sweep" /\ (run[s].canc \/ run[s].why = "userCancel" => cancelReq)
  BY <1>t, <1>5 DEF KnowsRow, AtWork, StopsAsked
<1>7. GoesOn(s, q)
  BY <1>1, <1>2, <1>3, <1>4, <1>5, <1>6, Proceeds
<1> QED BY <1>7, OwnStep DEF FailFast, LeaseInv, TypeOK

LEMMA SufferType ==
  ASSUME TypeOK, Suffer \/ Contest \/ UNCHANGED <<trouble, contested>>
  PROVE  trouble' \in 0 .. MaxTrouble /\ contested' \in BOOLEAN
<1>1. trouble' \in 0 .. MaxTrouble
  BY LeaseAssumption DEF TypeOK, Suffer, Contest, Spend
<1>2. contested' \in BOOLEAN
  BY Zenon DEF TypeOK, Suffer, Contest
<1> QED BY <1>1, <1>2

LEMMA StartExecKeeps ==
  ASSUME LeaseInv, NEW s \in Slot, StartExec(s)
  PROVE  LeaseInv'
<1>t. run[s] \in Locals /\ KnowsRow(run[s])
  BY RowFacts
<1>1. run' = [run EXCEPT ![s] = [run[s] EXCEPT !.pc = "exec", !.tracked = TRUE]]
  BY <1>t DEF StartExec, LeaseInv, TypeOK, Locals
<1>2. PICK q \in Locals : q = [run[s] EXCEPT !.pc = "exec", !.tracked = TRUE]
  BY <1>t DEF Locals
<1>3. /\ q.pc = "exec" /\ q.kind = run[s].kind /\ q.seq = run[s].seq /\ q.att = run[s].att
      /\ q.ref = run[s].ref /\ q.canc = run[s].canc /\ q.why = run[s].why
  BY <1>t, <1>2 DEF Locals
<1>4. run[s].pc = "claimed" /\ UNCHANGED row /\ Executing(s)
  BY DEF StartExec, Executing
<1>5. run[s].kind # "sweep" /\ (run[s].canc \/ run[s].why = "userCancel" => cancelReq)
  BY <1>t, <1>4 DEF KnowsRow, AtWork, StopsAsked
<1>6. GoesOn(s, q)
  BY <1>1, <1>2, <1>3, <1>4, <1>5, Proceeds
<1>7. active' \in [Worker -> SUBSET Slot]
  BY LeaseAssumption DEF StartExec, LeaseInv, TypeOK
<1> QED BY <1>6, <1>7, OwnStep DEF StartExec, LeaseInv, TypeOK

LEMMA HeartbeatKeeps ==
  ASSUME LeaseInv, NEW s \in Slot, Heartbeat(s)
  PROVE  LeaseInv'
<1>t. run[s] \in Locals /\ KnowsRow(run[s])
  BY RowFacts
<1>1. PICK why \in {"none", "leaseLost", "userCancel"} :
        /\ run' = [run EXCEPT ![s] = [run[s] EXCEPT !.why = why]]
        /\ why = "userCancel" => cancelReq
  BY <1>t DEF Heartbeat, LeaseInv, TypeOK, Locals
<1>2. PICK q \in Locals : q = [run[s] EXCEPT !.why = why]
  BY <1>t DEF Locals
<1>3. /\ q.pc = run[s].pc /\ q.kind = run[s].kind /\ q.seq = run[s].seq /\ q.att = run[s].att
      /\ q.ref = run[s].ref /\ q.canc = run[s].canc /\ q.why = why
  BY <1>t, <1>2 DEF Locals
<1>4. run[s].pc = "exec" /\ Executing(s)
  BY DEF Heartbeat, Executing
<1>5. run[s].kind # "sweep" /\ (run[s].canc => cancelReq)
  BY <1>t, <1>4 DEF KnowsRow, AtWork, StopsAsked
<1>6. GoesOn(s, q)
  <2>1. AtWork(q)' /\ NotAhead(q)'
    BY <1>t, <1>3, <1>4 DEF AtWork, NotAhead, KnowsRow, Heartbeat
  <2>2. StopsAsked(q)'
    BY <1>1, <1>3, <1>4, <1>5 DEF StopsAsked, Heartbeat
  <2> QED BY <1>1, <1>2, <1>3, <1>4, <2>1, <2>2 DEF GoesOn, KnowsRow
<1>r. UNCHANGED <<status, attempt, seq, owner, ref, cancelReq, charged, queue, active, up>>
  BY DEF Heartbeat
<1>7. TypeOK'
  <2>1. run' \in [Slot -> Locals]
    BY <1>1, <1>2, OneTurn DEF LeaseInv
  <2>2. trouble' \in 0 .. MaxTrouble /\ contested' \in BOOLEAN /\ lease' \in {"none", "live", "expired"}
    BY SufferType DEF Heartbeat, LeaseInv, TypeOK
  <2> QED BY <1>r, <2>1, <2>2 DEF LeaseInv, TypeOK
<1>8. \A t \in Slot : Continues(t)
  BY <1>6, <1>7, <1>r, RowFacts, Turn
<1>9. RowInv'
  BY <1>r DEF LeaseInv, RowInv
<1> QED BY <1>7, <1>8, <1>9, <1>r, RowFacts, Continuing

(* An execution of s is about to write out.                                    *)
LEMMA WritesOutcome ==
  ASSUME LeaseInv, NEW s \in Slot, run[s].pc = "exec",
         NEW out \in {"park", "succeeded", "failed", "cancelled", "retry", "refund"},
         NEW cost \in BOOLEAN, Decide(s, out, cost), UNCHANGED row,
         out = "park" => run[s].kind = "poll",
         out = "retry" => run[s].att < MaxAttempts,
         out = "refund" => run[s].kind = "run",
         out = "cancelled" => run[s].why = "userCancel",
         queue' = queue, active' = active, up' = up, trouble' \in 0 .. MaxTrouble,
         contested' \in BOOLEAN
  PROVE  LeaseInv'
<1>t. run[s] \in Locals /\ KnowsRow(run[s])
  BY RowFacts
<1>1. run' = [run EXCEPT ![s] = [run[s] EXCEPT !.pc = "write", !.out = out, !.cost = cost,
                                               !.why = "none"]]
  BY <1>t DEF Decide, LeaseInv, TypeOK, Locals
<1>2. PICK q \in Locals : q = [run[s] EXCEPT !.pc = "write", !.out = out, !.cost = cost,
                                             !.why = "none"]
  BY <1>t DEF Locals
<1>3. /\ q.pc = "write" /\ q.kind = run[s].kind /\ q.seq = run[s].seq /\ q.att = run[s].att
      /\ q.ref = run[s].ref /\ q.canc = run[s].canc /\ q.why = "none" /\ q.out = out
  BY <1>t, <1>2 DEF Locals
<1>4. /\ run[s].kind # "sweep" /\ (run[s].canc \/ run[s].why = "userCancel" => cancelReq)
      /\ run[s].kind = "poll" => run[s].ref # 0
  BY <1>t DEF KnowsRow, AtWork, StopsAsked
<1>5. GoesOn(s, q)
  BY <1>1, <1>2, <1>3, <1>4, Proceeds DEF Executing
<1> QED BY <1>5, OwnStep DEF LeaseInv, TypeOK

LEMMA SubmitKeeps ==
  ASSUME LeaseInv, NEW s \in Slot, Submit(s)
  PROVE  LeaseInv'
<1>t. run[s] \in Locals /\ KnowsRow(run[s])
  BY RowFacts
<1>1. run' = [run EXCEPT ![s] = [run[s] EXCEPT !.pc = "write", !.out = "park",
                                               !.ref = run[s].att, !.why = "none"]]
  BY <1>t DEF Submit, LeaseInv, TypeOK, Locals
<1>2. PICK q \in Locals : q = [run[s] EXCEPT !.pc = "write", !.out = "park",
                                             !.ref = run[s].att, !.why = "none"]
  BY <1>t DEF Locals
<1>3. /\ q.pc = "write" /\ q.kind = run[s].kind /\ q.seq = run[s].seq /\ q.att = run[s].att
      /\ q.ref = run[s].att /\ q.canc = run[s].canc /\ q.why = "none" /\ q.out = "park"
  BY <1>t, <1>2 DEF Locals
<1>4. run[s].pc = "exec" /\ UNCHANGED row /\ Executing(s) /\ run[s].kind = "run"
  BY DEF Submit, Executing
<1>5. (run[s].canc => cancelReq) /\ run[s].att >= 1 /\ run[s].att \in Nat
  BY <1>t, <1>4 DEF KnowsRow, AtWork, StopsAsked, Locals
<1>6. q.ref \in {run[s].ref, run[s].att} /\ q.ref # 0 /\ (q.canc \/ q.why = "userCancel" => cancelReq)
  BY <1>3, <1>5
<1>7. GoesOn(s, q)
  BY <1>1, <1>2, <1>3, <1>4, <1>6, Proceeds
<1> QED BY <1>7, OwnStep DEF Submit, LeaseInv, TypeOK

LEMMA DropKeeps ==
  ASSUME LeaseInv, NEW s \in Slot, Drop(s)
  PROVE  LeaseInv'
<1>1. GoesOn(s, Idle)
  BY GivesUp, RowFacts DEF Drop, row
<1> QED BY <1>1, OwnStep, UntrackedType DEF Drop, LeaseInv, TypeOK

LEMMA DecideKeeps ==
  ASSUME LeaseInv, NEW s \in Slot,
         Settle(s) \/ NoCapacity(s) \/ PollInterrupted(s) \/ PollAgain(s) \/ PollDone(s)
  PROVE  LeaseInv'
<1>t. run[s].pc = "exec" /\ UNCHANGED row /\ queue' = queue /\ active' = active /\ up' = up
  BY DEF Settle, NoCapacity, PollInterrupted, PollAgain, PollDone
<1>s. trouble' \in 0 .. MaxTrouble /\ contested' \in BOOLEAN
  BY SufferType DEF Settle, NoCapacity, PollInterrupted, PollAgain, PollDone, LeaseInv
<1>1. \E out \in {"park", "succeeded", "failed", "cancelled", "retry", "refund"}, cost \in BOOLEAN :
        /\ Decide(s, out, cost)
        /\ out = "park" => run[s].kind = "poll"
        /\ out = "retry" => run[s].att < MaxAttempts
        /\ out = "refund" => run[s].kind = "run"
        /\ out = "cancelled" => run[s].why = "userCancel"
  BY LeaseAssumption
     DEF Settle, NoCapacity, PollInterrupted, PollAgain, PollDone, Outcomes, RetryOrFail
<1> QED BY <1>t, <1>s, <1>1, WritesOutcome

LEMMA ReturnKeeps ==
  ASSUME LeaseInv, NEW s \in Slot, Rejected(s) \/ WriteFails(s)
  PROVE  LeaseInv'
<1>1. GoesOn(s, Idle) /\ UNCHANGED row
  BY GivesUp, RowFacts DEF Rejected, WriteFails, Return, row
<1>2. trouble' \in 0 .. MaxTrouble /\ contested' \in BOOLEAN /\ active' \in [Worker -> SUBSET Slot]
  BY UntrackedType, SufferType DEF Rejected, WriteFails, Return, LeaseInv
<1> QED BY <1>1, <1>2, OwnStep DEF Rejected, WriteFails, LeaseInv, TypeOK

LEMMA SweepFindKeeps ==
  ASSUME LeaseInv, NEW s \in Slot, SweepFind(s)
  PROVE  LeaseInv'
<1>1. PICK q \in Locals : q = Loaded("sweep", "found")
  BY LoadedLocals DEF LeaseInv
<1>2. /\ q.pc = "found" /\ q.kind = "sweep" /\ q.seq = seq /\ q.att = attempt /\ q.ref = ref
      /\ q.canc => cancelReq
      /\ q.why = "none"
  BY <1>1 DEF Loaded, Idle, LeaseInv, TypeOK
<1>3. run' = [run EXCEPT ![s] = q] /\ UNCHANGED row /\ status = "running"
  BY <1>1 DEF SweepFind
<1>4. NotAhead(q)'
  BY <1>2, <1>3, RowFacts DEF NotAhead, row
<1>5. AtWork(q)'
  BY <1>2, <1>3, RowFacts DEF AtWork, LeaseInv, RowInv, row
<1>6. StopsAsked(q)'
  BY <1>2, <1>3 DEF StopsAsked, row
<1>7. GoesOn(s, q)
  BY <1>2, <1>3, <1>4, <1>5, <1>6 DEF GoesOn, KnowsRow, row
<1> QED BY <1>3, <1>7, OwnStep DEF SweepFind, LeaseInv, TypeOK

LEMMA SweepTakeKeeps ==
  ASSUME LeaseInv, NEW s \in Slot, SweepTake(s)
  PROVE  LeaseInv'
<1>t. run[s] \in Locals /\ KnowsRow(run[s]) /\ Recovery(s) \in {"park", "cancelled", "retry", "failed"}
  BY RowFacts DEF Recovery, RetryOrFail
<1>1. run' = [run EXCEPT ![s] = [run[s] EXCEPT !.pc = "write", !.out = Recovery(s),
                                               !.canc = FALSE, !.own = {}]]
  BY <1>t DEF SweepTake, LeaseInv, TypeOK, Locals
<1>2. PICK q \in Locals : q = [run[s] EXCEPT !.pc = "write", !.out = Recovery(s),
                                             !.canc = FALSE, !.own = {}]
  BY <1>t DEF Locals
<1>3. /\ q.pc = "write" /\ q.kind = run[s].kind /\ q.seq = run[s].seq /\ q.att = run[s].att
      /\ q.ref = run[s].ref /\ q.canc = FALSE /\ q.why = run[s].why /\ q.out = Recovery(s)
  BY <1>t, <1>2 DEF Locals
<1>r. UNCHANGED <<status, attempt, seq, ref, cancelReq, charged, queue, active, up, trouble, contested>>
      /\ run[s].pc = "found" /\ status = "running" /\ attempt = run[s].att
  BY DEF SweepTake
<1>4. run[s].kind = "sweep" /\ (run[s].canc \/ run[s].why = "userCancel" => cancelReq)
  BY <1>t, <1>r DEF KnowsRow, AtWork, StopsAsked
<1>5. /\ q.out = "park" => q.ref # 0
      /\ q.out = "retry" => q.att < MaxAttempts
      /\ q.out = "cancelled" => cancelReq
      /\ q.out # "refund"
  BY <1>3, <1>4 DEF Recovery, RetryOrFail
<1>6. NotAhead(q)'
  BY <1>t, <1>3, <1>r DEF KnowsRow, NotAhead
<1>7. AtWork(q)'
  BY <1>t, <1>3, <1>4, <1>5, <1>r, RowFacts DEF AtWork, LeaseInv, RowInv
<1>8. StopsAsked(q)'
  BY <1>3, <1>4, <1>5, <1>r DEF StopsAsked
<1>9. GoesOn(s, q)
  BY <1>1, <1>2, <1>3, <1>4, <1>6, <1>7, <1>8 DEF GoesOn, KnowsRow
<1>10. TypeOK'
  <2>1. run' \in [Slot -> Locals]
    BY <1>1, <1>2, OneTurn DEF LeaseInv
  <2>2. owner' \in SUBSET Worker /\ lease' = "live"
    BY LeaseAssumption DEF SweepTake
  <2> QED BY <1>r, <2>1, <2>2 DEF LeaseInv, TypeOK
<1>11. RowInv'
  BY <1>r DEF LeaseInv, RowInv
<1> QED BY <1>r, <1>9, <1>10, <1>11, RowFacts, Turn, Continuing

(* Interrupting an execution only gives it a reason to stop.                  *)
LEMMA InterruptedKeeps ==
  ASSUME LeaseInv, NEW w \in Worker, NEW why \in {"userCancel", "shutdown"},
         run' = Interrupted(w, why), why = "userCancel" => cancelReq,
         UNCHANGED <<row, queue, active, trouble, contested>>,
         up' \in [Worker -> {"up", "stopping", "down"}]
  PROVE  LeaseInv'
<1>r. /\ status' = status /\ attempt' = attempt /\ seq' = seq /\ ref' = ref
      /\ cancelReq' = cancelReq
  BY DEF row
<1>1. ASSUME NEW t \in Slot PROVE run'[t] \in Locals /\ Continues(t)
  <2>t. run[t] \in Locals /\ KnowsRow(run[t])
    BY RowFacts
  <2>1. CASE run'[t] = run[t]
    BY <2>t, <2>1, <1>r, Untouched, RowFacts
  <2>2. CASE run[t].pc = "exec" /\ run'[t] = [run[t] EXCEPT !.why = why]
    <3>1. PICK q \in Locals : q = run'[t]
      BY <2>t, <2>2 DEF Locals
    <3>2. /\ q.pc = "exec" /\ q.kind = run[t].kind /\ q.seq = run[t].seq /\ q.att = run[t].att
          /\ q.ref = run[t].ref /\ q.canc = run[t].canc /\ q.why = why
      BY <2>t, <2>2, <3>1 DEF Locals
    <3>3. AtWork(q)' /\ NotAhead(q)'
      BY <2>t, <2>2, <3>2, <1>r DEF KnowsRow, AtWork, NotAhead
    <3>4. StopsAsked(q)'
      BY <2>t, <2>2, <3>2, <1>r DEF KnowsRow, StopsAsked
    <3> QED BY <2>2, <3>1, <3>2, <3>3, <3>4 DEF Continues, KnowsRow, Executing
  <2> QED BY <2>1, <2>2 DEF Interrupted
<1>2. TypeOK'
  BY <1>1 DEF Interrupted, LeaseInv, TypeOK, row
<1>3. RowInv'
  BY <1>r DEF LeaseInv, RowInv
<1> QED BY <1>1, <1>2, <1>3, <1>r, RowFacts, Continuing

LEMMA CrashKeeps ==
  ASSUME LeaseInv, NEW w \in Worker, Crash(w)
  PROVE  LeaseInv'
<1>r. /\ status' = status /\ attempt' = attempt /\ seq' = seq /\ ref' = ref
      /\ cancelReq' = cancelReq
  BY DEF Crash, row
<1>1. ASSUME NEW t \in Slot PROVE run'[t] \in Locals /\ Continues(t)
  BY <1>r, RowFacts, IdleLocals, Untouched, Returned DEF Crash
<1>2. TypeOK'
  <2>1. active' \in [Worker -> SUBSET Slot] /\ up' \in [Worker -> {"up", "stopping", "down"}]
    BY DEF Crash, LeaseInv, TypeOK
  <2> QED BY <1>1, <2>1 DEF Crash, LeaseInv, TypeOK, row
<1>3. RowInv'
  BY <1>r DEF LeaseInv, RowInv
<1> QED BY <1>1, <1>2, <1>3, <1>r, RowFacts, Continuing

(* Steps of the surroundings, which no goroutine takes.                       *)
LEMMA Around ==
  ASSUME LeaseInv, UNCHANGED <<run, seq, attempt, ref>>, TypeOK', RowInv',
         status' \in {"absent", "ready", "waiting"} => status' = status,
         cancelReq => cancelReq'
  PROVE  LeaseInv'
<1>1. \A t \in Slot : Continues(t)
  BY Untouched, RowFacts
<1> QED BY <1>1, RowFacts, Continuing

LEMMA SurroundingsKeep ==
  ASSUME LeaseInv, Surroundings, ~Offer
  PROVE  LeaseInv'
<1> USE DEF LeaseInv, RowInv
<1>1. CASE Expire /\ (UNCHANGED <<trouble, contested>> \/ Contest)
  <2>1. trouble' \in 0 .. MaxTrouble /\ contested' \in BOOLEAN
    BY <1>1, SufferType
  <2>2. TypeOK'
    BY <1>1, <2>1 DEF Expire, TypeOK
  <2> QED BY <1>1, <2>2, Around DEF Expire
<1>2. CASE Resend \/ Nudge
  <2>1. TypeOK'
    BY <1>2 DEF Resend, Nudge, TypeOK, row
  <2> QED BY <1>2, <2>1, Around DEF Resend, Nudge, row
<1>3. CASE Lose \/ Archive
  <2>1. trouble' \in 0 .. MaxTrouble /\ contested' \in BOOLEAN
    BY <1>3, SufferType DEF Lose, Archive
  <2>2. TypeOK'
    BY <1>3, <2>1 DEF Lose, Archive, TypeOK, row
  <2> QED BY <1>3, <2>2, Around DEF Lose, Archive, row
<1>4. CASE Abort
  <2>1. TypeOK'
    BY <1>4 DEF Abort, TypeOK, NodeStatus
  <2>2. RowInv'
    BY <1>4 DEF Abort
  <2> QED BY <1>4, <2>1, <2>2, Around DEF Abort
<1>5. CASE Ended
  <2>1. TypeOK'
    BY <1>5 DEF Ended, vars, row, TypeOK
  <2> QED BY <1>5, <2>1, Around DEF Ended, vars, row
<1> QED BY <1>1, <1>2, <1>3, <1>4, <1>5 DEF Surroundings, LeaseRunsOut, LeaseSlips

(* The first offer: no goroutine knows the node yet.                          *)
LEMMA OfferKeeps ==
  ASSUME LeaseInv, Offer
  PROVE  LeaseInv'
<1>1. \A t \in Slot : run'[t] = run[t] /\ run[t].pc = "idle" /\ run[t] \in Locals
  BY RowFacts DEF Offer, KnowsRow, AtWork
<1>2. TypeOK' /\ RowInv'
  BY LeaseAssumption DEF Offer, Dispatch, LeaseInv, RowInv, TypeOK, NodeStatus
<1>3. \A t \in Slot : Continues(t)
  BY <1>1, Untouched, RowFacts DEF Offer
<1> QED BY <1>1, <1>2, <1>3
        DEF LeaseInv, Continues, MessageSpent, AttemptCounted, SnapshotCurrent,
            OneClaimPerMessage, DistinctAttempts, Executing

LEMMA DeferKeeps ==
  ASSUME LeaseInv, NEW s \in Slot, Defer(s)
  PROVE  LeaseInv'
<1>1. /\ seq' = seq + 1 /\ seq \in Nat
      /\ UNCHANGED <<status, attempt, owner, lease, ref, cancelReq, charged, active, up>>
      /\ run' = [run EXCEPT ![s] = Idle] /\ Claimable(s)
  BY RowFacts DEF Defer
<1>2. TypeOK'
  <2>1. trouble' \in 0 .. MaxTrouble /\ contested' \in BOOLEAN /\ run' \in [Slot -> Locals]
    BY <1>1, SufferType, OneTurn, IdleLocals DEF Defer, LeaseInv
  <2> QED BY <1>1, <2>1 DEF Defer, Dispatch, LeaseInv, TypeOK
<1>3. RowInv'
  BY <1>1 DEF LeaseInv, RowInv
<1>4. \A t \in Slot : Continues(t)
  <2>0. seq' \in Nat
    BY <1>1, RowFacts
  <2>1. GoesOn(s, Idle)
    BY <1>1, <2>0, GivesUp
  <2>2. seq' >= seq /\ status' # "absent"
    BY <1>1, RowFacts DEF Claimable
  <2> QED BY <1>1, <1>2, <2>1, <2>2, Turn
<1>5. seq' >= seq /\ seq' > seq /\ attempt' >= attempt
  BY <1>1, RowFacts
<1> QED BY <1>1, <1>2, <1>3, <1>4, <1>5, Continuing

LEMMA ToWaitingKeeps ==
  ASSUME LeaseInv, NEW s \in Slot, ToWaiting(s)
  PROVE  LeaseInv'
<1>1. /\ seq' = seq + 1 /\ seq \in Nat /\ status' = "waiting" /\ ref' = run[s].ref
      /\ UNCHANGED <<attempt, cancelReq, charged, up, trouble, contested>> /\ status = "running"
      /\ run' = [run EXCEPT ![s] = Idle] /\ active' = Untracked(s)
  BY RowFacts DEF ToWaiting, Return, Owns
<1>2. run[s].ref # 0 /\ run[s].ref \in 0 .. MaxAttempts
  BY RowFacts DEF ToWaiting, KnowsRow, AtWork, NotAhead, Locals
<1>3. TypeOK'
  <2>1. active' \in [Worker -> SUBSET Slot] /\ run' \in [Slot -> Locals]
    BY <1>1, UntrackedType, OneTurn, IdleLocals DEF LeaseInv
  <2> QED BY <1>1, <1>2, <2>1 DEF ToWaiting, Dispatch, Release, LeaseInv, TypeOK, NodeStatus
<1>4. RowInv'
  BY <1>1, <1>2 DEF LeaseInv, RowInv
<1>5. \A t \in Slot : Continues(t)
  <2>0. seq' \in Nat
    BY <1>1, RowFacts
  <2>1. GoesOn(s, Idle)
    BY <1>1, <2>0, GivesUp
  <2>2. seq' >= seq /\ status' # "absent"
    BY <1>1, RowFacts DEF Claimable
  <2> QED BY <1>1, <1>3, <2>1, <2>2, Turn
<1> QED BY <1>1, <1>3, <1>4, <1>5, RowFacts, Continuing

LEMMA CommitType ==
  ASSUME LeaseInv, NEW s \in Slot, Executing(s), Commit(s)
  PROVE  charged' \subseteq Attempts
<1>1. run[s].att \in Attempts
  BY RowFacts DEF KnowsRow, NotAhead, AtWork, Executing, Locals, Attempts
<1> QED BY <1>1 DEF Commit, LeaseInv, TypeOK

LEMMA FinishEndKeeps ==
  ASSUME LeaseInv, NEW s \in Slot, FinishEnd(s)
  PROVE  LeaseInv'
<1>1. /\ UNCHANGED <<attempt, seq, ref, cancelReq, queue, up, trouble, contested>> /\ status = "running"
      /\ status' \in {"succeeded", "failed", "cancelled"}
      /\ run' = [run EXCEPT ![s] = Idle] /\ active' = Untracked(s)
  BY DEF FinishEnd, Return, Holds, Owns
<1>2. TypeOK'
  <2>1. active' \in [Worker -> SUBSET Slot] /\ run' \in [Slot -> Locals]
        /\ charged' \subseteq Attempts
    BY <1>1, UntrackedType, OneTurn, IdleLocals, CommitType DEF LeaseInv, FinishEnd, Executing
  <2> QED BY <1>1, <2>1 DEF FinishEnd, Release, LeaseInv, TypeOK, NodeStatus
<1>3. RowInv'
  BY <1>1 DEF RowInv
<1>4. \A t \in Slot : Continues(t)
  <2>0. seq' \in Nat
    BY <1>1, RowFacts
  <2>1. GoesOn(s, Idle)
    BY <1>1, <2>0, GivesUp
  <2>2. seq' >= seq /\ status' # "absent"
    BY <1>1, RowFacts DEF Claimable
  <2> QED BY <1>1, <1>2, <2>1, <2>2, Turn
<1> QED BY <1>1, <1>2, <1>3, <1>4, RowFacts, Continuing

LEMMA FinishReadyKeeps ==
  ASSUME LeaseInv, NEW s \in Slot, FinishReady(s)
  PROVE  LeaseInv'
<1>1. /\ seq' = seq + 1 /\ seq \in Nat /\ status' = "ready" /\ ref' = 0
      /\ UNCHANGED <<cancelReq, up, trouble, contested>>
      /\ run' = [run EXCEPT ![s] = Idle] /\ active' = Untracked(s)
      /\ status = "running" /\ attempt = run[s].att /\ run[s].pc = "write"
      /\ run[s].out \in {"retry", "refund"}
      /\ attempt' = IF run[s].out = "refund" THEN attempt - 1 ELSE attempt
  BY RowFacts DEF FinishReady, Return, Holds, Owns
<1>2. /\ attempt \in Nat /\ attempt >= 1 /\ attempt <= MaxAttempts
      /\ run[s].out = "retry" => attempt < MaxAttempts
      /\ run[s].out = "refund" => run[s].kind = "run"
  BY <1>1, RowFacts DEF KnowsRow, AtWork, LeaseInv, RowInv
<1>3. attempt' \in 0 .. MaxAttempts /\ attempt' < MaxAttempts
  BY <1>1, <1>2, LeaseAssumption
<1>4. TypeOK'
  <2>1. active' \in [Worker -> SUBSET Slot] /\ run' \in [Slot -> Locals]
        /\ charged' \subseteq Attempts
    BY <1>1, UntrackedType, OneTurn, IdleLocals, CommitType DEF LeaseInv, FinishReady, Executing
  <2> QED BY <1>1, <1>3, <2>1, LeaseAssumption
          DEF FinishReady, Dispatch, Release, LeaseInv, TypeOK, NodeStatus
<1>5. RowInv'
  BY <1>1, <1>3 DEF RowInv
<1>6. \A t \in Slot : Continues(t)
  <2>0. seq' \in Nat
    BY <1>1, RowFacts
  <2>1. GoesOn(s, Idle)
    BY <1>1, <2>0, GivesUp
  <2>2. seq' >= seq /\ status' # "absent"
    BY <1>1, RowFacts DEF Claimable
  <2> QED BY <1>1, <1>4, <2>1, <2>2, Turn
<1>7. ASSUME run[s].out = "refund", NEW t \in Slot
      PROVE  AttemptCounted(run[t])'
  <2>t. run[t] \in Locals /\ run[t].att \in Nat
    BY RowFacts DEF Locals
  <2>1. CASE t = s
    BY <1>1, <2>1, OneTurn, IdleLocals DEF LeaseInv, AttemptCounted, Idle
  <2>2. CASE t # s
    <3>1. run'[t] = run[t]
      BY <1>1, <2>2
    <3>2. ASSUME run[t].pc \in {"claimed", "exec", "write"}, run[t].kind = "run"
          PROVE  run[t].att <= attempt'
      <4>1. run[t].att <= attempt
        BY <3>2 DEF LeaseInv, AttemptCounted
      <4>2. run[t].att # attempt
        BY <1>1, <1>2, <1>7, <2>2, <3>2 DEF LeaseInv, DistinctAttempts, Executing
      <4> QED BY <1>1, <1>2, <1>7, <2>t, <4>1, <4>2
    <3> QED BY <3>1, <3>2 DEF AttemptCounted
  <2> QED BY <2>1, <2>2
<1>8. attempt' >= attempt \/ \A t \in Slot : AttemptCounted(run[t])'
  BY <1>1, <1>2, <1>7
<1> QED BY <1>1, <1>4, <1>5, <1>6, <1>8, RowFacts, Continuing

(* A claim: the row is the one the goroutine loaded, nobody else executes for  *)
(* its message, and the attempt it counts is new.                              *)
LEMMA ClaimKeeps ==
  ASSUME LeaseInv, NEW s \in Slot, Claim(s)
  PROVE  LeaseInv'
<1>t. run[s] \in Locals /\ KnowsRow(run[s]) /\ run[s].att \in Nat
  BY RowFacts DEF Locals
<1>1. /\ run[s].pc = "loaded" /\ Claimable(s) /\ status' = "running"
      /\ UNCHANGED <<seq, ref, cancelReq, charged, queue, active, up, trouble, contested>>
  BY DEF Claim
<1>2. run[s].att = attempt /\ run[s].ref = ref /\ run[s].seq = seq /\ status \in {"ready", "waiting"}
      /\ run[s].kind \in {"run", "poll"}
      /\ (run[s].kind = "run" <=> status = "ready")
  BY <1>t, <1>1 DEF LeaseInv, SnapshotCurrent, Claimable, KnowsRow, AtWork, Locals
<1>3. /\ attempt' = IF run[s].kind = "run" THEN attempt + 1 ELSE attempt
      /\ run' = [run EXCEPT ![s] = [run[s] EXCEPT !.pc = "claimed", !.att = attempt']]
  <2>1. attempt' = IF run[s].kind = "run" THEN attempt + 1 ELSE attempt
    BY <1>2, RowFacts DEF Claim
  <2>2. run' = [run EXCEPT ![s].pc = "claimed", ![s].att = attempt']
    BY <1>2, <1>t, <2>1 DEF Claim, LeaseInv, TypeOK, Locals
  <2> QED BY <2>1, <2>2, <1>t DEF LeaseInv, TypeOK, Locals
<1>4. attempt' \in Nat /\ attempt' >= 1 /\ attempt' <= MaxAttempts /\ attempt' >= attempt
      /\ (run[s].kind = "run" => attempt' > attempt)
  BY <1>2, <1>3, RowFacts DEF LeaseInv, RowInv
<1>5. PICK q \in Locals : q = [run[s] EXCEPT !.pc = "claimed", !.att = attempt']
  BY <1>t, <1>4 DEF Locals
<1>6. /\ q.pc = "claimed" /\ q.kind = run[s].kind /\ q.seq = seq /\ q.att = attempt'
      /\ q.ref = ref /\ q.canc = run[s].canc /\ q.why = run[s].why
  BY <1>t, <1>1, <1>2, <1>5 DEF Locals
<1>7. run'[s] = q /\ \A t \in Slot \ {s} : run'[t] = run[t]
  BY <1>3, <1>5, OneTurn DEF LeaseInv
<1>8. TypeOK' /\ RowInv'
  <2>1. run' \in [Slot -> Locals]
    BY <1>3, <1>5, OneTurn DEF LeaseInv
  <2>2. owner' \in SUBSET Worker /\ lease' = "live"
    BY LeaseAssumption DEF Claim
  <2> QED BY <1>1, <1>4, <2>1, <2>2, LeaseAssumption DEF LeaseInv, TypeOK, RowInv, NodeStatus
<1>9. ASSUME NEW t \in Slot
      PROVE  KnowsRow(run[t])' /\ MessageSpent(run[t])' /\ AttemptCounted(run[t])'
  <2>1. MessageSpent(run[t])'
    BY <1>1 DEF MessageSpent
  <2>2. CASE t = s
    <3>1. NotAhead(q)' /\ AtWork(q)' /\ StopsAsked(q)'
      <4>1. NotAhead(q)'
        BY <1>1, <1>4, <1>6, RowFacts DEF NotAhead
      <4>2. AtWork(q)'
        BY <1>1, <1>2, <1>4, <1>6, RowFacts DEF AtWork, LeaseInv, RowInv
      <4>3. StopsAsked(q)'
        BY <1>t, <1>1, <1>6 DEF StopsAsked, KnowsRow
      <4> QED BY <4>1, <4>2, <4>3
    <3>2. q.att \in Nat
      BY DEF Locals
    <3> QED BY <1>6, <1>7, <2>1, <2>2, <3>1, <3>2 DEF KnowsRow, AttemptCounted
  <2>3. CASE t # s
    <3>1. run'[t] = run[t] /\ run[t] \in Locals /\ KnowsRow(run[t]) /\ AttemptCounted(run[t])
      BY <1>7, <2>3, RowFacts DEF LeaseInv
    <3>2. KnowsRow(run[t])'
      BY <1>1, <3>1 DEF KnowsRow, NotAhead, AtWork, StopsAsked
    <3>3. AttemptCounted(run[t])'
      BY <1>4, <3>1, RowFacts DEF AttemptCounted, Locals
    <3> QED BY <2>1, <3>2, <3>3
  <2> QED BY <2>2, <2>3
<1>10. SnapshotCurrent'
  BY <1>1 DEF SnapshotCurrent, Claimable
<1>11. OneClaimPerMessage'
  <2>1. ASSUME NEW t \in Slot \ {s}, Executing(t), run[t].kind # "sweep" PROVE run[t].seq # seq
    BY <1>2, <2>1 DEF LeaseInv, MessageSpent, Executing
  <2> QED BY <1>6, <1>7, <2>1 DEF LeaseInv, OneClaimPerMessage, Executing
<1>12. DistinctAttempts'
  <2>1. ASSUME NEW t \in Slot \ {s}, Executing(t), run[t].kind = "run", run[s].kind = "run"
        PROVE  run[t].att # attempt'
    BY <1>4, <2>1, RowFacts DEF LeaseInv, AttemptCounted, Executing, Locals
  <2> QED BY <1>6, <1>7, <2>1 DEF LeaseInv, DistinctAttempts, Executing
<1> QED BY <1>8, <1>9, <1>10, <1>11, <1>12 DEF LeaseInv

LEMMA LeaseStart == Init => LeaseInv
<1> SUFFICES ASSUME Init PROVE LeaseInv
  OBVIOUS
<1>1. \A s \in Slot : run[s] = Idle /\ Idle \in Locals /\ Idle.pc = "idle"
  BY IdleLocals DEF Init, Idle
<1>2. TypeOK
  <2>1. run \in [Slot -> Locals]
    BY <1>1 DEF Init
  <2>2. active \in [Worker -> SUBSET Slot] /\ up \in [Worker -> {"up", "stopping", "down"}]
    BY DEF Init
  <2>3. attempt \in 0 .. MaxAttempts /\ ref \in 0 .. MaxAttempts /\ trouble \in 0 .. MaxTrouble
    BY LeaseAssumption DEF Init
  <2> QED BY <2>1, <2>2, <2>3 DEF Init, TypeOK
<1>3. RowInv
  BY DEF Init, RowInv
<1>4. ASSUME NEW s \in Slot PROVE KnowsRow(run[s])
  BY <1>1, LeaseAssumption DEF Init, Idle, KnowsRow, NotAhead, AtWork, StopsAsked
<1>5. ASSUME NEW s \in Slot PROVE MessageSpent(run[s]) /\ AttemptCounted(run[s])
  BY <1>1 DEF MessageSpent, AttemptCounted
<1> QED BY <1>1, <1>2, <1>3, <1>4, <1>5
        DEF LeaseInv, SnapshotCurrent, OneClaimPerMessage, DistinctAttempts, Executing

LEMMA LeaseStep ==
  ASSUME LeaseInv, [Next]_vars
  PROVE  LeaseInv'
<1>1. ASSUME NEW s \in Slot, Handle(s) PROVE LeaseInv'
  BY <1>1, ReceiveKeeps, DeferKeeps, ClaimKeeps, OutrunKeeps, FailFastKeeps, StartExecKeeps
     DEF Handle
<1>2. ASSUME NEW s \in Slot, Execute(s) PROVE LeaseInv'
  BY <1>2, HeartbeatKeeps, SubmitKeeps, DropKeeps, DecideKeeps DEF Execute
<1>3. ASSUME NEW s \in Slot, Finish(s) PROVE LeaseInv'
  BY <1>3, ToWaitingKeeps, FinishEndKeeps, FinishReadyKeeps, ReturnKeeps DEF Finish
<1>4. ASSUME NEW s \in Slot, Sweep(s) PROVE LeaseInv'
  BY <1>4, SweepFindKeeps, SweepTakeKeeps DEF Sweep
<1>5. ASSUME NEW w \in Worker, Process(w) PROVE LeaseInv'
  <2>1. CASE CancelLocal(w)
    BY <2>1, InterruptedKeeps DEF CancelLocal, LeaseInv, TypeOK
  <2>2. CASE Shutdown(w)
    <3>1. up' \in [Worker -> {"up", "stopping", "down"}]
      BY <2>2 DEF Shutdown, LeaseInv, TypeOK
    <3> QED BY <2>2, <3>1, InterruptedKeeps DEF Shutdown
  <2> QED BY <1>5, <2>1, <2>2, CrashKeeps DEF Process
<1>6. CASE Surroundings
  BY <1>6, OfferKeeps, SurroundingsKeep
<1>7. CASE UNCHANGED vars
  <2>1. LeaseInv' = LeaseInv
    BY <1>7 DEF vars, row, LeaseInv, TypeOK, RowInv, KnowsRow, NotAhead, AtWork, StopsAsked,
       MessageSpent, AttemptCounted, SnapshotCurrent, Claimable, OneClaimPerMessage,
       DistinctAttempts, Executing
  <2> QED BY <2>1
<1> QED BY <1>1, <1>2, <1>3, <1>4, <1>5, <1>6, <1>7 DEF Next

LEMMA LeaseInvariant == Spec => []LeaseInv
<1>1. LeaseInv /\ [Next]_vars => LeaseInv'
  BY LeaseStep
<1> QED BY <1>1, LeaseStart, PTL DEF Spec

(* Types of all variables.                                                   *)
THEOREM TypeCorrect == Spec => []TypeOK
<1>1. LeaseInv => TypeOK
  BY DEF LeaseInv
<1> QED BY <1>1, LeaseInvariant, PTL

(* Whatever is delayed, resent or lost, the goroutine that claims a message   *)
(* is alone with it and its copy of the row is current (runner.go, claim).    *)
THEOREM ClaimantIsAlone == Spec => []OneHolder
<1>1. LeaseInv => OneHolder
  BY DEF LeaseInv, OneHolder
<1> QED BY <1>1, LeaseInvariant, PTL

(* Takeover and refund never let two goroutines execute the same attempt.     *)
THEOREM AttemptsAreDistinct == Spec => []DistinctAttempts
<1>1. LeaseInv => DistinctAttempts
  BY DEF LeaseInv
<1> QED BY <1>1, LeaseInvariant, PTL

-----------------------------------------------------------------------------
(* While no lease slipped and no write failed, whoever executes holds the row, *)
(* is alone with it and knows its attempt and its task, ...                     *)
HoldsTheRow(s) ==
  /\ status = "running" /\ owner = {Host[s]} /\ attempt = run[s].att
  /\ IF run[s].kind = "run" THEN ref = 0 ELSE run[s].ref = ref
  /\ lease # "expired"
  /\ \A t \in Slot : Executing(t) => t = s

(* ... a sweeper retries only what it loaded without a task, ...                *)
SweepsByTask(s) ==
  run[s].kind = "sweep" /\ run[s].pc = "write" /\ run[s].out # "park" => run[s].ref = 0

(* ... and has found the row of a worker that is gone, as it still is if owner  *)
(* and attempt are the same.                                                    *)
Down == {w \in Worker : up[w] = "down"}

FoundOrphan(s) ==
  /\ run[s].own \subseteq Down
  /\ status = "running" /\ owner = run[s].own /\ attempt = run[s].att => run[s].ref = ref

AloneInv ==
  /\ \A s \in Slot :
       /\ Executing(s) => HoldsTheRow(s)
       /\ SweepsByTask(s)
       /\ run[s].pc = "found" => FoundOrphan(s)
       /\ run[s].why # "leaseLost"
       /\ run[s].pc # "idle" => Host[s] \notin Down
  /\ status = "running" /\ (\A s \in Slot : ~Executing(s)) => owner \subseteq Down

AtWorkOn(q) == q.pc \in {"claimed", "exec", "write"}

LEMMA AloneLocals ==
  ASSUME LeaseInv
  PROVE  /\ \A s \in Slot : run[s] \in Locals /\ KnowsRow(run[s]) /\ Host[s] \in Worker
         /\ run \in [Slot -> Locals] /\ ref \in Nat
  BY RowFacts, LeaseAssumption DEF LeaseInv, TypeOK

(* A goroutine's step that leaves the row, but for the lease it renews.         *)
LEMMA AloneTurn ==
  ASSUME LeaseInv, AloneInv, NEW s \in Slot, NEW q \in Locals, run' = [run EXCEPT ![s] = q],
         UNCHANGED <<status, owner, attempt, ref, up>>, lease' \in {lease, "live"},
         AtWorkOn(q) <=> Executing(s),
         AtWorkOn(q) => /\ q.kind = run[s].kind /\ q.att = run[s].att
                        /\ q.kind # "sweep" /\ (q.kind = "poll" => q.ref = run[s].ref),
         q.why # "leaseLost", q.kind = "sweep" => q.pc # "write",
         q.pc = "found" => /\ q.own \subseteq Down
                           /\ status = "running" /\ owner = q.own /\ attempt = q.att
                              => q.ref = ref,
         q.pc # "idle" => Host[s] \notin Down
  PROVE  AloneInv'
<1>1. run'[s] = q /\ \A t \in Slot \ {s} : run'[t] = run[t]
  BY OneTurn DEF LeaseInv
<1>2. Down' = Down
  BY DEF Down
<1>3. \A t \in Slot : Executing(t)' <=> Executing(t)
  BY <1>1 DEF Executing, AtWorkOn
<1>4. ASSUME NEW t \in Slot, Executing(t)' PROVE HoldsTheRow(t)'
  <2>1. HoldsTheRow(t)
    BY <1>3, <1>4 DEF AloneInv
  <2>2. CASE t = s
    BY <1>1, <1>3, <1>4, <2>1, <2>2 DEF HoldsTheRow, Executing, AtWorkOn, Locals
  <2>3. CASE t # s
    BY <1>1, <1>3, <2>1, <2>3 DEF HoldsTheRow
  <2> QED BY <2>2, <2>3
<1>5. ASSUME NEW t \in Slot
      PROVE  /\ SweepsByTask(t)' /\ (run'[t].pc = "found" => FoundOrphan(t)')
             /\ run'[t].why # "leaseLost" /\ (run'[t].pc # "idle" => Host[t] \notin Down')
  <2>1. CASE t = s
    BY <1>1, <1>2, <2>1 DEF SweepsByTask, FoundOrphan
  <2>2. CASE t # s
    BY <1>1, <1>2, <2>2 DEF AloneInv, SweepsByTask, FoundOrphan
  <2> QED BY <2>1, <2>2
<1>6. status' = "running" /\ (\A t \in Slot : ~Executing(t)') => owner' \subseteq Down'
  BY <1>2, <1>3 DEF AloneInv
<1> QED BY <1>4, <1>5, <1>6 DEF AloneInv

(* Whoever wrote its outcome was alone, and the row runs no more.               *)
LEMMA AloneReturn ==
  ASSUME LeaseInv, AloneInv, NEW s \in Slot, Executing(s), run' = [run EXCEPT ![s] = Idle],
         status' # "running", up' = up
  PROVE  AloneInv'
<1>1. run'[s] = Idle /\ \A t \in Slot \ {s} : run'[t] = run[t]
  BY OneTurn, IdleLocals DEF LeaseInv
<1>2. Down' = Down
  BY DEF Down
<1>3. \A t \in Slot : ~Executing(t)'
  BY <1>1 DEF AloneInv, HoldsTheRow, Executing, Idle
<1>4. ASSUME NEW t \in Slot
      PROVE  /\ SweepsByTask(t)' /\ (run'[t].pc = "found" => FoundOrphan(t)')
             /\ run'[t].why # "leaseLost" /\ (run'[t].pc # "idle" => Host[t] \notin Down')
  <2>1. CASE t = s
    BY <1>1, <2>1 DEF SweepsByTask, Idle
  <2>2. CASE t # s
    BY <1>1, <1>2, <2>2 DEF AloneInv, SweepsByTask, FoundOrphan
  <2> QED BY <2>1, <2>2
<1> QED BY <1>3, <1>4 DEF AloneInv

(* Nobody executes: s takes the row for its worker.                             *)
LEMMA AloneTakes ==
  ASSUME LeaseInv, AloneInv, NEW s \in Slot, NEW q \in Locals, run' = [run EXCEPT ![s] = q],
         AtWorkOn(q), \A t \in Slot : ~Executing(t), Host[s] \notin Down, up' = up,
         status' = "running", owner' = {Host[s]}, lease' = "live", attempt' = q.att,
         IF q.kind = "run" THEN ref' = 0 ELSE q.ref = ref',
         q.kind = "sweep" /\ q.pc = "write" /\ q.out # "park" => q.ref = 0,
         q.why # "leaseLost"
  PROVE  AloneInv'
<1>1. run'[s] = q /\ \A t \in Slot \ {s} : run'[t] = run[t]
  BY OneTurn DEF LeaseInv
<1>2. Down' = Down
  BY DEF Down
<1>3. Executing(s)' /\ \A t \in Slot : Executing(t)' => t = s
  BY <1>1 DEF Executing, AtWorkOn
<1>4. HoldsTheRow(s)'
  BY <1>1, <1>3 DEF HoldsTheRow
<1>5. ASSUME NEW t \in Slot
      PROVE  /\ SweepsByTask(t)' /\ (run'[t].pc = "found" => FoundOrphan(t)')
             /\ run'[t].why # "leaseLost" /\ (run'[t].pc # "idle" => Host[t] \notin Down')
  <2>1. CASE t = s
    BY <1>1, <1>2, <2>1 DEF SweepsByTask, AtWorkOn
  <2>2. CASE t # s
    BY <1>1, <1>2, <2>2 DEF AloneInv, SweepsByTask, FoundOrphan
  <2> QED BY <2>1, <2>2
<1> QED BY <1>3, <1>4, <1>5 DEF AloneInv

LEMMA AloneHandle ==
  ASSUME LeaseInv, AloneInv, NEW s \in Slot, Handle(s)
  PROVE  AloneInv'
<1>t. run[s] \in Locals /\ KnowsRow(run[s]) /\ Host[s] \in Worker /\ run \in [Slot -> Locals]
  BY AloneLocals
<1>a. run[s].why # "leaseLost" /\ (run[s].pc # "idle" => Host[s] \notin Down)
  BY DEF AloneInv
<1>1. CASE Receive(s)
  <2>1. PICK kind \in {"run", "poll"} : run' = [run EXCEPT ![s] = Loaded(kind, "loaded")]
    BY <1>1 DEF Receive
  <2>2. PICK q \in Locals : q = Loaded(kind, "loaded")
    BY LoadedLocals DEF LeaseInv
  <2>3. q.pc = "loaded" /\ q.kind = kind /\ q.why = "none"
    BY <2>2 DEF Loaded, Idle
  <2>4. UNCHANGED <<status, owner, attempt, ref, up, lease>> /\ Host[s] \notin Down /\ ~Executing(s)
    BY <1>1 DEF Receive, row, Down, Executing
  <2> QED BY <2>1, <2>2, <2>3, <2>4, AloneTurn DEF AtWorkOn
<1>2. CASE Defer(s) \/ Outrun(s)
  <2>1. /\ run' = [run EXCEPT ![s] = Idle] /\ ~Executing(s)
        /\ UNCHANGED <<status, owner, attempt, ref, up, lease>>
    BY <1>2 DEF Defer, Outrun, row, Executing
  <2>2. Idle.pc = "idle" /\ Idle.kind = "run" /\ Idle.why = "none"
    BY DEF Idle
  <2> QED BY <2>1, <2>2, IdleLocals, AloneTurn DEF AtWorkOn
<1>3. CASE Claim(s)
  <2>1. run[s].pc = "loaded" /\ Claimable(s) /\ UNCHANGED <<ref, up>> /\ status' = "running"
        /\ owner' = {Host[s]} /\ lease' = "live"
    BY <1>3 DEF Claim
  <2>2. run[s].att = attempt /\ run[s].ref = ref /\ status \in {"ready", "waiting"}
        /\ run[s].kind \in {"run", "poll"} /\ (run[s].kind = "run" => status = "ready")
    BY <1>t, <2>1 DEF LeaseInv, SnapshotCurrent, Claimable, KnowsRow, AtWork, Locals
  <2>3. attempt \in Nat /\ attempt' \in Nat
    BY <1>3, RowFacts DEF Claim
  <2>4. run' = [run EXCEPT ![s] = [run[s] EXCEPT !.pc = "claimed", !.att = attempt']]
    <3>1. run' = [run EXCEPT ![s].pc = "claimed", ![s].att = attempt']
      BY <1>3, <1>t, <2>2 DEF Claim, Locals
    <3> QED BY <3>1, <1>t DEF Locals
  <2>5. PICK q \in Locals : q = [run[s] EXCEPT !.pc = "claimed", !.att = attempt']
    BY <1>t, <2>3 DEF Locals
  <2>6. /\ q.pc = "claimed" /\ q.kind = run[s].kind /\ q.att = attempt' /\ q.ref = run[s].ref
        /\ q.why = run[s].why
    BY <1>t, <2>5 DEF Locals
  <2>7. \A t \in Slot : ~Executing(t)
    BY <2>2 DEF AloneInv, HoldsTheRow
  <2>8. q.kind = "run" => ref' = 0
    BY <2>1, <2>2, <2>6 DEF LeaseInv, RowInv
  <2> QED BY <1>a, <2>1, <2>2, <2>4, <2>5, <2>6, <2>7, <2>8, AloneTakes DEF AtWorkOn
<1>4. CASE FailFast(s)
  <2>1. PICK out \in Early(s) :
          run' = [run EXCEPT ![s] = [run[s] EXCEPT !.pc = "write", !.out = out, !.canc = FALSE]]
    BY <1>t, <1>4 DEF FailFast, Locals
  <2>2. out \in {"failed", "cancelled", "retry"}
    BY DEF Early, RetryOrFail
  <2>3. PICK q \in Locals : q = [run[s] EXCEPT !.pc = "write", !.out = out, !.canc = FALSE]
    BY <1>t, <2>2 DEF Locals
  <2>4. /\ q.pc = "write" /\ q.kind = run[s].kind /\ q.att = run[s].att
        /\ q.ref = run[s].ref /\ q.why = run[s].why
    BY <1>t, <2>3 DEF Locals
  <2>5. run[s].kind # "sweep" /\ Executing(s) /\ UNCHANGED <<status, owner, attempt, ref, up, lease>>
        /\ run[s].pc # "idle"
    BY <1>4, <1>t DEF FailFast, Executing, row, KnowsRow, AtWork
  <2> QED BY <1>a, <2>1, <2>3, <2>4, <2>5, AloneTurn DEF AtWorkOn
<1>5. CASE StartExec(s)
  <2>1. run' = [run EXCEPT ![s] = [run[s] EXCEPT !.pc = "exec", !.tracked = TRUE]]
    BY <1>t, <1>5 DEF StartExec, Locals
  <2>3. PICK q \in Locals : q = [run[s] EXCEPT !.pc = "exec", !.tracked = TRUE]
    BY <1>t DEF Locals
  <2>4. /\ q.pc = "exec" /\ q.kind = run[s].kind /\ q.att = run[s].att
        /\ q.ref = run[s].ref /\ q.why = run[s].why
    BY <1>t, <2>3 DEF Locals
  <2>5. run[s].kind # "sweep" /\ Executing(s) /\ UNCHANGED <<status, owner, attempt, ref, up, lease>>
        /\ run[s].pc # "idle"
    BY <1>5, <1>t DEF StartExec, Executing, row, KnowsRow, AtWork
  <2> QED BY <1>a, <2>1, <2>3, <2>4, <2>5, AloneTurn DEF AtWorkOn
<1> QED BY <1>1, <1>2, <1>3, <1>4, <1>5 DEF Handle

(* An execution keeps its lease, so it is never dropped.                        *)
LEMMA AloneExecute ==
  ASSUME LeaseInv, AloneInv, NEW s \in Slot, Execute(s)
  PROVE  AloneInv'
<1>t. run[s] \in Locals /\ KnowsRow(run[s]) /\ run \in [Slot -> Locals]
  BY AloneLocals
<1>e. run[s].pc = "exec"
  BY DEF Execute, Heartbeat, Submit, Drop, Settle, NoCapacity, PollInterrupted, PollAgain, PollDone
<1>a. /\ Executing(s) /\ HoldsTheRow(s) /\ run[s].kind # "sweep"
      /\ run[s].why # "leaseLost" /\ Host[s] \notin Down
  BY <1>e, <1>t DEF AloneInv, Executing, KnowsRow, AtWork
<1>r. UNCHANGED <<status, owner, attempt, ref, up>> /\ lease' \in {lease, "live"}
  BY DEF Execute, Heartbeat, Submit, Drop, Settle, NoCapacity, PollInterrupted, PollAgain, PollDone,
     row
<1>1. PICK q \in Locals :
        /\ run' = [run EXCEPT ![s] = q]
        /\ q.pc \in {"exec", "write"} /\ q.kind = run[s].kind /\ q.att = run[s].att
        /\ (q.kind = "poll" => q.ref = run[s].ref) /\ q.why # "leaseLost"
  <2>1. CASE Heartbeat(s)
    <3>1. Owns(s)
      BY <1>a DEF HoldsTheRow, Owns
    <3>2. PICK why \in {"none", "userCancel"} :
            run' = [run EXCEPT ![s] = [run[s] EXCEPT !.why = why]]
      BY <1>t, <2>1, <3>1 DEF Heartbeat, Locals
    <3>3. PICK q \in Locals : q = [run[s] EXCEPT !.why = why]
      BY <1>t DEF Locals
    <3>4. /\ q.pc = run[s].pc /\ q.kind = run[s].kind /\ q.att = run[s].att
          /\ q.ref = run[s].ref /\ q.why = why
      BY <1>t, <3>3 DEF Locals
    <3> QED BY <1>e, <3>2, <3>3, <3>4
  <2>2. CASE Submit(s)
    <3>1. run' = [run EXCEPT ![s] = [run[s] EXCEPT !.pc = "write", !.out = "park",
                                                   !.ref = run[s].att, !.why = "none"]]
      BY <1>t, <2>2 DEF Submit, Locals
    <3>2. PICK q \in Locals : q = [run[s] EXCEPT !.pc = "write", !.out = "park",
                                                 !.ref = run[s].att, !.why = "none"]
      BY <1>t DEF Locals
    <3>3. /\ q.pc = "write" /\ q.kind = run[s].kind /\ q.att = run[s].att /\ q.why = "none"
          /\ run[s].kind = "run"
      BY <1>t, <2>2, <3>2 DEF Locals, Submit
    <3> QED BY <3>1, <3>2, <3>3
  <2>3. CASE Drop(s)
    BY <1>a, <2>3 DEF Drop
  <2>4. CASE Settle(s) \/ NoCapacity(s) \/ PollInterrupted(s) \/ PollAgain(s) \/ PollDone(s)
    <3>1. PICK out \in {"park", "succeeded", "failed", "cancelled", "retry", "refund"},
               cost \in BOOLEAN : Decide(s, out, cost)
      BY <2>4, LeaseAssumption
         DEF Settle, NoCapacity, PollInterrupted, PollAgain, PollDone, Outcomes, RetryOrFail
    <3>2. run' = [run EXCEPT ![s] = [run[s] EXCEPT !.pc = "write", !.out = out, !.cost = cost,
                                                   !.why = "none"]]
      BY <1>t, <3>1 DEF Decide, Locals
    <3>3. PICK q \in Locals : q = [run[s] EXCEPT !.pc = "write", !.out = out, !.cost = cost,
                                                 !.why = "none"]
      BY <1>t DEF Locals
    <3>4. /\ q.pc = "write" /\ q.kind = run[s].kind /\ q.att = run[s].att
          /\ q.ref = run[s].ref /\ q.why = "none"
      BY <1>t, <3>3 DEF Locals
    <3> QED BY <3>2, <3>3, <3>4
  <2> QED BY <2>1, <2>2, <2>3, <2>4 DEF Execute
<1>2. CASE q.pc = "exec" \/ q.kind # "sweep"
  BY <1>1, <1>a, <1>r, <1>2, AloneTurn DEF AtWorkOn
<1> QED BY <1>1, <1>2, <1>a

(* A write under the lease is not rejected.                                     *)
LEMMA AloneFinish ==
  ASSUME LeaseInv, AloneInv, NEW s \in Slot, Finish(s), ~contested'
  PROVE  AloneInv'
<1>1. run[s].pc = "write" /\ Executing(s) /\ run' = [run EXCEPT ![s] = Idle] /\ up' = up
  BY DEF Finish, ToWaiting, FinishEnd, FinishReady, Rejected, WriteFails, Return, Executing
<1>2. Owns(s) /\ Holds(s)
  BY <1>1 DEF AloneInv, HoldsTheRow, Owns, Holds
<1>3. status' # "running"
  BY <1>1, <1>2 DEF Finish, ToWaiting, FinishEnd, FinishReady, Rejected, WriteFails, Contest
<1> QED BY <1>1, <1>3, AloneReturn

LEMMA AloneSweep ==
  ASSUME LeaseInv, AloneInv, NEW s \in Slot, Sweep(s)
  PROVE  AloneInv'
<1>t. run[s] \in Locals /\ KnowsRow(run[s]) /\ Host[s] \in Worker /\ run \in [Slot -> Locals]
  BY AloneLocals
<1>1. CASE SweepFind(s)
  <2>1. PICK q \in Locals : q = Loaded("sweep", "found")
    BY LoadedLocals DEF LeaseInv
  <2>2. /\ q.pc = "found" /\ q.kind = "sweep" /\ q.ref = ref /\ q.own = owner /\ q.why = "none"
    BY <2>1 DEF Loaded, Idle
  <2>3. run' = [run EXCEPT ![s] = q] /\ UNCHANGED <<status, owner, attempt, ref, up, lease>>
        /\ ~Executing(s) /\ Host[s] \notin Down
    BY <1>1, <2>1 DEF SweepFind, row, Executing, Down
  <2>4. \A t \in Slot : ~Executing(t)
    BY <1>1 DEF SweepFind, AloneInv, HoldsTheRow
  <2>5. owner \subseteq Down
    BY <1>1, <2>4 DEF SweepFind, AloneInv
  <2> QED BY <2>2, <2>3, <2>5, AloneTurn DEF AtWorkOn
<1>2. CASE SweepTake(s)
  <2>1. /\ run[s].pc = "found" /\ status = "running" /\ owner = run[s].own /\ attempt = run[s].att
        /\ UNCHANGED <<status, attempt, ref, up>> /\ owner' = {Host[s]} /\ lease' = "live"
    BY <1>2 DEF SweepTake
  <2>2. run[s].own \subseteq Down /\ run[s].ref = ref /\ Host[s] \notin Down
        /\ run[s].why # "leaseLost" /\ run[s].kind = "sweep"
    BY <2>1, <1>t DEF AloneInv, FoundOrphan, KnowsRow, AtWork
  <2>3. \A t \in Slot : ~Executing(t)
    <3>1. ASSUME NEW t \in Slot, Executing(t) PROVE FALSE
      <4>1. owner = {Host[t]} /\ Host[t] \notin Down
        BY <3>1 DEF AloneInv, HoldsTheRow, Executing
      <4> QED BY <2>1, <2>2, <4>1
    <3> QED BY <3>1
  <2>4. Recovery(s) \in {"park", "cancelled", "retry", "failed"}
        /\ (Recovery(s) # "park" => run[s].ref = 0)
    BY DEF Recovery, RetryOrFail
  <2>5. run' = [run EXCEPT ![s] = [run[s] EXCEPT !.pc = "write", !.out = Recovery(s),
                                                 !.canc = FALSE, !.own = {}]]
    BY <1>t, <1>2 DEF SweepTake, Locals
  <2>6. PICK q \in Locals : q = [run[s] EXCEPT !.pc = "write", !.out = Recovery(s),
                                               !.canc = FALSE, !.own = {}]
    BY <1>t, <2>4 DEF Locals
  <2>7. /\ q.pc = "write" /\ q.kind = run[s].kind /\ q.att = run[s].att /\ q.ref = run[s].ref
        /\ q.why = run[s].why /\ q.out = Recovery(s)
    BY <1>t, <2>6 DEF Locals
  <2> QED BY <2>1, <2>2, <2>3, <2>4, <2>5, <2>6, <2>7, AloneTakes DEF AtWorkOn
<1> QED BY <1>1, <1>2 DEF Sweep

LEMMA AloneProcess ==
  ASSUME LeaseInv, AloneInv, NEW w \in Worker, Process(w)
  PROVE  AloneInv'
<1>t. run \in [Slot -> Locals] /\ \A t \in Slot : run[t] \in Locals /\ Host[t] \in Worker
  BY AloneLocals
<1>r. UNCHANGED <<status, owner, attempt, ref, lease>>
  BY DEF Process, CancelLocal, Shutdown, Crash, row
<1>1. CASE CancelLocal(w) \/ Shutdown(w)
  <2>1. PICK why \in {"userCancel", "shutdown"} : run' = Interrupted(w, why)
    BY <1>1 DEF CancelLocal, Shutdown
  <2>2. Down' = Down
    BY <1>1 DEF CancelLocal, Shutdown, Down, LeaseInv, TypeOK
  <2>3. ASSUME NEW t \in Slot
        PROVE  /\ run'[t].pc = run[t].pc /\ run'[t].kind = run[t].kind /\ run'[t].att = run[t].att
               /\ run'[t].ref = run[t].ref /\ run'[t].own = run[t].own /\ run'[t].out = run[t].out
               /\ run'[t].why \in {run[t].why, why}
    <3>1. run'[t] = run[t] \/ run'[t] = [run[t] EXCEPT !.why = why]
      BY <2>1 DEF Interrupted
    <3> QED BY <1>t, <3>1 DEF Locals
  <2>4. \A t \in Slot : Executing(t)' <=> Executing(t)
    BY <2>3 DEF Executing
  <2>5. ASSUME NEW t \in Slot
        PROVE  /\ SweepsByTask(t)' /\ (run'[t].pc = "found" => FoundOrphan(t)')
               /\ run'[t].why # "leaseLost" /\ (run'[t].pc # "idle" => Host[t] \notin Down')
    BY <1>r, <2>2, <2>3 DEF AloneInv, SweepsByTask, FoundOrphan
  <2>6. ASSUME NEW t \in Slot, Executing(t)' PROVE HoldsTheRow(t)'
    BY <1>r, <2>3, <2>4, <2>6 DEF AloneInv, HoldsTheRow
  <2> QED BY <1>r, <2>2, <2>4, <2>5, <2>6 DEF AloneInv
<1>2. CASE Crash(w)
  <2>1. Down' = Down \cup {w}
    BY <1>2 DEF Crash, Down, LeaseInv, TypeOK
  <2>2. \A t \in Slot : run'[t] = IF Host[t] = w THEN Idle ELSE run[t]
    BY <1>2 DEF Crash
  <2>3. Idle.pc = "idle" /\ Idle.why = "none" /\ Idle.kind = "run"
    BY DEF Idle
  <2>4. ASSUME NEW t \in Slot
        PROVE  /\ SweepsByTask(t)' /\ (run'[t].pc = "found" => FoundOrphan(t)')
               /\ run'[t].why # "leaseLost" /\ (run'[t].pc # "idle" => Host[t] \notin Down')
    <3>1. CASE Host[t] = w
      BY <2>2, <2>3, <3>1 DEF SweepsByTask
    <3>2. CASE Host[t] # w
      BY <1>r, <2>1, <2>2, <3>2 DEF AloneInv, SweepsByTask, FoundOrphan
    <3> QED BY <3>1, <3>2
  <2>5. ASSUME NEW t \in Slot, Executing(t)' PROVE HoldsTheRow(t)'
    <3>1. Host[t] # w /\ run'[t] = run[t] /\ Executing(t)
      BY <2>2, <2>3, <2>5 DEF Executing
    <3>2. \A z \in Slot : Executing(z)' => Executing(z)
      BY <2>2, <2>3 DEF Executing
    <3> QED BY <1>r, <3>1, <3>2 DEF AloneInv, HoldsTheRow
  <2>6. ASSUME status' = "running", \A t \in Slot : ~Executing(t)'
        PROVE  owner' \subseteq Down'
    <3>1. CASE \A t \in Slot : ~Executing(t)
      BY <1>r, <2>1, <2>6, <3>1 DEF AloneInv
    <3>2. CASE \E t \in Slot : Executing(t)
      <4>1. PICK t \in Slot : Executing(t)
        BY <3>2
      <4>2. Host[t] = w
        BY <2>2, <2>6, <4>1 DEF Executing
      <4>3. owner = {w}
        BY <4>1, <4>2 DEF AloneInv, HoldsTheRow
      <4> QED BY <1>r, <2>1, <4>3
    <3> QED BY <3>1, <3>2
  <2> QED BY <2>4, <2>5, <2>6 DEF AloneInv
<1> QED BY <1>1, <1>2 DEF Process

LEMMA AloneAround ==
  ASSUME LeaseInv, AloneInv, Surroundings, ~contested'
  PROVE  AloneInv'
<1>1. run' = run /\ up' = up /\ Down' = Down /\ \A t \in Slot : Executing(t)' <=> Executing(t)
  BY DEF Surroundings, Offer, LeaseRunsOut, LeaseSlips, Expire, Resend, Nudge, Lose, Archive, Abort,
     Ended, vars, Down, Executing
<1>2. UNCHANGED <<owner, attempt, ref>>
  BY DEF Surroundings, Offer, LeaseRunsOut, LeaseSlips, Expire, Resend, Nudge, Lose, Archive, Abort,
     Ended, vars, row
<1>3. \/ status' = status
      \/ status # "running" /\ status' # "running"
  BY DEF Surroundings, Offer, LeaseRunsOut, LeaseSlips, Expire, Resend, Nudge, Lose, Archive, Abort,
     Ended, vars, row
<1>4. lease' = lease \/ (\A t \in Slot : ~Executing(t))
  <2>1. CASE LeaseRunsOut
    BY <2>1 DEF LeaseRunsOut, AloneInv, HoldsTheRow, Owns
  <2>2. ~LeaseSlips
    BY DEF LeaseSlips, Contest
  <2> QED BY <2>1, <2>2 DEF Surroundings, Offer, Resend, Nudge, Lose, Archive, Abort, Ended, vars, row
<1>5. ASSUME NEW t \in Slot, Executing(t)' PROVE HoldsTheRow(t)'
  BY <1>1, <1>2, <1>3, <1>4, <1>5 DEF AloneInv, HoldsTheRow
<1>6. ASSUME NEW t \in Slot
      PROVE  /\ SweepsByTask(t)' /\ (run'[t].pc = "found" => FoundOrphan(t)')
             /\ run'[t].why # "leaseLost" /\ (run'[t].pc # "idle" => Host[t] \notin Down')
  BY <1>1, <1>2, <1>3 DEF AloneInv, SweepsByTask, FoundOrphan
<1> QED BY <1>1, <1>2, <1>3, <1>5, <1>6 DEF AloneInv

(* What a lease promises as long as it is kept.                                 *)
AloneUnlessContested == ~contested => AloneInv

LEMMA AloneStart == Init => AloneUnlessContested
<1> SUFFICES ASSUME Init PROVE AloneInv
  BY DEF AloneUnlessContested
<1>1. \A s \in Slot : run[s] = Idle /\ Idle.pc = "idle" /\ Idle.kind = "run" /\ Idle.why = "none"
  BY DEF Init, Idle
<1> QED BY <1>1 DEF Init, AloneInv, Executing, SweepsByTask

LEMMA AloneStep ==
  ASSUME LeaseInv, AloneUnlessContested, [Next]_vars
  PROVE  AloneUnlessContested'
<1> SUFFICES ASSUME ~contested' PROVE AloneInv'
  BY DEF AloneUnlessContested
<1>1. ~contested
  <2>1. CASE Next
    BY <2>1 DEF Next, Handle, Receive, Defer, Claim, Outrun, FailFast, StartExec, Execute, Heartbeat,
       Submit, Drop, Settle, NoCapacity, PollInterrupted, PollAgain, PollDone, Finish, ToWaiting,
       FinishEnd, FinishReady, Rejected, WriteFails, Sweep, SweepFind, SweepTake, Process,
       CancelLocal, Shutdown, Crash, Surroundings, Offer, LeaseRunsOut, LeaseSlips, Resend, Nudge,
       Lose, Archive, Abort, Ended, vars, Suffer, Contest
  <2>2. CASE UNCHANGED vars
    BY <2>2 DEF vars
  <2> QED BY <2>1, <2>2
<1>2. AloneInv
  BY <1>1 DEF AloneUnlessContested
<1>3. CASE Next
  BY <1>2, <1>3, AloneHandle, AloneExecute, AloneFinish, AloneSweep, AloneProcess, AloneAround
     DEF Next
<1>4. CASE UNCHANGED vars
  <2>1. AloneInv' = AloneInv
    BY <1>4 DEF vars, row, AloneInv, Executing, HoldsTheRow, SweepsByTask, FoundOrphan, Down
  <2> QED BY <1>2, <2>1
<1> QED BY <1>3, <1>4

(* A step that forgets or replaces the recorded task is that of the goroutine   *)
(* which polled it.                                                             *)
LEMMA TaskStep ==
  ASSUME LeaseInv, AloneUnlessContested, Next, ~contested, ref # 0
  PROVE  (ref' = ref /\ status' # "ready") \/ \E s \in Slot : Polled(s)
<1>a. AloneInv /\ status # "ready" /\ status # "absent"
  BY DEF AloneUnlessContested, LeaseInv, RowInv
<1>1. ASSUME NEW s \in Slot, Handle(s) \/ Execute(s) \/ Sweep(s)
      PROVE  ref' = ref /\ status' # "ready"
  <2>1. CASE Handle(s)
    BY <1>a, <2>1 DEF Handle, Receive, Defer, Claim, Outrun, FailFast, StartExec, row
  <2>2. CASE Execute(s)
    BY <1>a, <2>2 DEF Execute, Heartbeat, Submit, Drop, Settle, NoCapacity, PollInterrupted,
       PollAgain, PollDone, row
  <2>3. CASE Sweep(s)
    BY <1>a, <2>3 DEF Sweep, SweepFind, SweepTake, row
  <2> QED BY <1>1, <2>1, <2>2, <2>3
<1>2. ASSUME NEW s \in Slot, Finish(s)
      PROVE  (ref' = ref /\ status' # "ready") \/ Polled(s)
  <2>1. run[s] \in Locals /\ KnowsRow(run[s]) /\ run[s].pc = "write" /\ Executing(s)
    BY <1>2, AloneLocals DEF Finish, ToWaiting, FinishEnd, FinishReady, Rejected, WriteFails, Executing
  <2>2. HoldsTheRow(s) /\ SweepsByTask(s)
    BY <1>a, <2>1 DEF AloneInv
  <2>3. run[s].kind \in {"poll", "sweep"} /\ run[s].ref = ref
    BY <2>1, <2>2 DEF HoldsTheRow, Locals
  <2>4. CASE ToWaiting(s)
    BY <2>3, <2>4 DEF ToWaiting
  <2>5. CASE FinishEnd(s)
    BY <2>5 DEF FinishEnd
  <2>6. CASE FinishReady(s)
    <3>1. run[s].kind = "poll" /\ run[s].out = "retry"
      BY <2>1, <2>2, <2>3, <2>6 DEF FinishReady, SweepsByTask, KnowsRow, AtWork
    <3>2. run'[s].pc = "idle"
      BY <2>1, <2>6, AloneLocals DEF FinishReady, Return, Idle
    <3> QED BY <2>1, <2>3, <3>1, <3>2 DEF Polled
  <2>7. CASE Rejected(s) \/ WriteFails(s)
    BY <1>a, <2>7 DEF Rejected, WriteFails, row
  <2> QED BY <1>2, <2>4, <2>5, <2>6, <2>7 DEF Finish
<1>3. ASSUME NEW w \in Worker, Process(w) PROVE ref' = ref /\ status' # "ready"
  BY <1>a, <1>3 DEF Process, CancelLocal, Shutdown, Crash, row
<1>4. CASE Surroundings
  BY <1>a, <1>4 DEF Surroundings, Offer, LeaseRunsOut, LeaseSlips, Expire, Resend, Nudge, Lose,
     Archive, Abort, Ended, vars, row
<1> QED BY <1>1, <1>2, <1>3, <1>4 DEF Next

(* As long as no lease runs out under its holder and no outcome's transaction   *)
(* fails, a recorded remote task is neither forgotten nor replaced by a crash,  *)
(* a shutdown, a cancellation or a takeover: only one that polled this task     *)
(* ends its attempt.                                                            *)
THEOREM TaskIsPolledOnly == Spec => TaskIsNotResubmitted
<1>1. LeaseInv /\ AloneUnlessContested /\ [Next]_vars => AloneUnlessContested'
  BY AloneStep
<1>2. LeaseInv /\ AloneUnlessContested /\ [Next]_vars =>
        [~contested /\ ref # 0 =>
           \/ ref' = ref /\ status' # "ready"
           \/ \E s \in Slot : Polled(s)]_vars
  BY TaskStep
<1> QED BY <1>1, <1>2, AloneStart, LeaseInvariant, PTL DEF Spec, TaskIsNotResubmitted
-----------------------------------------------------------------------------
LEMMA LifeStep ==
  ASSUME LeaseInv, [Next]_vars
  PROVE  [Life!Next]_(Life!vars)
<1> DEFINE Step == Life!Next \/ UNCHANGED <<status, attempt, ref, cancelReq>>
<1> SUFFICES Step
  BY DEF Life!vars
<1>t. /\ status \in NodeStatus \cup {"absent"} /\ attempt \in Nat /\ ref \in Nat
      /\ cancelReq \in BOOLEAN
  BY RowFacts DEF LeaseInv, TypeOK
<1>1. ASSUME NEW s \in Slot, Handle(s) PROVE Step
  <2>1. CASE Claim(s)
    <3>1. run[s].kind \in {"run", "poll"}
      BY <2>1, RowFacts DEF Claim, KnowsRow, AtWork, Locals
    <3>2. CASE run[s].kind = "run"
      BY <2>1, <3>2 DEF Claim, Claimable, LeaseInv, RowInv, Life!Next, Life!Start
    <3>3. CASE run[s].kind = "poll"
      <4>1. attempt' = attempt
        BY <1>t, <2>1, <3>3 DEF Claim
      <4> QED BY <2>1, <3>3, <4>1 DEF Claim, Claimable, Life!Next, Life!Poll
    <3> QED BY <3>1, <3>2, <3>3
  <2> QED BY <1>1, <2>1 DEF Handle, Receive, Defer, Outrun, FailFast, StartExec, row
<1>2. ASSUME NEW s \in Slot, Execute(s) PROVE Step
  BY <1>2 DEF Execute, Heartbeat, Submit, Drop, Settle, NoCapacity, PollInterrupted, PollAgain,
     PollDone, row
<1>3. ASSUME NEW s \in Slot, Finish(s) PROVE Step
  <2>t. run[s] \in Locals /\ KnowsRow(run[s])
    BY RowFacts
  <2>1. CASE ToWaiting(s)
    <3>1. ref' # 0
      BY <2>1, <2>t DEF ToWaiting, KnowsRow, AtWork
    <3> QED BY <2>1, <3>1 DEF ToWaiting, Owns, Life!Next, Life!Park
  <2>2. CASE FinishEnd(s)
    <3>1. run[s].out = "cancelled" => cancelReq
      BY <2>2, <2>t DEF FinishEnd, KnowsRow, StopsAsked
    <3> QED BY <2>2, <3>1 DEF FinishEnd, Holds, Owns, Life!Next, Life!End
  <2>3. CASE FinishReady(s)
    <3>1. /\ status = "running" /\ status' = "ready" /\ (ref' # 0) = FALSE /\ UNCHANGED cancelReq
          /\ \/ attempt < MaxAttempts /\ attempt' = attempt
             \/ attempt' = attempt - 1
      BY <2>3, <2>t DEF FinishReady, Holds, Owns, KnowsRow, AtWork
    <3> QED BY <3>1 DEF Life!Next, Life!Requeue
  <2> QED BY <1>3, <2>1, <2>2, <2>3 DEF Finish, Rejected, WriteFails, row
<1>4. ASSUME NEW s \in Slot, Sweep(s) PROVE Step
  BY <1>4 DEF Sweep, SweepFind, SweepTake, row
<1>5. ASSUME NEW w \in Worker, Process(w) PROVE Step
  BY <1>5 DEF Process, CancelLocal, Shutdown, Crash, row
<1>6. CASE Surroundings
  <2>1. CASE Offer
    BY <2>1 DEF Offer, Life!Next, Life!Appear
  <2>2. CASE Abort
    BY <2>2 DEF Abort, Life!Next, Life!Discard, Life!AskStop
  <2> QED BY <1>6, <2>1, <2>2 DEF Surroundings, LeaseRunsOut, LeaseSlips, Expire, Resend, Nudge,
             Lose, Archive, Ended, vars, row
<1>7. CASE UNCHANGED vars
  BY <1>7 DEF vars, row
<1> QED BY <1>1, <1>2, <1>3, <1>4, <1>5, <1>6, <1>7 DEF Next

(* The workers, leases and messages behind a node implement NodeLife: one     *)
(* attempt is counted per start, only a started one is given back, and a node *)
(* that has ended stays ended.                                                *)
THEOREM LeaseImplementsLife == Spec => LifeSpec
<1>1. Init => Life!Init
  BY DEF Init, Life!Init
<1>2. LeaseInv /\ [Next]_vars => [Life!Next]_(Life!vars)
  BY LifeStep
<1> QED BY <1>1, <1>2, LeaseInvariant, PTL DEF Spec, LifeSpec, Life!Spec
=============================================================================
