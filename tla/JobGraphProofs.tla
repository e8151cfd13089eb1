--------------------------- MODULE JobGraphProofs ---------------------------
(***************************************************************************)
(* Theorems about JobGraph for every plan, every set of nodes and every     *)
(* number of attempts, with their proofs: types and the order of            *)
(* dependencies; the end of a job, its reservation, reason and deadline;    *)
(* and of the nodes, that none waits in vain, that an abort reaches all of  *)
(* them, that their attempts are bounded, and how each one lives.           *)
(***************************************************************************)
EXTENDS JobGraph, FiniteSetTheorems, TLAPS

NodeWord == NodeStatus \cup {"absent"}

Statuses == [Node -> NodeWord]
-----------------------------------------------------------------------------
(* What summarize returns: a job status; a terminal one exactly when every   *)
(* existing node has ended; "cancelling" only for a job being cancelled.     *)
LEMMA SummaryFacts ==
  ASSUME NEW current, NEW st \in Statuses, NEW ran \in BOOLEAN, NEW assets \in BOOLEAN
  PROVE  LET sum == Summary(current, st, ran, assets) IN
         /\ sum \in JobStatus
         /\ JobTerminal(sum) <=> \A n \in Node : st[n] = "absent" \/ NodeTerminal(st[n])
         /\ sum = "cancelling" => current = "cancelling"
         /\ current = "cancelling" => sum \in {"cancelling", "cancelled"}
         /\ sum = "queued" => ~ran
         /\ sum = "running" => ran \/ \E n \in Node : st[n] \in {"running", "waiting"}
         /\ sum = "succeeded" => \A n \in Node : st[n] \in {"absent", "succeeded", "skipped"}
  BY DEF Summary, ActiveNodes, FailedNodes, In, Statuses, NodeWord, NodeStatus,
         NodeTerminal, JobStatus, JobTerminal

LEMMA AdvancedType ==
  ASSUME NEW st \in Statuses, NEW dp \in [Node -> Int], NEW dd, NEW done
  PROVE  /\ AdvancedStatus(st, dp, dd, done) \in Statuses
         /\ AdvancedPending(st, dp, dd, done) \in [Node -> Int]
  BY DEF AdvancedStatus, AdvancedPending, Statuses, NodeWord, NodeStatus

LEMMA SkippedType ==
  ASSUME NEW st \in Statuses, NEW from
  PROVE  Skipped(from, st) \in Statuses
  BY DEF Skipped, Statuses, NodeWord, NodeStatus

LEMMA FinalizeType ==
  ASSUME NEW current, NEW code \in AbortCodes \cup {"node_error"}, NEW st \in Statuses,
         NEW ran \in BOOLEAN, NEW assets \in BOOLEAN, NEW h \in {"none", "open", "closed"},
         Finalize(current, code, st, ran, assets, h)
  PROVE  /\ jobStatus' \in JobStatus
         /\ jobCode' \in AbortCodes \cup {"node_error"}
         /\ hold' \in {"none", "open", "closed"}
<1> DEFINE sum == Summary(current, st, ran, assets)
<1>1. sum \in JobStatus
  BY SummaryFacts
<1>2. jobStatus' \in JobStatus
  BY <1>1 DEF Finalize, JobStatus
<1>3. jobCode' \in AbortCodes \cup {"node_error"}
  BY DEF Finalize, AbortCodes
<1>4. hold' \in {"none", "open", "closed"}
  BY DEF Finalize, Released
<1> QED BY <1>2, <1>3, <1>4
-----------------------------------------------------------------------------
(* Every variable keeps its type, in every plan. *)
THEOREM TypeCorrect == Spec => []TypeOK
<1> USE NodeAssumption
<1>1. Init => TypeOK
  <2> SUFFICES ASSUME Init PROVE TypeOK
    OBVIOUS
  <2>1. status \in Statuses /\ deps \in [Node -> SUBSET Node]
    BY DEF Init, Statuses, NodeWord
  <2>2. [n \in Node |-> 0] \in [Node -> Int]
    OBVIOUS
  <2>3. ref \in [Node -> BOOLEAN] /\ cancelReq \in [Node -> BOOLEAN]
    BY DEF Init
  <2> QED BY <2>1, <2>2, <2>3 DEF Init, TypeOK, Statuses, NodeWord, AbortCodes
<1>2. TypeOK /\ [Next]_vars => TypeOK'
  <2> SUFFICES ASSUME TypeOK, [Next]_vars PROVE TypeOK'
    OBVIOUS
  <2> USE DEF TypeOK
  <2>0. status \in Statuses
    BY DEF Statuses, NodeWord
  <2>1. ASSUME NEW p \in Plans, SubmitTx(p) PROVE TypeOK'
    <3>1. status' \in Statuses
      BY <2>1 DEF SubmitTx, Statuses, NodeWord, NodeStatus
    <3>2. deps' \in [Node -> SUBSET Node]
      BY <2>1 DEF SubmitTx
    <3>3. depsPending' \in [Node -> Int]
      <4>1. ASSUME NEW n \in DOMAIN p PROVE Cardinality(p[n]) \in Int
        <5>1. p[n] \subseteq Node /\ IsFiniteSet(Node)
          OBVIOUS
        <5>2. IsFiniteSet(p[n])
          BY <5>1, FS_Subset
        <5> QED BY <5>2, FS_CardinalityType
      <4> QED BY <2>1, <4>1 DEF SubmitTx
    <3>4. /\ jobStatus' \in JobStatus
          /\ armed' \in BOOLEAN
          /\ hold' \in {"none", "open", "closed"}
      BY <2>1 DEF SubmitTx, JobStatus
    <3> QED BY <2>1, <3>1, <3>2, <3>3, <3>4 DEF SubmitTx, Statuses, NodeWord
  <2>2. ASSUME NEW n \in Node, Claim(n) PROVE TypeOK'
    BY <2>2 DEF Claim, NodeStatus, JobStatus
  <2>3. ASSUME NEW n \in Node, ClaimPoll(n) PROVE TypeOK'
    BY <2>3 DEF ClaimPoll, NodeStatus, JobStatus, nodeVars
  <2>4. ASSUME NEW n \in Node, ToWaiting(n) PROVE TypeOK'
    BY <2>4 DEF ToWaiting, NodeStatus
  <2>5. ASSUME NEW n \in Node, FinishSucceeded(n) PROVE TypeOK'
    <3> DEFINE st == [status EXCEPT ![n] = "succeeded"]
    <3>1. st \in Statuses
      BY <2>0 DEF Statuses, NodeWord, NodeStatus
    <3>2. status' \in Statuses /\ depsPending' \in [Node -> Int]
      BY <2>5, <3>1, AdvancedType DEF FinishSucceeded
    <3>3. anyAssets' \in BOOLEAN
      BY <2>5 DEF FinishSucceeded
    <3>4. Finalize(jobStatus, jobCode, status', started, anyAssets', hold)
      BY <2>5 DEF FinishSucceeded
    <3>5. /\ jobStatus' \in JobStatus
          /\ jobCode' \in AbortCodes \cup {"node_error"}
          /\ hold' \in {"none", "open", "closed"}
      BY <3>2, <3>3, <3>4, FinalizeType
    <3>6. armed' \in BOOLEAN
      BY <2>5 DEF FinishSucceeded, Disarm, JobTerminal
    <3> HIDE DEF st
    <3> QED BY <2>5, <3>2, <3>3, <3>5, <3>6 DEF FinishSucceeded, nodeVars, Statuses, NodeWord
  <2>6. ASSUME NEW n \in Node, NEW word \in {"failed", "cancelled"}, Terminate(n, word)
        PROVE TypeOK'
    <3>1. [status EXCEPT ![n] = word] \in Statuses
      BY <2>0 DEF Statuses, NodeWord, NodeStatus
    <3>2. status' \in Statuses
      BY <2>6, <3>1, SkippedType DEF Terminate
    <3>3. anyAssets' \in BOOLEAN
      BY <2>6 DEF Terminate
    <3>4. Finalize(jobStatus, jobCode, status', started, anyAssets', hold)
      BY <2>6 DEF Terminate
    <3>5. /\ jobStatus' \in JobStatus
          /\ jobCode' \in AbortCodes \cup {"node_error"}
          /\ hold' \in {"none", "open", "closed"}
      BY <3>2, <3>3, <3>4, FinalizeType
    <3>6. armed' \in BOOLEAN
      BY <2>6 DEF Terminate, Disarm, JobTerminal
    <3> QED BY <2>6, <3>2, <3>3, <3>5, <3>6 DEF Terminate, nodeVars, Statuses, NodeWord
  <2>7. ASSUME NEW n \in Node, NEW refund \in {0, 1}, Requeue(n, refund) PROVE TypeOK'
    <3>1. status' \in Statuses
      BY <2>0, <2>7 DEF Requeue, Statuses, NodeWord, NodeStatus
    <3>2. attempt' \in [Node -> Int] /\ ref' \in [Node -> BOOLEAN]
      BY <2>7 DEF Requeue
    <3>3. Finalize(jobStatus, jobCode, status', started, anyAssets, hold)
      BY <2>7 DEF Requeue
    <3>4. /\ jobStatus' \in JobStatus
          /\ jobCode' \in AbortCodes \cup {"node_error"}
          /\ hold' \in {"none", "open", "closed"}
      BY <3>1, <3>3, FinalizeType
    <3>5. armed' \in BOOLEAN
      BY <2>7 DEF Requeue, Disarm, JobTerminal
    <3> QED BY <2>7, <3>1, <3>2, <3>4, <3>5 DEF Requeue, Statuses, NodeWord
  <2>8. ASSUME NEW n \in Node, Execute(n) PROVE TypeOK'
    BY <2>2, <2>3, <2>4, <2>5, <2>6, <2>7, <2>8
    DEF Execute, FinishFailed, FinishCancelled, FinishRetry, FinishRefunded, SweepExpiredLease
  <2>9. ASSUME NEW g \in Gate, NEW p \in Patches, Resume(g, p) PROVE TypeOK'
    <3> DEFINE placed == [n \in Node |->
                            IF n \notin DOMAIN p THEN status[n]
                            ELSE IF p[n] \subseteq Succeeded THEN "ready" ELSE "pending"]
               dp == [n \in Node |-> IF n \in DOMAIN p THEN Cardinality(p[n] \ Succeeded)
                                     ELSE depsPending[n]]
               st == [placed EXCEPT ![g] = "succeeded"]
    <3>1. st \in Statuses
      BY <2>0 DEF Statuses, NodeWord, NodeStatus
    <3>2. dp \in [Node -> Int]
      <4>1. ASSUME NEW n \in DOMAIN p PROVE Cardinality(p[n] \ Succeeded) \in Int
        <5>1. p[n] \ Succeeded \subseteq Node /\ IsFiniteSet(Node)
          OBVIOUS
        <5>2. IsFiniteSet(p[n] \ Succeeded)
          BY <5>1, FS_Subset
        <5> QED BY <5>2, FS_CardinalityType
      <4> QED BY <4>1
    <3>3. /\ status' = AdvancedStatus(st, dp, deps', g)
          /\ depsPending' = AdvancedPending(st, dp, deps', g)
      BY <2>9 DEF Resume
    <3> HIDE DEF st, dp
    <3>4. status' \in Statuses /\ depsPending' \in [Node -> Int]
      BY <3>1, <3>2, <3>3, AdvancedType
    <3>5. deps' \in [Node -> SUBSET Node]
      BY <2>9 DEF Resume
    <3>6. PICK h \in {"none", "open", "closed"} :
            Finalize(jobStatus, jobCode, status', started, anyAssets, h)
      BY <2>9 DEF Resume
    <3>7. /\ jobStatus' \in JobStatus
          /\ jobCode' \in AbortCodes \cup {"node_error"}
          /\ hold' \in {"none", "open", "closed"}
      BY <3>4, <3>6, FinalizeType
    <3>8. armed' \in BOOLEAN
      BY <2>9 DEF Resume, Rearm, JobTerminal
    <3> QED BY <2>9, <3>4, <3>5, <3>7, <3>8 DEF Resume, Statuses, NodeWord
  <2>10. ASSUME NEW code \in AbortCodes, Abort(code), suspects' \subseteq AbortCodes
         PROVE TypeOK'
    <3>1. status' \in Statuses
      BY <2>0, <2>10 DEF Abort, CancelledAtOnce, Statuses, NodeWord, NodeStatus
    <3>2. cancelReq' \in [Node -> BOOLEAN]
      BY <2>10 DEF Abort
    <3>3. Finalize("cancelling", code, status', started, anyAssets, hold)
      BY <2>10 DEF Abort
    <3>4. /\ jobStatus' \in JobStatus
          /\ jobCode' \in AbortCodes \cup {"node_error"}
          /\ hold' \in {"none", "open", "closed"}
      BY <3>1, <3>3, FinalizeType
    <3>5. armed' \in BOOLEAN
      BY <2>10 DEF Abort, Disarm, JobTerminal
    <3>6. asked' \subseteq AbortCodes
      BY <2>10 DEF Abort
    <3> QED BY <2>10, <3>1, <3>2, <3>4, <3>5, <3>6 DEF Abort, Statuses, NodeWord
  <2>11. CASE Cancel
    BY <2>10, <2>11 DEF Cancel, AbortCodes
  <2>12. CASE Sweep
    <3>1. CASE SweepFindOverdue
      BY <3>1 DEF SweepFindOverdue, nodeVars, AbortCodes
    <3>2. CASE SweepFindExpiredGate
      BY <3>2 DEF SweepFindExpiredGate, nodeVars, AbortCodes
    <3>3. ASSUME NEW code \in AbortCodes, SweepAbort(code) PROVE TypeOK'
      <4>1. suspects' \subseteq AbortCodes
        BY <3>3 DEF SweepAbort
      <4>2. CASE Abort(code)
        BY <2>10, <4>1, <4>2
      <4>3. CASE ~Abort(code)
        BY <3>3, <4>1, <4>3 DEF SweepAbort, nodeVars
      <4> QED BY <4>2, <4>3
    <3> QED BY <2>12, <3>1, <3>2, <3>3 DEF Sweep
  <2>13. CASE UNCHANGED vars
    BY <2>13 DEF vars
  <2> QED BY <2>1, <2>8, <2>9, <2>11, <2>12, <2>13 DEF Next, Ended
<1> QED BY <1>1, <1>2, PTL DEF Spec
-----------------------------------------------------------------------------
(* The steps of the job by their effect, which every proof below goes over.  *)
OneNode(n) == Claim(n) \/ ClaimPoll(n) \/ ToWaiting(n)

NodeEnds(n, word) ==
  status[n] = "running" /\ (word = "cancelled" => cancelReq[n]) /\ Terminate(n, word)

NodeAgain(n, refund) ==
  status[n] = "running" /\ (refund = 1 \/ attempt[n] < MaxAttempts[n]) /\ Requeue(n, refund)

OnlySuspects ==
  UNCHANGED <<status, depsPending, nodeVars, started, anyAssets, jobStatus, jobCode,
              armed, hold, asked>>

LEMMA StepForms ==
  ASSUME [Next]_vars
  PROVE  \/ \E p \in Plans : SubmitTx(p)
         \/ \E n \in Node : OneNode(n)
         \/ \E n \in Node : FinishSucceeded(n)
         \/ \E n \in Node, word \in {"failed", "cancelled"} : NodeEnds(n, word)
         \/ \E n \in Node, refund \in {0, 1} : NodeAgain(n, refund)
         \/ \E g \in Gate, p \in Patches : Resume(g, p)
         \/ \E code \in AbortCodes : Abort(code)
         \/ OnlySuspects
<1>1. ASSUME NEW n \in Node, Execute(n)
      PROVE  \/ OneNode(n) \/ FinishSucceeded(n)
             \/ \E word \in {"failed", "cancelled"} : NodeEnds(n, word)
             \/ \E refund \in {0, 1} : NodeAgain(n, refund)
  BY <1>1 DEF Execute, OneNode, NodeEnds, NodeAgain, FinishFailed, FinishCancelled,
              FinishRetry, FinishRefunded, SweepExpiredLease
<1>2. ASSUME Sweep PROVE (\E code \in AbortCodes : Abort(code)) \/ OnlySuspects
  BY <1>2 DEF Sweep, SweepFindOverdue, SweepFindExpiredGate, SweepAbort, OnlySuspects
<1>3. ASSUME UNCHANGED vars PROVE OnlySuspects
  BY <1>3 DEF vars, nodeVars, OnlySuspects
<1>4. ASSUME Cancel PROVE \E code \in AbortCodes : Abort(code)
  BY <1>4 DEF Cancel, AbortCodes
<1> QED BY <1>1, <1>2, <1>3, <1>4 DEF Next, Ended
-----------------------------------------------------------------------------
(* A finite set with at most one element is the singleton of any of them.    *)
LEMMA LastOne ==
  ASSUME NEW S, IsFiniteSet(S), NEW x \in S, Cardinality(S) <= 1
  PROVE  S = {x}
<1>1. IsFiniteSet(S \ {x}) /\ Cardinality(S \ {x}) = Cardinality(S) - 1
  BY FS_RemoveElement
<1>2. Cardinality(S \ {x}) \in Nat /\ Cardinality(S) \in Nat
  BY <1>1, FS_CardinalityType
<1>3. Cardinality(S \ {x}) = 0
  BY <1>1, <1>2
<1> QED BY <1>1, <1>3, FS_EmptySet

Started == {"ready", "running", "waiting", "suspended", "succeeded"}

(* DependenciesFirst and PendingCountExact for any statuses, with S in the    *)
(* place of the succeeded nodes.                                             *)
Ordered(st, dd, S) == \A n \in Node : st[n] \in Started => dd[n] \subseteq S

Counted(st, dp, dd, S) ==
  \A n \in Node : st[n] = "pending" => dp[n] = Cardinality(dd[n] \ S) /\ dp[n] > 0

(* done has just succeeded, after the nodes of S, and advance is to come.    *)
Advancing(st, dp, dd, done, S) ==
  /\ st \in Statuses /\ dp \in [Node -> Int] /\ dd \in [Node -> SUBSET Node]
  /\ done \in Node /\ S \in SUBSET Node
  /\ done \notin S /\ In(st, {"succeeded"}) = S \cup {done}
  /\ Ordered(st, dd, S \cup {done})
  /\ Counted(st, dp, dd, S)

(* The nodes advance releases have all their dependencies among the succeeded *)
(* ones, and the counters of the others stay exact.                          *)
LEMMA AdvanceIsExact ==
  ASSUME NEW st, NEW dp, NEW dd, NEW done, NEW S, Advancing(st, dp, dd, done, S)
  PROVE  /\ In(AdvancedStatus(st, dp, dd, done), {"succeeded"}) = S \cup {done}
         /\ Ordered(AdvancedStatus(st, dp, dd, done), dd, S \cup {done})
         /\ Counted(AdvancedStatus(st, dp, dd, done), AdvancedPending(st, dp, dd, done),
                    dd, S \cup {done})
<1> DEFINE sta == AdvancedStatus(st, dp, dd, done)
           dpa == AdvancedPending(st, dp, dd, done)
<1>t. /\ st \in Statuses /\ dp \in [Node -> Int] /\ dd \in [Node -> SUBSET Node]
      /\ done \in Node /\ S \in SUBSET Node
      /\ done \notin S /\ In(st, {"succeeded"}) = S \cup {done}
  BY DEF Advancing
<1> USE NodeAssumption
<1>0. /\ \A n \in Node : st[n] \in Started => dd[n] \subseteq S \cup {done}
      /\ \A n \in Node : st[n] = "pending" =>
           dp[n] = Cardinality(dd[n] \ S) /\ dp[n] > 0
  BY DEF Advancing, Ordered, Counted
<1>1. In(sta, {"succeeded"}) = S \cup {done}
  <2>1. \A n \in Node : sta[n] = "succeeded" <=> st[n] = "succeeded"
    BY <1>t DEF AdvancedStatus
  <2> QED BY <1>t, <2>1 DEF In
<1>2. ASSUME NEW n \in Node PROVE IsFiniteSet(dd[n] \ S) /\ Cardinality(dd[n] \ S) \in Nat
  <2>1. dd[n] \ S \subseteq Node
    BY <1>t
  <2> QED BY <1>t, <2>1, FS_Subset, FS_CardinalityType
<1>3. ASSUME NEW n \in Node, sta[n] \in Started PROVE dd[n] \subseteq S \cup {done}
  <2>1. CASE st[n] = "pending"
    <3>1. done \in dd[n] /\ dp[n] <= 1
      BY <1>t, <1>3, <2>1 DEF AdvancedStatus, Started
    <3> DEFINE T == dd[n] \ S
    <3>2. IsFiniteSet(T) /\ Cardinality(T) <= 1
      BY <1>t, <1>0, <1>2, <2>1, <3>1
    <3>3. done \in T
      BY <1>t, <3>1
    <3> HIDE DEF T
    <3>4. T = {done}
      BY <3>2, <3>3, LastOne
    <3> QED BY <3>4 DEF T
  <2>2. CASE st[n] # "pending"
    BY <1>t, <1>0, <1>3, <2>2 DEF AdvancedStatus
  <2> QED BY <1>t, <2>1, <2>2
<1>4. ASSUME NEW n \in Node, sta[n] = "pending"
      PROVE  dpa[n] = Cardinality(dd[n] \ (S \cup {done})) /\ dpa[n] > 0
  <2>1. st[n] = "pending"
    BY <1>t, <1>4 DEF AdvancedStatus
  <2>2. CASE done \in dd[n]
    <3>1. dp[n] > 1 /\ dpa[n] = dp[n] - 1
      BY <1>t, <1>4, <2>1, <2>2 DEF AdvancedStatus, AdvancedPending
    <3> DEFINE T == dd[n] \ S
    <3>2. IsFiniteSet(T) /\ done \in T /\ Cardinality(T) = dp[n]
      BY <1>t, <1>0, <1>2, <2>1, <2>2
    <3>3. T \ {done} = dd[n] \ (S \cup {done})
      OBVIOUS
    <3> HIDE DEF T
    <3>4. Cardinality(T \ {done}) = Cardinality(T) - 1
      BY <3>2, FS_RemoveElement
    <3>5. Cardinality(dd[n] \ (S \cup {done})) = dp[n] - 1
      BY <3>2, <3>3, <3>4
    <3>6. dp[n] \in Int
      BY <1>t
    <3> QED BY <3>1, <3>5, <3>6
  <2>3. CASE done \notin dd[n]
    <3>1. dd[n] \ (S \cup {done}) = dd[n] \ S
      BY <1>t, <2>3
    <3>2. dpa[n] = dp[n]
      BY <1>t, <2>1, <2>3 DEF AdvancedPending
    <3> QED BY <1>t, <1>0, <2>1, <3>1, <3>2
  <2> QED BY <1>t, <2>2, <2>3
<1> QED BY <1>t, <1>1, <1>3, <1>4 DEF Ordered, Counted
-----------------------------------------------------------------------------
(* Nodes are released in order and counted exactly, by every step.           *)
LEMMA ReleasedStep ==
  ASSUME TypeOK, TypeOK', DependenciesFirst, PendingCountExact, [Next]_vars
  PROVE  DependenciesFirst' /\ PendingCountExact'
<1> USE NodeAssumption
<1>t. /\ status \in Statuses /\ status' \in Statuses
      /\ depsPending \in [Node -> Int] /\ deps \in [Node -> SUBSET Node]
      /\ deps' \in [Node -> SUBSET Node]
  BY DEF TypeOK, Statuses, NodeWord
<1>old. Ordered(status, deps, Succeeded) /\ Counted(status, depsPending, deps, Succeeded)
  BY DEF DependenciesFirst, PendingCountExact, Started, Ordered, Counted
<1>new. ASSUME NEW S, Succeeded' = S,
               Ordered(status', deps', S), Counted(status', depsPending', deps', S)
        PROVE  DependenciesFirst' /\ PendingCountExact'
  BY <1>new DEF DependenciesFirst, PendingCountExact, Started, Ordered, Counted
<1>same. ASSUME UNCHANGED <<deps, depsPending>>, Succeeded' = Succeeded,
                \A n \in Node : status'[n] \in Started => status[n] \in Started,
                \A n \in Node : status'[n] = "pending" => status[n] = "pending"
         PROVE  DependenciesFirst' /\ PendingCountExact'
  <2>1. Ordered(status', deps', Succeeded)
    BY <1>old, <1>same DEF Ordered
  <2>2. Counted(status', depsPending', deps', Succeeded)
    BY <1>old, <1>same DEF Counted
  <2> QED BY <1>new, <1>same, <2>1, <2>2
<1>1. ASSUME NEW p \in Plans, SubmitTx(p) PROVE DependenciesFirst' /\ PendingCountExact'
  <2>1. Succeeded' = {}
    BY <1>1 DEF SubmitTx, Succeeded, In
  <2>2. Ordered(status', deps', {})
    BY <1>1 DEF SubmitTx, Started, Ordered
  <2>3. ASSUME NEW n \in Node, status'[n] = "pending"
        PROVE  depsPending'[n] = Cardinality(deps'[n] \ {}) /\ depsPending'[n] > 0
    <3>1. n \in DOMAIN p /\ p[n] # {} /\ depsPending'[n] = Cardinality(p[n]) /\ deps'[n] = p[n]
      BY <1>1, <2>3 DEF SubmitTx
    <3>2. p[n] \subseteq Node
      BY <3>1
    <3>3. IsFiniteSet(p[n])
      BY <3>2, FS_Subset
    <3>4. Cardinality(p[n]) \in Nat /\ Cardinality(p[n]) # 0
      BY <3>1, <3>3, FS_CardinalityType, FS_EmptySet
    <3>5. deps'[n] \ {} = p[n]
      BY <3>1
    <3> QED BY <3>1, <3>4, <3>5
  <2>4. Counted(status', depsPending', deps', {})
    BY <2>3 DEF Counted
  <2> QED BY <1>new, <2>1, <2>2, <2>4
<1>2. ASSUME NEW n \in Node, OneNode(n) PROVE DependenciesFirst' /\ PendingCountExact'
  <2>1. UNCHANGED <<deps, depsPending>>
    BY <1>2 DEF OneNode, Claim, ClaimPoll, ToWaiting, nodeVars
  <2>2. /\ Succeeded' = Succeeded
        /\ \A m \in Node : status'[m] \in Started => status[m] \in Started
        /\ \A m \in Node : status'[m] = "pending" => status[m] = "pending"
    BY <1>2, <1>t DEF OneNode, Claim, ClaimPoll, ToWaiting, Succeeded, In, Started, Statuses
  <2> QED BY <1>same, <2>1, <2>2
<1>3. ASSUME NEW n \in Node, FinishSucceeded(n)
      PROVE  DependenciesFirst' /\ PendingCountExact'
  <2> DEFINE st == [status EXCEPT ![n] = "succeeded"]
  <2>1. st \in Statuses
    BY <1>t DEF Statuses, NodeWord, NodeStatus
  <2>2. /\ n \notin Succeeded
        /\ In(st, {"succeeded"}) = Succeeded \cup {n}
        /\ Succeeded \in SUBSET Node
    BY <1>3, <1>t DEF FinishSucceeded, Succeeded, In, Statuses
  <2>3. Ordered(st, deps, Succeeded \cup {n})
    BY <1>3, <1>t, <1>old DEF FinishSucceeded, Started, Statuses, Ordered
  <2>4. Counted(st, depsPending, deps, Succeeded)
    BY <1>t, <1>old DEF Statuses, Counted
  <2>5. /\ status' = AdvancedStatus(st, depsPending, deps, n)
        /\ depsPending' = AdvancedPending(st, depsPending, deps, n)
        /\ deps' = deps
    BY <1>3 DEF FinishSucceeded, nodeVars
  <2> HIDE DEF st
  <2>6a. Advancing(st, depsPending, deps, n, Succeeded)
    BY <1>t, <2>1, <2>2, <2>3, <2>4 DEF Advancing
  <2>6. /\ In(status', {"succeeded"}) = Succeeded \cup {n}
        /\ Ordered(status', deps', Succeeded \cup {n})
        /\ Counted(status', depsPending', deps', Succeeded \cup {n})
    BY <2>5, <2>6a, AdvanceIsExact
  <2>7. Succeeded' = Succeeded \cup {n}
    BY <2>6 DEF Succeeded, In
  <2> QED BY <1>new, <2>6, <2>7
<1>4. ASSUME NEW n \in Node, NEW word \in {"failed", "cancelled"}, NodeEnds(n, word)
      PROVE  DependenciesFirst' /\ PendingCountExact'
  <2>1. UNCHANGED <<deps, depsPending>>
    BY <1>4 DEF NodeEnds, Terminate, nodeVars
  <2>2. \A m \in Node : status'[m] = (IF m = n THEN word ELSE status[m]) \/ status'[m] = "skipped"
    BY <1>4, <1>t DEF NodeEnds, Terminate, Skipped, Statuses
  <2>3. \A m \in Node : status[m] = "succeeded" => status'[m] = "succeeded"
    BY <1>4, <1>t DEF NodeEnds, Terminate, Skipped, Downstream, In, Statuses
  <2>4. /\ Succeeded' = Succeeded
        /\ \A m \in Node : status'[m] \in Started => status[m] \in Started
        /\ \A m \in Node : status'[m] = "pending" => status[m] = "pending"
    BY <1>4, <2>2, <2>3 DEF NodeEnds, Succeeded, In, Started
  <2> QED BY <1>same, <2>1, <2>4
<1>5. ASSUME NEW n \in Node, NEW refund \in {0, 1}, NodeAgain(n, refund)
      PROVE  DependenciesFirst' /\ PendingCountExact'
  <2>1. UNCHANGED <<deps, depsPending>>
    BY <1>5 DEF NodeAgain, Requeue
  <2>2. /\ Succeeded' = Succeeded
        /\ \A m \in Node : status'[m] \in Started => status[m] \in Started
        /\ \A m \in Node : status'[m] = "pending" => status[m] = "pending"
    BY <1>5, <1>t DEF NodeAgain, Requeue, Succeeded, In, Started, Statuses
  <2> QED BY <1>same, <2>1, <2>2
<1>6. ASSUME NEW g \in Gate, NEW p \in Patches, Resume(g, p)
      PROVE  DependenciesFirst' /\ PendingCountExact'
  <2> DEFINE placed == [n \in Node |->
                          IF n \notin DOMAIN p THEN status[n]
                          ELSE IF p[n] \subseteq Succeeded THEN "ready" ELSE "pending"]
             dp == [n \in Node |-> IF n \in DOMAIN p THEN Cardinality(p[n] \ Succeeded)
                                   ELSE depsPending[n]]
             st == [placed EXCEPT ![g] = "succeeded"]
  <2>0. g \in Node
    OBVIOUS
  <2>1. /\ status[g] = "suspended"
        /\ deps' = [n \in Node |-> IF n \in DOMAIN p THEN p[n] ELSE deps[n]]
        /\ \A n \in DOMAIN p : n \in Node /\ status[n] = "absent"
        /\ status' = AdvancedStatus(st, dp, deps', g)
        /\ depsPending' = AdvancedPending(st, dp, deps', g)
    BY <1>6, <1>t DEF Resume, ValidPlan, Present
  <2>2. \A n \in DOMAIN p : /\ IsFiniteSet(p[n] \ Succeeded)
                            /\ Cardinality(p[n] \ Succeeded) \in Nat
    <3>1. ASSUME NEW n \in DOMAIN p PROVE p[n] \ Succeeded \subseteq Node
      OBVIOUS
    <3> QED BY <3>1, FS_Subset, FS_CardinalityType
  <2>3. st \in Statuses /\ dp \in [Node -> Int]
    BY <1>t, <2>2 DEF Statuses, NodeWord, NodeStatus
  <2>4. /\ g \notin Succeeded
        /\ In(st, {"succeeded"}) = Succeeded \cup {g}
        /\ Succeeded \in SUBSET Node
    BY <1>t, <2>0, <2>1 DEF Succeeded, In, Statuses
  <2>5. Ordered(st, deps', Succeeded \cup {g})
    BY <1>t, <1>old, <2>0, <2>1 DEF Started, Statuses, Ordered
  <2>6. ASSUME NEW n \in Node, st[n] = "pending"
        PROVE  dp[n] = Cardinality(deps'[n] \ Succeeded) /\ dp[n] > 0
    <3>1. CASE n \in DOMAIN p
      <4>1. ~(p[n] \subseteq Succeeded)
        BY <2>1, <2>6, <3>1
      <4>2. p[n] \ Succeeded # {}
        BY <4>1
      <4> DEFINE T == p[n] \ Succeeded
      <4>3. IsFiniteSet(T) /\ Cardinality(T) \in Nat /\ T # {}
        BY <2>2, <3>1, <4>2
      <4>4. deps'[n] = p[n] /\ dp[n] = Cardinality(T)
        BY <2>1, <3>1
      <4> HIDE DEF T, dp
      <4>5. Cardinality(T) # 0
        BY <4>3, FS_EmptySet
      <4>6. Cardinality(T) > 0
        BY <4>3, <4>5
      <4> QED BY <4>4, <4>6 DEF T
    <3>2. CASE n \notin DOMAIN p
      BY <1>old, <2>1, <2>6, <3>2 DEF Counted
    <3> QED BY <3>1, <3>2
  <2>7. Counted(st, dp, deps', Succeeded)
    BY <2>6 DEF Counted
  <2> HIDE DEF st, dp
  <2>7a. Advancing(st, dp, deps', g, Succeeded)
    BY <1>t, <2>0, <2>3, <2>4, <2>5, <2>7 DEF Advancing
  <2>8. /\ In(status', {"succeeded"}) = Succeeded \cup {g}
        /\ Ordered(status', deps', Succeeded \cup {g})
        /\ Counted(status', depsPending', deps', Succeeded \cup {g})
    BY <2>1, <2>7a, AdvanceIsExact
  <2>9. Succeeded' = Succeeded \cup {g}
    BY <2>8 DEF Succeeded, In
  <2> QED BY <1>new, <2>8, <2>9
<1>7. ASSUME NEW code \in AbortCodes, Abort(code)
      PROVE  DependenciesFirst' /\ PendingCountExact'
  <2>1. deps' = deps /\ depsPending' = depsPending
    BY <1>7 DEF Abort
  <2>2. /\ Succeeded' = Succeeded
        /\ \A m \in Node : status'[m] \in Started => status[m] \in Started
        /\ \A m \in Node : status'[m] = "pending" => status[m] = "pending"
    BY <1>7, <1>t DEF Abort, CancelledAtOnce, Succeeded, In, Started, Statuses
  <2> QED BY <1>same, <2>1, <2>2
<1>8. ASSUME OnlySuspects PROVE DependenciesFirst' /\ PendingCountExact'
  BY <1>8, <1>same DEF OnlySuspects, nodeVars, Succeeded, In
<1> QED BY <1>1, <1>2, <1>3, <1>4, <1>5, <1>6, <1>7, <1>8, StepForms

(* No node starts before its dependencies have succeeded, and the counter of *)
(* a waiting node is exact, in every state of every job.                     *)
THEOREM ReleasedInOrder == Spec => [](DependenciesFirst /\ PendingCountExact)
<1>1. Init => DependenciesFirst /\ PendingCountExact
  BY DEF Init, DependenciesFirst, PendingCountExact
<1>2. TypeOK /\ TypeOK' /\ DependenciesFirst /\ PendingCountExact /\ [Next]_vars
        => DependenciesFirst' /\ PendingCountExact'
  BY ReleasedStep
<1> QED BY <1>1, <1>2, TypeCorrect, PTL DEF Spec

-----------------------------------------------------------------------------
(* The end of a job: its row and the reservation follow the nodes.          *)
(* Before the submission there is nothing. *)
NothingYet ==
  jobStatus = "none" => /\ \A n \in Node : status[n] = "absent"
                        /\ hold = "none" /\ asked = {}

Alive(n) == status[n] # "absent" /\ ~NodeTerminal(status[n])

(* A step in which finalizeJob writes the row of a job that has not ended,   *)
(* from the row as it was or as an Abort has just set it.                    *)
Written(current, code, h) ==
  /\ jobStatus # "none" /\ ~JobTerminal(jobStatus)
  /\ Finalize(current, code, status', started, anyAssets', h)
  /\ started' = started
  /\ \/ current = jobStatus /\ code = jobCode /\ asked' = asked
     \/ /\ current = "cancelling" /\ code \in AbortCodes /\ Abort(code)
        /\ asked' = asked \cup {code}
  /\ \/ h = hold
     \/ /\ hold = "none" /\ h = "open" /\ current = jobStatus /\ jobStatus # "cancelling"
        /\ \E n \in Node : status'[n] \in {"ready", "pending"}

Holds == {"none", "open", "closed"}

Codes == AbortCodes \cup {"node_error"}

LEMMA AliveJob ==
  ASSUME EndedTogether, NothingYet, NEW n \in Node, Alive(n)
  PROVE  jobStatus # "none" /\ ~JobTerminal(jobStatus)
  BY DEF EndedTogether, NothingYet, Alive, Present

LEMMA WrittenForms ==
  ASSUME TypeOK, TypeOK', EndedTogether, NothingYet, [Next]_vars
  PROVE  \/ \E p \in Plans : SubmitTx(p)
         \/ \E n \in Node : OneNode(n)
         \/ \E current \in JobStatus, code \in Codes, h \in Holds : Written(current, code, h)
         \/ OnlySuspects
<1> USE NodeAssumption
<1> DEFINE W == \E current \in JobStatus, code \in Codes, h \in Holds : Written(current, code, h)
<1>1. jobStatus # "none" => jobStatus \in JobStatus
  BY DEF TypeOK
<1>2. jobCode \in Codes /\ hold \in Holds
  BY DEF TypeOK, Codes, Holds
<1>3. ASSUME NEW n \in Node, status[n] = "running",
             Finalize(jobStatus, jobCode, status', started, anyAssets', hold),
             started' = started, asked' = asked
      PROVE  W
  <2>1. Alive(n)
    BY <1>3 DEF Alive, NodeTerminal
  <2>2. Written(jobStatus, jobCode, hold)
    BY <1>3, <2>1, AliveJob DEF Written
  <2> QED BY <1>1, <1>2, <2>1, <2>2, AliveJob
<1>4. ASSUME NEW n \in Node, FinishSucceeded(n) PROVE W
  BY <1>3, <1>4 DEF FinishSucceeded
<1>5. ASSUME NEW n \in Node, NEW word \in {"failed", "cancelled"}, NodeEnds(n, word) PROVE W
  BY <1>3, <1>5 DEF NodeEnds, Terminate
<1>6. ASSUME NEW n \in Node, NEW refund \in {0, 1}, NodeAgain(n, refund) PROVE W
  <2>1. anyAssets' = anyAssets
    BY <1>6 DEF NodeAgain, Requeue
  <2> QED BY <1>3, <1>6, <2>1 DEF NodeAgain, Requeue
<1>7. ASSUME NEW g \in Gate, NEW p \in Patches, Resume(g, p) PROVE W
  <2>1. PICK more \in BOOLEAN :
          Finalize(jobStatus, jobCode, status', started, anyAssets,
                   IF more /\ hold = "none" /\ DOMAIN p # {} THEN "open" ELSE hold)
    BY <1>7 DEF Resume
  <2> DEFINE h == IF more /\ hold = "none" /\ DOMAIN p # {} THEN "open" ELSE hold
  <2>2. /\ jobStatus # "none" /\ ~JobTerminal(jobStatus) /\ jobStatus # "cancelling"
        /\ started' = started /\ asked' = asked /\ anyAssets' = anyAssets
    BY <1>7 DEF Resume
  <2>3. h \in Holds
    BY <1>2 DEF Holds
  <2>4. ASSUME h # hold
        PROVE  hold = "none" /\ h = "open" /\ \E n \in Node : status'[n] \in {"ready", "pending"}
    <3>1. PICK n \in DOMAIN p : TRUE
      BY <2>4
    <3>2. n \in Node /\ n \notin Gate /\ g \in Node /\ n # g
      BY <1>7 DEF Resume
    <3>3. status'[n] \in {"ready", "pending"}
      BY <1>7, <3>1, <3>2 DEF Resume, AdvancedStatus
    <3> QED BY <2>4, <3>2, <3>3
  <2>5. Written(jobStatus, jobCode, h)
    BY <2>1, <2>2, <2>4 DEF Written
  <2> QED BY <1>1, <1>2, <2>2, <2>3, <2>5
<1>8. ASSUME NEW code \in AbortCodes, Abort(code) PROVE W
  <2>1. Written("cancelling", code, hold)
    BY <1>8 DEF Abort, Written
  <2>2. "cancelling" \in JobStatus /\ code \in Codes
    BY DEF JobStatus, Codes
  <2> QED BY <1>2, <2>1, <2>2
<1> HIDE DEF W
<1>9. (\E p \in Plans : SubmitTx(p)) \/ (\E n \in Node : OneNode(n)) \/ W \/ OnlySuspects
  BY <1>4, <1>5, <1>6, <1>7, <1>8, StepForms
<1> QED BY <1>9 DEF W
-----------------------------------------------------------------------------
(* What a written job row says of the nodes it was written from.             *)
LEMMA WrittenFacts ==
  ASSUME TypeOK, TypeOK', NEW current \in JobStatus, NEW code \in Codes, NEW h \in Holds,
         Written(current, code, h)
  PROVE  /\ jobStatus' \in JobStatus
         /\ JobTerminal(jobStatus') <=>
              \A n \in Node : status'[n] = "absent" \/ NodeTerminal(status'[n])
         /\ jobStatus' = "cancelling" => current = "cancelling"
         /\ current = "cancelling" => jobStatus' \in {"cancelling", "cancelled", "failed"}
         /\ current = "cancelling" /\ code # "" =>
              jobStatus' \in {"cancelling", "failed"} /\ jobCode' = code
         /\ jobStatus' = "queued" => ~started
         /\ jobStatus' = "running" =>
              started \/ \E n \in Node : status'[n] \in {"running", "waiting"}
         /\ jobStatus' = "succeeded" =>
              \A n \in Node : status'[n] \in {"absent", "succeeded", "skipped"}
         /\ hold' = IF JobTerminal(jobStatus') /\ h = "open" THEN "closed" ELSE h
<1> DEFINE sum == Summary(current, status', started, anyAssets')
<1>1. status' \in Statuses /\ started \in BOOLEAN /\ anyAssets' \in BOOLEAN
  BY DEF TypeOK, Statuses, NodeWord
<1>2. /\ sum \in JobStatus
      /\ JobTerminal(sum) <=>
           \A n \in Node : status'[n] = "absent" \/ NodeTerminal(status'[n])
      /\ sum = "cancelling" => current = "cancelling"
      /\ current = "cancelling" => sum \in {"cancelling", "cancelled"}
      /\ sum = "queued" => ~started
      /\ sum = "running" => started \/ \E n \in Node : status'[n] \in {"running", "waiting"}
      /\ sum = "succeeded" => \A n \in Node : status'[n] \in {"absent", "succeeded", "skipped"}
  BY <1>1, SummaryFacts
<1>3. /\ jobStatus' = IF Aborted(current, code) /\ JobTerminal(sum) THEN "failed" ELSE sum
      /\ Aborted(current, code) => jobCode' = code
      /\ hold' = Released(current, sum, h)
  BY DEF Written, Finalize
<1>4. ~JobTerminal(current)
  BY DEF Written, JobTerminal
<1> HIDE DEF sum
<1>5. JobTerminal(jobStatus') <=> JobTerminal(sum)
  BY <1>3 DEF JobTerminal
<1>6. Aborted(current, code) <=> current = "cancelling" /\ code # ""
  BY DEF Aborted
<1>7. hold' = IF JobTerminal(jobStatus') /\ h = "open" THEN "closed" ELSE h
  BY <1>3, <1>4, <1>5 DEF Released
<1>8. jobStatus' \in JobStatus
  BY <1>2, <1>3 DEF JobStatus
<1>9. /\ jobStatus' = "cancelling" => current = "cancelling"
      /\ current = "cancelling" => jobStatus' \in {"cancelling", "cancelled", "failed"}
      /\ current = "cancelling" /\ code # "" =>
           jobStatus' \in {"cancelling", "failed"} /\ jobCode' = code
  BY <1>2, <1>3, <1>6 DEF JobTerminal
<1>10. jobStatus' # "failed" => jobStatus' = sum
  BY <1>3
<1> QED BY <1>2, <1>5, <1>7, <1>8, <1>9, <1>10
-----------------------------------------------------------------------------
(* The job ends with its nodes, and its reservation with it.                 *)
EndInv == NothingYet /\ EndedTogether /\ HoldFollowsJob

LEMMA EndStep ==
  ASSUME TypeOK, TypeOK', EndInv, [Next]_vars
  PROVE  EndInv'
<1> USE NodeAssumption DEF EndInv
<1>1. ASSUME NEW p \in Plans, SubmitTx(p) PROVE EndInv'
  <2>1. PICK n \in DOMAIN p : TRUE
    BY <1>1 DEF SubmitTx
  <2>2. n \in Node /\ status'[n] \in {"pending", "ready", "suspended"}
    BY <1>1 DEF SubmitTx
  <2>3. jobStatus' = "queued" /\ hold' \in {"none", "open"}
    BY <1>1 DEF SubmitTx
  <2> QED BY <2>2, <2>3 DEF NothingYet, EndedTogether, HoldFollowsJob, Present,
                          NodeTerminal, JobTerminal
<1>2. ASSUME NEW n \in Node, OneNode(n) PROVE EndInv'
  <2>1. Alive(n)
    BY <1>2 DEF OneNode, Claim, ClaimPoll, ToWaiting, Alive, NodeTerminal
  <2>2. jobStatus # "none" /\ ~JobTerminal(jobStatus)
    BY <2>1, AliveJob
  <2>3. jobStatus' # "none" /\ ~JobTerminal(jobStatus') /\ hold' = hold
    BY <1>2, <2>2 DEF OneNode, Claim, ClaimPoll, ToWaiting, JobTerminal
  <2>4. status'[n] \in {"running", "waiting"}
    BY <1>2 DEF OneNode, Claim, ClaimPoll, ToWaiting, TypeOK
  <2> QED BY <2>2, <2>3, <2>4 DEF NothingYet, EndedTogether, HoldFollowsJob, Present,
                                NodeTerminal
<1>3. ASSUME NEW current \in JobStatus, NEW code \in Codes, NEW h \in Holds,
             Written(current, code, h)
      PROVE  EndInv'
  <2>1. /\ jobStatus' \in JobStatus
        /\ JobTerminal(jobStatus') <=>
             \A n \in Node : status'[n] = "absent" \/ NodeTerminal(status'[n])
        /\ hold' = IF JobTerminal(jobStatus') /\ h = "open" THEN "closed" ELSE h
    BY <1>3, WrittenFacts
  <2>2. jobStatus' # "none"
    BY <2>1 DEF JobStatus
  <2>3. h # "closed"
    BY <1>3 DEF Written, HoldFollowsJob
  <2>4. EndedTogether'
    BY <2>1 DEF EndedTogether, Present
  <2>5. HoldFollowsJob'
    BY <2>1, <2>3 DEF HoldFollowsJob
  <2> QED BY <2>2, <2>4, <2>5 DEF NothingYet
<1>4. ASSUME OnlySuspects PROVE EndInv'
  BY <1>4 DEF OnlySuspects, NothingYet, EndedTogether, HoldFollowsJob, Present
<1> QED BY <1>1, <1>2, <1>3, <1>4, WrittenForms

LEMMA EndInvariant == Spec => []EndInv
<1>1. Init => EndInv
  BY DEF Init, EndInv, NothingYet, EndedTogether, HoldFollowsJob, Present
<1>2. TypeOK /\ TypeOK' /\ EndInv /\ [Next]_vars => EndInv'
  BY EndStep
<1> QED BY <1>1, <1>2, TypeCorrect, PTL DEF Spec

(* The job row is terminal exactly when all its nodes are.                   *)
THEOREM JobEndsWithItsNodes == Spec => []EndedTogether
<1>1. EndInv => EndedTogether
  BY DEF EndInv
<1> QED BY <1>1, EndInvariant, PTL

(* The reservation is open only while a node may spend it, and is given back *)
(* only as the job ends.                                                     *)
THEOREM HoldEndsWithTheJob == Spec => []HoldFollowsJob
<1>1. EndInv => HoldFollowsJob
  BY DEF EndInv
<1> QED BY <1>1, EndInvariant, PTL
-----------------------------------------------------------------------------
(* An abort's reason stays: an ended job is not written again, and an abort   *)
(* under way keeps its code on the row.                                       *)
LEMMA AbortReasonStep ==
  ASSUME TypeOK, TypeOK', EndInv, AbortReasonKept, [Next]_vars
  PROVE  AbortReasonKept'
<1> USE DEF EndInv
<1>1. ASSUME NEW p \in Plans, SubmitTx(p) PROVE AbortReasonKept'
  BY <1>1 DEF SubmitTx, NothingYet, AbortReasonKept
<1>2. ASSUME NEW n \in Node, OneNode(n) PROVE AbortReasonKept'
  BY <1>2 DEF OneNode, Claim, ClaimPoll, ToWaiting, AbortReasonKept
<1>3. ASSUME NEW current \in JobStatus, NEW code \in Codes, NEW h \in Holds,
             Written(current, code, h)
      PROVE  AbortReasonKept'
  <2> SUFFICES ASSUME NEW reason \in AbortCodes \ {""}, asked' = {reason}
               PROVE  jobStatus' \in {"cancelling", "failed"} /\ jobCode' = reason
    BY DEF AbortReasonKept
  <2>1. current = "cancelling" /\ code # "" =>
          jobStatus' \in {"cancelling", "failed"} /\ jobCode' = code
    BY <1>3, WrittenFacts
  <2>2. CASE current = jobStatus /\ code = jobCode /\ asked' = asked
    <3>1. jobStatus \in {"cancelling", "failed"} /\ jobCode = reason
      BY <2>2 DEF AbortReasonKept
    <3>2. jobStatus = "cancelling"
      BY <1>3, <3>1 DEF Written, JobTerminal
    <3> QED BY <2>1, <2>2, <3>1, <3>2
  <2>3. CASE current = "cancelling" /\ code \in AbortCodes /\ asked' = asked \cup {code}
    <3>1. code = reason
      BY <2>3
    <3> QED BY <2>1, <2>3, <3>1
  <2> QED BY <1>3, <2>2, <2>3 DEF Written
<1>4. ASSUME OnlySuspects PROVE AbortReasonKept'
  BY <1>4 DEF OnlySuspects, AbortReasonKept
<1> QED BY <1>1, <1>2, <1>3, <1>4, WrittenForms

(* A job aborted for one reason ends as failed with it.                       *)
THEOREM AbortReasonIsKept == Spec => []AbortReasonKept
<1>1. Init => AbortReasonKept
  BY DEF Init, AbortReasonKept
<1>2. TypeOK /\ TypeOK' /\ EndInv /\ AbortReasonKept /\ [Next]_vars => AbortReasonKept'
  BY AbortReasonStep
<1> QED BY <1>1, <1>2, TypeCorrect, EndInvariant, PTL DEF Spec
-----------------------------------------------------------------------------
(* How a step changes the words of the nodes: a node that has ended stays as  *)
(* it is, and a node is skipped only behind one that failed or was cancelled. *)
LEMMA NodeSteps ==
  ASSUME TypeOK, TypeOK', EndInv, [Next]_vars
  PROVE  /\ \A n \in Node : NodeTerminal(status[n]) => status'[n] = status[n]
         /\ \A n \in Node : status'[n] = "skipped" =>
              \/ status[n] = "skipped"
              \/ \E m \in Node : status'[m] \in {"failed", "cancelled"}
<1> USE NodeAssumption DEF NodeTerminal
<1> DEFINE Goal == /\ \A n \in Node : NodeTerminal(status[n]) => status'[n] = status[n]
                   /\ \A n \in Node : status'[n] = "skipped" =>
                        \/ status[n] = "skipped"
                        \/ \E m \in Node : status'[m] \in {"failed", "cancelled"}
<1>t. status \in Statuses /\ status' \in Statuses
  BY DEF TypeOK, Statuses, NodeWord
<1>1. ASSUME NEW p \in Plans, SubmitTx(p) PROVE Goal
  BY <1>1 DEF SubmitTx, EndInv, NothingYet
<1>2. ASSUME NEW n \in Node, OneNode(n) PROVE Goal
  BY <1>2, <1>t DEF OneNode, Claim, ClaimPoll, ToWaiting, Statuses
<1>3. ASSUME NEW n \in Node, FinishSucceeded(n) PROVE Goal
  BY <1>3, <1>t DEF FinishSucceeded, AdvancedStatus, Statuses
<1>4. ASSUME NEW n \in Node, NEW word \in {"failed", "cancelled"}, NodeEnds(n, word)
      PROVE Goal
  <2> DEFINE st == [status EXCEPT ![n] = word]
  <2>1. status[n] = "running" /\ st \in Statuses
    BY <1>4, <1>t DEF NodeEnds, Statuses, NodeWord, NodeStatus
  <2>2. status' = [m \in Node |-> IF m \in Downstream(n, st) THEN "skipped" ELSE st[m]]
    BY <1>4 DEF NodeEnds, Terminate, Skipped
  <2>3. \A m \in Node : m \in Downstream(n, st) => st[m] = "pending"
    BY DEF Downstream, In
  <2>4. st[n] = word /\ \A m \in Node : m # n => st[m] = status[m]
    BY <1>t DEF Statuses
  <2> HIDE DEF st
  <2>5. status'[n] = word
    BY <2>2, <2>3, <2>4
  <2> QED BY <2>1, <2>2, <2>3, <2>4, <2>5
<1>5. ASSUME NEW n \in Node, NEW refund \in {0, 1}, NodeAgain(n, refund) PROVE Goal
  BY <1>5, <1>t DEF NodeAgain, Requeue, Statuses
<1>6. ASSUME NEW g \in Gate, NEW p \in Patches, Resume(g, p) PROVE Goal
  <2>1. \A n \in DOMAIN p : status[n] = "absent"
    BY <1>6 DEF Resume, ValidPlan, Present
  <2>2. status[g] = "suspended" /\ g \in Node
    BY <1>6 DEF Resume
  <2> QED BY <1>6, <1>t, <2>1, <2>2 DEF Resume, AdvancedStatus
<1>7. ASSUME NEW code \in AbortCodes, Abort(code) PROVE Goal
  BY <1>7, <1>t DEF Abort, CancelledAtOnce, Statuses
<1>8. ASSUME OnlySuspects PROVE Goal
  BY <1>8 DEF OnlySuspects
<1> HIDE DEF Goal
<1>9. Goal
  BY <1>1, <1>2, <1>3, <1>4, <1>5, <1>6, <1>7, <1>8, StepForms
<1> QED BY <1>9 DEF Goal

SkippedBehind ==
  \A n \in Node : status[n] = "skipped" => \E m \in Node : status[m] \in {"failed", "cancelled"}

LEMMA SuccessStep ==
  ASSUME TypeOK, TypeOK', EndInv, SkippedBehind, SuccessIsComplete, [Next]_vars
  PROVE  SkippedBehind' /\ SuccessIsComplete'
<1>1. SkippedBehind'
  BY NodeSteps DEF SkippedBehind, NodeTerminal
<1>2. ASSUME NEW p \in Plans, SubmitTx(p) PROVE SuccessIsComplete'
  BY <1>2 DEF SubmitTx, SuccessIsComplete
<1>3. ASSUME NEW n \in Node, OneNode(n) PROVE SuccessIsComplete'
  <2>1. Alive(n)
    BY <1>3 DEF OneNode, Claim, ClaimPoll, ToWaiting, Alive, NodeTerminal
  <2>2. ~JobTerminal(jobStatus)
    BY <2>1, AliveJob DEF EndInv
  <2>3. jobStatus' # "succeeded"
    BY <1>3, <2>2 DEF OneNode, Claim, ClaimPoll, ToWaiting, JobTerminal
  <2> QED BY <2>3 DEF SuccessIsComplete
<1>4. ASSUME NEW current \in JobStatus, NEW code \in Codes, NEW h \in Holds,
             Written(current, code, h)
      PROVE  SuccessIsComplete'
  <2>1. jobStatus' = "succeeded" =>
          \A n \in Node : status'[n] \in {"absent", "succeeded", "skipped"}
    BY <1>4, WrittenFacts
  <2> QED BY <1>1, <2>1 DEF SuccessIsComplete, SkippedBehind, Present
<1>5. ASSUME OnlySuspects PROVE SuccessIsComplete'
  BY <1>5 DEF OnlySuspects, SuccessIsComplete, Present
<1> QED BY <1>1, <1>2, <1>3, <1>4, <1>5, WrittenForms DEF EndInv

(* A job that succeeded has no step that did not.                             *)
THEOREM SuccessHasEveryStep == Spec => []SuccessIsComplete
<1>1. Init => SkippedBehind /\ SuccessIsComplete
  BY DEF Init, SkippedBehind, SuccessIsComplete
<1>2. TypeOK /\ TypeOK' /\ EndInv /\ (SkippedBehind /\ SuccessIsComplete) /\ [Next]_vars
        => (SkippedBehind /\ SuccessIsComplete)'
  BY SuccessStep
<1> QED BY <1>1, <1>2, TypeCorrect, EndInvariant, PTL DEF Spec
-----------------------------------------------------------------------------
(* A gate is the last node of a plan when every set of the plan's nodes with *)
(* the gate and, for each of its nodes, all that this depends on, is the     *)
(* whole plan: every other node comes before the gate.                       *)
GateComesLast(p) ==
  \A g \in DOMAIN p \cap Gate :
    \A S \in SUBSET DOMAIN p : g \in S /\ (\A n \in S : p[n] \subseteq S) => S = DOMAIN p

(* The same of the rows: a gate that has not been passed is behind them all. *)
GateIsLast ==
  \A g \in Gate : status[g] \in {"pending", "suspended"} =>
    \A S \in SUBSET Present : g \in S /\ (\A n \in S : deps[n] \subseteq S) => S = Present

OnlyGatesWait == \A n \in Node : status[n] = "suspended" => n \in Gate

(* A job is under review while its gate waits.                               *)
ReviewWaits == jobStatus = "awaiting_review" => \E n \in Node : status[n] = "suspended"

(* The steps after the submission but Resume: the plan stays as it is.       *)
PlanStays ==
  /\ deps' = deps
  /\ \A n \in Node : /\ status'[n] = "absent" <=> status[n] = "absent"
                     /\ status'[n] \in {"pending", "suspended"}
                          => status[n] \in {"pending", "suspended"}
                     /\ status'[n] = "suspended" => status[n] = "suspended" \/ n \in Gate

LEMMA PlanSteps ==
  ASSUME TypeOK, TypeOK', [Next]_vars
  PROVE  \/ \E p \in Plans : SubmitTx(p)
         \/ \E g \in Gate, p \in Patches : Resume(g, p)
         \/ PlanStays
<1> USE NodeAssumption
<1>t. status \in Statuses /\ status' \in Statuses
  BY DEF TypeOK, Statuses, NodeWord
<1>1. ASSUME NEW n \in Node, OneNode(n) PROVE PlanStays
  BY <1>1, <1>t DEF OneNode, Claim, ClaimPoll, ToWaiting, Statuses, PlanStays, nodeVars
<1>2. ASSUME NEW n \in Node, FinishSucceeded(n) PROVE PlanStays
  BY <1>2, <1>t DEF FinishSucceeded, AdvancedStatus, Statuses, PlanStays, nodeVars
<1>3. ASSUME NEW n \in Node, NEW word \in {"failed", "cancelled"}, NodeEnds(n, word)
      PROVE  PlanStays
  <2> DEFINE st == [status EXCEPT ![n] = word]
  <2>1. status[n] = "running" /\ deps' = deps
    BY <1>3 DEF NodeEnds, Terminate, nodeVars
  <2>2. status' = [m \in Node |-> IF m \in Downstream(n, st) THEN "skipped" ELSE st[m]]
    BY <1>3 DEF NodeEnds, Terminate, Skipped
  <2>3. \A m \in Node : m \in Downstream(n, st) => st[m] = "pending"
    BY DEF Downstream, In
  <2>4. st[n] = word /\ \A m \in Node : m # n => st[m] = status[m]
    BY <1>t DEF Statuses
  <2> HIDE DEF st
  <2> QED BY <2>1, <2>2, <2>3, <2>4 DEF PlanStays
<1>4. ASSUME NEW n \in Node, NEW refund \in {0, 1}, NodeAgain(n, refund) PROVE PlanStays
  BY <1>4, <1>t DEF NodeAgain, Requeue, Statuses, PlanStays
<1>5. ASSUME NEW code \in AbortCodes, Abort(code) PROVE PlanStays
  BY <1>5, <1>t DEF Abort, CancelledAtOnce, Statuses, PlanStays
<1>6. ASSUME OnlySuspects PROVE PlanStays
  BY <1>6 DEF OnlySuspects, PlanStays, nodeVars
<1> QED BY <1>1, <1>2, <1>3, <1>4, <1>5, <1>6, StepForms

(* While a review is awaited all other nodes are done: they all come before  *)
(* the gate, and what a node was released after has succeeded.               *)
LEMMA AllElseDone ==
  ASSUME TypeOK, DependenciesFirst, GateIsLast, NEW g \in Gate, status[g] = "suspended"
  PROVE  \A n \in Present : n = g \/ status[n] = "succeeded"
<1> DEFINE S == {n \in Present : n = g \/ status[n] = "succeeded"}
<1>1. g \in S
  BY NodeAssumption DEF Present
<1>2. \A n \in S : deps[n] \subseteq Succeeded
  BY NodeAssumption DEF DependenciesFirst, Present
<1>3. Succeeded \subseteq S
  BY DEF Succeeded, In, Present
<1>4. S \in SUBSET Present
  OBVIOUS
<1> HIDE DEF S
<1>5. S = Present
  BY <1>1, <1>2, <1>3, <1>4 DEF GateIsLast
<1> QED BY <1>5 DEF S

LEMMA GateStep ==
  ASSUME \A p \in Plans : GateComesLast(p),
         TypeOK, TypeOK', NothingYet, DependenciesFirst, GateIsLast, OnlyGatesWait, [Next]_vars
  PROVE  GateIsLast' /\ OnlyGatesWait'
<1> USE NodeAssumption
<1>1. ASSUME NEW p \in Plans, SubmitTx(p) PROVE GateIsLast' /\ OnlyGatesWait'
  <2>1. \A n \in Node : /\ status'[n] # "absent" <=> n \in DOMAIN p
                        /\ status'[n] = "suspended" => n \in Gate
                        /\ n \in DOMAIN p => deps'[n] = p[n]
    BY <1>1 DEF SubmitTx
  <2>2. Present' = DOMAIN p
    BY <2>1 DEF Present
  <2>3. ASSUME NEW g \in Gate, status'[g] \in {"pending", "suspended"},
               NEW S \in SUBSET Present', g \in S, \A n \in S : deps'[n] \subseteq S
        PROVE  S = Present'
    <3>1. g \in DOMAIN p \cap Gate
      BY <2>1, <2>3
    <3>2. \A n \in S : p[n] \subseteq S
      BY <2>1, <2>2, <2>3
    <3> QED BY <2>2, <2>3, <3>1, <3>2 DEF GateComesLast
  <2>4. \A g \in Gate : status'[g] \in {"pending", "suspended"} =>
          \A S \in SUBSET Present' : g \in S /\ (\A n \in S : deps'[n] \subseteq S) => S = Present'
    BY <2>3
  <2> QED BY <2>1, <2>4 DEF GateIsLast, OnlyGatesWait
<1>2. ASSUME NEW g \in Gate, NEW p \in Patches, Resume(g, p)
      PROVE  GateIsLast' /\ OnlyGatesWait'
  <2>1. status[g] = "suspended" /\ DOMAIN p \cap Gate = {} /\ g \in Node
    BY <1>2 DEF Resume
  <2>2. \A n \in Present : n = g \/ status[n] = "succeeded"
    BY <2>1, AllElseDone
  <2>3. \A n \in Gate : status[n] \in {"absent", "succeeded"} \/ n = g
    BY <2>2 DEF Present
  <2>4. \A n \in Gate : status'[n] \in {"absent", "succeeded"}
    BY <1>2, <2>1, <2>3 DEF Resume, AdvancedStatus
  <2>5. \A n \in Node : status'[n] = "suspended" => n \in Gate \/ status[n] = "suspended"
    BY <1>2, <2>1 DEF Resume, AdvancedStatus
  <2> QED BY <2>4, <2>5 DEF GateIsLast, OnlyGatesWait
<1>3. ASSUME PlanStays PROVE GateIsLast' /\ OnlyGatesWait'
  <2>1. deps' = deps /\ Present' = Present
    BY <1>3 DEF PlanStays, Present
  <2>2. \A g \in Gate : status'[g] \in {"pending", "suspended"}
                          => status[g] \in {"pending", "suspended"}
    BY <1>3 DEF PlanStays
  <2>3. \A g \in Gate : status'[g] \in {"pending", "suspended"} =>
          \A S \in SUBSET Present' : g \in S /\ (\A n \in S : deps'[n] \subseteq S) => S = Present'
    BY <2>1, <2>2 DEF GateIsLast
  <2>4. \A n \in Node : status'[n] = "suspended" => n \in Gate
    BY <1>3 DEF PlanStays, OnlyGatesWait
  <2> QED BY <2>3, <2>4 DEF GateIsLast, OnlyGatesWait
<1> QED BY <1>1, <1>2, <1>3, PlanSteps
-----------------------------------------------------------------------------
(* What is written as awaiting a review has a gate that waits.               *)
LEMMA ReviewedBySummary ==
  ASSUME NEW current, NEW st, NEW ran, NEW assets,
         Summary(current, st, ran, assets) = "awaiting_review"
  PROVE  \E n \in Node : st[n] = "suspended"
  BY DEF Summary, In, ActiveNodes, FailedNodes

LEMMA ReviewStep ==
  ASSUME TypeOK, TypeOK', EndInv, ReviewWaits, [Next]_vars
  PROVE  ReviewWaits'
<1> USE NodeAssumption DEF EndInv
<1>t. status \in Statuses
  BY DEF TypeOK, Statuses, NodeWord
<1>1. ASSUME NEW p \in Plans, SubmitTx(p) PROVE ReviewWaits'
  BY <1>1 DEF SubmitTx, ReviewWaits
<1>2. ASSUME NEW n \in Node, OneNode(n) PROVE ReviewWaits'
  <2>1. \A m \in Node : status[m] = "suspended" => status'[m] = "suspended"
    BY <1>2, <1>t DEF OneNode, Claim, ClaimPoll, ToWaiting, Statuses
  <2>2. jobStatus' = "awaiting_review" => jobStatus = "awaiting_review"
    BY <1>2 DEF OneNode, Claim, ClaimPoll, ToWaiting
  <2> QED BY <2>1, <2>2 DEF ReviewWaits
<1>3. ASSUME NEW current \in JobStatus, NEW code \in Codes, NEW h \in Holds,
             Written(current, code, h)
      PROVE  ReviewWaits'
  <2>1. jobStatus' = "awaiting_review"
          => Summary(current, status', started, anyAssets') = "awaiting_review"
    BY <1>3 DEF Written, Finalize
  <2> QED BY <2>1, ReviewedBySummary DEF ReviewWaits
<1>4. ASSUME OnlySuspects PROVE ReviewWaits'
  BY <1>4 DEF OnlySuspects, ReviewWaits
<1> QED BY <1>1, <1>2, <1>3, <1>4, WrittenForms

(* The steps that write the job's row take the deadline off or, for a        *)
(* decision, set it; none but a decision leaves a review for a running job.  *)
LEMMA ArmedSteps ==
  ASSUME TypeOK, TypeOK', EndInv, [Next]_vars
  PROVE  \/ \E p \in Plans : SubmitTx(p)
         \/ UNCHANGED <<armed, jobStatus>>
         \/ armed' = armed /\ jobStatus \in {"queued", "running"}
         \/ armed' = ~JobTerminal(jobStatus')
         \/ jobStatus' \notin {"queued", "running"}
         \/ /\ armed' = (armed /\ ~JobTerminal(jobStatus') /\ jobStatus' # "awaiting_review")
            /\ jobStatus \in {"queued", "running", "awaiting_review"}
            /\ \E n \in Node : status[n] = "running"
<1> USE NodeAssumption DEF EndInv
<1> DEFINE Goal == \/ UNCHANGED <<armed, jobStatus>>
                   \/ armed' = armed /\ jobStatus \in {"queued", "running"}
                   \/ armed' = ~JobTerminal(jobStatus')
                   \/ jobStatus' \notin {"queued", "running"}
                   \/ /\ armed' = (armed /\ ~JobTerminal(jobStatus') /\ jobStatus' # "awaiting_review")
                      /\ jobStatus \in {"queued", "running", "awaiting_review"}
                      /\ \E n \in Node : status[n] = "running"
<1>1. ASSUME NEW n \in Node, OneNode(n) PROVE Goal
  BY <1>1 DEF OneNode, Claim, ClaimPoll, ToWaiting
<1>2. ASSUME NEW n \in Node, status[n] = "running", Disarm, NEW assets,
             Finalize(jobStatus, jobCode, status', started, assets, hold)
      PROVE Goal
  <2>1. Alive(n)
    BY <1>2 DEF Alive, NodeTerminal
  <2>2. jobStatus \in JobStatus /\ ~JobTerminal(jobStatus)
    BY <2>1, AliveJob DEF TypeOK
  <2>3. armed' = (armed /\ ~JobTerminal(jobStatus') /\ jobStatus' # "awaiting_review")
    BY <1>2 DEF Disarm
  <2>4. CASE jobStatus = "cancelling"
    BY <1>2, <2>4 DEF Finalize, Summary
  <2>5. CASE jobStatus # "cancelling"
    BY <1>2, <2>2, <2>3, <2>5 DEF JobStatus, JobTerminal
  <2> QED BY <2>4, <2>5
<1>3. ASSUME NEW n \in Node, FinishSucceeded(n) PROVE Goal
  BY <1>2, <1>3 DEF FinishSucceeded
<1>4. ASSUME NEW n \in Node, NEW word \in {"failed", "cancelled"}, NodeEnds(n, word) PROVE Goal
  BY <1>2, <1>4 DEF NodeEnds, Terminate
<1>5. ASSUME NEW n \in Node, NEW refund \in {0, 1}, NodeAgain(n, refund) PROVE Goal
  BY <1>2, <1>5 DEF NodeAgain, Requeue
<1>6. ASSUME NEW g \in Gate, NEW p \in Patches, Resume(g, p) PROVE Goal
  BY <1>6 DEF Resume, Rearm
<1>7. ASSUME NEW code \in AbortCodes, Abort(code) PROVE Goal
  BY <1>7 DEF Abort, Finalize, Summary
<1>8. ASSUME OnlySuspects PROVE Goal
  BY <1>8 DEF OnlySuspects
<1> HIDE DEF Goal
<1>9. (\E p \in Plans : SubmitTx(p)) \/ Goal
  BY <1>1, <1>3, <1>4, <1>5, <1>6, <1>7, <1>8, StepForms
<1> QED BY <1>9 DEF Goal

LEMMA DeadlineStep ==
  ASSUME TypeOK, TypeOK', EndInv, DependenciesFirst, GateIsLast, OnlyGatesWait, ReviewWaits,
         RunningHasDeadline, [Next]_vars
  PROVE  RunningHasDeadline'
<1>1. ASSUME NEW p \in Plans, SubmitTx(p) PROVE RunningHasDeadline'
  BY <1>1 DEF SubmitTx, RunningHasDeadline
<1>2. ASSUME NEW n \in Node, status[n] = "running" PROVE jobStatus # "awaiting_review"
  <2> SUFFICES ASSUME jobStatus = "awaiting_review" PROVE FALSE
    OBVIOUS
  <2>1. PICK g \in Node : status[g] = "suspended" /\ g \in Gate
    BY DEF ReviewWaits, OnlyGatesWait
  <2>2. n \in Present /\ n # g
    BY <1>2, <2>1 DEF Present
  <2> QED BY <1>2, <2>1, <2>2, AllElseDone
<1>3. CASE ~\E p \in Plans : SubmitTx(p)
  BY <1>2, <1>3, ArmedSteps DEF RunningHasDeadline, JobTerminal
<1> QED BY <1>1, <1>3

(* A job that is queued or running has a deadline, also after a review, for  *)
(* every plan whose gate comes last, as the plan of a video sequence with a  *)
(* preview does (video.go:166-170); for other plans a review beside a        *)
(* running branch takes the deadline off (store.go:437-439).                 *)
THEOREM DeadlineIsKept ==
  ASSUME \A p \in Plans : GateComesLast(p)
  PROVE  Spec => []RunningHasDeadline
<1> DEFINE Inv == GateIsLast /\ OnlyGatesWait /\ ReviewWaits /\ RunningHasDeadline
<1>1. Init => Inv
  BY NodeAssumption DEF Init, GateIsLast, OnlyGatesWait, ReviewWaits, RunningHasDeadline
<1>2. TypeOK /\ TypeOK' /\ EndInv /\ DependenciesFirst /\ Inv /\ [Next]_vars => Inv'
  <2> SUFFICES ASSUME TypeOK, TypeOK', EndInv, DependenciesFirst, Inv, [Next]_vars PROVE Inv'
    OBVIOUS
  <2>1. GateIsLast' /\ OnlyGatesWait'
    BY GateStep DEF EndInv
  <2>2. ReviewWaits' /\ RunningHasDeadline'
    BY ReviewStep, DeadlineStep
  <2> QED BY <2>1, <2>2
<1>3. Inv => RunningHasDeadline
  OBVIOUS
<1> HIDE DEF Inv
<1> QED BY <1>1, <1>2, <1>3, TypeCorrect, EndInvariant, ReleasedInOrder, PTL DEF Spec

-----------------------------------------------------------------------------
(* skipDownstream reaches every pending node with a dependency on from or on *)
(* a node it reaches.                                                        *)
LEMMA DownstreamClosed ==
  ASSUME NEW st, NEW from, NEW n \in Node, st[n] = "pending",
         deps[n] \cap (Downstream(from, st) \cup {from}) # {}
  PROVE  n \in Downstream(from, st)
<1>1. n \in In(st, {"pending"})
  BY DEF In
<1>2. ASSUME NEW S \in SUBSET In(st, {"pending"}), ClosedUnder(S, from, st) PROVE n \in S
  <2>1. Downstream(from, st) \subseteq S
    BY <1>2 DEF Downstream
  <2>2. deps[n] \cap (S \cup {from}) # {}
    BY <2>1
  <2> QED BY <1>1, <1>2, <2>2 DEF ClosedUnder
<1> QED BY <1>1, <1>2 DEF Downstream

Doomed == {"failed", "cancelled", "skipped"}

LEMMA NoDoomedStep ==
  ASSUME TypeOK, TypeOK', EndInv, NoDoomedPending, [Next]_vars
  PROVE  NoDoomedPending'
<1> USE NodeAssumption
<1>t. /\ status \in Statuses /\ status' \in Statuses /\ deps \in [Node -> SUBSET Node]
      /\ deps' \in [Node -> SUBSET Node]
  BY DEF TypeOK, Statuses, NodeWord
<1>old. \A n \in Node, d \in Node : status[n] = "pending" /\ d \in deps[n] => status[d] \notin Doomed
  BY DEF NoDoomedPending, Doomed
<1>new. ASSUME \A n \in Node, d \in Node :
                 status'[n] = "pending" /\ d \in deps'[n] => status'[d] \notin Doomed
        PROVE  NoDoomedPending'
  BY <1>new, <1>t DEF NoDoomedPending, Doomed
<1>same. ASSUME deps' = deps,
                \A n \in Node : status'[n] = "pending" => status[n] = "pending",
                \A n \in Node : status'[n] \in Doomed => status[n] \in Doomed
         PROVE  NoDoomedPending'
  BY <1>old, <1>new, <1>same
<1>1. ASSUME NEW p \in Plans, SubmitTx(p) PROVE NoDoomedPending'
  <2>1. \A n \in Node : status'[n] \notin Doomed
    BY <1>1 DEF SubmitTx, Doomed
  <2> QED BY <1>new, <2>1
<1>2. ASSUME NEW n \in Node, OneNode(n) PROVE NoDoomedPending'
  <2>1. deps' = deps
    BY <1>2 DEF OneNode, Claim, ClaimPoll, ToWaiting, nodeVars
  <2>2. \A m \in Node : status'[m] \in {"running", "waiting"} \/ status'[m] = status[m]
    BY <1>2, <1>t DEF OneNode, Claim, ClaimPoll, ToWaiting, Statuses
  <2> QED BY <1>same, <2>1, <2>2 DEF Doomed
<1>3. ASSUME NEW n \in Node, FinishSucceeded(n) PROVE NoDoomedPending'
  <2>1. deps' = deps
    BY <1>3 DEF FinishSucceeded, nodeVars
  <2>2. \A m \in Node : status'[m] \in {"succeeded", "ready", "suspended"} \/ status'[m] = status[m]
    BY <1>3, <1>t DEF FinishSucceeded, AdvancedStatus, Statuses
  <2> QED BY <1>same, <2>1, <2>2 DEF Doomed
<1>4. ASSUME NEW n \in Node, NEW word \in {"failed", "cancelled"}, NodeEnds(n, word)
      PROVE NoDoomedPending'
  <2> DEFINE st == [status EXCEPT ![n] = word]
  <2>1. status' = [m \in Node |-> IF m \in Downstream(n, st) THEN "skipped" ELSE st[m]]
    BY <1>4 DEF NodeEnds, Terminate, Skipped
  <2>2. deps' = deps /\ status[n] = "running"
    BY <1>4 DEF NodeEnds, Terminate, nodeVars
  <2>3. st[n] = word /\ \A m \in Node : m # n => st[m] = status[m]
    BY <1>t DEF Statuses
  <2> HIDE DEF st
  <2>4. ASSUME NEW m \in Node, NEW d \in Node, status'[m] = "pending", d \in deps'[m]
        PROVE  status'[d] \notin Doomed
    <3>1. st[m] = "pending" /\ m \notin Downstream(n, st)
      BY <2>1, <2>4
    <3>2. d \notin Downstream(n, st) /\ d # n
      BY <2>2, <2>4, <3>1, DownstreamClosed
    <3>3. m # n
      BY <2>3, <3>1
    <3>4. status[m] = "pending" /\ status'[d] = status[d]
      BY <2>1, <2>3, <3>1, <3>2, <3>3
    <3> QED BY <1>old, <2>2, <2>4, <3>4
  <2> QED BY <1>new, <2>4
<1>5. ASSUME NEW n \in Node, NEW refund \in {0, 1}, NodeAgain(n, refund)
      PROVE NoDoomedPending'
  <2>1. deps' = deps
    BY <1>5 DEF NodeAgain, Requeue
  <2>2. \A m \in Node : status'[m] = "ready" \/ status'[m] = status[m]
    BY <1>5, <1>t DEF NodeAgain, Requeue, Statuses
  <2> QED BY <1>same, <2>1, <2>2 DEF Doomed
<1>6. ASSUME NEW g \in Gate, NEW p \in Patches, Resume(g, p) PROVE NoDoomedPending'
  <2>1. /\ \A n \in DOMAIN p : n \in Node /\ status[n] = "absent"
        /\ \A n \in DOMAIN p : p[n] \subseteq DOMAIN p \cup Succeeded \cup {g}
        /\ status[g] = "suspended"
    BY <1>6 DEF Resume, ValidPlan, Present
  <2>2. deps' = [n \in Node |-> IF n \in DOMAIN p THEN p[n] ELSE deps[n]]
    BY <1>6 DEF Resume
  <2>3. \A n \in Node :
          status'[n] \in {"pending", "ready", "suspended", "succeeded"} \/ status'[n] = status[n]
    BY <1>6, <1>t DEF Resume, AdvancedStatus
  <2>4. \A n \in Node \ DOMAIN p : status'[n] = "pending" => status[n] = "pending"
    BY <1>6, <1>t DEF Resume, AdvancedStatus
  <2>5. \A d \in Succeeded : status[d] = "succeeded"
    BY DEF Succeeded, In
  <2>6. ASSUME NEW n \in Node, NEW d \in Node, status'[n] = "pending", d \in deps'[n]
        PROVE  status'[d] \notin Doomed
    <3>1. CASE n \in DOMAIN p
      BY <2>1, <2>2, <2>3, <2>5, <2>6, <3>1 DEF Doomed
    <3>2. CASE n \notin DOMAIN p
      BY <1>old, <2>2, <2>3, <2>4, <2>6, <3>2 DEF Doomed
    <3> QED BY <3>1, <3>2
  <2> QED BY <1>new, <2>6
<1>7. ASSUME NEW code \in AbortCodes, Abort(code) PROVE NoDoomedPending'
  <2>1. \A n \in Node : status'[n] # "pending"
    BY <1>7, <1>t DEF Abort, CancelledAtOnce
  <2> QED BY <1>new, <2>1
<1>8. ASSUME OnlySuspects PROVE NoDoomedPending'
  BY <1>8, <1>same DEF OnlySuspects, nodeVars
<1> QED BY <1>1, <1>2, <1>3, <1>4, <1>5, <1>6, <1>7, <1>8, StepForms

(* No node waits for one that will never succeed.                            *)
THEOREM NobodyWaitsInVain == Spec => []NoDoomedPending
<1>1. Init => NoDoomedPending
  BY DEF Init, NoDoomedPending
<1>2. TypeOK /\ TypeOK' /\ EndInv /\ NoDoomedPending /\ [Next]_vars => NoDoomedPending'
  BY NoDoomedStep
<1> QED BY <1>1, <1>2, TypeCorrect, EndInvariant, PTL DEF Spec
-----------------------------------------------------------------------------
(* A node that never ran has no attempt, one that runs has at least one. *)
AttemptsInv ==
  /\ AttemptsBounded
  /\ \A n \in Node : /\ status[n] \in {"absent", "pending", "suspended"} => attempt[n] = 0
                     /\ status[n] \in {"running", "waiting"} => attempt[n] > 0

(* A node nobody runs is inserted, released, skipped or cancelled. *)
Passive(old, new) ==
  \/ new = old
  \/ old = "absent" /\ new \in {"pending", "ready", "suspended"}
  \/ old = "pending" /\ new \in {"ready", "suspended", "skipped", "cancelled"}
  \/ old \in {"ready", "suspended"} /\ new = "cancelled"

Kept(n) == attempt'[n] = attempt[n] /\ ref'[n] = ref[n] /\ cancelReq'[n] = cancelReq[n]

(* Every step, seen from one node. *)
NodeStep(n) ==
  \/ Passive(status[n], status'[n]) /\ Kept(n)
  \/ /\ status[n] \in {"running", "waiting"} /\ status'[n] = status[n] /\ cancelReq'[n]
     /\ attempt'[n] = attempt[n] /\ ref'[n] = ref[n]
  \/ Claim(n) \/ ClaimPoll(n) \/ ToWaiting(n)
  \/ /\ status[n] = "running" /\ Kept(n)
     /\ \/ status'[n] \in {"succeeded", "failed"}
        \/ status'[n] = "cancelled" /\ cancelReq[n]
  \/ status[n] = "suspended" /\ status'[n] = "succeeded" /\ Kept(n)
  \/ \E refund \in {0, 1} : NodeAgain(n, refund)

LEMMA NodeView ==
  ASSUME TypeOK, TypeOK', EndInv, [Next]_vars
  PROVE  \A m \in Node : NodeStep(m)
<1> USE NodeAssumption
<1>t. /\ status \in Statuses /\ attempt \in [Node -> Int] /\ ref \in [Node -> BOOLEAN]
      /\ cancelReq \in [Node -> BOOLEAN]
  BY DEF TypeOK, Statuses, NodeWord
<1>1. ASSUME NEW p \in Plans, SubmitTx(p), NEW m \in Node PROVE NodeStep(m)
  BY <1>1 DEF SubmitTx, EndInv, NothingYet, NodeStep, Passive, Kept
<1>2. ASSUME NEW n \in Node, OneNode(n), NEW m \in Node PROVE NodeStep(m)
  <2>1. CASE m = n
    BY <1>2, <2>1 DEF OneNode, NodeStep
  <2>2. CASE m # n
    BY <1>2, <2>2, <1>t DEF OneNode, Claim, ClaimPoll, ToWaiting, nodeVars, Statuses,
                           NodeStep, Passive, Kept
  <2> QED BY <2>1, <2>2
<1>3. ASSUME NEW n \in Node, FinishSucceeded(n), NEW m \in Node PROVE NodeStep(m)
  BY <1>3, <1>t DEF FinishSucceeded, AdvancedStatus, nodeVars, Statuses, NodeStep, Passive, Kept
<1>4. ASSUME NEW n \in Node, NEW word \in {"failed", "cancelled"}, NodeEnds(n, word),
             NEW m \in Node
      PROVE NodeStep(m)
  <2> DEFINE st == [status EXCEPT ![n] = word]
  <2>1. status' = [k \in Node |-> IF k \in Downstream(n, st) THEN "skipped" ELSE st[k]]
    BY <1>4 DEF NodeEnds, Terminate, Skipped
  <2>2. status[n] = "running" /\ (word = "cancelled" => cancelReq[n]) /\ Kept(m)
    BY <1>4 DEF NodeEnds, Terminate, nodeVars, Kept
  <2>3. st[n] = word /\ (m # n => st[m] = status[m])
    BY <1>t DEF Statuses
  <2>4. m \in Downstream(n, st) => st[m] = "pending"
    BY DEF Downstream, In
  <2> HIDE DEF st
  <2> QED BY <2>1, <2>2, <2>3, <2>4 DEF NodeStep, Passive
<1>5. ASSUME NEW n \in Node, NEW refund \in {0, 1}, NodeAgain(n, refund), NEW m \in Node
      PROVE NodeStep(m)
  <2>1. CASE m = n
    BY <1>5, <2>1 DEF NodeStep
  <2>2. CASE m # n
    BY <1>5, <2>2, <1>t DEF NodeAgain, Requeue, Statuses, NodeStep, Passive, Kept
  <2> QED BY <2>1, <2>2
<1>6. ASSUME NEW g \in Gate, NEW p \in Patches, Resume(g, p), NEW m \in Node
      PROVE NodeStep(m)
  <2>1. \A n \in DOMAIN p : status[n] = "absent"
    BY <1>6 DEF Resume, ValidPlan, Present
  <2>2. status[g] = "suspended" /\ g \in Node /\ Kept(m)
    BY <1>6 DEF Resume, Kept
  <2>3. Passive(status[m], status'[m]) \/ (m = g /\ status'[m] = "succeeded")
    BY <1>6, <1>t, <2>1, <2>2 DEF Resume, AdvancedStatus, Passive
  <2> QED BY <2>2, <2>3 DEF NodeStep
<1>7. ASSUME NEW code \in AbortCodes, Abort(code), NEW m \in Node PROVE NodeStep(m)
  BY <1>7, <1>t DEF Abort, CancelledAtOnce, Statuses, NodeStep, Passive, Kept
<1>8. ASSUME OnlySuspects, NEW m \in Node PROVE NodeStep(m)
  BY <1>8 DEF OnlySuspects, nodeVars, NodeStep, Passive, Kept
<1> QED BY <1>1, <1>2, <1>3, <1>4, <1>5, <1>6, <1>7, <1>8, StepForms

LEMMA AttemptsStep ==
  ASSUME TypeOK, TypeOK', EndInv, AttemptsInv, [Next]_vars
  PROVE  AttemptsInv'
<1> USE NodeAssumption
<1>t. /\ status \in Statuses /\ attempt \in [Node -> Int] /\ MaxAttempts \in [Node -> Nat \ {0}]
  BY DEF TypeOK, Statuses, NodeWord
<1> DEFINE Fine(s, a, max) ==
      /\ a \in 0 .. max
      /\ s = "ready" => a < max
      /\ s \in {"absent", "pending", "suspended"} => a = 0
      /\ s \in {"running", "waiting"} => a > 0
<1>1. \A n \in Node : Fine(status[n], attempt[n], MaxAttempts[n])
  BY DEF AttemptsInv, AttemptsBounded
<1>2. ASSUME NEW n \in Node PROVE Fine(status'[n], attempt'[n], MaxAttempts[n])
  <2>0. Fine(status[n], attempt[n], MaxAttempts[n]) /\ MaxAttempts[n] \in Nat \ {0}
    BY <1>1, <1>t
  <2>1. NodeStep(n)
    BY NodeView
  <2>2. CASE Passive(status[n], status'[n]) /\ Kept(n)
    BY <2>0, <2>2 DEF Passive, Kept
  <2>3. CASE /\ status[n] \in {"running", "waiting"} /\ status'[n] = status[n]
             /\ attempt'[n] = attempt[n]
    BY <2>0, <2>3
  <2>4. CASE Claim(n)
    <3>1. /\ status[n] = "ready" /\ status'[n] = "running" /\ attempt'[n] = attempt[n] + 1
      BY <2>4, <1>t DEF Claim, Statuses
    <3> QED BY <2>0, <3>1
  <2>5. CASE ClaimPoll(n) \/ ToWaiting(n)
    <3>1. /\ status[n] \in {"running", "waiting"} /\ status'[n] \in {"running", "waiting"}
          /\ attempt'[n] = attempt[n]
      BY <2>5, <1>t DEF ClaimPoll, ToWaiting, nodeVars, Statuses
    <3> QED BY <2>0, <3>1
  <2>6. CASE /\ status[n] \in {"running", "suspended"} /\ Kept(n)
             /\ status'[n] \in {"succeeded", "failed", "cancelled"}
    BY <2>0, <2>6 DEF Kept
  <2>7. ASSUME NEW refund \in {0, 1}, NodeAgain(n, refund)
        PROVE  Fine(status'[n], attempt'[n], MaxAttempts[n])
    <3>1. /\ status[n] = "running" /\ status'[n] = "ready" /\ attempt'[n] = attempt[n] - refund
          /\ refund = 1 \/ attempt[n] < MaxAttempts[n]
      BY <2>7, <1>t DEF NodeAgain, Requeue, Statuses
    <3> QED BY <2>0, <3>1
  <2> QED BY <2>1, <2>2, <2>3, <2>4, <2>5, <2>6, <2>7 DEF NodeStep
<1> QED BY <1>2 DEF AttemptsInv, AttemptsBounded

LEMMA AttemptsInvariant == Spec => []AttemptsInv
<1>1. Init => AttemptsInv
  <2>1. ASSUME NEW n \in Node, Init PROVE status[n] = "absent" /\ attempt[n] = 0
    BY <2>1 DEF Init
  <2>2. ASSUME NEW n \in Node PROVE MaxAttempts[n] \in Nat
    BY NodeAssumption
  <2>3. ASSUME NEW n \in Node PROVE 0 \in 0 .. MaxAttempts[n]
    BY <2>2
  <2> QED BY <2>1, <2>3 DEF AttemptsInv, AttemptsBounded
<1>2. TypeOK /\ TypeOK' /\ EndInv /\ AttemptsInv /\ [Next]_vars => AttemptsInv'
  BY AttemptsStep
<1> QED BY <1>1, <1>2, TypeCorrect, EndInvariant, PTL DEF Spec

(* No node starts more often than its plan allows.                           *)
THEOREM AttemptsAreBounded == Spec => []AttemptsBounded
<1>1. AttemptsInv => AttemptsBounded
  BY DEF AttemptsInv
<1> QED BY <1>1, AttemptsInvariant, PTL
-----------------------------------------------------------------------------
(* Every node lives as NodeLife says, whatever else its job does.            *)
LifeStep(n) ==
  Life(n)!Next \/ UNCHANGED <<status[n], attempt[n], ref[n], cancelReq[n]>>

LEMMA LifeSteps ==
  ASSUME TypeOK, TypeOK', AttemptsInv, NEW n \in Node, NodeStep(n)
  PROVE  LifeStep(n)
<1>t. /\ status \in Statuses /\ attempt \in [Node -> Int] /\ ref \in [Node -> BOOLEAN]
      /\ cancelReq \in [Node -> BOOLEAN] /\ cancelReq' \in [Node -> BOOLEAN]
  BY DEF TypeOK, Statuses, NodeWord
<1>a. status[n] = "ready" => attempt[n] < MaxAttempts[n]
  BY DEF AttemptsInv, AttemptsBounded
<1>1. CASE Passive(status[n], status'[n]) /\ Kept(n)
  BY <1>1 DEF Passive, Kept, LifeStep, Life!Next, Life!Appear, Life!Release, Life!Discard
<1>2. CASE /\ status[n] \in {"running", "waiting"} /\ status'[n] = status[n] /\ cancelReq'[n]
           /\ attempt'[n] = attempt[n] /\ ref'[n] = ref[n]
  <2>1. cancelReq'[n] = TRUE
    BY <1>t, <1>2
  <2> QED BY <1>2, <2>1 DEF LifeStep, Life!Next, Life!AskStop
<1>3. CASE Claim(n)
  BY <1>3, <1>t, <1>a DEF Claim, Statuses, LifeStep, Life!Next, Life!Start
<1>4. CASE ClaimPoll(n)
  BY <1>4, <1>t DEF ClaimPoll, nodeVars, Statuses, LifeStep, Life!Next, Life!Poll
<1>5. CASE ToWaiting(n)
  BY <1>5, <1>t DEF ToWaiting, Statuses, LifeStep, Life!Next, Life!Park
<1>6. CASE /\ status[n] = "running" /\ Kept(n)
           /\ \/ status'[n] \in {"succeeded", "failed"}
              \/ status'[n] = "cancelled" /\ cancelReq[n]
  BY <1>6 DEF Kept, LifeStep, Life!Next, Life!End
<1>7. CASE status[n] = "suspended" /\ status'[n] = "succeeded" /\ Kept(n)
  BY <1>7 DEF Kept, LifeStep, Life!Next, Life!Answer
<1>8. ASSUME NEW refund \in {0, 1}, NodeAgain(n, refund) PROVE LifeStep(n)
  <2>1. /\ status[n] = "running" /\ status'[n] = "ready" /\ ref'[n] = FALSE
        /\ attempt'[n] = attempt[n] - refund /\ cancelReq' = cancelReq
        /\ refund = 1 \/ attempt[n] < MaxAttempts[n]
    BY <1>8, <1>t DEF NodeAgain, Requeue, Statuses
  <2>2. attempt[n] - 0 = attempt[n]
    BY <1>t
  <2> QED BY <2>1, <2>2 DEF LifeStep, Life!Next, Life!Requeue
<1> QED BY <1>1, <1>2, <1>3, <1>4, <1>5, <1>6, <1>7, <1>8 DEF NodeStep

(* Each node implements NodeLife: its steps are NodeLife's or leave it alone. *)
THEOREM EveryNodeLives == Spec => NodesLive
<1>1. Init => \A n \in Node : Life(n)!Init
  BY DEF Init, Life!Init
<1>2. TypeOK /\ TypeOK' /\ EndInv /\ AttemptsInv /\ [Next]_vars
        => [\A n \in Node :
              Life(n)!Next \/ UNCHANGED <<status[n], attempt[n], ref[n], cancelReq[n]>>]_vars
  BY NodeView, LifeSteps DEF LifeStep
<1> QED BY <1>1, <1>2, TypeCorrect, EndInvariant, AttemptsInvariant, PTL DEF Spec, NodesLive
-----------------------------------------------------------------------------
(* While a job is cancelled, each node still alive carries the flag and       *)
(* nothing is left to release.                                                *)
LEMMA DrainingStep ==
  ASSUME TypeOK, TypeOK', EndInv, CancellingIsDraining, [Next]_vars
  PROVE  CancellingIsDraining'
<1> USE NodeAssumption
<1>t. /\ status \in Statuses /\ status' \in Statuses /\ cancelReq \in [Node -> BOOLEAN]
  BY DEF TypeOK, Statuses, NodeWord
<1>1. CASE jobStatus = "cancelling" /\ jobStatus' = "cancelling"
  <2> SUFFICES ASSUME NEW n \in Node
               PROVE  /\ status'[n] \notin {"pending", "suspended"}
                      /\ status'[n] \in {"ready", "running", "waiting"} => cancelReq'[n]
    BY DEF CancellingIsDraining
  <2>1. /\ status[n] \notin {"pending", "suspended"}
        /\ status[n] \in {"ready", "running", "waiting"} => cancelReq[n]
    BY <1>1 DEF CancellingIsDraining
  <2>2. NodeStep(n)
    BY NodeView
  <2>3. status[n] # "absent" \/ status'[n] = "absent"
    <3>1. ASSUME NEW p \in Plans, SubmitTx(p) PROVE FALSE
      BY <1>1, <3>1 DEF SubmitTx
    <3>2. ASSUME NEW g \in Gate, NEW p \in Patches, Resume(g, p) PROVE FALSE
      BY <1>1, <3>2 DEF Resume
    <3>3. CASE \E m \in Node : OneNode(m)
      BY <3>3, <1>t DEF OneNode, Claim, ClaimPoll, ToWaiting, Statuses
    <3>4. CASE \E m \in Node : FinishSucceeded(m)
      BY <3>4, <1>t DEF FinishSucceeded, AdvancedStatus, Statuses
    <3>5. ASSUME NEW m \in Node, NEW word \in {"failed", "cancelled"}, NodeEnds(m, word)
          PROVE status[n] # "absent" \/ status'[n] = "absent"
      BY <3>5, <1>t DEF NodeEnds, Terminate, Skipped, Downstream, In, Statuses
    <3>6. CASE \E m \in Node, refund \in {0, 1} : NodeAgain(m, refund)
      BY <3>6, <1>t DEF NodeAgain, Requeue, Statuses
    <3>7. CASE \E code \in AbortCodes : Abort(code)
      BY <3>7, <1>t DEF Abort, CancelledAtOnce, Statuses
    <3>8. CASE OnlySuspects
      BY <3>8 DEF OnlySuspects
    <3> QED BY <3>1, <3>2, <3>3, <3>4, <3>5, <3>6, <3>7, <3>8, StepForms
  <2> QED BY <2>1, <2>2, <2>3, <1>t DEF NodeStep, Passive, Kept, Claim, ClaimPoll, ToWaiting,
                NodeAgain, Requeue, nodeVars, Statuses
<1>2. CASE jobStatus # "cancelling" /\ jobStatus' = "cancelling"
  <2>1. ASSUME NEW code \in AbortCodes, Abort(code) PROVE CancellingIsDraining'
    BY <2>1, <1>t DEF Abort, CancelledAtOnce, CancellingIsDraining, Statuses
  <2>2. PICK current \in JobStatus, code \in Codes, h \in Holds : Written(current, code, h)
    BY <1>2, WrittenForms DEF EndInv, SubmitTx, OneNode, Claim, ClaimPoll, ToWaiting,
         OnlySuspects
  <2>3. current = "cancelling"
    BY <1>2, <2>2, WrittenFacts
  <2>4. \E c \in AbortCodes : Abort(c)
    BY <1>2, <2>2, <2>3 DEF Written
  <2> QED BY <2>1, <2>4
<1>3. CASE jobStatus' # "cancelling"
  BY <1>3 DEF CancellingIsDraining
<1> QED BY <1>1, <1>2, <1>3

(* A job being cancelled only drains: nothing new can start in it.            *)
THEOREM CancellingOnlyDrains == Spec => []CancellingIsDraining
<1>1. Init => CancellingIsDraining
  BY DEF Init, CancellingIsDraining
<1>2. TypeOK /\ TypeOK' /\ EndInv /\ CancellingIsDraining /\ [Next]_vars
        => CancellingIsDraining'
  BY DrainingStep
<1> QED BY <1>1, <1>2, TypeCorrect, EndInvariant, PTL DEF Spec
-----------------------------------------------------------------------------
(* A job that runs has started: it does not look queued again.               *)
RunInv ==
  jobStatus = "running" \/ (\E n \in Node : status[n] \in {"running", "waiting"}) => started

LEMMA RunStep ==
  ASSUME TypeOK, TypeOK', EndInv, RunInv, [Next]_vars
  PROVE  RunInv'
<1> USE NodeAssumption
<1>t. status \in Statuses /\ started \in BOOLEAN
  BY DEF TypeOK, Statuses, NodeWord
<1>1. started => started'
  <2>1. ASSUME NEW n \in Node, OneNode(n) PROVE started => started'
    BY <2>1 DEF OneNode, Claim, ClaimPoll, ToWaiting
  <2>2. ASSUME NEW p \in Plans, SubmitTx(p) PROVE started => started'
    BY <2>2 DEF SubmitTx
  <2>3. ASSUME OnlySuspects PROVE started => started'
    BY <2>3 DEF OnlySuspects
  <2> QED BY <2>1, <2>2, <2>3, WrittenForms DEF EndInv, Written
<1>2. ASSUME NEW n \in Node, status'[n] \in {"running", "waiting"} PROVE started'
  <2>1. CASE Claim(n)
    BY <2>1 DEF Claim
  <2>2. CASE ~Claim(n)
    <3>1. NodeStep(n)
      BY NodeView
    <3>2. status[n] \in {"running", "waiting"}
      BY <1>2, <1>t, <2>2, <3>1 DEF NodeStep, Passive, ClaimPoll, ToWaiting, NodeAgain,
           Requeue, Statuses
    <3> QED BY <1>1, <3>2 DEF RunInv
  <2> QED BY <2>1, <2>2
<1>3. ASSUME jobStatus' = "running" PROVE started'
  <2>1. CASE \E p \in Plans : SubmitTx(p)
    BY <1>3, <2>1 DEF SubmitTx
  <2>2. ASSUME NEW n \in Node, OneNode(n) PROVE started'
    <3>1. status'[n] \in {"running", "waiting"}
      BY <2>2, <1>t DEF OneNode, Claim, ClaimPoll, ToWaiting, Statuses
    <3> QED BY <1>2, <3>1
  <2>3. ASSUME NEW current \in JobStatus, NEW code \in Codes, NEW h \in Holds,
               Written(current, code, h)
        PROVE  started'
    <3>1. started \/ \E n \in Node : status'[n] \in {"running", "waiting"}
      BY <1>3, <2>3, WrittenFacts
    <3> QED BY <1>1, <1>2, <3>1
  <2>4. CASE OnlySuspects
    BY <1>1, <1>3, <2>4 DEF OnlySuspects, RunInv
  <2> QED BY <2>1, <2>2, <2>3, <2>4, WrittenForms DEF EndInv
<1> QED BY <1>2, <1>3 DEF RunInv

LEMMA RunInvariant == Spec => []RunInv
<1>1. Init => RunInv
  BY DEF Init, RunInv
<1>2. TypeOK /\ TypeOK' /\ EndInv /\ RunInv /\ [Next]_vars => RunInv'
  BY RunStep
<1> QED BY <1>1, <1>2, TypeCorrect, EndInvariant, PTL DEF Spec

LEMMA ContractStep ==
  ASSUME TypeOK, TypeOK', EndInv, RunInv, [Next]_vars
  PROVE  [Contract!Next]_(Contract!vars)
<1> USE DEF Contract!vars
<1>1. ASSUME NEW p \in Plans, SubmitTx(p) PROVE Contract!Next
  BY <1>1 DEF SubmitTx, EndInv, NothingYet, Contract!Next, Contract!Create
<1>2. ASSUME NEW n \in Node, OneNode(n) PROVE [Contract!Next]_(Contract!vars)
  BY <1>2 DEF OneNode, Claim, ClaimPoll, ToWaiting, Contract!Next, Contract!Move, Contract!Live
<1>3. ASSUME NEW current \in JobStatus, NEW code \in Codes, NEW h \in Holds,
             Written(current, code, h)
      PROVE  [Contract!Next]_(Contract!vars)
  <2>1. /\ jobStatus' \in JobStatus
        /\ JobTerminal(jobStatus') <=>
             \A n \in Node : status'[n] = "absent" \/ NodeTerminal(status'[n])
        /\ jobStatus' = "cancelling" => current = "cancelling"
        /\ current = "cancelling" => jobStatus' \in {"cancelling", "cancelled", "failed"}
        /\ jobStatus' = "queued" => ~started
        /\ hold' = IF JobTerminal(jobStatus') /\ h = "open" THEN "closed" ELSE h
    BY <1>3, WrittenFacts
  <2>2. jobStatus \in Contract!Live \cup {"cancelling"}
    BY <1>3 DEF Written, TypeOK, JobStatus, JobTerminal, Contract!Live
  <2>3. h = hold \/ (/\ hold = "none" /\ h = "open" /\ current = jobStatus
                     /\ jobStatus # "cancelling" /\ ~JobTerminal(jobStatus'))
    BY <1>3, <2>1 DEF Written, NodeTerminal
  <2>4. current = jobStatus \/ current = "cancelling"
    BY <1>3 DEF Written
  <2>5. CASE JobTerminal(jobStatus')
    <3>1. hold' = Contract!GiveBack(hold)
      BY <2>1, <2>3, <2>5 DEF Contract!GiveBack
    <3>2. jobStatus = "cancelling" => jobStatus' \in {"cancelled", "failed"}
      BY <2>1, <2>4, <2>5 DEF JobTerminal
    <3> QED BY <2>2, <2>5, <3>1, <3>2 DEF Contract!Next, Contract!End, JobTerminal,
             Contract!JobTerminal
  <2>6. CASE jobStatus' = "cancelling"
    <3>1. current = "cancelling" /\ ~JobTerminal(jobStatus')
      BY <2>1, <2>6 DEF JobTerminal
    <3>2. hold' = hold
      BY <2>1, <2>3, <3>1
    <3> QED BY <2>2, <2>6, <3>2 DEF Contract!Next, Contract!Stop
  <2>7. CASE jobStatus' \in Contract!Live
    <3>1. current = jobStatus /\ jobStatus # "cancelling" /\ ~JobTerminal(jobStatus')
      BY <2>1, <2>4, <2>7 DEF Contract!Live, JobTerminal
    <3>2. hold' = h
      BY <2>1, <3>1
    <3>3. jobStatus = "running" => jobStatus' # "queued"
      BY <2>1 DEF RunInv
    <3> QED BY <2>2, <2>3, <2>7, <3>1, <3>2, <3>3 DEF Contract!Next, Contract!Move
  <2> QED BY <2>1, <2>5, <2>6, <2>7 DEF JobStatus, JobTerminal, Contract!Live
<1>4. ASSUME OnlySuspects PROVE [Contract!Next]_(Contract!vars)
  BY <1>4 DEF OnlySuspects
<1> QED BY <1>1, <1>2, <1>3, <1>4, WrittenForms DEF EndInv

(* The job implements the contract its owner relies on.                      *)
THEOREM JobKeepsItsContract == Spec => ContractSpec
<1>1. Init => Contract!Init
  BY DEF Init, Contract!Init
<1>2. TypeOK /\ TypeOK' /\ EndInv /\ RunInv /\ [Next]_vars => [Contract!Next]_(Contract!vars)
  BY ContractStep
<1> QED BY <1>1, <1>2, TypeCorrect, EndInvariant, RunInvariant, PTL
        DEF Spec, ContractSpec, Contract!Spec
=============================================================================
