---------------------------- MODULE CreditHolds -----------------------------
(***************************************************************************)
(* One user's credits: the account, the reservation of each of the user's   *)
(* jobs and the ledger (internal/application/creditsvc).  The transactions  *)
(* of one job are serialised by the lock on its row, so each is one action; *)
(* grants lock nothing before they have looked for their key, so a grant is *)
(* two actions, and two grants with one key may race.                       *)
(***************************************************************************)
EXTENDS Integers, FiniteSets

CONSTANTS
  Job,       \* the user's jobs
  Attempt,   \* the node attempts of a job that report a cost
  Grant,     \* keys of top-ups and bonuses
  Caller,    \* concurrent callers of recharge
  Amounts    \* what is granted, reserved or charged at a time, in credits

ASSUME CreditAssumption == Amounts \subseteq Nat

VARIABLES
  balance,   \* credit_accounts.balance
  held,      \* credit_accounts.held
  hold,      \* [Job -> its row in credit_holds; status "none" without a row]
  ledger,    \* credit_ledger: idem_key -> amount
  granting   \* [Caller -> the grant whose key it did not find, or nothing]

vars == <<balance, held, hold, ledger, granting>>

NoHold == [status |-> "none", total |-> 0, remaining |-> 0, committed |-> 0,
           overage |-> 0, released |-> 0]

(* Ledger keys: "job:<id>:hold", ":hold:resume", ":node:<n>:a<k>:commit" and  *)
(* ":release" of a job, and those of grants.                                  *)
Keys == (Job \X (Attempt \cup {"hold", "resume", "release"})) \cup ({"grant"} \X Grant)

Least(S) == CHOOSE x \in S : \A y \in S : x <= y

Exists(key) == key \in DOMAIN ledger

(* insertLedger: the unique index on idem_key admits each key once.           *)
Inserted(key, amount) ==
  [k \in DOMAIN ledger \cup {key} |-> IF k = key THEN amount ELSE ledger[k]]

Init ==
  /\ balance = 0 /\ held = 0
  /\ hold = [j \in Job |-> NoHold]
  /\ ledger = [k \in {} |-> 0]
  /\ granting = [c \in Caller |-> {}]
-----------------------------------------------------------------------------
(* HoldForJobTx, called as the job is created ("hold") and as a review        *)
(* decision is applied ("resume").  Nothing happens for a key that exists; a  *)
(* closed reservation or a balance that is too low rolls everything back.     *)
HoldForJobTx(j, kind, amount) ==
  /\ amount > 0 /\ ~Exists(<<j, kind>>)
  /\ hold[j].status # "closed" /\ balance >= amount
  /\ balance' = balance - amount /\ held' = held + amount
  /\ hold' = [hold EXCEPT ![j].status = "open", ![j].total = @ + amount,
                          ![j].remaining = @ + amount]
  /\ ledger' = Inserted(<<j, kind>>, 0)
  /\ UNCHANGED granting

(* Faulty variant of the share of the reservation: the balance pays first.     *)
BalanceFirst(j, amount) == IF balance >= amount THEN 0 ELSE Least({amount, hold[j].remaining})

(* CommitForJobTx of an attempt that cost amount: the reservation pays first, *)
(* then the balance as far as it goes; the platform bears the rest.  A job    *)
(* has no attempt after its reservation is closed (JobGraph, HoldFollowsJob). *)
FromHold(j, amount) == Least({amount, hold[j].remaining, held})

FromBalance(rest) == Least({rest, IF balance > 0 THEN balance ELSE 0})

CommitForJobTx(j, a, amount) ==
  LET fromHold == FromHold(j, amount)
      fromBalance == FromBalance(amount - fromHold)
  IN
  /\ amount > 0 /\ ~Exists(<<j, a>>) /\ hold[j].status # "closed"
  /\ balance' = balance - fromBalance /\ held' = held - fromHold
  /\ hold' = IF hold[j].status = "none" THEN hold
             ELSE [hold EXCEPT ![j].remaining = @ - fromHold,
                               ![j].committed = @ + fromHold,
                               ![j].overage = @ + fromBalance]
  /\ ledger' = Inserted(<<j, a>>, -(fromHold + fromBalance))
  /\ UNCHANGED granting

(* Faulty variant: the row is closed, the account left as it is.                *)
ClosesOnly(j) ==
  /\ ~Exists(<<j, "release">>) /\ hold[j].status = "open"
  /\ hold' = [hold EXCEPT ![j].status = "closed"]
  /\ UNCHANGED <<balance, held, ledger, granting>>

(* ReleaseJobTx as the job ends: what is left goes back to the balance; a row  *)
(* is written only if something is.                                           *)
ReleaseJobTx(j) ==
  LET amount == Least({hold[j].remaining, held}) IN
  /\ ~Exists(<<j, "release">>) /\ hold[j].status = "open"
  /\ hold' = [hold EXCEPT ![j].status = "closed", ![j].remaining = 0,
                          ![j].released = @ + amount]
  /\ balance' = balance + amount /\ held' = held - amount
  /\ ledger' = IF amount > 0 THEN Inserted(<<j, "release">>, 0) ELSE ledger
  /\ UNCHANGED granting

(* recharge first looks for its key in its snapshot ...                       *)
RechargeCheck(c, g, amount) ==
  /\ amount > 0 /\ granting[c] = {} /\ ~Exists(<<"grant", g>>)
  /\ granting' = [granting EXCEPT ![c] = {<<g, amount>>}]
  /\ UNCHANGED <<balance, held, hold, ledger>>

(* Faulty variant: a ledger without the unique index.                         *)
Overwritten(c) ==
  \E req \in granting[c] :
    /\ balance' = balance + req[2]
    /\ ledger' = Inserted(<<"grant", req[1]>>, req[2])
    /\ granting' = [granting EXCEPT ![c] = {}]
    /\ UNCHANGED <<held, hold>>

(* ... then adds to the balance and inserts its row; if the key has appeared   *)
(* meanwhile the unique index rolls both back.                                 *)
RechargeApply(c) ==
  \E req \in granting[c] :
    /\ IF Exists(<<"grant", req[1]>>)
       THEN UNCHANGED <<balance, ledger>>
       ELSE /\ balance' = balance + req[2]
            /\ ledger' = Inserted(<<"grant", req[1]>>, req[2])
    /\ granting' = [granting EXCEPT ![c] = {}]
    /\ UNCHANGED <<held, hold>>
-----------------------------------------------------------------------------
JobStep(j) ==
  \/ \E kind \in {"hold", "resume"}, amount \in Amounts : HoldForJobTx(j, kind, amount)
  \/ \E a \in Attempt, amount \in Amounts : CommitForJobTx(j, a, amount)
  \/ ReleaseJobTx(j)

Recharge(c) ==
  \/ \E g \in Grant, amount \in Amounts : RechargeCheck(c, g, amount)
  \/ RechargeApply(c)

Next == (\E j \in Job : JobStep(j)) \/ (\E c \in Caller : Recharge(c))

Spec == Init /\ [][Next]_vars
-----------------------------------------------------------------------------
HoldRow == [status : {"none", "open", "closed"}, total : Nat, remaining : Nat,
            committed : Nat, overage : Nat, released : Nat]

(* Types of all variables; neither the account nor a reservation is negative.  *)
TypeOK ==
  /\ balance \in Nat
  /\ held \in Nat
  /\ hold \in [Job -> HoldRow]
  /\ DOMAIN ledger \subseteq Keys /\ \A k \in DOMAIN ledger : ledger[k] \in Int
  /\ granting \in [Caller -> SUBSET (Grant \X Amounts)]

(* The credits a function counts, one by one; an amount below 1 counts none.   *)
Credits(count) == UNION {{k} \X (1 .. count[k]) : k \in DOMAIN count}

Reserved ==
  Credits([j \in Job |-> IF hold[j].status = "open" THEN hold[j].remaining ELSE 0])

(* The account's held credits are the open reservations of the user's jobs, so *)
(* settling one job cannot use up what another has reserved (holds.go:10-12).  *)
HeldIsReserved == held = Cardinality(Reserved)

Granted == Credits(ledger)

Spent == Credits([k \in DOMAIN ledger |-> -ledger[k]])

(* No operation mints or loses credits without a ledger row for the difference:*)
(* what the ledger granted is in the balance, held or spent (AuditHolds,       *)
(* holds.go:173-176).                                                          *)
NothingMinted == balance + held + Cardinality(Spent) = Cardinality(Granted)

(* What was reserved for a job is still reserved, spent or given back, and a   *)
(* closed reservation keeps nothing.                                           *)
HoldAccounted ==
  \A j \in Job :
    /\ hold[j].total = hold[j].remaining + hold[j].committed + hold[j].released
    /\ hold[j].status = "closed" => hold[j].remaining = 0

(* The account, its reservations and what each of them was spent on agree.     *)
AccountAgrees == TypeOK /\ HeldIsReserved /\ HoldAccounted

(* A job spends from the balance only when its reservation is used up, and     *)
(* costs the platform something only when the balance is used up as well       *)
(* (holds.go:67-70).                                                           *)
PaysInOrder ==
  [][\A j \in Job, a \in Attempt, amount \in Amounts :
       CommitForJobTx(j, a, amount) =>
         /\ hold[j].overage < hold'[j].overage => hold'[j].remaining = 0
         /\ -ledger'[<<j, a>>] < amount => balance' = 0 /\ hold'[j].remaining = 0]_vars
=============================================================================
