-------------------------- MODULE CreditHoldsProofs -------------------------
(***************************************************************************)
(* Theorems about CreditHolds for every number of jobs, grants and callers  *)
(* and any amounts, with their proofs.  Credits are counted one by one      *)
(* (Credits), so a sum is the size of a finite set.                         *)
(***************************************************************************)
EXTENDS CreditHolds, FiniteSetTheorems, TLAPS
-----------------------------------------------------------------------------
(* The credits that key k counts between two amounts.                        *)
Between(k, n, m) == {k} \X (n + 1 .. m)

LEMMA BetweenCount ==
  ASSUME NEW k, NEW n \in Nat, NEW m \in Nat, n <= m
  PROVE  IsFiniteSet(Between(k, n, m)) /\ Cardinality(Between(k, n, m)) = m - n
<1>1. IsFiniteSet(n + 1 .. m) /\ Cardinality(n + 1 .. m) = m - n
  <2>1. n + 1 \in Int /\ m \in Int
    OBVIOUS
  <2>2. Cardinality(n + 1 .. m) = IF n + 1 > m THEN 0 ELSE m - (n + 1) + 1
    BY <2>1, FS_Interval
  <2>3. IsFiniteSet(n + 1 .. m)
    BY <2>1, FS_Interval
  <2> QED BY <2>2, <2>3
<1>2. IsFiniteSet({k}) /\ Cardinality({k}) = 1
  BY FS_Singleton
<1>3. Cardinality({k} \X (n + 1 .. m)) = Cardinality({k}) * Cardinality(n + 1 .. m)
      /\ IsFiniteSet({k} \X (n + 1 .. m))
  BY <1>1, <1>2, FS_Product
<1> QED BY <1>1, <1>2, <1>3 DEF Between

LEMMA Counted ==
  ASSUME NEW count, NEW p
  PROVE  p \in Credits(count) <=> \E k \in DOMAIN count : \E i \in 1 .. count[k] : p = <<k, i>>
  BY DEF Credits

(* What key k counts, and that everything else is counted as before.         *)
Amount(count, k) == IF k \in DOMAIN count /\ count[k] > 0 THEN count[k] ELSE 0

OnlyAt(k, f, g) ==
  /\ DOMAIN f \ {k} = DOMAIN g \ {k} /\ \A j \in DOMAIN f \ {k} : f[j] = g[j]
  /\ k \in DOMAIN f => f[k] \in Int
  /\ k \in DOMAIN g => g[k] \in Int

LEMMA Grown ==
  ASSUME NEW f, NEW g, NEW k, OnlyAt(k, f, g), Amount(f, k) <= Amount(g, k),
         IsFiniteSet(Credits(f))
  PROVE  /\ IsFiniteSet(Credits(g))
         /\ Cardinality(Credits(g)) = Cardinality(Credits(f)) + (Amount(g, k) - Amount(f, k))
<1> USE DEF OnlyAt
<1>n. PICK n \in Nat : n = Amount(f, k)
  BY DEF Amount
<1>m. PICK m \in Nat : m = Amount(g, k)
  BY DEF Amount
<1>1. Credits(g) = Credits(f) \cup Between(k, n, m)
  <2>1. ASSUME NEW p \in Credits(g) PROVE p \in Credits(f) \cup Between(k, n, m)
    <3>1. PICK j \in DOMAIN g : \E i \in 1 .. g[j] : p = <<j, i>>
      BY Counted
    <3>2. PICK i \in 1 .. g[j] : p = <<j, i>>
      BY <3>1
    <3>3. CASE j # k
      <4>1. j \in DOMAIN f /\ i \in 1 .. f[j]
        BY <3>2, <3>3
      <4> QED BY <3>2, <4>1, Counted
    <3>4. CASE j = k /\ i > n
      <4>1. i \in n + 1 .. m
        BY <1>m, <3>2, <3>4 DEF Amount
      <4> QED BY <3>2, <3>4, <4>1 DEF Between
    <3>5. CASE j = k /\ i <= n
      <4>1. k \in DOMAIN f /\ i \in 1 .. f[k]
        BY <1>n, <1>m, <3>5 DEF Amount
      <4> QED BY <3>2, <3>5, <4>1, Counted
    <3> QED BY <3>2, <3>3, <3>4, <3>5
  <2>2. ASSUME NEW p \in Credits(f) PROVE p \in Credits(g)
    <3>1. PICK j \in DOMAIN f : \E i \in 1 .. f[j] : p = <<j, i>>
      BY Counted
    <3>2. PICK i \in 1 .. f[j] : p = <<j, i>>
      BY <3>1
    <3>3. j \in DOMAIN g /\ i \in 1 .. g[j]
      BY <1>n, <1>m, <3>2 DEF Amount
    <3> QED BY <3>2, <3>3, Counted
  <2>3. ASSUME NEW p \in Between(k, n, m) PROVE p \in Credits(g)
    <3>1. PICK i \in n + 1 .. m : p = <<k, i>>
      BY <2>3 DEF Between
    <3>2. k \in DOMAIN g /\ i \in 1 .. g[k]
      BY <1>n, <1>m, <3>1 DEF Amount
    <3> QED BY <3>1, <3>2, Counted
  <2> QED BY <2>1, <2>2, <2>3
<1>2. Credits(f) \cap Between(k, n, m) = {}
  <2>1. ASSUME NEW p \in Credits(f), p \in Between(k, n, m) PROVE FALSE
    <3>1. PICK j \in DOMAIN f : \E i \in 1 .. f[j] : p = <<j, i>>
      BY Counted
    <3>2. PICK i \in 1 .. f[j] : p = <<j, i>>
      BY <3>1
    <3>3. j = k /\ i > n
      BY <2>1, <3>2 DEF Between
    <3> QED BY <1>n, <3>2, <3>3 DEF Amount
  <2> QED BY <2>1
<1>3. IsFiniteSet(Between(k, n, m)) /\ Cardinality(Between(k, n, m)) = m - n
  BY <1>n, <1>m, BetweenCount
<1>4. Cardinality({}) = 0 /\ Cardinality(Credits(f)) \in Nat
  BY FS_EmptySet, FS_CardinalityType
<1>5. /\ IsFiniteSet(Credits(f) \cup Between(k, n, m))
      /\ Cardinality(Credits(f) \cup Between(k, n, m)) =
           Cardinality(Credits(f)) + Cardinality(Between(k, n, m))
             - Cardinality(Credits(f) \cap Between(k, n, m))
  BY <1>3, FS_Union
<1>6. /\ Cardinality(Credits(g)) = Cardinality(Credits(f) \cup Between(k, n, m))
      /\ IsFiniteSet(Credits(g))
      /\ Cardinality(Credits(f) \cap Between(k, n, m)) = 0
  BY <1>1, <1>2, <1>4, <1>5
<1>7. Cardinality(Credits(g)) = Cardinality(Credits(f)) + (m - n)
  BY <1>3, <1>4, <1>5, <1>6
<1> QED BY <1>n, <1>m, <1>6, <1>7

(* A key counts another amount, more or less than before.                    *)
LEMMA Recount ==
  ASSUME NEW f, NEW g, NEW k, OnlyAt(k, f, g), IsFiniteSet(Credits(f))
  PROVE  /\ IsFiniteSet(Credits(g))
         /\ Cardinality(Credits(g)) = Cardinality(Credits(f)) + (Amount(g, k) - Amount(f, k))
<1>n. Amount(f, k) \in Nat /\ Amount(g, k) \in Nat
  BY DEF Amount, OnlyAt
<1>1. CASE Amount(f, k) <= Amount(g, k)
  BY <1>1, Grown
<1>2. CASE Amount(g, k) <= Amount(f, k)
  <2>1. OnlyAt(k, g, f)
    BY DEF OnlyAt
  <2>2. ASSUME NEW p \in Credits(g) PROVE p \in Credits(f)
    <3>1. PICK j \in DOMAIN g : \E i \in 1 .. g[j] : p = <<j, i>>
      BY Counted
    <3>2. PICK i \in 1 .. g[j] : p = <<j, i>>
      BY <3>1
    <3>3. j \in DOMAIN f /\ i \in 1 .. f[j]
      BY <1>2, <3>2 DEF OnlyAt, Amount
    <3> QED BY <3>2, <3>3, Counted
  <2>3. IsFiniteSet(Credits(g))
    BY <2>2, FS_Subset
  <2>4. Cardinality(Credits(f)) = Cardinality(Credits(g)) + (Amount(f, k) - Amount(g, k))
    BY <1>2, <2>1, <2>3, Grown
  <2>5. Cardinality(Credits(f)) \in Nat /\ Cardinality(Credits(g)) \in Nat
    BY <2>3, FS_CardinalityType
  <2> QED BY <1>n, <2>3, <2>4, <2>5
<1> QED BY <1>n, <1>1, <1>2
-----------------------------------------------------------------------------
LEMMA LeastOfTwo ==
  ASSUME NEW a \in Nat, NEW b \in Nat
  PROVE  Least({a, b}) = IF a <= b THEN a ELSE b
<1>1. \E x \in {a, b} : \A y \in {a, b} : x <= y
  OBVIOUS
<1> QED BY <1>1 DEF Least

LEMMA LeastOfThree ==
  ASSUME NEW a \in Nat, NEW b \in Nat, NEW c \in Nat
  PROVE  /\ Least({a, b, c}) \in {a, b, c}
         /\ Least({a, b, c}) <= a /\ Least({a, b, c}) <= b /\ Least({a, b, c}) <= c
<1>1. \E x \in {a, b, c} : \A y \in {a, b, c} : x <= y
  OBVIOUS
<1> QED BY <1>1 DEF Least

(* What a row of credit_holds keeps back.                                    *)
Open(r) == IF r.status = "open" THEN r.remaining ELSE 0

(* The inductive invariant: next to the account's own agreement, a job        *)
(* without a row has nothing in it, and what is counted is finite.            *)
AccountInv ==
  /\ TypeOK /\ HeldIsReserved /\ NothingMinted /\ HoldAccounted
  /\ \A j \in Job : hold[j].status = "none" => hold[j] = NoHold
  /\ IsFiniteSet(Reserved) /\ IsFiniteSet(Granted) /\ IsFiniteSet(Spent)

(* The row of one job changes.                                               *)
LEMMA ReservedStep ==
  ASSUME AccountInv, NEW j \in Job, NEW r \in HoldRow, hold' = [hold EXCEPT ![j] = r]
  PROVE  /\ IsFiniteSet(Reserved')
         /\ Cardinality(Reserved') = Cardinality(Reserved) + (Open(r) - Open(hold[j]))
<1> DEFINE f == [i \in Job |-> IF hold[i].status = "open" THEN hold[i].remaining ELSE 0]
           g == [i \in Job |-> IF hold'[i].status = "open" THEN hold'[i].remaining ELSE 0]
<1>1. hold \in [Job -> HoldRow] /\ hold[j] \in HoldRow /\ hold'[j] = r
      /\ \A i \in Job \ {j} : hold'[i] = hold[i]
  BY DEF AccountInv, TypeOK
<1>2. Open(r) \in Nat /\ Open(hold[j]) \in Nat
  BY <1>1 DEF Open, HoldRow
<1>3. f[j] = Open(hold[j]) /\ g[j] = Open(r) /\ \A i \in Job \ {j} : f[i] = g[i]
  BY <1>1 DEF Open
<1>4. PICK ff, gg : ff = f /\ gg = g
  OBVIOUS
<1>5. DOMAIN ff = Job /\ DOMAIN gg = Job
  BY <1>4
<1>6. OnlyAt(j, ff, gg) /\ Amount(ff, j) = Open(hold[j]) /\ Amount(gg, j) = Open(r)
  BY <1>2, <1>3, <1>4, <1>5 DEF OnlyAt, Amount
<1>7. Reserved = Credits(ff) /\ Reserved' = Credits(gg)
  BY <1>4 DEF Reserved, Credits
<1> QED BY <1>6, <1>7, Recount DEF AccountInv

(* A row is added to the ledger.                                             *)
LEMMA LedgerStep ==
  ASSUME AccountInv, NEW key \in Keys, NEW amount \in Int, ~Exists(key),
         ledger' = Inserted(key, amount)
  PROVE  /\ DOMAIN ledger' \subseteq Keys /\ \A k \in DOMAIN ledger' : ledger'[k] \in Int
         /\ IsFiniteSet(Granted') /\ IsFiniteSet(Spent')
         /\ Cardinality(Granted') - Cardinality(Spent')
              = Cardinality(Granted) - Cardinality(Spent) + amount
<1> DEFINE f == [k \in DOMAIN ledger |-> -ledger[k]]
           g == [k \in DOMAIN ledger' |-> -ledger'[k]]
<1>1. /\ DOMAIN ledger' = DOMAIN ledger \cup {key} /\ key \notin DOMAIN ledger
      /\ ledger'[key] = amount /\ \A k \in DOMAIN ledger : ledger'[k] = ledger[k]
      /\ \A k \in DOMAIN ledger : ledger[k] \in Int
      /\ DOMAIN ledger \subseteq Keys
  BY DEF Inserted, Exists, AccountInv, TypeOK
<1>2. PICK l, ll : l = ledger /\ ll = ledger'
  OBVIOUS
<1>3. OnlyAt(key, l, ll) /\ Amount(l, key) = 0
      /\ Amount(ll, key) = IF amount > 0 THEN amount ELSE 0
  BY <1>1, <1>2 DEF OnlyAt, Amount
<1>4. PICK m, mm : m = f /\ mm = g
  OBVIOUS
<1>5. /\ DOMAIN m = DOMAIN ledger /\ DOMAIN mm = DOMAIN ledger'
      /\ \A k \in DOMAIN ledger : m[k] = mm[k]
      /\ mm[key] = -amount
  BY <1>1, <1>4
<1>6. OnlyAt(key, m, mm) /\ Amount(m, key) = 0
      /\ Amount(mm, key) = IF amount < 0 THEN -amount ELSE 0
  BY <1>1, <1>5 DEF OnlyAt, Amount
<1>7. Granted = Credits(l) /\ Granted' = Credits(ll) /\ Spent = Credits(m) /\ Spent' = Credits(mm)
  BY <1>2, <1>4 DEF Granted, Spent, Credits
<1>8. IsFiniteSet(Granted') /\ Cardinality(Granted') =
        Cardinality(Granted) + ((IF amount > 0 THEN amount ELSE 0) - 0)
  BY <1>3, <1>7, Recount DEF AccountInv
<1>9. IsFiniteSet(Spent') /\ Cardinality(Spent') =
        Cardinality(Spent) + ((IF amount < 0 THEN -amount ELSE 0) - 0)
  BY <1>6, <1>7, Recount DEF AccountInv
<1>10. Cardinality(Granted) \in Nat /\ Cardinality(Spent) \in Nat
  BY FS_CardinalityType DEF AccountInv
<1> QED BY <1>1, <1>8, <1>9, <1>10

(* No job has more set aside than the account holds.                         *)
LEMMA HeldCovers ==
  ASSUME AccountInv, NEW j \in Job
  PROVE  Open(hold[j]) \in Nat /\ Open(hold[j]) <= held
<1>1. PICK n \in Nat : n = Open(hold[j])
  BY DEF Open, AccountInv, TypeOK, HoldRow
<1>2. Between(j, 0, n) \subseteq Reserved
  <2>1. PICK f : f = [i \in Job |-> IF hold[i].status = "open" THEN hold[i].remaining ELSE 0]
    OBVIOUS
  <2>2. DOMAIN f = Job /\ f[j] = n
    BY <1>1, <2>1 DEF Open
  <2>3. ASSUME NEW p \in Between(j, 0, n) PROVE p \in Credits(f)
    <3>1. PICK i \in 0 + 1 .. n : p = <<j, i>>
      BY <2>3 DEF Between
    <3>2. j \in DOMAIN f /\ i \in 1 .. f[j]
      BY <2>2
    <3> QED BY <3>1, <3>2, Counted
  <2>4. Reserved = Credits(f)
    BY <2>1 DEF Reserved
  <2> QED BY <2>3, <2>4
<1>3. Cardinality(Between(j, 0, n)) = n
  <2>1. Cardinality(Between(j, 0, n)) = n - 0
    BY BetweenCount
  <2> QED BY <2>1
<1>4. Cardinality(Between(j, 0, n)) <= Cardinality(Reserved)
  BY <1>2, FS_Subset DEF AccountInv
<1> QED BY <1>1, <1>3, <1>4 DEF AccountInv, HeldIsReserved
-----------------------------------------------------------------------------
(* What a transaction of one job changes: its row, the account and the ledger.*)
LEMMA JobChange ==
  ASSUME AccountInv, NEW j \in Job, NEW r \in HoldRow, hold' = [hold EXCEPT ![j] = r],
         NEW spent \in Nat, NEW key \in Keys, ~Exists(key), ledger' = Inserted(key, -spent),
         balance' \in Nat, held' \in Nat,
         held' = held + (Open(r) - Open(hold[j])),
         balance' + held' = balance + held - spent,
         r.total = r.remaining + r.committed + r.released,
         r.status = "closed" => r.remaining = 0, r.status = "none" => r = NoHold,
         UNCHANGED granting
  PROVE  AccountInv'
<1>1. hold \in [Job -> HoldRow] /\ hold'[j] = r /\ (\A i \in Job \ {j} : hold'[i] = hold[i])
      /\ hold' \in [Job -> HoldRow]
  BY DEF AccountInv, TypeOK
<1>2. /\ IsFiniteSet(Reserved')
      /\ Cardinality(Reserved') = Cardinality(Reserved) + (Open(r) - Open(hold[j]))
  BY ReservedStep
<1>3. -spent \in Int
  OBVIOUS
<1>4. /\ DOMAIN ledger' \subseteq Keys /\ \A k \in DOMAIN ledger' : ledger'[k] \in Int
      /\ IsFiniteSet(Granted') /\ IsFiniteSet(Spent')
      /\ Cardinality(Granted') - Cardinality(Spent')
           = Cardinality(Granted) - Cardinality(Spent) + (-spent)
  BY <1>3, LedgerStep
<1>5. TypeOK'
  BY <1>1, <1>4 DEF AccountInv, TypeOK
<1>6. HeldIsReserved'
  BY <1>2 DEF AccountInv, HeldIsReserved
<1>7. NothingMinted'
  <2>1. /\ Cardinality(Granted) \in Nat /\ Cardinality(Spent) \in Nat
        /\ Cardinality(Granted') \in Nat /\ Cardinality(Spent') \in Nat
    BY <1>4, FS_CardinalityType DEF AccountInv
  <2>2. balance + held + Cardinality(Spent) = Cardinality(Granted)
        /\ balance \in Nat /\ held \in Nat
    BY DEF AccountInv, NothingMinted, TypeOK
  <2>3. balance' + held' + Cardinality(Spent') = Cardinality(Granted')
    BY <1>4, <2>1, <2>2
  <2> QED BY <2>3 DEF NothingMinted
<1>8. HoldAccounted'
  BY <1>1 DEF AccountInv, HoldAccounted
<1>9. \A i \in Job : hold'[i].status = "none" => hold'[i] = NoHold
  BY <1>1 DEF AccountInv
<1> QED BY <1>2, <1>4, <1>5, <1>6, <1>7, <1>8, <1>9 DEF AccountInv

(* The same when nothing is left to write down.                              *)
LEMMA OnlyRow ==
  ASSUME AccountInv, NEW j \in Job, NEW r \in HoldRow, hold' = [hold EXCEPT ![j] = r],
         UNCHANGED <<balance, held, ledger, granting>>, Open(r) = Open(hold[j]),
         r.total = r.remaining + r.committed + r.released,
         r.status = "closed" => r.remaining = 0, r.status = "none" => r = NoHold
  PROVE  AccountInv'
<1>1. hold \in [Job -> HoldRow] /\ hold'[j] = r /\ (\A i \in Job \ {j} : hold'[i] = hold[i])
      /\ hold' \in [Job -> HoldRow]
  BY DEF AccountInv, TypeOK
<1>2. IsFiniteSet(Reserved') /\ Cardinality(Reserved') = Cardinality(Reserved)
  <2>1. Open(r) \in Nat /\ Cardinality(Reserved) \in Nat
    BY <1>1, FS_CardinalityType DEF Open, HoldRow, AccountInv
  <2>2. IsFiniteSet(Reserved')
        /\ Cardinality(Reserved') = Cardinality(Reserved) + (Open(r) - Open(hold[j]))
    BY ReservedStep
  <2> QED BY <2>1, <2>2
<1>3. TypeOK' /\ HeldIsReserved'
  BY <1>1, <1>2 DEF AccountInv, TypeOK, HeldIsReserved
<1>4. NothingMinted' /\ Granted' = Granted /\ Spent' = Spent
  BY DEF AccountInv, NothingMinted, Granted, Spent
<1>5. HoldAccounted'
  BY <1>1 DEF AccountInv, HoldAccounted
<1>6. \A i \in Job : hold'[i].status = "none" => hold'[i] = NoHold
  BY <1>1 DEF AccountInv
<1> QED BY <1>2, <1>3, <1>4, <1>5, <1>6 DEF AccountInv

LEMMA HoldStep ==
  ASSUME AccountInv, NEW j \in Job, NEW kind \in {"hold", "resume"}, NEW amount \in Amounts,
         HoldForJobTx(j, kind, amount)
  PROVE  AccountInv'
<1>t. /\ hold \in [Job -> HoldRow] /\ hold[j] \in HoldRow /\ amount \in Nat
      /\ balance \in Nat /\ held \in Nat
  BY CreditAssumption DEF AccountInv, TypeOK
<1>1. hold' = [hold EXCEPT ![j] = [hold[j] EXCEPT !.status = "open", !.total = @ + amount,
                                                  !.remaining = @ + amount]]
  BY <1>t DEF HoldForJobTx, HoldRow
<1>2. PICK r \in HoldRow : r = [hold[j] EXCEPT !.status = "open", !.total = @ + amount,
                                               !.remaining = @ + amount]
  <2>1. PICK total \in Nat, remaining \in Nat :
          total = hold[j].total + amount /\ remaining = hold[j].remaining + amount
    BY <1>t DEF HoldRow
  <2>2. [hold[j] EXCEPT !.status = "open", !.total = total, !.remaining = remaining] \in HoldRow
    BY <1>t DEF HoldRow
  <2> QED BY <2>1, <2>2
<1>3. /\ r.status = "open" /\ r.total = hold[j].total + amount
      /\ r.remaining = hold[j].remaining + amount /\ r.committed = hold[j].committed
      /\ r.released = hold[j].released
  BY <1>t, <1>2 DEF HoldRow
<1>4. Open(hold[j]) = hold[j].remaining
  BY DEF Open, AccountInv, HoldForJobTx, HoldRow, TypeOK, NoHold
<1>z. PICK spent \in Nat : spent = 0
  OBVIOUS
<1>5. /\ balance' \in Nat /\ held' \in Nat /\ balance' + held' = balance + held - spent
      /\ held' = held + (Open(r) - Open(hold[j]))
  BY <1>t, <1>z, <1>3, <1>4 DEF HoldForJobTx, Open, HoldRow
<1>6. r.total = r.remaining + r.committed + r.released
  BY <1>t, <1>3 DEF AccountInv, HoldAccounted, HoldRow
<1>7. <<j, kind>> \in Keys /\ ~Exists(<<j, kind>>) /\ ledger' = Inserted(<<j, kind>>, -spent)
      /\ UNCHANGED granting
  <2>1. Inserted(<<j, kind>>, -spent) = Inserted(<<j, kind>>, 0)
    BY <1>z DEF Inserted
  <2> QED BY <2>1 DEF HoldForJobTx, Keys
<1>8. hold' = [hold EXCEPT ![j] = r]
  BY <1>1, <1>2
<1> QED BY <1>3, <1>5, <1>6, <1>7, <1>8, JobChange

(* How a commit divides the cost.                                            *)
LEMMA CommitShares ==
  ASSUME AccountInv, NEW j \in Job, NEW amount \in Nat
  PROVE  \E h \in Nat, b \in Nat :
           /\ h = FromHold(j, amount) /\ b = FromBalance(amount - h)
           /\ h <= amount /\ h <= held /\ b <= balance
           /\ b = amount - h \/ (b = balance /\ balance <= amount - h)
           /\ hold[j].status # "closed" =>
                h <= Open(hold[j]) /\ (h = amount \/ h = Open(hold[j]))
<1>t. hold[j] \in HoldRow /\ hold[j].remaining \in Nat /\ balance \in Nat /\ held \in Nat
  BY DEF AccountInv, TypeOK, HoldRow
<1>1. Open(hold[j]) \in Nat /\ Open(hold[j]) <= held
  BY HeldCovers
<1>2. hold[j].status # "closed" => Open(hold[j]) = hold[j].remaining
  BY <1>t DEF Open, AccountInv, NoHold, HoldRow
<1>3. PICK h \in Nat : h = FromHold(j, amount)
  BY <1>t, LeastOfThree DEF FromHold
<1>4. h <= amount /\ h <= hold[j].remaining /\ h <= held
      /\ h \in {amount, hold[j].remaining, held}
  BY <1>t, <1>3, LeastOfThree DEF FromHold
<1>5. PICK rest \in Nat : rest = amount - h
  BY <1>4
<1>6. PICK b \in Nat : b = IF rest <= balance THEN rest ELSE balance
  BY <1>t
<1>7. hold[j].status # "closed" => h = amount \/ h = hold[j].remaining
  BY <1>t, <1>1, <1>2, <1>4
<1>8. b = FromBalance(amount - h)
  <2>1. (IF balance > 0 THEN balance ELSE 0) = balance
    BY <1>t
  <2>2. FromBalance(amount - h) = Least({rest, balance})
    BY <1>5, <2>1 DEF FromBalance
  <2>3. Least({rest, balance}) = b
    BY <1>t, <1>6, LeastOfTwo
  <2> QED BY <2>2, <2>3
<1>9. b <= balance /\ (b = amount - h \/ (b = balance /\ balance <= amount - h))
  BY <1>t, <1>5, <1>6
<1>10. hold[j].status # "closed" =>
         h <= Open(hold[j]) /\ (h = amount \/ h = Open(hold[j]))
  BY <1>2, <1>4, <1>7
<1> QED BY <1>3, <1>4, <1>8, <1>9, <1>10

LEMMA CommitStep ==
  ASSUME AccountInv, NEW j \in Job, NEW a \in Attempt, NEW amount \in Amounts,
         CommitForJobTx(j, a, amount)
  PROVE  AccountInv'
<1>t. /\ hold \in [Job -> HoldRow] /\ hold[j] \in HoldRow /\ amount \in Nat
      /\ balance \in Nat /\ held \in Nat
  BY CreditAssumption DEF AccountInv, TypeOK
<1>1. PICK h \in Nat, b \in Nat :
        /\ h = FromHold(j, amount) /\ b = FromBalance(amount - h)
        /\ h <= held /\ b <= balance /\ h <= Open(hold[j])
  BY <1>t, CommitShares DEF CommitForJobTx
<1>2. /\ balance' = balance - b /\ held' = held - h /\ UNCHANGED granting
      /\ ledger' = Inserted(<<j, a>>, -(h + b)) /\ ~Exists(<<j, a>>) /\ <<j, a>> \in Keys
      /\ hold[j].status # "closed"
      /\ hold' = IF hold[j].status = "none" THEN hold
                 ELSE [hold EXCEPT ![j].remaining = @ - h, ![j].committed = @ + h,
                                   ![j].overage = @ + b]
  BY <1>1 DEF CommitForJobTx, Keys
<1>3. balance' \in Nat /\ held' \in Nat /\ balance' + held' = balance + held - (h + b)
      /\ h + b \in Nat
  BY <1>t, <1>1, <1>2
<1>4. CASE hold[j].status = "none"
  <2>1. Open(hold[j]) = 0 /\ h = 0
    BY <1>1, <1>4 DEF Open
  <2>2. hold' = [hold EXCEPT ![j] = hold[j]] /\ held' = held + (Open(hold[j]) - Open(hold[j]))
    BY <1>t, <1>2, <1>4, <2>1
  <2>3. hold[j].total = hold[j].remaining + hold[j].committed + hold[j].released
        /\ (hold[j].status = "none" => hold[j] = NoHold)
    BY DEF AccountInv, HoldAccounted
  <2> QED BY <1>t, <1>2, <1>3, <1>4, <2>2, <2>3, JobChange
<1>5. CASE hold[j].status = "open"
  <2>1. Open(hold[j]) = hold[j].remaining /\ h <= hold[j].remaining
    BY <1>1, <1>5 DEF Open
  <2>2. hold' = [hold EXCEPT ![j] = [hold[j] EXCEPT !.remaining = @ - h, !.committed = @ + h,
                                                    !.overage = @ + b]]
    BY <1>t, <1>2, <1>5 DEF HoldRow
  <2>3. PICK r \in HoldRow : r = [hold[j] EXCEPT !.remaining = @ - h, !.committed = @ + h,
                                                 !.overage = @ + b]
    <3>1. PICK remaining \in Nat, committed \in Nat, overage \in Nat :
            /\ remaining = hold[j].remaining - h /\ committed = hold[j].committed + h
            /\ overage = hold[j].overage + b
      BY <1>t, <2>1 DEF HoldRow
    <3>2. [hold[j] EXCEPT !.remaining = remaining, !.committed = committed,
                          !.overage = overage] \in HoldRow
      BY <1>t DEF HoldRow
    <3> QED BY <3>1, <3>2
  <2>4. /\ r.status = "open" /\ r.total = hold[j].total
        /\ r.remaining = hold[j].remaining - h /\ r.committed = hold[j].committed + h
        /\ r.released = hold[j].released
    BY <1>t, <1>5, <2>3 DEF HoldRow
  <2>5. held' = held + (Open(r) - Open(hold[j]))
    BY <1>t, <1>2, <2>1, <2>4 DEF Open, HoldRow
  <2>6. r.total = r.remaining + r.committed + r.released
    BY <1>t, <2>4 DEF AccountInv, HoldAccounted, HoldRow
  <2> QED BY <1>2, <1>3, <2>2, <2>3, <2>4, <2>5, <2>6, JobChange
<1> QED BY <1>t, <1>2, <1>4, <1>5 DEF HoldRow

LEMMA ReleaseStep ==
  ASSUME AccountInv, NEW j \in Job, ReleaseJobTx(j)
  PROVE  AccountInv'
<1>t. /\ hold \in [Job -> HoldRow] /\ hold[j] \in HoldRow /\ hold[j].status = "open"
      /\ balance \in Nat /\ held \in Nat
  BY DEF AccountInv, TypeOK, ReleaseJobTx
<1>1. PICK amount \in Nat : amount = hold[j].remaining
  BY <1>t DEF HoldRow
<1>2. Open(hold[j]) = amount /\ amount <= held
  BY <1>t, <1>1, HeldCovers DEF Open
<1>3. Least({hold[j].remaining, held}) = amount
  BY <1>t, <1>1, <1>2, LeastOfTwo
<1>4. /\ hold' = [hold EXCEPT ![j].status = "closed", ![j].remaining = 0,
                              ![j].released = @ + amount]
      /\ balance' = balance + amount /\ held' = held - amount /\ UNCHANGED granting
      /\ ledger' = IF amount > 0 THEN Inserted(<<j, "release">>, 0) ELSE ledger
      /\ ~Exists(<<j, "release">>) /\ <<j, "release">> \in Keys
  BY <1>3 DEF ReleaseJobTx, Keys
<1>5. hold' = [hold EXCEPT ![j] = [hold[j] EXCEPT !.status = "closed", !.remaining = 0,
                                                  !.released = @ + amount]]
  BY <1>t, <1>4 DEF HoldRow
<1>6. PICK r \in HoldRow : r = [hold[j] EXCEPT !.status = "closed", !.remaining = 0,
                                               !.released = @ + amount]
  <2>1. PICK released \in Nat : released = hold[j].released + amount
    BY <1>t DEF HoldRow
  <2>2. [hold[j] EXCEPT !.status = "closed", !.remaining = 0, !.released = released] \in HoldRow
    BY <1>t DEF HoldRow
  <2> QED BY <2>1, <2>2
<1>7. /\ r.status = "closed" /\ r.total = hold[j].total /\ r.remaining = 0
      /\ r.committed = hold[j].committed /\ r.released = hold[j].released + amount
  BY <1>t, <1>6 DEF HoldRow
<1>z. PICK spent \in Nat : spent = 0
  OBVIOUS
<1>8. /\ balance' \in Nat /\ held' \in Nat /\ balance' + held' = balance + held - spent
      /\ held' = held + (Open(r) - Open(hold[j]))
  BY <1>t, <1>z, <1>2, <1>4, <1>7 DEF Open
<1>9. r.total = r.remaining + r.committed + r.released
  BY <1>t, <1>1, <1>7 DEF AccountInv, HoldAccounted, HoldRow
<1>10. hold' = [hold EXCEPT ![j] = r]
  BY <1>5, <1>6
<1>11. CASE amount > 0
  <2>1. Inserted(<<j, "release">>, -spent) = Inserted(<<j, "release">>, 0)
    BY <1>z DEF Inserted
  <2>2. ledger' = Inserted(<<j, "release">>, -spent)
    BY <1>4, <1>11, <2>1
  <2> QED BY <1>4, <1>7, <1>8, <1>9, <1>10, <2>2, JobChange
<1>12. CASE ~(amount > 0)
  <2>1. ledger' = ledger /\ amount = 0
    BY <1>4, <1>12
  <2>2. balance' = balance /\ held' = held /\ Open(r) = Open(hold[j])
    BY <1>t, <1>2, <1>4, <1>7, <2>1 DEF Open
  <2> QED BY <1>4, <1>7, <1>9, <1>10, <2>1, <2>2, OnlyRow
<1> QED BY <1>11, <1>12

LEMMA GrantStep ==
  ASSUME AccountInv, NEW c \in Caller, RechargeApply(c)
  PROVE  AccountInv'
<1>1. PICK req \in granting[c] :
        /\ IF Exists(<<"grant", req[1]>>)
           THEN UNCHANGED <<balance, ledger>>
           ELSE /\ balance' = balance + req[2]
                /\ ledger' = Inserted(<<"grant", req[1]>>, req[2])
        /\ granting' = [granting EXCEPT ![c] = {}]
        /\ UNCHANGED <<held, hold>>
  BY DEF RechargeApply
<1>2. PICK key \in Keys, amount \in Nat : key = <<"grant", req[1]>> /\ amount = req[2]
  <2>1. req \in Grant \X Amounts
    BY <1>1 DEF AccountInv, TypeOK
  <2>2. req[1] \in Grant /\ req[2] \in Nat
    BY <2>1, CreditAssumption
  <2>3. <<"grant", req[1]>> \in Keys
    BY <2>2 DEF Keys
  <2> QED BY <2>2, <2>3
<1>3. granting' \in [Caller -> SUBSET (Grant \X Amounts)] /\ balance \in Nat /\ held \in Nat
  BY <1>1 DEF AccountInv, TypeOK
<1>4. Reserved' = Reserved /\ (HoldAccounted' <=> HoldAccounted) /\ (HeldIsReserved' <=> HeldIsReserved)
  BY <1>1 DEF Reserved, HoldAccounted, HeldIsReserved
<1>5. CASE Exists(key)
  <2>1. UNCHANGED <<balance, held, hold, ledger>>
    BY <1>1, <1>2, <1>5
  <2>2. TypeOK' /\ NothingMinted' /\ Granted' = Granted /\ Spent' = Spent
    BY <1>3, <2>1 DEF AccountInv, TypeOK, NothingMinted, Granted, Spent
  <2> QED BY <1>4, <2>1, <2>2 DEF AccountInv
<1>6. CASE ~Exists(key)
  <2>1. balance' = balance + amount /\ ledger' = Inserted(key, amount) /\ held' = held
        /\ hold' = hold
    BY <1>1, <1>2, <1>6
  <2>2. /\ DOMAIN ledger' \subseteq Keys /\ \A k \in DOMAIN ledger' : ledger'[k] \in Int
        /\ IsFiniteSet(Granted') /\ IsFiniteSet(Spent')
        /\ Cardinality(Granted') - Cardinality(Spent')
             = Cardinality(Granted) - Cardinality(Spent) + amount
    BY <1>6, <2>1, LedgerStep
  <2>3. TypeOK'
    BY <1>3, <2>1, <2>2 DEF AccountInv, TypeOK
  <2>4. NothingMinted'
    <3>1. /\ Cardinality(Granted) \in Nat /\ Cardinality(Spent) \in Nat
          /\ Cardinality(Granted') \in Nat /\ Cardinality(Spent') \in Nat
      BY <2>2, FS_CardinalityType DEF AccountInv
    <3>2. balance + held + Cardinality(Spent) = Cardinality(Granted)
      BY DEF AccountInv, NothingMinted
    <3>3. balance' + held' + Cardinality(Spent') = Cardinality(Granted')
      BY <1>3, <2>1, <2>2, <3>1, <3>2
    <3> QED BY <3>3 DEF NothingMinted
  <2> QED BY <1>4, <2>1, <2>2, <2>3, <2>4 DEF AccountInv
<1> QED BY <1>5, <1>6

LEMMA CheckStep ==
  ASSUME AccountInv, NEW c \in Caller, NEW g \in Grant, NEW amount \in Amounts,
         RechargeCheck(c, g, amount)
  PROVE  AccountInv'
<1>1. UNCHANGED <<balance, held, hold, ledger>>
      /\ granting' \in [Caller -> SUBSET (Grant \X Amounts)]
  BY DEF RechargeCheck, AccountInv, TypeOK
<1> QED BY <1>1 DEF AccountInv, TypeOK, HeldIsReserved, NothingMinted, HoldAccounted, Reserved,
        Granted, Spent
-----------------------------------------------------------------------------
LEMMA AccountStart == Init => AccountInv
<1> SUFFICES ASSUME Init PROVE AccountInv
  OBVIOUS
<1>1. NoHold \in HoldRow /\ NoHold.status = "none" /\ NoHold.total = 0 /\ NoHold.remaining = 0
      /\ NoHold.committed = 0 /\ NoHold.released = 0
  BY DEF NoHold, HoldRow
<1>2. \A j \in Job : hold[j] = NoHold
  BY DEF Init
<1>3. TypeOK
  BY <1>1 DEF Init, TypeOK
<1>4. Reserved = {}
  <2>1. PICK f : f = [j \in Job |-> IF hold[j].status = "open" THEN hold[j].remaining ELSE 0]
    OBVIOUS
  <2>2. \A j \in DOMAIN f : f[j] = 0
    BY <1>1, <1>2, <2>1
  <2>3. ASSUME NEW p \in Credits(f) PROVE FALSE
    BY <2>2, Counted
  <2> QED BY <2>1, <2>3 DEF Reserved
<1>5. DOMAIN ledger = {}
  BY DEF Init
<1>6. Granted = {} /\ Spent = {}
  BY <1>5 DEF Granted, Spent, Credits
<1>7. HoldAccounted
  BY <1>1, <1>2 DEF HoldAccounted
<1> QED BY <1>2, <1>3, <1>4, <1>6, <1>7, FS_EmptySet
        DEF Init, AccountInv, HeldIsReserved, NothingMinted

LEMMA AccountStep ==
  ASSUME AccountInv, [Next]_vars
  PROVE  AccountInv'
<1>1. ASSUME NEW j \in Job, JobStep(j) PROVE AccountInv'
  BY <1>1, HoldStep, CommitStep, ReleaseStep DEF JobStep
<1>2. ASSUME NEW c \in Caller, Recharge(c) PROVE AccountInv'
  BY <1>2, CheckStep, GrantStep DEF Recharge
<1>3. CASE UNCHANGED vars
  BY <1>3 DEF vars, AccountInv, TypeOK, HeldIsReserved, NothingMinted, HoldAccounted, Reserved,
     Granted, Spent
<1> QED BY <1>1, <1>2, <1>3 DEF Next

LEMMA AccountInvariant == Spec => []AccountInv
<1>1. AccountInv /\ [Next]_vars => AccountInv'
  BY AccountStep
<1> QED BY <1>1, AccountStart, PTL DEF Spec

(* The account, the reservations of the user's jobs and what each of them was *)
(* spent on agree after every transaction (HoldForJobTx, CommitForJobTx,      *)
(* ReleaseJobTx, recharge).                                                   *)
THEOREM AccountsAgree == Spec => []AccountAgrees
<1>1. AccountInv => AccountAgrees
  BY DEF AccountInv, AccountAgrees
<1> QED BY <1>1, AccountInvariant, PTL

(* Balance and held are what the ledger granted less what it spent, also when *)
(* callers race for one key.                                                  *)
THEOREM LedgerExplains == Spec => []NothingMinted
<1>1. AccountInv => NothingMinted
  BY DEF AccountInv
<1> QED BY <1>1, AccountInvariant, PTL

LEMMA OrderStep ==
  ASSUME AccountInv, NEW j \in Job, NEW a \in Attempt, NEW amount \in Amounts,
         CommitForJobTx(j, a, amount)
  PROVE  /\ hold[j].overage < hold'[j].overage => hold'[j].remaining = 0
         /\ -ledger'[<<j, a>>] < amount => balance' = 0 /\ hold'[j].remaining = 0
<1>t. /\ hold \in [Job -> HoldRow] /\ hold[j] \in HoldRow /\ amount \in Nat
      /\ balance \in Nat /\ held \in Nat /\ hold[j].remaining \in Nat /\ hold[j].overage \in Nat
  BY CreditAssumption DEF AccountInv, TypeOK, HoldRow
<1>1. PICK h \in Nat, b \in Nat :
        /\ h = FromHold(j, amount) /\ b = FromBalance(amount - h)
        /\ h = amount \/ h = Open(hold[j])
        /\ b = amount - h \/ (b = balance /\ balance <= amount - h)
        /\ h <= amount /\ h <= Open(hold[j])
  BY <1>t, CommitShares DEF CommitForJobTx
<1>2. /\ balance' = balance - b /\ ledger' = Inserted(<<j, a>>, -(h + b))
      /\ hold[j].status # "closed"
      /\ hold' = IF hold[j].status = "none" THEN hold
                 ELSE [hold EXCEPT ![j].remaining = @ - h, ![j].committed = @ + h,
                                   ![j].overage = @ + b]
  BY <1>1 DEF CommitForJobTx
<1>3. Open(hold[j]) = hold[j].remaining /\ (hold[j].status = "none" => hold[j].remaining = 0)
  BY <1>t, <1>2 DEF Open, AccountInv, NoHold, HoldRow
<1>4. ledger'[<<j, a>>] = -(h + b)
  BY <1>2 DEF Inserted
<1>5. hold'[j].remaining = hold[j].remaining - h
      /\ hold'[j].overage \in {hold[j].overage, hold[j].overage + b}
  <2>1. CASE hold[j].status = "none"
    <3>1. hold' = hold /\ h = 0 /\ hold[j].remaining = 0
      BY <1>1, <1>2, <1>3, <2>1
    <3> QED BY <3>1
  <2>2. CASE hold[j].status # "none"
    BY <1>t, <1>2, <2>2 DEF HoldRow
  <2> QED BY <2>1, <2>2
<1>6. ASSUME b > 0 PROVE hold'[j].remaining = 0
  BY <1>t, <1>1, <1>3, <1>5, <1>6
<1>7. ASSUME h + b < amount PROVE balance' = 0 /\ hold'[j].remaining = 0
  BY <1>t, <1>1, <1>2, <1>3, <1>5, <1>7
<1>8. -ledger'[<<j, a>>] = h + b
  BY <1>4
<1> QED BY <1>t, <1>5, <1>6, <1>7, <1>8

(* A commit draws on the reservation, then on the balance, and only then on   *)
(* the platform.                                                              *)
THEOREM CommitsPayInOrder == Spec => PaysInOrder
<1>1. AccountInv /\ [Next]_vars =>
        [\A j \in Job, a \in Attempt, amount \in Amounts :
           CommitForJobTx(j, a, amount) =>
             /\ hold[j].overage < hold'[j].overage => hold'[j].remaining = 0
             /\ -ledger'[<<j, a>>] < amount => balance' = 0 /\ hold'[j].remaining = 0]_vars
  BY OrderStep
<1> QED BY <1>1, AccountInvariant, PTL DEF Spec, PaysInOrder
=============================================================================
