-------------------------- MODULE EventStreamProofs -------------------------
(***************************************************************************)
(* Theorems about EventStream for every set of jobs, every number of       *)
(* troubles and every set of promises that a theorem does not name, with   *)
(* their proofs.  What a theorem needs of the environment is among its     *)
(* assumptions.                                                            *)
(***************************************************************************)
EXTENDS EventStream, FiniteSetTheorems, SequenceTheorems, WellFoundedInduction, TLAPS
-----------------------------------------------------------------------------
(* The inductive invariant, in parts that hold whatever the environment    *)
(* does: numbers are given once and without a gap, connections are counted *)
(* by what made the tab open them, and what the current connection will    *)
(* deliver ascends from where the tab asked it to begin.                   *)

Numbered == {j \in Jobs : row[j] # "running"}

NumbersInv ==
    /\ nextId \in Nat \ {0} /\ Cardinality(Numbered) = nextId - 1
    /\ \A j \in Jobs \ Numbered : id[j] = 0
    /\ \A j \in Numbered : id[j] \in 1..(nextId - 1)
    /\ \A j, k \in Numbered : id[j] = id[k] => j = k
    /\ \A n \in 1..(nextId - 1) : \E j \in Numbered : id[j] = n
    /\ \A j \in Jobs : published[j] => row[j] = "visible"

ConnsInv ==
    /\ conn <= trouble + 1
    /\ \A c \in dead : c <= conn
    /\ conn \in dead => conn <= trouble
    /\ blocked => conn = 0
    /\ ~blocked /\ conn = 0 => status = "idle"
    /\ ~blocked /\ status = "offline" => conn \in dead
    /\ status = "idle" => conn = 0

Current == conn \in Conns \ dead
Unread(c) == handler[c] \in {"none", "subscribing", "starting"}

(* What connection c has written and the tab has not read.                 *)
Ascends(c) ==
    /\ lastEv # Nothing => lastEv <= lastId[c]
    /\ \A i \in 1..Len(wire[c]) : /\ wire[c][i] <= lastId[c]
                                  /\ lastEv # Nothing => lastEv < wire[c][i]
                                  /\ \A k \in 1..(i - 1) : wire[c][k] < wire[c][i]

WireInv ==
    /\ \A c \in Conns : c > conn => handler[c] = "none"
    /\ \A c \in Conns : Unread(c) \/ handler[c] = "reading" => wire[c] = <<>>
    /\ \A c \in Conns \ dead : handler[c] \notin {"closing", "gone"}
    /\ Current => IF Unread(conn) THEN asked[conn] = lastEv ELSE Ascends(conn)

StreamInv == TypeOK /\ NumbersInv /\ ConnsInv /\ WireInv

(* The parts that need the environment's promises: every listener's        *)
(* subscription is on its way and in force before it has read back,        *)
(* numbers become visible and are published in their order,                *)
(* and nothing is missing between what the tab has applied, what is on the *)
(* wire and what waits in the buffer.                                      *)
\* What Redis does for the hub once it has taken every command.
Wanted == IF commands = <<>> THEN active ELSE commands[Len(commands)]

HubInv ==
    /\ listeners = {c \in Conns : handler[c] \in {"subscribing", "starting", "reading", "live"}}
    /\ \A c \in Conns : handler[c] \in {"starting", "reading", "live"} => Wanted
    /\ \A c \in Conns : handler[c] = "live" => commands = <<>> /\ active
    /\ \A c \in Conns : handler[c] = "subscribing" => listeners = {c}
    /\ \A c \in Conns : handler[c] = "closing" => listeners = {}

OrderInv ==
    \A j \in Jobs : /\ row[j] = "visible" => Earlier(j) \subseteq Visible
                    /\ published[j] => \A k \in Earlier(j) : published[k]

Seen(n) == \E j \in Visible : id[j] = n

(* Connection c continues where the tab is: no number is left out.         *)
Continues(c) ==
    /\ lastEv <= lastId[c]
    /\ \A n \in Ids : lastEv < n /\ n <= lastId[c] => \E i \in 1..Len(wire[c]) : wire[c][i] = n

(* What was published is written, or waits with all that belongs before it. *)
NoGap(c) ==
    /\ \A j \in Jobs : published[j] => id[j] <= lastId[c] \/ \E i \in 1..Len(buf[c]) : buf[c][i] = id[j]
    /\ \A i \in 1..Len(buf[c]) : \A n \in Ids :
         lastId[c] < n /\ n < buf[c][i] => \E k \in 1..(i - 1) : buf[c][k] = n

DeliveryInv ==
    /\ lastEv # Nothing /\ (lastEv # 0 => Seen(lastEv))
    /\ NoneSkipped
    /\ \A c \in Conns : \A i \in 1..Len(buf[c]) : Seen(buf[c][i])
    /\ \A c \in Conns : handler[c] = "none" => buf[c] = <<>>
    /\ \A c \in Conns : \A i \in 1..Len(wire[c]) : Seen(wire[c][i])
    /\ Current /\ handler[conn] \in {"reading", "live"} => Continues(conn)
    /\ Current /\ handler[conn] = "live" => NoGap(conn)

KeptInv == HubInv /\ OrderInv /\ DeliveryInv
-----------------------------------------------------------------------------
(* Small facts about numbers and sequences.                                *)

LEMMA Raised == \A x, y, z \in Nat : y <= z => (x <= y => x <= z) /\ (x <= y + 1 => x <= z + 1)
  OBVIOUS

LEMMA Appended ==
  ASSUME NEW S, NEW s \in Seq(S), NEW e \in S
  PROVE  /\ Len(s) \in Nat /\ Len(Append(s, e)) = Len(s) + 1 /\ Append(s, e)[Len(s) + 1] = e
         /\ \A i \in 1..Len(s) : Append(s, e)[i] = s[i] /\ s[i] \in S
  OBVIOUS

LEMMA Joined ==
  ASSUME NEW S, NEW s \in Seq(S), NEW t \in Seq(S)
  PROVE  Len(s) \in Nat /\ Len(s \o t) \in Nat /\ Len(s \o t) >= Len(s)
  OBVIOUS

LEMMA Tailed ==
  ASSUME NEW S, NEW s \in Seq(S), s # <<>>
  PROVE  /\ Len(s) \in Nat \ {0} /\ Len(Tail(s)) = Len(s) - 1
         /\ \A i \in 1..Len(Tail(s)) : Tail(s)[i] = s[i + 1]
         /\ Head(s) = s[1] /\ s[1] \in S
  OBVIOUS

LEMMA HasLast ==
  ASSUME NEW S, NEW s \in Seq(S), NEW i \in 1..Len(s)
  PROVE  Len(s) \in 1..Len(s) /\ s # <<>>
  OBVIOUS

(* A bounded set of numbers has a greatest, and can be listed in order.    *)

LEMMA Greatest ==
  ASSUME NEW T \in SUBSET Nat, T # {}, NEW b \in Nat, \A t \in T : t <= b
  PROVE  \E m \in T : \A t \in T : t <= m
<1> DEFINE U == {n \in Nat : \A t \in T : t <= n}
<1>1. U \subseteq Nat /\ U # {}
  OBVIOUS
<1>2. IsWellFoundedOn(OpToRel(<, Nat), Nat)
  BY NatLessThanWellFounded
<1>3. PICK m \in U : \A n \in U : ~ (<<n, m>> \in OpToRel(<, Nat))
  BY <1>1, <1>2, WFMin
<1>4. m \in U /\ \A n \in U : ~ (n < m)
  BY <1>1, <1>3 DEF OpToRel
<1>5. m \in T
  <2> SUFFICES ASSUME m \notin T PROVE FALSE
    OBVIOUS
  <2>1. m # 0
    <3>1. PICK t \in T : t \in Nat
      OBVIOUS
    <3>2. t <= m /\ t # m
      BY <1>4, <3>1
    <3> QED BY <3>1, <3>2
  <2>2. m - 1 \in U /\ m - 1 < m
    BY <2>1, <1>4
  <2> QED BY <2>2, <1>4
<1> QED BY <1>5, <1>4

Ordered(T, f) == \A m, n \in DOMAIN f : m < n => f[m] < f[n]

LEMMA Listed ==
  ASSUME NEW b \in Nat, NEW S \in SUBSET (0..b)
  PROVE  /\ IsFiniteSet(S) /\ Cardinality(S) \in Nat
         /\ \E f \in [1..Cardinality(S) -> S] : Ordered(S, f)
<1>1. \A T \in SUBSET (0..b) : IsFiniteSet(T) /\ Cardinality(T) \in Nat
  <2>1. IsFiniteSet(0..b)
    BY FS_Interval
  <2> QED BY <2>1, FS_Subset, FS_CardinalityType
<1> DEFINE Has(T) == \E f \in [1..Cardinality(T) -> T] : Ordered(T, f)
           Bad == {n \in Nat : \E T \in SUBSET (0..b) : Cardinality(T) = n /\ ~Has(T)}
<1>2. Bad = {}
  <2> SUFFICES ASSUME Bad # {} PROVE FALSE
    OBVIOUS
  <2>1. Bad \subseteq Nat
    OBVIOUS
  <2>2. IsWellFoundedOn(OpToRel(<, Nat), Nat)
    BY NatLessThanWellFounded
  <2>3. PICK n \in Bad : \A m \in Bad : ~ (<<m, n>> \in OpToRel(<, Nat))
    <3> HIDE DEF Bad
    <3> QED BY <2>1, <2>2, WFMin
  <2>4. n \in Nat /\ \A m \in Bad : ~ (m < n)
    BY <2>1, <2>3 DEF OpToRel
  <2>5. PICK T \in SUBSET (0..b) : Cardinality(T) = n /\ ~Has(T)
    BY <2>3
  <2>6. n # 0
    <3> SUFFICES ASSUME n = 0 PROVE FALSE
      OBVIOUS
    <3>1. [i \in 1..0 |-> 0] \in [1..0 -> T] /\ Ordered(T, [i \in 1..0 |-> 0])
      BY DEF Ordered
    <3> QED BY <3>1, <2>5
  <2>7. T # {}
    BY <2>5, <2>6, FS_EmptySet
  <2>8. PICK m \in T : \A t \in T : t <= m
    <3>1. T \in SUBSET Nat /\ b \in Nat /\ \A t \in T : t <= b
      BY <2>5
    <3> HIDE DEF Bad
    <3> QED BY <3>1, <2>7, Greatest
  <2> DEFINE R == T \ {m}
  <2>9. R \in SUBSET (0..b) /\ Cardinality(R) = n - 1
    BY <1>1, <2>5, <2>8, FS_RemoveElement
  <2>10. Has(R)
    <3>1. n - 1 \in Nat /\ n - 1 < n
      BY <2>4, <2>6
    <3>2. n - 1 \notin Bad
      BY <3>1, <2>4
    <3> QED BY <3>1, <3>2, <2>9
  <2>11. PICK f \in [1..(n - 1) -> R] : Ordered(R, f)
    BY <2>9, <2>10
  <2> DEFINE g == [i \in 1..n |-> IF i = n THEN m ELSE f[i]]
  <2>12. g \in [1..n -> T]
    <3> SUFFICES ASSUME NEW i \in 1..n PROVE g[i] \in T
      OBVIOUS
    <3>1. CASE i = n
      BY <3>1, <2>8
    <3>2. CASE i # n
      <4>1. i \in 1..(n - 1)
        BY <3>2, <2>4
      <4> QED BY <4>1, <3>2, <2>11
    <3> QED BY <3>1, <3>2
  <2>13. Ordered(T, g)
    <3> SUFFICES ASSUME NEW i \in 1..n, NEW k \in 1..n, i < k PROVE g[i] < g[k]
      BY DEF Ordered
    <3>1. i \in 1..(n - 1)
      BY <2>4
    <3>2. g[i] = f[i] /\ f[i] \in T /\ f[i] # m
      BY <3>1, <2>4, <2>11
    <3>3. CASE k = n
      <4>3. f[i] <= m
        BY <3>2, <2>8
      <4>4. T \subseteq Nat
        OBVIOUS
      <4>1. f[i] \in Nat /\ m \in Nat /\ f[i] <= m
        BY <3>2, <2>8, <4>3, <4>4
      <4>2. g[k] = m
        BY <3>3
      <4> HIDE DEF g
      <4> QED BY <4>1, <4>2, <3>2
    <3>4. CASE k # n
      <4>1. k \in 1..(n - 1) /\ g[k] = f[k]
        BY <3>4, <2>4
      <4> QED BY <4>1, <3>1, <3>2, <2>11 DEF Ordered
    <3> QED BY <3>3, <3>4
  <2>14. Has(T)
    BY <2>12, <2>13, <2>5
  <2> QED BY <2>14, <2>5
<1>3. Has(S)
  <2>1. Cardinality(S) \in Nat
    BY <1>1
  <2>2. Cardinality(S) \notin Bad
    BY <1>2
  <2> QED BY <2>1, <2>2
<1> QED BY <1>1, <1>3

(* The list has every number of the set.                                   *)
LEMMA AscendingLists ==
  ASSUME NEW b \in Nat, NEW S \in SUBSET (0..b)
  PROVE  LET f == Ascending(S) IN
         /\ f \in Seq(S) /\ Ordered(S, f)
         /\ \A s \in S : \E i \in 1..Len(f) : f[i] = s
<1> DEFINE f == Ascending(S)  k == Cardinality(S)
<1>1. IsFiniteSet(S) /\ k \in Nat
  BY Listed
<1>2. f \in [1..k -> S] /\ Ordered(S, f)
  <2>1. \E h \in [1..k -> S] : \A m, n \in DOMAIN h : m < n => h[m] < h[n]
    BY Listed DEF Ordered
  <2> QED BY <2>1 DEF Ascending, Ordered
<1> HIDE DEF f
<1>3. f \in Seq(S) /\ Len(f) = k /\ DOMAIN f = 1..k
  BY <1>1, <1>2
<1>4. f \in Injection(1..k, S)
  <2>1. ASSUME NEW m \in 1..k, NEW n \in 1..k, f[m] = f[n] PROVE m = n
    <3>1. f[m] \in S /\ f[n] \in S
      BY <1>2
    <3>6. S \subseteq Nat
      OBVIOUS
    <3>5. f[m] \in Nat /\ f[n] \in Nat
      BY <3>1, <3>6
    <3>2. m < n => f[m] < f[n]
      BY <1>2, <1>3 DEF Ordered
    <3>3. n < m => f[n] < f[m]
      BY <1>2, <1>3 DEF Ordered
    <3>4. m \in Nat /\ n \in Nat
      BY <1>1
    <3> HIDE DEF k
    <3> QED BY <3>2, <3>3, <3>4, <3>5, <2>1
  <2>2. \A m, n \in 1..k : f[m] = f[n] => m = n
    BY <2>1
  <2>3. f \in [1..k -> S]
    BY <1>2
  <2> HIDE DEF k
  <2>4. IsInjective(f)
    BY <2>2, <2>3 DEF IsInjective
  <2> QED BY <2>3, <2>4 DEF Injection
<1>5. IsFiniteSet(1..k) /\ Cardinality(1..k) = k
  BY <1>1, FS_Interval
<1>6. f \in Surjection(1..k, S)
  BY <1>1, <1>4, <1>5, FS_Injection
<1>7. \A s \in S : \E i \in 1..Len(f) : f[i] = s
  BY <1>6, <1>3 DEF Surjection
<1> QED BY <1>2, <1>3, <1>7 DEF f
-----------------------------------------------------------------------------
LEMMA CountedJobs == Cardinality(Jobs) \in Nat
  BY JobsAssumption, FS_CardinalityType

(* What GET /stream reads back after number n.                             *)
LEMMA ReadBack ==
  ASSUME TypeOK, NEW n \in Ids
  PROVE  LET e == EventsSince(n) IN
         /\ e \in Seq(Ids)
         /\ \A i \in 1..Len(e) : n < e[i] /\ Seen(e[i])
         /\ \A i \in 1..Len(e) : \A k \in 1..(i - 1) : e[k] < e[i]
         /\ \A m \in Ids : n < m /\ Seen(m) => \E i \in 1..Len(e) : e[i] = m
<1> DEFINE S == {id[j] : j \in {k \in Visible : id[k] > n}}
           e == Ascending(S)
<1>1. S \in SUBSET Ids /\ S \in SUBSET (0..Cardinality(Jobs))
  BY DEF TypeOK, Visible, Ids
<1>2. \A s \in S : n < s /\ Seen(s)
  BY DEF TypeOK, Visible, Ids, Seen
<1>3. \A m \in Ids : n < m /\ Seen(m) => m \in S
  BY DEF Seen, Visible, Ids
<1> HIDE DEF S
<1>4. e \in Seq(S) /\ Ordered(S, e) /\ \A s \in S : \E i \in 1..Len(e) : e[i] = s
  BY <1>1, CountedJobs, AscendingLists
<1> HIDE DEF e
<1>5. e \in Seq(Ids)
  BY <1>1, <1>4, SeqMonotonic
<1>6. \A i \in 1..Len(e) : e[i] \in S
  BY <1>4
<1>7. \A i \in 1..Len(e) : \A k \in 1..(i - 1) : e[k] < e[i]
  <2> SUFFICES ASSUME NEW i \in 1..Len(e), NEW k \in 1..(i - 1) PROVE e[k] < e[i]
    OBVIOUS
  <2>1. Len(e) \in Nat /\ DOMAIN e = 1..Len(e)
    BY <1>4
  <2>2. k \in DOMAIN e /\ i \in DOMAIN e /\ k < i
    BY <2>1
  <2> QED BY <2>2, <1>4 DEF Ordered
<1>8. e = EventsSince(n)
  BY DEF e, S, EventsSince
<1> QED BY <1>2, <1>3, <1>4, <1>5, <1>6, <1>7, <1>8

LEMMA FirstIsANumber ==
  ASSUME TypeOK, NEW c \in Conns
  PROVE  FirstId(c) \in Ids
<1>1. LatestEventId \in Ids
  <2>1. CASE Visible = {}
    BY <2>1, CountedJobs DEF LatestEventId, Ids
  <2>2. CASE Visible # {}
    <3> DEFINE S == {id[j] : j \in Visible}
    <3>1. S \in SUBSET Nat /\ S \in SUBSET Ids /\ S # {}
      <4>1. \A j \in Visible : id[j] \in Ids
        BY DEF TypeOK, Visible
      <4>2. Ids \subseteq Nat
        BY CountedJobs DEF Ids
      <4>3. PICK j \in Visible : id[j] \in S
        BY <2>2
      <4> QED BY <4>1, <4>2, <4>3
    <3>2. \A s \in S : s <= Cardinality(Jobs)
      BY CountedJobs DEF TypeOK, Ids, Visible
    <3>3. PICK m \in S : \A s \in S : s <= m
      <4> HIDE DEF S
      <4> QED BY <3>1, <3>2, CountedJobs, Greatest
    <3>4. \E n \in Ids : (\E j \in Visible : id[j] = n) /\ (\A j \in Visible : id[j] <= n)
      BY <3>1, <3>3
    <3> QED BY <3>4, <2>2 DEF LatestEventId
  <2> QED BY <2>1, <2>2
<1> QED BY <1>1 DEF FirstId, TypeOK
-----------------------------------------------------------------------------
(* Types and numbers.                                                      *)

LEMMA InitStream == Init => StreamInv
<1> SUFFICES ASSUME Init PROVE StreamInv
  OBVIOUS
<1> USE CountedJobs, KeptAssumption, JobsAssumption
<1>1. TypeOK
  <2>1. /\ handler \in [Conns -> {"none", "subscribing", "starting", "reading", "live", "closing", "gone"}]
        /\ listeners \subseteq Conns /\ active \in BOOLEAN
        /\ status \in {"idle", "connecting", "open", "offline"} /\ conn \in 0..(MaxTrouble + 1)
        /\ lastEv \in Ids \cup {Nothing}
    <3>1. 1 \in Conns /\ 0 \in Ids /\ 0 \in 0..(MaxTrouble + 1) /\ 1 \in 0..(MaxTrouble + 1)
      BY DEF Conns, Ids
    <3>2. CASE WarmTab
      BY <3>1, <3>2 DEF WarmTab
    <3>3. CASE ColdTab
      BY <3>1, <3>3 DEF ColdTab
    <3> QED BY <3>2, <3>3 DEF Init
  <2>2. page \in [Queries -> {Nothing, {}}]
    BY DEF Init, WarmTab, ColdTab
  <2>3. /\ page \in [Queries -> {Nothing} \cup SUBSET Jobs]
        /\ \A q \in Queries : page[q] = Nothing \/ page[q] \subseteq Shows(q)
    BY <2>2
  <2>4. /\ fetch \in [Queries -> [at : {"idle", "sent", "read"}, got : SUBSET Jobs]]
        /\ \A q \in Queries : fetch[q].got \subseteq Shows(q)
    BY DEF Init
  <2>5. /\ row \in [Jobs -> {"running", "inserted", "visible"}]
        /\ id \in [Jobs -> Ids] /\ nextId \in 1..(Cardinality(Jobs) + 1)
        /\ published \in [Jobs -> BOOLEAN]
        /\ lastId \in [Conns -> Ids] /\ asked \in [Conns -> Ids \cup {Nothing}]
        /\ buf \in [Conns -> Seq(Ids)] /\ wire \in [Conns -> Seq(Ids)]
        /\ dead \subseteq Conns /\ applied \subseteq Jobs
        /\ blocked \in BOOLEAN /\ trouble \in 0..MaxTrouble /\ commands \in Seq(BOOLEAN)
    BY DEF Init, Ids
  <2> QED BY <2>1, <2>3, <2>4, <2>5 DEF TypeOK
<1>2. NumbersInv
  <2>1. Numbered = {}
    BY DEF Init, Numbered
  <2> QED BY <2>1, FS_EmptySet DEF Init, NumbersInv
<1>3. ConnsInv
  BY DEF Init, WarmTab, ColdTab, ConnsInv
<1>4. WireInv
  BY DEF Init, WarmTab, ColdTab, WireInv, Current, Unread, Ascends, Conns, Ids
<1> QED BY <1>1, <1>2, <1>3, <1>4 DEF StreamInv
LEMMA TypeStep ==
  ASSUME StreamInv, [Next]_vars
  PROVE  TypeOK'
<1> USE CountedJobs, KeptAssumption, JobsAssumption
<1>0. TypeOK /\ NumbersInv /\ ConnsInv /\ WireInv
  BY DEF StreamInv
<1>1. ASSUME NEW j \in Jobs, Insert(j) PROVE TypeOK'
  <2>1. nextId <= Cardinality(Jobs)
    <3>1. Numbered \in SUBSET Jobs /\ j \notin Numbered
      BY <1>1 DEF Insert, Numbered
    <3>2. IsFiniteSet(Jobs)
      OBVIOUS
    <3>3. Cardinality(Numbered) <= Cardinality(Jobs) /\ Cardinality(Numbered) # Cardinality(Jobs)
          /\ Cardinality(Numbered) \in Nat
      BY <3>1, <3>2, FS_Subset, FS_CardinalityType
    <3> QED BY <3>3, <1>0 DEF NumbersInv
  <2>2. nextId' \in 1..(Cardinality(Jobs) + 1) /\ id' \in [Jobs -> Ids]
    BY <2>1, <1>0, <1>1 DEF Insert, TypeOK, Ids
  <2>3. row' \in [Jobs -> {"running", "inserted", "visible"}]
    BY <1>0, <1>1 DEF Insert, TypeOK
  <2> QED BY <2>2, <2>3, <1>0, <1>1 DEF Insert, TypeOK, hub, serving, tab, cache
<1>2. ASSUME NEW j \in Jobs, Commit(j) PROVE TypeOK'
  BY <1>0, <1>2 DEF Commit, TypeOK, hub, serving, tab, cache
<1>3. ASSUME NEW j \in Jobs, Publish(j) PROVE TypeOK'
  <2>1. ASSUME NEW c \in Conns PROVE Append(buf[c], id[j]) \in Seq(Ids)
    BY <1>0, AppendProperties DEF TypeOK
  <2>2. buf' \in [Conns -> Seq(Ids)]
    <3>1. PICK fansOut :
            buf' = [c \in Conns |-> IF fansOut /\ c \in listeners /\ HasRoom(c)
                                    THEN Append(buf[c], id[j]) ELSE buf[c]]
      BY <1>3 DEF Publish
    <3>2. buf \in [Conns -> Seq(Ids)]
      BY <1>0 DEF TypeOK
    <3> QED BY <2>1, <3>1, <3>2
  <2>3. published' \in [Jobs -> BOOLEAN]
    BY <1>0, <1>3 DEF Publish, TypeOK
  <2>4. trouble' \in 0..MaxTrouble
    <3>1. trouble \in 0..MaxTrouble /\ (trouble' = trouble \/ (trouble < MaxTrouble /\ trouble' = trouble + 1))
      BY <1>0, <1>3 DEF Publish, TypeOK
    <3> QED BY <3>1
  <2>5. UNCHANGED <<row, id, nextId, hub, handler, lastId, wire, tab, dead, cache, blocked>>
    BY <1>3 DEF Publish
  <2> QED BY <2>2, <2>3, <2>4, <2>5, <1>0 DEF TypeOK, hub, tab, cache
<1>4. ASSUME NEW c \in Conns, Subscribe(c) PROVE TypeOK'
  BY <1>0, <1>4 DEF Subscribe, TypeOK, store, tab, cache
<1>5. ASSUME NEW c \in Conns, Subscribed(c) PROVE TypeOK'
  <2>1. commands' \in Seq(BOOLEAN)
    BY <1>0, <1>5, AppendProperties DEF Subscribed, TypeOK
  <2> QED BY <2>1, <1>0, <1>5 DEF Subscribed, TypeOK, store, tab, cache
<1>6. ASSUME NEW c \in Conns, Start(c) PROVE TypeOK'
  BY <1>0, <1>6, FirstIsANumber DEF Start, TypeOK, store, hub, tab, cache
<1>7. ASSUME NEW c \in Conns, CatchUp(c) PROVE TypeOK'
  <2> DEFINE missed == EventsSince(lastId[c])
  <2>1. lastId[c] \in Ids /\ wire[c] \in Seq(Ids)
    BY <1>0 DEF TypeOK
  <2>2. missed \in Seq(Ids)
    BY <2>1, <1>0, ReadBack
  <2> HIDE DEF missed
  <2>3. wire[c] \o missed \in Seq(Ids)
    BY <2>1, <2>2, ConcatProperties
  <2>4. missed # <<>> => missed[Len(missed)] \in Ids
    <3>1. missed # <<>> => Len(missed) \in 1..Len(missed)
      BY <2>2, EmptySeq
    <3> QED BY <3>1, <2>2, ElementOfSeq
  <2>5. /\ wire' = [wire EXCEPT ![c] = wire[c] \o missed]
        /\ lastId' = [lastId EXCEPT ![c] = IF missed = <<>> THEN lastId[c] ELSE missed[Len(missed)]]
        /\ handler' = [handler EXCEPT ![c] = "live"]
        /\ UNCHANGED <<store, hub, buf, tab, dead, cache, blocked, trouble>>
    BY <1>7 DEF CatchUp, missed
  <2>6. wire' \in [Conns -> Seq(Ids)] /\ lastId' \in [Conns -> Ids]
    BY <2>1, <2>3, <2>4, <2>5, <1>0 DEF TypeOK
  <2> QED BY <2>5, <2>6, <1>0 DEF TypeOK, store, hub, tab, cache
<1>8. ASSUME NEW c \in Conns, Live(c) PROVE TypeOK'
  <2>1. Tail(buf[c]) \in Seq(Ids) /\ Head(buf[c]) \in Ids
    BY <1>0, <1>8, HeadTailProperties DEF Live, TypeOK
  <2>2. Append(wire[c], Head(buf[c])) \in Seq(Ids)
    BY <2>1, <1>0, AppendProperties DEF TypeOK
  <2>3. buf' \in [Conns -> Seq(Ids)] /\ wire' \in [Conns -> Seq(Ids)] /\ lastId' \in [Conns -> Ids]
    BY <2>1, <2>2, <1>0, <1>8 DEF Live, TypeOK
  <2> QED BY <2>3, <1>0, <1>8 DEF Live, TypeOK, store, hub, tab, cache
<1>9. ASSUME NEW c \in Conns, Remove(c) PROVE TypeOK'
  <2>1. <<>> \in Seq(Ids) /\ 0 \in Ids
    BY EmptySeq, CountedJobs DEF Ids
  <2> QED BY <2>1, <1>0, <1>9 DEF Remove, TypeOK, store, cache
<1>10. ASSUME NEW c \in Conns, Unsubscribed(c) PROVE TypeOK'
  BY <1>0, <1>10 DEF Unsubscribed, TypeOK, store, tab, cache
<1>11. ASSUME Connect \/ Reconnect PROVE TypeOK'
  <2>1. Dial /\ trouble' \in 0..MaxTrouble
    BY <1>0, <1>11 DEF Connect, Reconnect, TypeOK
  <2>2. ~blocked => conn + 1 \in Conns
    <3>1. conn \in Nat /\ trouble \in 0..MaxTrouble
      BY <1>0 DEF TypeOK
    <3>2. ~blocked => conn <= trouble \/ (conn <= trouble + 1 /\ trouble < MaxTrouble)
      BY <3>1, <1>0, <1>11 DEF Connect, Reconnect, ConnsInv
    <3>3. conn <= trouble \/ (conn <= trouble + 1 /\ trouble < MaxTrouble) => conn + 1 \in 1..(MaxTrouble + 1)
      BY <3>1, KeptAssumption
    <3> QED BY <3>2, <3>3, Zenon DEF Conns
  <2>5. dead' \subseteq Conns
    BY <2>1, <1>0 DEF Dial, TypeOK
  <2>6. conn' = conn \/ conn' \in Conns
    BY <2>1, <2>2 DEF Dial
  <2>3. conn' \in 0..(MaxTrouble + 1) /\ dead' \subseteq Conns
    BY <2>5, <2>6, <1>0 DEF TypeOK, Conns
  <2>4. asked' \in [Conns -> Ids \cup {Nothing}] /\ status' \in {"idle", "connecting", "open", "offline"}
    BY <2>1, <2>2, <1>0 DEF Dial, TypeOK
  <2> QED BY <2>1, <2>3, <2>4, <1>0 DEF Dial, TypeOK, store, hub, serving, cache
<1>12. ASSUME Opened \/ Offline PROVE TypeOK'
  BY <1>0, <1>12 DEF Opened, Offline, TypeOK, store, hub, serving, cache
<1>13. ASSUME Receive PROVE TypeOK'
  <2>1. wire[conn] \in Seq(Ids) /\ wire[conn] # <<>>
    BY <1>0, <1>13 DEF Receive, TypeOK
  <2>2. Frame \in Ids /\ Tail(wire[conn]) \in Seq(Ids)
    BY <2>1, HeadTailProperties DEF Frame
  <2>3. lastEv' \in Ids \cup {Nothing} /\ wire' \in [Conns -> Seq(Ids)] /\ applied' \subseteq Jobs
    BY <2>2, <1>0, <1>13 DEF Receive, TypeOK
  <2>4. /\ fetch' \in [Queries -> [at : {"idle", "sent", "read"}, got : SUBSET Jobs]]
        /\ \A q \in Queries : fetch'[q].got \subseteq Shows(q)
    <3>1. PICK j \in Jobs : ApplyEvent(j)
      BY <1>13 DEF Receive
    <3> QED BY <3>1, <1>0 DEF ApplyEvent, Invalidated, TypeOK
  <2> QED BY <2>3, <2>4, <1>0, <1>13 DEF Receive, TypeOK, store, hub
<1>14. ASSUME Lose PROVE TypeOK'
  BY <1>0, <1>14 DEF Lose, TypeOK, store, hub, serving, tab, cache
<1>15. ASSUME NEW q \in Queries, Querying(q) PROVE TypeOK'
  <2>1. Visible \cap Shows(q) \in SUBSET Jobs
    BY DEF Visible
  <2>2. /\ fetch' \in [Queries -> [at : {"idle", "sent", "read"}, got : SUBSET Jobs]]
        /\ \A p \in Queries : fetch'[p].got \subseteq Shows(p)
    <3>1. CASE Fetch(q)
      BY <3>1, <1>0 DEF Fetch, TypeOK
    <3>2. CASE Read(q)
      <4>1. fetch' = [fetch EXCEPT ![q] = [at |-> "read", got |-> Visible \cap Shows(q)]]
        BY <3>2 DEF Read, Answer
      <4> QED BY <4>1, <2>1, <1>0 DEF TypeOK
    <3>3. CASE Show(q)
      BY <3>3, <1>0 DEF Show, TypeOK
    <3> QED BY <3>1, <3>2, <3>3, <1>15 DEF Querying
  <2>3. /\ page' \in [Queries -> {Nothing} \cup SUBSET Jobs]
        /\ \A p \in Queries : page'[p] = Nothing \/ page'[p] \subseteq Shows(p)
    BY <1>0, <1>15 DEF Querying, Fetch, Read, Show, TypeOK
  <2> QED BY <2>2, <2>3, <1>0, <1>15 DEF Querying, Fetch, Read, Show, TypeOK, store, hub, serving, tab
<1>16. CASE UNCHANGED vars
  BY <1>0, <1>16 DEF vars, TypeOK, store, hub, serving, tab, cache
<1>17. ASSUME RedisTakes PROVE TypeOK'
  <2>1. Head(commands) \in BOOLEAN /\ Tail(commands) \in Seq(BOOLEAN)
    BY <1>0, <1>17, HeadTailProperties DEF RedisTakes, TypeOK
  <2>2. active' \in BOOLEAN /\ commands' \in Seq(BOOLEAN)
        /\ UNCHANGED <<store, listeners, serving, tab, dead, cache, blocked, trouble>>
    BY <2>1, <1>17, Zenon DEF RedisTakes
  <2> QED BY <2>2, <1>0 DEF TypeOK, store, serving, tab, cache
<1> QED
  BY <1>1, <1>2, <1>3, <1>4, <1>5, <1>6, <1>7, <1>8, <1>9, <1>10, <1>11, <1>12, <1>13, <1>14, <1>15,
     <1>16, <1>17 DEF Next, Ending, Serving, Following

LEMMA UnlessEnding ==
  ASSUME [Next]_vars
  PROVE  UNCHANGED store \/ \E j \in Jobs : Insert(j) \/ Commit(j) \/ Publish(j)
<1>1. ASSUME NEW c \in Conns, Serving(c) PROVE UNCHANGED store
  BY <1>1 DEF Serving, Subscribe, Subscribed, Start, CatchUp, Live, Remove, Unsubscribed
<1>2. ASSUME RedisTakes \/ Following \/ Reconnect \/ Lose PROVE UNCHANGED store
  BY <1>2 DEF RedisTakes, Following, Connect, Reconnect, Dial, Opened, Receive, Offline, Lose
<1>3. ASSUME NEW q \in Queries, Querying(q) PROVE UNCHANGED store
  BY <1>3 DEF Querying, Fetch, Read, Show
<1>4. CASE UNCHANGED vars
  BY <1>4 DEF vars
<1> QED BY <1>1, <1>2, <1>3, <1>4 DEF Next, Ending

LEMMA NumbersStep ==
  ASSUME StreamInv, [Next]_vars
  PROVE  NumbersInv'
<1>0. TypeOK /\ NumbersInv
  BY DEF StreamInv
<1>1. ASSUME NEW j \in Jobs, Insert(j) PROVE NumbersInv'
  <2>1. /\ nextId' = nextId + 1 /\ id' = [id EXCEPT ![j] = nextId] /\ published' = published
        /\ row' = [row EXCEPT ![j] = "inserted"] /\ j \in Jobs \ Numbered
    BY <1>1 DEF Insert, Numbered
  <2>2. Numbered' = Numbered \cup {j}
    BY <2>1, <1>0 DEF Numbered, TypeOK
  <2>3. Cardinality(Numbered') = nextId' - 1
    <3>1. IsFiniteSet(Numbered)
      BY JobsAssumption, FS_Subset DEF Numbered
    <3>2. Cardinality(Numbered \cup {j}) = Cardinality(Numbered) + 1
      BY <3>1, <2>1, FS_AddElement
    <3> QED BY <3>2, <2>1, <2>2, <1>0 DEF NumbersInv
  <2>4. /\ id'[j] = nextId
        /\ \A k \in Jobs \ {j} : id'[k] = id[k]
    BY <2>1, <1>0 DEF TypeOK
  <2>5. \A k \in Numbered' : id'[k] \in 1..(nextId' - 1)
    BY <2>1, <2>2, <2>4, <1>0 DEF NumbersInv, Numbered
  <2>6. ASSUME NEW k \in Numbered', NEW l \in Numbered', id'[k] = id'[l] PROVE k = l
    BY <2>1, <2>2, <2>4, <2>6, <1>0 DEF NumbersInv, Numbered
  <2>7. ASSUME NEW n \in 1..(nextId' - 1) PROVE \E k \in Numbered' : id'[k] = n
    <3>1. CASE n = nextId
      BY <3>1, <2>2, <2>4
    <3>2. CASE n # nextId
      <4>1. n \in 1..(nextId - 1)
        BY <3>2, <2>1, <1>0 DEF NumbersInv
      <4>2. PICK k \in Numbered : id[k] = n
        BY <4>1, <1>0 DEF NumbersInv
      <4> QED BY <4>2, <2>1, <2>2, <2>4 DEF Numbered
    <3> QED BY <3>1, <3>2
  <2>8. \A k \in Jobs \ Numbered' : id'[k] = 0
    BY <2>2, <2>4, <1>0 DEF NumbersInv
  <2>9. \A k \in Jobs : published'[k] => row'[k] = "visible"
    BY <2>1, <1>0, <1>1 DEF NumbersInv, TypeOK, Insert
  <2>10. nextId' \in Nat \ {0}
    BY <2>1, <1>0 DEF NumbersInv
  <2> QED BY <2>3, <2>5, <2>6, <2>7, <2>8, <2>9, <2>10 DEF NumbersInv
<1>2. ASSUME NEW j \in Jobs, Commit(j) PROVE NumbersInv'
  <2>1. Numbered' = Numbered
    BY <1>0, <1>2 DEF Commit, Numbered, TypeOK
  <2>2. \A k \in Jobs : published'[k] => row'[k] = "visible"
    BY <1>0, <1>2 DEF Commit, NumbersInv, TypeOK
  <2> QED BY <2>1, <2>2, <1>0, <1>2 DEF Commit, NumbersInv
<1>3. ASSUME NEW j \in Jobs, Publish(j) PROVE NumbersInv'
  <2>1. \A k \in Jobs : published'[k] => row'[k] = "visible"
    BY <1>0, <1>3 DEF Publish, NumbersInv, TypeOK
  <2>2. Numbered' = Numbered /\ UNCHANGED <<id, nextId>>
    BY <1>3 DEF Publish, Numbered
  <2> QED BY <2>1, <2>2, <1>0 DEF NumbersInv
<1>4. ASSUME UNCHANGED store PROVE NumbersInv'
  BY <1>0, <1>4 DEF NumbersInv, Numbered, store
<1> QED BY <1>1, <1>2, <1>3, <1>4, UnlessEnding

LEMMA ConnsStep ==
  ASSUME StreamInv, [Next]_vars
  PROVE  ConnsInv'
<1>0. TypeOK /\ ConnsInv
  BY DEF StreamInv
<1>1. conn \in Nat /\ trouble \in Nat /\ dead \subseteq Nat
  BY <1>0 DEF TypeOK, Conns
<1>2. ASSUME Connect \/ Reconnect PROVE ConnsInv'
  <2>1. /\ status' = IF status = "open" THEN "open" ELSE "connecting"
        /\ blocked' = blocked
        /\ blocked => conn' = conn /\ dead' = dead
        /\ ~blocked => conn' = conn + 1 /\ dead' = dead \cup (Conns \cap {conn})
    BY <1>2 DEF Connect, Reconnect, Dial
  <2>2. /\ trouble' = trouble \/ trouble' = trouble + 1
        /\ ~blocked => conn <= trouble'
    BY <1>0, <1>1, <1>2 DEF Connect, Reconnect, ConnsInv
  <2>3. \A c \in dead : c <= conn
    BY <1>0, <1>1 DEF ConnsInv
  <2>4. trouble' \in Nat /\ conn' \in Nat
    BY <2>1, <2>2, <1>1
  <2>5. conn' <= trouble' + 1
    <3>1. conn <= trouble + 1
      BY <1>0 DEF ConnsInv
    <3> QED BY <3>1, <2>1, <2>2, <1>1
  <2>6. ASSUME NEW c \in dead' PROVE c <= conn'
    <3>1. c \in dead \/ c = conn
      BY <2>1
    <3>5. conn <= conn
      BY <1>1
    <3>4. c \in Nat /\ (c = conn => c <= conn)
      BY <3>1, <3>5, <1>1, Zenon
    <3>2. c <= conn /\ c \in Nat
      BY <3>1, <3>4, <2>3
    <3>3. conn <= conn'
      BY <2>1, <1>1
    <3> QED BY <3>2, <3>3, <2>4, <1>1
  <2>7. conn' \in dead' => conn' <= trouble'
    <3>1. CASE blocked
      <4>1. conn = 0 /\ conn' = 0
        BY <2>1, <3>1, <1>0 DEF ConnsInv
      <4> QED BY <4>1, <2>4
    <3>2. CASE ~blocked
      <4>1. conn + 1 \notin dead /\ conn + 1 # conn
        BY <2>3, <1>1
      <4> QED BY <4>1, <3>2, <2>1
    <3> QED BY <3>1, <3>2
  <2>8. /\ blocked' => conn' = 0
        /\ ~blocked' => conn' # 0
        /\ status' # "idle" /\ status' # "offline"
    BY <2>1, <1>0, <1>1 DEF ConnsInv
  <2> QED BY <2>5, <2>6, <2>7, <2>8 DEF ConnsInv
<1>3. ASSUME Lose PROVE ConnsInv'
  <2>1. conn \in Conns /\ dead' = dead \cup {conn} /\ trouble' = trouble + 1 /\ UNCHANGED <<conn, status, blocked>>
    BY <1>3 DEF Lose, tab
  <2>2. conn # 0 /\ conn \in dead'
    BY <2>1, <1>1 DEF Conns
  <2>3. conn <= trouble + 1 /\ \A c \in dead : c <= conn
    BY <1>0 DEF ConnsInv
  <2>4. conn <= trouble' /\ conn <= trouble' + 1 /\ \A c \in dead' : c <= conn
    BY <2>1, <2>3, <1>1
  <2> QED BY <2>1, <2>2, <2>4, <1>0 DEF ConnsInv
<1>4. ASSUME Opened \/ Offline PROVE ConnsInv'
  <2>1. UNCHANGED <<conn, dead, blocked, trouble>> /\ status' # "idle" /\ (status' = "offline" => blocked \/ conn \in dead)
    BY <1>4 DEF Opened, Offline
  <2>2. status # "idle"
    BY <1>4 DEF Opened, Offline
  <2> QED BY <2>1, <2>2, <1>0 DEF ConnsInv
<1>5. ASSUME UNCHANGED <<conn, status, dead, blocked>>, trouble' \in Nat /\ trouble <= trouble' PROVE ConnsInv'
  <2>3. trouble' \in Nat /\ trouble <= trouble'
    BY <1>5
  <2>4. conn \in Nat /\ trouble \in Nat
    BY <1>1
  <2>1. conn <= trouble + 1 => conn <= trouble' + 1
    BY <2>3, <2>4, Raised
  <2>2. conn <= trouble => conn <= trouble'
    BY <2>3, <2>4, Raised
  <2> QED BY <2>1, <2>2, <1>0, <1>5 DEF ConnsInv
<1>6. ASSUME NEW j \in Jobs, Ending(j) PROVE ConnsInv'
  <2>1. UNCHANGED <<conn, status, dead, blocked>> /\ (trouble' = trouble \/ trouble' = trouble + 1)
    BY <1>6 DEF Ending, Insert, Commit, Publish, tab
  <2>2. trouble' \in Nat /\ trouble <= trouble'
    BY <2>1, <1>1
  <2> QED BY <2>1, <2>2, <1>5
<1>7. ASSUME (\E c \in Conns : Serving(c)) \/ (\E q \in Queries : Querying(q)) \/ Receive \/ RedisTakes
      PROVE  ConnsInv'
  <2>1. UNCHANGED <<conn, status, dead, blocked, trouble>>
    BY <1>7 DEF Serving, Subscribe, Subscribed, Start, CatchUp, Live, Remove, Unsubscribed, Querying, Fetch,
                Read, Show, Receive, RedisTakes, tab
  <2> QED BY <2>1, <1>1, <1>5
<1>8. CASE UNCHANGED vars
  BY <1>1, <1>5, <1>8 DEF vars, tab
<1> QED BY <1>2, <1>3, <1>4, <1>6, <1>7, <1>8 DEF Next, Following

(* What the current connection delivers.  A connection of the tab's is the *)
(* only one that matters: the tab is another's no longer once it dials.    *)
LEMMA WireStep ==
  ASSUME StreamInv, [Next]_vars
  PROVE  WireInv'
<1>0. TypeOK /\ ConnsInv /\ WireInv
  BY DEF StreamInv
<1>1. /\ conn \in Nat /\ trouble \in Nat /\ Ids \subseteq Nat /\ Conns \subseteq Nat
      /\ \A c \in dead : c <= conn
  BY <1>0, CountedJobs DEF TypeOK, Conns, Ids, ConnsInv
<1>2. ASSUME UNCHANGED <<handler, lastId, wire, conn, lastEv, asked, dead>> PROVE WireInv'
  BY <1>0, <1>2 DEF WireInv, Current, Unread, Ascends
<1>3. ASSUME NEW c \in Conns, Subscribe(c) \/ Subscribed(c) PROVE WireInv'
  <2>1. /\ \E h \in {"subscribing", "starting"} : handler' = [handler EXCEPT ![c] = h]
        /\ Unread(c) /\ c <= conn
        /\ UNCHANGED <<lastId, wire, conn, lastEv, asked, dead>>
    <3>1. CASE Subscribe(c)
      BY <3>1 DEF Subscribe, Unread, tab
    <3>2. CASE Subscribed(c)
      <4>1. c <= conn
        BY <3>2, <1>0, <1>1 DEF Subscribed, WireInv
      <4> QED BY <4>1, <3>2 DEF Subscribed, Unread, tab
    <3> QED BY <3>1, <3>2, <1>3
  <2>2. Unread(c)' /\ handler'[c] \notin {"closing", "gone"} /\ \A d \in Conns \ {c} : handler'[d] = handler[d]
    BY <2>1, <1>0 DEF TypeOK, Unread
  <2>3. \A d \in Conns : Unread(d)' <=> Unread(d)
    BY <2>1, <2>2 DEF Unread
  <2>4. \A d \in Conns : d > conn' => handler'[d] = "none"
    BY <2>1, <2>2, <1>0, <1>1 DEF WireInv
  <2>5. \A d \in Conns : Unread(d)' \/ handler'[d] = "reading" => wire'[d] = <<>>
    BY <2>1, <2>2, <2>3, <1>0 DEF WireInv
  <2>6. \A d \in Conns \ dead' : handler'[d] \notin {"closing", "gone"}
    BY <2>1, <2>2, <1>0 DEF WireInv
  <2>7. Current' => IF Unread(conn)' THEN asked'[conn'] = lastEv' ELSE Ascends(conn)'
    BY <2>1, <2>3, <1>0 DEF WireInv, Current, Ascends
  <2> QED BY <2>4, <2>5, <2>6, <2>7 DEF WireInv
<1>4. ASSUME NEW c \in Conns, Start(c) PROVE WireInv'
  <2>1. /\ handler' = [handler EXCEPT ![c] = "reading"] /\ lastId' = [lastId EXCEPT ![c] = FirstId(c)]
        /\ Unread(c) /\ handler[c] = "starting"
        /\ UNCHANGED <<wire, conn, lastEv, asked, dead>>
    BY <1>4 DEF Start, Unread, tab
  <2>2. /\ handler'[c] = "reading" /\ lastId'[c] = FirstId(c)
        /\ \A d \in Conns \ {c} : handler'[d] = handler[d] /\ lastId'[d] = lastId[d]
    BY <2>1, <1>0 DEF TypeOK
  <2>3. \A d \in Conns : d > conn' => handler'[d] = "none"
    BY <2>1, <2>2, <1>0, <1>1 DEF WireInv
  <2>4. \A d \in Conns : Unread(d)' \/ handler'[d] = "reading" => wire'[d] = <<>>
    BY <2>1, <2>2, <1>0 DEF WireInv, Unread
  <2>5. \A d \in Conns \ dead' : handler'[d] \notin {"closing", "gone"}
    BY <2>1, <2>2, <1>0 DEF WireInv
  <2>6. ASSUME Current PROVE IF Unread(conn)' THEN asked[conn] = lastEv ELSE Ascends(conn)'
    <3>1. CASE c = conn
      <4>1. asked[conn] = lastEv /\ wire[conn] = <<>>
        BY <3>1, <2>1, <2>6, <1>0 DEF WireInv
      <4>2. lastEv # Nothing => lastId'[conn] = lastEv /\ lastEv \in Nat
        BY <4>1, <3>1, <2>2, <1>0, <1>1 DEF FirstId, TypeOK
      <4>3. Ascends(conn)'
        BY <4>1, <4>2, <2>1 DEF Ascends
      <4>4. ~Unread(conn)'
        BY <3>1, <2>2, <2>1 DEF Unread
      <4> QED BY <4>3, <4>4
    <3>2. CASE c # conn
      <4>1. handler'[conn] = handler[conn] /\ lastId'[conn] = lastId[conn]
        BY <3>2, <2>2, <2>6 DEF Current
      <4> QED BY <4>1, <2>1, <2>6, <1>0 DEF WireInv, Unread, Ascends
    <3> QED BY <3>1, <3>2
  <2> QED BY <2>1, <2>3, <2>4, <2>5, <2>6 DEF WireInv, Current
<1>5. ASSUME NEW c \in Conns, CatchUp(c) PROVE WireInv'
  <2> DEFINE missed == EventsSince(lastId[c])
  <2>1. /\ handler' = [handler EXCEPT ![c] = "live"] /\ handler[c] = "reading"
        /\ wire' = [wire EXCEPT ![c] = wire[c] \o missed]
        /\ lastId' = [lastId EXCEPT ![c] = IF missed = <<>> THEN lastId[c] ELSE missed[Len(missed)]]
        /\ UNCHANGED <<conn, lastEv, asked, dead>>
    BY <1>5 DEF CatchUp, tab
  <2>2. /\ missed \in Seq(Ids) /\ lastId[c] \in Nat
        /\ \A i \in 1..Len(missed) : lastId[c] < missed[i]
        /\ \A i \in 1..Len(missed) : \A k \in 1..(i - 1) : missed[k] < missed[i]
    BY <1>0, <1>1, ReadBack DEF TypeOK
  <2> HIDE DEF missed
  <2>3. wire[c] = <<>> /\ <<>> \o missed = missed
    BY <2>1, <2>2, <1>0, ConcatEmptySeq DEF WireInv
  <2>4. /\ handler'[c] = "live" /\ wire'[c] = missed
        /\ lastId'[c] = IF missed = <<>> THEN lastId[c] ELSE missed[Len(missed)]
        /\ \A d \in Conns \ {c} : handler'[d] = handler[d] /\ wire'[d] = wire[d] /\ lastId'[d] = lastId[d]
    BY <2>1, <2>3, <1>0 DEF TypeOK
  <2>5. \A d \in Conns : d > conn' => handler'[d] = "none"
    BY <2>1, <2>4, <1>0, <1>1 DEF WireInv
  <2>6. \A d \in Conns : Unread(d)' \/ handler'[d] = "reading" => wire'[d] = <<>>
    BY <2>1, <2>4, <1>0 DEF WireInv, Unread
  <2>7. \A d \in Conns \ dead' : handler'[d] \notin {"closing", "gone"}
    BY <2>1, <2>4, <1>0 DEF WireInv
  <2>8. ASSUME Current PROVE IF Unread(conn)' THEN asked[conn] = lastEv ELSE Ascends(conn)'
    <3>1. CASE c = conn
      <4>1. lastEv # Nothing => lastEv \in Nat /\ lastEv <= lastId[conn]
        BY <3>1, <2>1, <2>8, <1>0, <1>1 DEF WireInv, Ascends, Unread, TypeOK
      <4>2. ASSUME NEW i \in 1..Len(missed)
            PROVE  missed[i] <= lastId'[c] /\ missed[i] \in Nat /\ lastId'[c] \in Nat
        <5>1. Len(missed) \in 1..Len(missed) /\ missed # <<>>
          BY <2>2, HasLast
        <5>2. missed[i] \in Nat /\ missed[Len(missed)] \in Nat
          <6>1. missed[i] \in Ids /\ missed[Len(missed)] \in Ids
            BY <5>1, <2>2, ElementOfSeq
          <6> QED BY <6>1, <1>1
        <5>3. i = Len(missed) \/ i \in 1..(Len(missed) - 1)
          BY <5>1
        <5>4. lastId'[c] = missed[Len(missed)]
          BY <5>1, <2>4
        <5>5. i \in 1..(Len(missed) - 1) => missed[i] < missed[Len(missed)]
          BY <5>1, <2>2
        <5> QED BY <5>2, <5>3, <5>4, <5>5
      <4>3. lastId[c] <= lastId'[c] /\ lastId'[c] \in Nat
        <5>1. CASE missed = <<>>
          BY <5>1, <2>4, <2>2
        <5>2. CASE missed # <<>>
          <6>1. Len(missed) \in 1..Len(missed)
            BY <5>2, <2>2
          <6>2. lastId'[c] = missed[Len(missed)] /\ missed[Len(missed)] \in Nat
            BY <6>1, <5>2, <2>4, <4>2
          <6> QED BY <6>1, <6>2, <2>2
        <5> QED BY <5>1, <5>2
      <4>4. lastEv # Nothing => lastEv <= lastId'[conn]
        BY <4>1, <4>3, <2>2, <3>1
      <4>5. \A i \in 1..Len(missed) : lastEv # Nothing => lastEv < missed[i]
        BY <4>1, <4>2, <2>2, <3>1
      <4>6. Ascends(conn)'
        BY <4>2, <4>4, <4>5, <2>1, <2>2, <2>4, <3>1 DEF Ascends
      <4>7. ~Unread(conn)'
        BY <3>1, <2>1, <2>4 DEF Unread
      <4> QED BY <4>6, <4>7
    <3>2. CASE c # conn
      <4>1. handler'[conn] = handler[conn] /\ lastId'[conn] = lastId[conn] /\ wire'[conn] = wire[conn]
        BY <3>2, <2>4, <2>8 DEF Current
      <4> QED BY <4>1, <2>1, <2>8, <1>0 DEF WireInv, Unread, Ascends
    <3> QED BY <3>1, <3>2
  <2> QED BY <2>1, <2>5, <2>6, <2>7, <2>8 DEF WireInv, Current
<1>6. ASSUME NEW c \in Conns, Live(c) PROVE WireInv'
  <2> DEFINE e == Head(buf[c])
  <2>1. /\ handler[c] = "live" /\ buf[c] # <<>>
        /\ IF e > lastId[c] THEN wire' = [wire EXCEPT ![c] = Append(wire[c], e)] /\ lastId' = [lastId EXCEPT ![c] = e]
                            ELSE wire' = wire /\ lastId' = lastId
        /\ UNCHANGED <<handler, conn, lastEv, asked, dead>>
    BY <1>6 DEF Live, Writes, tab
  <2>2. e \in Ids /\ e \in Nat /\ wire[c] \in Seq(Ids) /\ lastId[c] \in Nat
    BY <2>1, <1>0, <1>1, HeadTailProperties DEF TypeOK
  <2> HIDE DEF e
  <2>3. CASE ~(e > lastId[c])
    BY <2>1, <2>3, <1>2
  <2>4. CASE e > lastId[c]
    <3>1. /\ wire'[c] = Append(wire[c], e) /\ lastId'[c] = e
          /\ \A d \in Conns \ {c} : wire'[d] = wire[d] /\ lastId'[d] = lastId[d]
      BY <2>1, <2>4, <1>0 DEF TypeOK
    <3>2. \A d \in Conns : Unread(d)' \/ handler'[d] = "reading" => wire'[d] = <<>>
      BY <2>1, <3>1, <1>0 DEF WireInv, Unread
    <3>3. ASSUME Current PROVE IF Unread(conn)' THEN asked[conn] = lastEv ELSE Ascends(conn)'
      <4>1. CASE c = conn
        <5>1. Ascends(conn) /\ ~Unread(conn)
          BY <4>1, <2>1, <3>3, <1>0 DEF WireInv, Unread
        <5>2. lastEv # Nothing => lastEv \in Nat
          BY <1>0, <1>1 DEF TypeOK
        <5>3. lastEv # Nothing => lastEv < e /\ lastEv <= lastId'[conn]
          BY <5>1, <5>2, <4>1, <2>2, <2>4, <3>1 DEF Ascends
        <5>4. Len(wire[c]) \in Nat /\ Len(wire'[c]) = Len(wire[c]) + 1 /\ wire'[c][Len(wire[c]) + 1] = e
              /\ \A i \in 1..Len(wire[c]) : wire'[c][i] = wire[c][i] /\ wire[c][i] \in Nat
          <6>1. /\ Len(wire[c]) \in Nat /\ Len(Append(wire[c], e)) = Len(wire[c]) + 1
                /\ Append(wire[c], e)[Len(wire[c]) + 1] = e
                /\ \A i \in 1..Len(wire[c]) : Append(wire[c], e)[i] = wire[c][i] /\ wire[c][i] \in Ids
            BY <2>2, Appended
          <6> QED BY <6>1, <3>1, <1>1
        <5>5. \A i \in 1..Len(wire[c]) : wire[c][i] < e /\ wire[c][i] <= e
          BY <5>1, <5>4, <4>1, <2>2, <2>4 DEF Ascends
        <5>6. ASSUME NEW i \in 1..Len(wire'[c])
              PROVE  /\ wire'[c][i] <= e
                     /\ lastEv # Nothing => lastEv < wire'[c][i]
                     /\ \A k \in 1..(i - 1) : wire'[c][k] < wire'[c][i]
          <6>1. CASE i = Len(wire[c]) + 1
            <7>1. wire'[c][i] = e /\ e <= e /\ \A k \in 1..(i - 1) : k \in 1..Len(wire[c])
              BY <6>1, <5>4, <2>2
            <7> QED BY <7>1, <5>3, <5>4, <5>5
          <6>2. CASE i # Len(wire[c]) + 1
            <7>1. i \in 1..Len(wire[c]) /\ \A k \in 1..(i - 1) : k \in 1..Len(wire[c])
              BY <6>2, <5>4
            <7> QED BY <7>1, <5>1, <5>4, <5>5, <4>1 DEF Ascends
          <6> QED BY <6>1, <6>2
        <5>7. Ascends(conn)'
          BY <5>3, <5>6, <4>1, <3>1, <2>1 DEF Ascends
        <5> QED BY <5>1, <5>7, <2>1 DEF Unread
      <4>2. CASE c # conn
        <5>1. lastId'[conn] = lastId[conn] /\ wire'[conn] = wire[conn]
          BY <4>2, <3>1, <3>3 DEF Current
        <5> QED BY <5>1, <2>1, <3>3, <1>0 DEF WireInv, Unread, Ascends
      <4> QED BY <4>1, <4>2
    <3> QED BY <2>1, <3>2, <3>3, <1>0 DEF WireInv, Current
  <2> QED BY <2>3, <2>4
<1>7. ASSUME NEW c \in Conns, Remove(c) \/ Unsubscribed(c) PROVE WireInv'
  <2>1. c \in dead
    BY <1>0, <1>7 DEF Remove, Unsubscribed, WireInv
  <2>2. /\ \E h \in {"closing", "gone"} : handler' = [handler EXCEPT ![c] = h]
        /\ \E w \in {wire[c], <<>>} : wire' = [wire EXCEPT ![c] = w]
        /\ \A d \in Conns \ {c} : lastId'[d] = lastId[d] /\ asked'[d] = asked[d]
        /\ UNCHANGED <<conn, lastEv, dead>>
    BY <1>0, <1>7 DEF Remove, Unsubscribed, tab, TypeOK
  <2>3. /\ handler'[c] \in {"closing", "gone"} /\ wire'[c] \in {wire[c], <<>>} /\ c <= conn
        /\ \A d \in Conns \ {c} : handler'[d] = handler[d] /\ wire'[d] = wire[d]
    BY <2>1, <2>2, <1>0, <1>1 DEF TypeOK
  <2>4. \A d \in Conns : d > conn' => handler'[d] = "none"
    BY <2>2, <2>3, <1>0, <1>1 DEF WireInv
  <2>5. \A d \in Conns : Unread(d)' \/ handler'[d] = "reading" => wire'[d] = <<>>
    BY <2>2, <2>3, <1>0 DEF WireInv, Unread
  <2>6. \A d \in Conns \ dead' : handler'[d] \notin {"closing", "gone"}
    BY <2>1, <2>2, <2>3, <1>0 DEF WireInv
  <2>7. Current' => IF Unread(conn)' THEN asked'[conn'] = lastEv' ELSE Ascends(conn)'
    <3>1. Current => conn \in Conns \ {c}
      BY <2>1 DEF Current
    <3> QED BY <3>1, <2>2, <2>3, <1>0 DEF WireInv, Current, Unread, Ascends
  <2> QED BY <2>4, <2>5, <2>6, <2>7 DEF WireInv
<1>8. ASSUME Connect \/ Reconnect PROVE WireInv'
  <2>1. /\ UNCHANGED <<handler, lastId, wire, lastEv>>
        /\ \/ UNCHANGED <<conn, asked, dead>>
           \/ /\ conn' = conn + 1 /\ asked' = [asked EXCEPT ![conn + 1] = lastEv]
              /\ dead' = dead \cup (Conns \cap {conn})
    BY <1>8 DEF Connect, Reconnect, Dial, serving
  <2>2. CASE UNCHANGED <<conn, asked, dead>>
    BY <2>1, <2>2, <1>2
  <2>3. CASE conn' = conn + 1 /\ asked' = [asked EXCEPT ![conn + 1] = lastEv] /\ dead' = dead \cup (Conns \cap {conn})
    <3>1. \A d \in Conns : d > conn' => d > conn
      BY <2>3, <1>1
    <3>2. conn' \in Conns => handler[conn'] = "none" /\ asked'[conn'] = lastEv
      BY <2>3, <1>0, <1>1 DEF WireInv, TypeOK
    <3> QED BY <3>1, <3>2, <2>1, <2>3, <1>0 DEF WireInv, Current, Unread
  <2> QED BY <2>1, <2>2, <2>3
<1>9. ASSUME Lose PROVE WireInv'
  BY <1>0, <1>9 DEF Lose, serving, tab, WireInv, Current, Unread, Ascends
<1>10. ASSUME Receive PROVE WireInv'
  <2>1. /\ conn \in Conns \ dead /\ wire[conn] # <<>> /\ lastEv' = Head(wire[conn])
        /\ wire' = [wire EXCEPT ![conn] = Tail(wire[conn])]
        /\ UNCHANGED <<handler, lastId, conn, asked, dead>>
    BY <1>10 DEF Receive, Frame
  <2>2. ~Unread(conn) /\ Ascends(conn) /\ handler[conn] # "reading"
    BY <2>1, <1>0 DEF WireInv, Current
  <2>3. wire[conn] \in Seq(Ids) /\ lastId[conn] \in Nat
    BY <2>1, <1>0, <1>1 DEF TypeOK
  <2>4. /\ Len(wire[conn]) \in Nat \ {0} /\ Len(wire'[conn]) = Len(wire[conn]) - 1
        /\ \A i \in 1..Len(wire'[conn]) : wire'[conn][i] = wire[conn][i + 1]
        /\ lastEv' = wire[conn][1] /\ wire[conn][1] \in Nat
    <3>1. wire'[conn] = Tail(wire[conn])
      BY <2>1, <1>0 DEF TypeOK
    <3>2. /\ Len(wire[conn]) \in Nat \ {0} /\ Len(Tail(wire[conn])) = Len(wire[conn]) - 1
          /\ \A i \in 1..Len(Tail(wire[conn])) : Tail(wire[conn])[i] = wire[conn][i + 1]
          /\ Head(wire[conn]) = wire[conn][1] /\ wire[conn][1] \in Ids
      BY <2>1, <2>3, Tailed
    <3> QED BY <3>1, <3>2, <2>1, <1>1
  <2>5. \A d \in Conns \ {conn} : wire'[d] = wire[d]
    BY <2>1, <1>0 DEF TypeOK
  <2>6. lastEv' <= lastId[conn]
    BY <2>2, <2>4 DEF Ascends
  <2>7. ASSUME NEW i \in 1..Len(wire'[conn])
        PROVE  /\ wire'[conn][i] <= lastId[conn] /\ lastEv' < wire'[conn][i]
               /\ \A k \in 1..(i - 1) : wire'[conn][k] < wire'[conn][i]
    <3>1. i + 1 \in 1..Len(wire[conn]) /\ 1 \in 1..((i + 1) - 1)
      BY <2>4
    <3>2. \A k \in 1..(i - 1) : k + 1 \in 1..((i + 1) - 1) /\ k \in 1..Len(wire'[conn])
      BY <2>4
    <3>3. /\ wire[conn][i + 1] <= lastId[conn]
          /\ \A k \in 1..((i + 1) - 1) : wire[conn][k] < wire[conn][i + 1]
      BY <3>1, <2>2 DEF Ascends
    <3> QED BY <3>1, <3>2, <3>3, <2>4
  <2>8. Ascends(conn)'
    BY <2>1, <2>6, <2>7 DEF Ascends
  <2>9. \A d \in Conns : Unread(d)' \/ handler'[d] = "reading" => wire'[d] = <<>>
    BY <2>1, <2>2, <2>5, <1>0 DEF WireInv, Unread
  <2> QED BY <2>1, <2>2, <2>8, <2>9, <1>0 DEF WireInv, Unread, Current
<1>11. ASSUME (\E j \in Jobs : Ending(j)) \/ (\E q \in Queries : Querying(q)) \/ Opened \/ Offline \/ RedisTakes
               \/ UNCHANGED vars
       PROVE  WireInv'
  BY <1>2, <1>11 DEF RedisTakes, Ending, Insert, Commit, Publish, Querying, Fetch, Read, Show, Opened, Offline, vars,
                     serving, tab
<1> QED
  BY <1>3, <1>4, <1>5, <1>6, <1>7, <1>8, <1>9, <1>10, <1>11 DEF Next, Following, Serving

LEMMA StreamStep == StreamInv /\ [Next]_vars => StreamInv'
  BY TypeStep, NumbersStep, ConnsStep, WireStep DEF StreamInv

(* Every value stays within its type, and with it the numbers given to     *)
(* events and the connections a tab makes within their bounds, whatever    *)
(* the environment does (sse.go 45-90, StreamProvider.tsx 40-120).         *)
THEOREM TypeCorrect == Spec => []TypeOK
<1>1. StreamInv => TypeOK
  BY DEF StreamInv
<1> QED BY <1>1, InitStream, StreamStep, PTL DEF Spec

(* An event is applied once, whatever the environment does: it may be      *)
(* read back and published, published twice by the sweeper, published out  *)
(* of order, or be on its way over two connections (sse.go 61).            *)
THEOREM AppliedAtMostOnce == Spec => AppliedOnce
<1>1. StreamInv /\ [Next]_vars => [Took => lastEv = Nothing \/ lastEv' > lastEv]_vars
  <2> SUFFICES ASSUME StreamInv, Next, Took, lastEv # Nothing PROVE lastEv' > lastEv
    BY DEF vars
  <2>0. TypeOK /\ WireInv /\ conn \in Conns \ dead' /\ wire[conn] \in Seq(Ids) /\ lastEv \in Ids
    BY DEF StreamInv, Took, TypeOK
  <2>1. wire'[conn] # wire[conn]
    <3>1. Len(wire[conn]) \in Nat
      BY <2>0
    <3> QED BY <3>1 DEF Took
  <2>2. ASSUME NEW c \in Conns, CatchUp(c) PROVE FALSE
    <3>1. EventsSince(lastId[c]) \in Seq(Ids)
      BY <2>0, ReadBack DEF TypeOK
    <3>2. c = conn /\ wire'[conn] = wire[conn] \o EventsSince(lastId[c])
      BY <2>0, <2>1, <2>2 DEF CatchUp, TypeOK
    <3>3. \A x, y \in Nat : x >= y => ~ (x < y)
      OBVIOUS
    <3> QED BY <3>1, <3>2, <3>3, <2>0, Joined DEF Took
  <2>3. ASSUME NEW c \in Conns, Live(c) PROVE FALSE
    <3>1. Head(buf[c]) \in Ids
      BY <2>0, <2>3, HeadTailProperties DEF Live, TypeOK
    <3>2. c = conn /\ wire'[conn] = Append(wire[conn], Head(buf[c]))
      BY <2>0, <2>1, <2>3 DEF Live, TypeOK
    <3>3. \A x \in Nat : ~ (x + 1 < x)
      OBVIOUS
    <3> QED BY <3>1, <3>2, <3>3, <2>0, Appended DEF Took
  <2>4. ASSUME NEW c \in Conns, Remove(c) PROVE FALSE
    BY <2>0, <2>1, <2>4 DEF Remove, TypeOK
  <2>5. ASSUME UNCHANGED wire PROVE FALSE
    BY <2>1, <2>5
  <2>6. Receive
    <3>1. ASSUME NEW c \in Conns, Subscribe(c) \/ Subscribed(c) \/ Start(c) \/ Unsubscribed(c) PROVE FALSE
      BY <3>1, <2>5 DEF Subscribe, Subscribed, Start, Unsubscribed
    <3>2. ASSUME (\E j \in Jobs : Ending(j)) \/ (\E q \in Queries : Querying(q)) PROVE FALSE
      BY <3>2, <2>5 DEF Ending, Insert, Commit, Publish, Querying, Fetch, Read, Show, serving
    <3>3. ASSUME Connect \/ Reconnect \/ Opened \/ Offline \/ Lose \/ RedisTakes PROVE FALSE
      BY <3>3, <2>5 DEF RedisTakes, Connect, Reconnect, Dial, Opened, Offline, Lose, serving
    <3> QED BY <3>1, <3>2, <3>3, <2>2, <2>3, <2>4 DEF Next, Following, Serving
  <2>7. wire[conn] # <<>> /\ lastEv' = Head(wire[conn]) /\ dead' = dead
    BY <2>6 DEF Receive, Frame
  <2>8. Ascends(conn)
    BY <2>0, <2>7 DEF WireInv, Current
  <2>9. Head(wire[conn]) = wire[conn][1] /\ 1 \in 1..Len(wire[conn]) /\ wire[conn][1] \in Ids
    BY <2>0, <2>7
  <2>10. lastEv < wire[conn][1]
    BY <2>8, <2>9 DEF Ascends
  <2>11. \A x, y \in Ids : x < y => y > x
    BY CountedJobs DEF Ids
  <2> QED BY <2>0, <2>7, <2>9, <2>10, <2>11
<1> QED BY <1>1, InitStream, StreamStep, PTL DEF Spec, AppliedOnce
-----------------------------------------------------------------------------
(* With the environment's promises.                                        *)

LEMMA InitKept == "warm" \in Kept /\ Init => KeptInv
<1> SUFFICES ASSUME "warm" \in Kept, Init PROVE KeptInv
  OBVIOUS
<1>1. WarmTab /\ Visible = {} /\ Numbered = {} /\ commands = <<>>
  BY DEF Init, Visible, Numbered
<1>2. HubInv
  <2>1. CASE blocked
    BY <2>1, <1>1 DEF WarmTab, HubInv, Wanted
  <2>2. CASE ~blocked
    <3>1. 1 \in Conns
      BY KeptAssumption DEF Conns
    <3> QED BY <3>1, <2>2, <1>1 DEF WarmTab, HubInv, Wanted
  <2> QED BY <2>1, <2>2
<1>3. OrderInv
  BY DEF Init, OrderInv
<1>4. DeliveryInv
  <2>1. lastEv = 0 /\ Nothing # 0
    BY <1>1, NothingAssumption DEF WarmTab
  <2>2. \A c \in Conns : buf[c] = <<>> /\ wire[c] = <<>> /\ lastId[c] = 0 /\ Len(buf[c]) = 0 /\ Len(wire[c]) = 0
    BY DEF Init
  <2>3. \A j \in Jobs : ~published[j]
    BY DEF Init
  <2>4. Current => Continues(conn) /\ NoGap(conn)
    BY <2>1, <2>2, <2>3, CountedJobs DEF Current, Continues, NoGap, Ids
  <2> QED BY <2>1, <2>2, <2>4, <1>1 DEF DeliveryInv, NoneSkipped
<1> QED BY <1>2, <1>3, <1>4 DEF KeptInv

LEMMA HubStep ==
  ASSUME {"hub_calls", "confirmed"} \subseteq Kept, StreamInv, HubInv, [Next]_vars
  PROVE  HubInv'
<1>0. TypeOK
  BY DEF StreamInv
<1>1. ASSUME UNCHANGED <<hub, handler>> PROVE HubInv'
  BY <1>1 DEF HubInv, Wanted, hub
<1>2. ASSUME NEW c \in Conns, Subscribe(c) PROVE HubInv'
  <2>1. /\ handler[c] = "none" /\ listeners' = listeners \cup {c}
        /\ UNCHANGED <<commands, active>> /\ Wanted' = Wanted
        /\ \A d \in Conns : handler[d] \notin {"subscribing", "closing"}
    BY <1>2 DEF Subscribe, HubCallPending, Wanted
  <2>2. /\ handler'[c] = IF listeners = {} THEN "subscribing" ELSE "starting"
        /\ \A d \in Conns \ {c} : handler'[d] = handler[d]
    BY <1>0, <1>2 DEF Subscribe, TypeOK
  <2>3. listeners # {} => Wanted
    BY <2>1 DEF HubInv
  <2>4. listeners = {} => \A d \in Conns : handler[d] \notin {"starting", "reading", "live"}
    BY DEF HubInv
  <2>5. listeners' = {d \in Conns : handler'[d] \in {"subscribing", "starting", "reading", "live"}}
    BY <2>1, <2>2 DEF HubInv
  <2>6. \A d \in Conns : handler'[d] \in {"starting", "reading", "live"} => Wanted'
    BY <2>1, <2>2, <2>3 DEF HubInv
  <2>7. \A d \in Conns : handler'[d] = "subscribing" => listeners' = {d}
    BY <2>1, <2>2
  <2>8. \A d \in Conns : handler'[d] # "closing"
    BY <2>1, <2>2
  <2>9. \A d \in Conns : handler'[d] = "live" => commands' = <<>> /\ active'
    BY <2>1, <2>2 DEF HubInv
  <2> QED BY <2>5, <2>6, <2>7, <2>8, <2>9 DEF HubInv
<1>3. ASSUME NEW c \in Conns, Subscribed(c) PROVE HubInv'
  <2>1. /\ handler[c] = "subscribing" /\ listeners' = listeners /\ Wanted'
        /\ handler'[c] = "starting" /\ \A d \in Conns \ {c} : handler'[d] = handler[d]
    <3>1. commands \in Seq(BOOLEAN) /\ commands' = Append(commands, TRUE)
      BY <1>0, <1>3 DEF Subscribed, TypeOK
    <3>2. /\ Len(commands) \in Nat /\ Len(commands') = Len(commands) + 1
          /\ commands'[Len(commands) + 1]
      BY <3>1
    <3>3. commands' # <<>>
      BY <3>2
    <3>4. commands'[Len(commands')]
      BY <3>2
    <3> QED BY <3>3, <3>4, <1>0, <1>3 DEF Subscribed, TypeOK, Wanted
  <2>2. \A d \in Conns : handler'[d] # "live"
    BY <2>1 DEF HubInv
  <2> QED BY <2>1, <2>2 DEF HubInv
<1>4. ASSUME NEW c \in Conns, Start(c) \/ CatchUp(c) PROVE HubInv'
  <2>1. /\ handler[c] \in {"starting", "reading"} /\ handler'[c] \in {"reading", "live"}
        /\ UNCHANGED <<listeners, commands, active>> /\ \A d \in Conns \ {c} : handler'[d] = handler[d]
        /\ Wanted' = Wanted /\ (handler'[c] = "live" => commands = <<>>)
    BY <1>0, <1>4 DEF Start, CatchUp, hub, TypeOK, Wanted
  <2>2. handler'[c] = "live" => active
    BY <2>1 DEF HubInv, Wanted
  <2> QED BY <2>1, <2>2 DEF HubInv
<1>5. ASSUME NEW c \in Conns, Remove(c) PROVE HubInv'
  <2>1. /\ handler[c] \in {"starting", "reading", "live"} /\ listeners' = listeners \ {c}
        /\ UNCHANGED <<commands, active>> /\ Wanted' = Wanted
        /\ handler'[c] = IF listeners = {c} THEN "closing" ELSE "gone"
        /\ \A d \in Conns \ {c} : handler'[d] = handler[d]
    BY <1>0, <1>5 DEF Remove, TypeOK, Wanted
  <2>2. c \in listeners /\ \A d \in Conns : handler[d] \notin {"subscribing", "closing"}
    BY <2>1 DEF HubInv
  <2> QED BY <2>1, <2>2 DEF HubInv
<1>6. ASSUME NEW c \in Conns, Unsubscribed(c) PROVE HubInv'
  <2>1. /\ handler[c] = "closing" /\ listeners' = listeners
        /\ handler'[c] = "gone" /\ \A d \in Conns \ {c} : handler'[d] = handler[d]
    BY <1>0, <1>6 DEF Unsubscribed, TypeOK
  <2>2. \A d \in Conns : handler'[d] \notin {"starting", "reading", "live"}
    BY <2>1 DEF HubInv
  <2> QED BY <2>1, <2>2 DEF HubInv
<1>7. ASSUME NEW c \in Conns, Live(c) PROVE HubInv'
  BY <1>1, <1>7 DEF Live, hub
<1>8. ASSUME \/ \E j \in Jobs : Ending(j)
             \/ Following \/ Reconnect \/ Lose
             \/ \E q \in Queries : Querying(q)
             \/ UNCHANGED vars
      PROVE  HubInv'
  BY <1>1, <1>8 DEF Ending, Insert, Commit, Publish, Following, Connect, Reconnect, Dial, Opened, Receive, Offline,
                    Lose, Querying, Fetch, Read, Show, vars, hub, serving
<1>9. ASSUME RedisTakes PROVE HubInv'
  <2>1. commands \in Seq(BOOLEAN) /\ commands # <<>> /\ active' = Head(commands)
        /\ commands' = Tail(commands) /\ listeners' = listeners /\ handler' = handler
    BY <1>0, <1>9 DEF RedisTakes, TypeOK, serving
  <2>2. Wanted' = Wanted
    <3>1. /\ Len(commands) \in Nat \ {0} /\ Len(Tail(commands)) = Len(commands) - 1
          /\ \A i \in 1..Len(Tail(commands)) : Tail(commands)[i] = commands[i + 1]
          /\ Head(commands) = commands[1]
      BY <2>1, Tailed
    <3>2. CASE commands' = <<>>
      <4>0. Tail(commands) = << >> /\ Len(<< >>) = 0
        <5>1. Len(<< >>) = 0
          OBVIOUS
        <5> QED BY <5>1, <3>2, <2>1
      <4>1. Len(Tail(commands)) = 0
        BY ONLY <4>0, Zenon
      <4>2. Len(commands) = 1
        BY <4>1, <3>1
      <4> QED BY <4>2, <3>1, <3>2, <2>1 DEF Wanted
    <3>3. CASE commands' # <<>>
      <4>1. Len(commands') \in 1..Len(commands') /\ Len(commands') + 1 = Len(commands)
        <5>1. commands' \in Seq(BOOLEAN)
          BY <2>1
        <5>2. Len(commands') # 0
          BY <5>1, <3>3
        <5> QED BY <5>2, <3>1, <2>1
      <4>2. commands'[Len(commands')] = commands[Len(commands)]
        BY <4>1, <3>1, <2>1
      <4> QED BY <4>2, <3>3, <2>1 DEF Wanted
    <3> QED BY <3>2, <3>3
  <2>3. \A d \in Conns : handler[d] # "live"
    BY <2>1 DEF HubInv
  <2> QED BY <2>1, <2>2, <2>3 DEF HubInv
<1> QED BY <1>2, <1>3, <1>4, <1>5, <1>6, <1>7, <1>8, <1>9 DEF Next, Serving

LEMMA OrderStep ==
  ASSUME "in_order" \in Kept, StreamInv, OrderInv, [Next]_vars
  PROVE  OrderInv'
<1>0. TypeOK /\ NumbersInv
  BY DEF StreamInv
<1>1. ASSUME NEW j \in Jobs, Insert(j) PROVE OrderInv'
  <2>1. /\ j \notin Numbered /\ row'[j] = "inserted" /\ id'[j] = nextId /\ published' = published
        /\ \A k \in Jobs \ {j} : row'[k] = row[k] /\ id'[k] = id[k]
    BY <1>0, <1>1 DEF Insert, TypeOK, Numbered
  <2>2. ASSUME NEW k \in Jobs, row[k] = "visible" PROVE Earlier(k)' = Earlier(k)
    <3>1. k # j /\ k \in Numbered
      BY <2>1, <2>2, <1>1 DEF Insert, Numbered
    <3>2. ~ (id'[j] < id'[k])
      BY <2>1, <3>1, <1>0 DEF NumbersInv
    <3> QED BY <3>1, <3>2, <2>1 DEF Earlier, Numbered
  <2>3. \A k \in Jobs : published[k] => row[k] = "visible"
    BY <1>0 DEF NumbersInv
  <2>4. Visible' = Visible
    BY <2>1, <1>1 DEF Visible, Insert
  <2>5. \A k \in Jobs : row'[k] = "visible" => row[k] = "visible"
    BY <2>1
  <2> QED BY <2>1, <2>2, <2>3, <2>4, <2>5 DEF OrderInv
<1>2. ASSUME NEW j \in Jobs, Commit(j) PROVE OrderInv'
  <2>1. /\ Earlier(j) \subseteq Visible /\ row[j] = "inserted" /\ row'[j] = "visible"
        /\ UNCHANGED <<id, published>>
        /\ \A k \in Jobs \ {j} : row'[k] = row[k]
    BY <1>0, <1>2 DEF Commit, TypeOK
  <2>2. \A k \in Jobs : Earlier(k)' = Earlier(k)
    BY <2>1 DEF Earlier
  <2>3. Visible \subseteq Visible'
    BY <2>1 DEF Visible
  <2> QED BY <2>1, <2>2, <2>3 DEF OrderInv
<1>3. ASSUME NEW j \in Jobs, Publish(j) PROVE OrderInv'
  <2>1. /\ \A k \in Earlier(j) : published[k]
        /\ UNCHANGED <<row, id>>
        /\ published' = published \/ published' = [published EXCEPT ![j] = TRUE]
    BY <1>3 DEF Publish
  <2>2. /\ \A k \in Jobs : published[k] => published'[k]
        /\ \A k \in Jobs : published'[k] => published[k] \/ k = j
    BY <2>1, <1>0 DEF TypeOK
  <2>3. Visible' = Visible /\ \A k \in Jobs : Earlier(k)' = Earlier(k)
    BY <2>1 DEF Visible, Earlier
  <2>4. \A k \in Jobs : Earlier(k) \subseteq Jobs
    BY DEF Earlier
  <2> QED BY <2>1, <2>2, <2>3, <2>4 DEF OrderInv
<1>4. ASSUME UNCHANGED store PROVE OrderInv'
  BY <1>4 DEF OrderInv, Earlier, Visible, store
<1> QED BY <1>1, <1>2, <1>3, <1>4, UnlessEnding

LEMMA SeenStays ==
  ASSUME StreamInv, [Next]_vars
  PROVE  /\ \A j \in Visible : j \in Visible' /\ id'[j] = id[j]
         /\ \A n : Seen(n) => Seen(n)'
         /\ \A j \in Jobs : published[j] => id'[j] = id[j]
<1>0. TypeOK /\ NumbersInv
  BY DEF StreamInv
<1>1. \A j \in Visible : j \in Visible' /\ id'[j] = id[j]
  <2>1. ASSUME NEW k \in Jobs, Insert(k) \/ Commit(k) \/ Publish(k), NEW j \in Visible
        PROVE  j \in Visible' /\ id'[j] = id[j]
    BY <1>0, <2>1 DEF Insert, Commit, Publish, Visible, TypeOK
  <2>2. UNCHANGED store => \A j \in Visible : j \in Visible' /\ id'[j] = id[j]
    BY DEF store, Visible
  <2> QED BY <2>1, <2>2, UnlessEnding
<1>2. \A j \in Jobs : published[j] => j \in Visible
  BY <1>0 DEF NumbersInv, Visible
<1> QED BY <1>1, <1>2 DEF Seen

(* A number that is seen has been given, and with it every lower one.      *)
LEMMA SeenDownward ==
  ASSUME StreamInv, OrderInv, NEW m, Seen(m)
  PROVE  /\ m \in Ids /\ m \in Nat \ {0}
         /\ \A n \in Nat : 0 < n /\ n <= m => Seen(n)
         /\ \A j \in Jobs : id[j] = m => j \in Visible
<1>0. TypeOK /\ NumbersInv
  BY DEF StreamInv
<1>1. PICK k \in Visible : id[k] = m
  BY DEF Seen
<1>2. k \in Jobs /\ k \in Numbered /\ row[k] = "visible" /\ m \in 1..(nextId - 1) /\ nextId \in Nat
  BY <1>0, <1>1 DEF Visible, Numbered, NumbersInv
<1>3. m \in Ids /\ m \in Nat \ {0}
  BY <1>0, <1>1, <1>2 DEF TypeOK
<1>4. ASSUME NEW n \in Nat, 0 < n, n <= m PROVE Seen(n)
  <2>1. n \in 1..(nextId - 1)
    BY <1>2, <1>4
  <2>2. PICK j \in Numbered : id[j] = n
    BY <2>1, <1>0 DEF NumbersInv
  <2>3. CASE n = m
    BY <2>3, <1>1 DEF Seen
  <2>4. CASE n # m
    <3>1. n < m
      BY <2>4, <1>3, <1>4
    <3>2. j \in Earlier(k)
      BY <3>1, <2>2, <1>1 DEF Earlier, Numbered
    <3> QED BY <3>2, <2>2, <1>2 DEF OrderInv, Seen
  <2> QED BY <2>3, <2>4
<1>5. ASSUME NEW j \in Jobs, id[j] = m PROVE j \in Visible
  <2>1. j \in Numbered
    BY <1>0, <1>3, <1>5 DEF NumbersInv
  <2> QED BY <2>1, <1>0, <1>1, <1>2, <1>5 DEF NumbersInv
<1> QED BY <1>3, <1>4, <1>5

(* The tab, its pages and the connections it leaves alone.                 *)
LEMMA DeliveryKept ==
  ASSUME StreamInv, DeliveryInv, [Next]_vars,
         UNCHANGED <<lastId, buf, wire, lastEv, applied, published, handler>>,
         \A j \in Visible' : j \in Visible \/ ~ (id'[j] <= lastEv),
         Current' => (Current /\ conn' = conn) \/ handler[conn'] = "none"
  PROVE  DeliveryInv'
<1>1. /\ \A j \in Visible : j \in Visible' /\ id'[j] = id[j]
      /\ \A n : Seen(n) => Seen(n)'
      /\ \A j \in Jobs : published[j] => id'[j] = id[j]
  BY SeenStays
<1>2. NoneSkipped'
  BY <1>1 DEF DeliveryInv, NoneSkipped
<1>3. Current' /\ handler'[conn'] \in {"reading", "live"} => Continues(conn)'
  BY DEF DeliveryInv, Continues
<1>4. Current' /\ handler'[conn'] = "live" => NoGap(conn)'
  BY <1>1 DEF DeliveryInv, NoGap
<1> QED BY <1>1, <1>2, <1>3, <1>4 DEF DeliveryInv

LEMMA DeliveryStep ==
  ASSUME {"in_order", "hub_calls", "confirmed", "linked", "room", "warm"} \subseteq Kept, StreamInv, KeptInv, [Next]_vars
  PROVE  DeliveryInv'
<1>0. TypeOK /\ NumbersInv /\ ConnsInv /\ WireInv /\ HubInv /\ OrderInv /\ DeliveryInv
  BY DEF StreamInv, KeptInv
<1>1. /\ \A j \in Visible : j \in Visible' /\ id'[j] = id[j]
      /\ \A n : Seen(n) => Seen(n)'
      /\ \A j \in Jobs : published[j] => id'[j] = id[j]
  BY SeenStays
<1>2. Ids \subseteq Nat /\ lastEv \in Ids /\ lastEv \in Nat
  BY <1>0, CountedJobs DEF Ids, TypeOK, DeliveryInv
<1>3. ASSUME NEW j \in Jobs, Insert(j) PROVE DeliveryInv'
  <2>1. Visible' = Visible
    BY <1>0, <1>3 DEF Insert, Visible, TypeOK
  <2>2. UNCHANGED <<lastId, buf, wire, lastEv, applied, published, handler, conn, dead>>
    BY <1>3 DEF Insert, serving, tab
  <2> QED BY <2>1, <2>2, <1>0, DeliveryKept DEF Current
<1>4. ASSUME NEW j \in Jobs, Commit(j) PROVE DeliveryInv'
  <2>1. /\ Visible' = Visible \cup {j} /\ j \in Numbered /\ j \notin Visible /\ id' = id
        /\ id[j] \in Nat \ {0}
    BY <1>0, <1>4 DEF Commit, Visible, Numbered, TypeOK, NumbersInv
  <2>2. ~ (id'[j] <= lastEv)
    <3> SUFFICES ASSUME id[j] <= lastEv PROVE FALSE
      BY <2>1
    <3>1. Seen(lastEv)
      BY <2>1, <1>0, <1>2 DEF DeliveryInv
    <3>2. Seen(id[j])
      BY <3>1, <2>1, <1>0, <1>2, SeenDownward
    <3> QED BY <3>2, <2>1, <1>0, SeenDownward
  <2>3. UNCHANGED <<lastId, buf, wire, lastEv, applied, published, handler, conn, dead>>
    BY <1>4 DEF Commit, serving, tab
  <2> QED BY <2>1, <2>2, <2>3, <1>0, DeliveryKept DEF Current
<1>5. ASSUME NEW j \in Jobs, Publish(j) PROVE DeliveryInv'
  <2>1. /\ row[j] = "visible" /\ \A k \in Earlier(j) : published[k]
        /\ published' = published \/ published' = [published EXCEPT ![j] = TRUE]
        /\ buf' = [c \in Conns |-> IF active /\ c \in listeners THEN Append(buf[c], id[j]) ELSE buf[c]]
        /\ UNCHANGED <<row, id, lastId, wire, lastEv, applied, handler, conn, dead>>
    BY <1>5 DEF Publish, tab
  <2>2. \A k \in Jobs : published'[k] => published[k] \/ k = j
    BY <2>1, <1>0 DEF TypeOK
  <2>3. Visible' = Visible /\ j \in Visible /\ Seen(id[j]) /\ id[j] \in Ids
    BY <2>1, <1>0 DEF Visible, Seen, TypeOK
  <2>4. ASSUME NEW c \in Conns, NEW i \in 1..Len(buf'[c]) PROVE Seen(buf'[c][i])
    <3>1. CASE buf'[c] = buf[c]
      BY <3>1, <2>4, <1>0 DEF DeliveryInv
    <3>2. CASE buf'[c] = Append(buf[c], id[j])
      <4>1. buf[c] \in Seq(Ids)
        BY <1>0 DEF TypeOK
      <4>2. /\ Len(buf[c]) \in Nat /\ Len(buf'[c]) = Len(buf[c]) + 1 /\ buf'[c][Len(buf[c]) + 1] = id[j]
            /\ \A k \in 1..Len(buf[c]) : buf'[c][k] = buf[c][k]
        BY <4>1, <3>2, <2>3, Appended
      <4>3. i = Len(buf[c]) + 1 \/ i \in 1..Len(buf[c])
        BY <4>2, <2>4
      <4> QED BY <4>2, <4>3, <2>3, <1>0 DEF DeliveryInv
    <3> QED BY <3>1, <3>2, <2>1
  <2>5. ASSUME NEW c \in Conns, handler[c] = "none" PROVE buf'[c] = <<>>
    BY <2>1, <2>5, <1>0 DEF HubInv, DeliveryInv
  <2>6. ASSUME Current, handler[conn] = "live" PROVE NoGap(conn)'
    <3>1. NoGap(conn) /\ buf[conn] \in Seq(Ids) /\ lastId[conn] \in Nat
      BY <2>6, <1>0, <1>2 DEF DeliveryInv, Current, TypeOK
    <3>2. buf'[conn] = Append(buf[conn], id[j])
      BY <2>1, <2>6, <1>0 DEF HubInv, Current
    <3>3. /\ Len(buf[conn]) \in Nat /\ Len(buf'[conn]) = Len(buf[conn]) + 1
          /\ buf'[conn][Len(buf[conn]) + 1] = id[j]
          /\ \A k \in 1..Len(buf[conn]) : buf'[conn][k] = buf[conn][k] /\ k \in 1..Len(buf'[conn])
          /\ Len(buf[conn]) + 1 \in 1..Len(buf'[conn])
      <4>1. /\ Len(buf[conn]) \in Nat /\ Len(buf'[conn]) = Len(buf[conn]) + 1
            /\ buf'[conn][Len(buf[conn]) + 1] = id[j]
            /\ \A k \in 1..Len(buf[conn]) : buf'[conn][k] = buf[conn][k]
        BY <3>1, <3>2, <2>3, Appended
      <4> QED BY <4>1
    <3>4. ASSUME NEW k \in Jobs, published'[k]
          PROVE  id[k] <= lastId[conn] \/ \E i \in 1..Len(buf'[conn]) : buf'[conn][i] = id[k]
      BY <3>1, <3>3, <3>4, <2>2 DEF NoGap
    <3>5. ASSUME NEW i \in 1..Len(buf'[conn]), NEW n \in Ids, lastId[conn] < n, n < buf'[conn][i]
          PROVE  \E k \in 1..(i - 1) : buf'[conn][k] = n
      <4>1. CASE i \in 1..Len(buf[conn])
        <5>1. PICK k \in 1..(i - 1) : buf[conn][k] = n
          BY <4>1, <3>1, <3>3, <3>5 DEF NoGap
        <5>2. k \in 1..Len(buf[conn])
          BY <4>1, <3>3
        <5> QED BY <5>1, <5>2, <3>3
      <4>2. CASE i = Len(buf[conn]) + 1
        <5>1. 0 < n /\ n \in Nat /\ n < id[j]
          BY <4>2, <3>1, <3>3, <3>5, <1>2
        <5>2. Seen(n)
          BY <5>1, <2>3, <1>0, <1>2, SeenDownward
        <5>3. PICK k \in Visible : id[k] = n
          BY <5>2 DEF Seen
        <5>4. k \in Jobs /\ published[k]
          BY <5>1, <5>3, <2>1 DEF Visible, Earlier
        <5>5. ~ (n <= lastId[conn])
          BY <3>1, <3>5, <5>1
        <5>6. PICK l \in 1..Len(buf[conn]) : buf[conn][l] = n
          BY <5>3, <5>4, <5>5, <3>1 DEF NoGap
        <5>7. l \in 1..(i - 1)
          BY <4>2, <3>3
        <5> QED BY <5>6, <5>7, <3>3
      <4>3. i = Len(buf[conn]) + 1 \/ i \in 1..Len(buf[conn])
        BY <3>3
      <4> QED BY <4>1, <4>2, <4>3
    <3>8. UNCHANGED <<id, lastId, conn>>
      BY <2>1
    <3>6. \A k \in Jobs : published'[k] =>
             id'[k] <= lastId'[conn'] \/ \E i \in 1..Len(buf'[conn']) : buf'[conn'][i] = id'[k]
      BY <3>4, <3>8
    <3>7. \A i \in 1..Len(buf'[conn']) : \A n \in Ids :
             lastId'[conn'] < n /\ n < buf'[conn'][i] => \E k \in 1..(i - 1) : buf'[conn'][k] = n
      BY <3>5, <3>8
    <3> QED BY <3>6, <3>7, Zenon DEF NoGap
  <2>7. \A n : Seen(n)' <=> Seen(n)
    BY <2>1, <2>3 DEF Seen
  <2>8. NoneSkipped'
    BY <2>1, <2>3, <1>0 DEF DeliveryInv, NoneSkipped
  <2>9. Continues(conn)' <=> Continues(conn)
    BY <2>1 DEF Continues
  <2>10. Current' <=> Current
    BY <2>1 DEF Current
  <2> QED BY <2>1, <2>4, <2>5, <2>6, <2>7, <2>8, <2>9, <2>10, <1>0 DEF DeliveryInv
<1>6. ASSUME NEW c \in Conns, Subscribe(c) \/ Subscribed(c) PROVE DeliveryInv'
  <2>1. /\ handler'[c] \in {"subscribing", "starting"}
        /\ \A d \in Conns \ {c} : handler'[d] = handler[d]
        /\ UNCHANGED <<store, lastId, buf, wire, lastEv, applied, conn, dead>>
    BY <1>0, <1>6 DEF Subscribe, Subscribed, tab, TypeOK
  <2>2. Current' => conn \in Conns
    BY <2>1 DEF Current
  <2> QED BY <2>1, <2>2, <1>0 DEF DeliveryInv, store, Seen, Visible, NoneSkipped, Current, Continues, NoGap
<1>7. ASSUME NEW c \in Conns, Start(c) PROVE DeliveryInv'
  <2>1. /\ handler[c] = "starting" /\ handler'[c] = "reading" /\ lastId'[c] = FirstId(c)
        /\ \A d \in Conns \ {c} : handler'[d] = handler[d] /\ lastId'[d] = lastId[d]
        /\ UNCHANGED <<store, buf, wire, lastEv, applied, conn, dead>>
    BY <1>0, <1>7 DEF Start, tab, TypeOK
  <2>2. ASSUME Current, conn = c PROVE Continues(conn)'
    <3>1. asked[conn] = lastEv /\ lastEv # Nothing
      BY <2>1, <2>2, <1>0 DEF WireInv, Unread, DeliveryInv
    <3>2. lastId'[conn] = lastEv
      BY <3>1, <2>1, <2>2 DEF FirstId
    <3>3. lastEv <= lastEv /\ \A n \in Ids : ~ (lastEv < n /\ n <= lastEv)
      BY <1>2
    <3> QED BY <3>2, <3>3, <2>1 DEF Continues
  <2>3. ASSUME Current, conn # c, handler'[conn] \in {"reading", "live"} PROVE Continues(conn)'
    <3>1. handler'[conn] = handler[conn] /\ lastId'[conn] = lastId[conn]
      BY <2>1, <2>3 DEF Current
    <3> QED BY <3>1, <2>1, <2>3, <1>0 DEF DeliveryInv, Continues
  <2>4. ASSUME Current, handler'[conn] = "live" PROVE NoGap(conn)'
    <3>1. handler'[conn] = handler[conn] /\ lastId'[conn] = lastId[conn]
      BY <2>1, <2>4 DEF Current
    <3> QED BY <3>1, <2>1, <2>4, <1>0 DEF DeliveryInv, NoGap, store
  <2>5. Current' <=> Current
    BY <2>1 DEF Current
  <2>6. \A d \in Conns : handler'[d] = "none" => handler[d] = "none"
    BY <2>1
  <2> QED BY <2>1, <2>2, <2>3, <2>4, <2>5, <2>6, <1>0 DEF DeliveryInv, store, Seen, Visible, NoneSkipped
<1>8. ASSUME NEW c \in Conns, CatchUp(c) PROVE DeliveryInv'
  <2> DEFINE missed == EventsSince(lastId[c])
  <2>1. /\ handler[c] = "reading" /\ handler'[c] = "live" /\ wire'[c] = wire[c] \o missed
        /\ lastId'[c] = IF missed = <<>> THEN lastId[c] ELSE missed[Len(missed)]
        /\ \A d \in Conns \ {c} : handler'[d] = handler[d] /\ lastId'[d] = lastId[d] /\ wire'[d] = wire[d]
        /\ UNCHANGED <<store, buf, lastEv, applied, conn, dead>>
    BY <1>0, <1>8 DEF CatchUp, tab, TypeOK
  <2>2. /\ missed \in Seq(Ids) /\ lastId[c] \in Ids /\ lastId[c] \in Nat
        /\ \A i \in 1..Len(missed) : lastId[c] < missed[i] /\ Seen(missed[i])
        /\ \A i \in 1..Len(missed) : \A k \in 1..(i - 1) : missed[k] < missed[i]
        /\ \A m \in Ids : lastId[c] < m /\ Seen(m) => \E i \in 1..Len(missed) : missed[i] = m
    BY <1>0, <1>2, ReadBack DEF TypeOK
  <2> HIDE DEF missed
  <2>3. wire'[c] = missed /\ wire[c] = <<>>
    <3>1. wire[c] = <<>> /\ <<>> \o missed = missed
      BY <2>1, <2>2, <1>0, ConcatEmptySeq DEF WireInv
    <3> QED BY <3>1, <2>1
  <2>4. ASSUME NEW i \in 1..Len(missed) PROVE missed[i] <= lastId'[c] /\ missed[i] \in Nat
    <3>1. Len(missed) \in 1..Len(missed) /\ missed # <<>>
      BY <2>2, HasLast
    <3>2. missed[i] \in Ids /\ missed[Len(missed)] \in Ids
      BY <3>1, <2>2, ElementOfSeq
    <3>3. missed[i] \in Nat /\ missed[Len(missed)] \in Nat
      BY <3>2, <1>2
    <3>4. i = Len(missed) \/ i \in 1..(Len(missed) - 1)
      BY <3>1
    <3>5. i \in 1..(Len(missed) - 1) => missed[i] < missed[Len(missed)]
      BY <3>1, <2>2
    <3> QED BY <3>1, <3>3, <3>4, <3>5, <2>1
  <2>5. lastId[c] <= lastId'[c] /\ lastId'[c] \in Nat /\ (lastId'[c] = lastId[c] \/ Seen(lastId'[c]))
    <3>1. CASE missed = <<>>
      BY <3>1, <2>1, <2>2
    <3>2. CASE missed # <<>>
      <4>1. Len(missed) \in 1..Len(missed)
        BY <3>2, <2>2
      <4>2. lastId'[c] = missed[Len(missed)] /\ missed[Len(missed)] \in Nat
        BY <4>1, <3>2, <2>1, <2>4
      <4> QED BY <4>1, <4>2, <2>2
    <3> QED BY <3>1, <3>2
  <2>6. ASSUME NEW m, Seen(m) PROVE m <= lastId'[c] /\ m \in Nat
    <3>1. m \in Ids /\ m \in Nat
      BY <2>6, <1>0, SeenDownward
    <3>2. CASE m <= lastId[c]
      BY <3>1, <3>2, <2>2, <2>5
    <3>3. CASE lastId[c] < m
      BY <3>1, <3>3, <2>2, <2>4, <2>6
    <3> QED BY <3>1, <3>2, <3>3, <2>2
  <2>7. ASSUME Current, conn = c PROVE Continues(conn)'
    <3>1. Continues(conn) /\ lastEv <= lastId[c]
      BY <2>1, <2>7, <1>0 DEF DeliveryInv, Continues
    <3>2. lastEv <= lastId'[c]
      BY <3>1, <2>2, <2>5, <1>2
    <3>3. ASSUME NEW n \in Ids, lastEv < n, n <= lastId'[c] PROVE \E i \in 1..Len(missed) : missed[i] = n
      <4>1. n \in Nat /\ 0 < n
        BY <3>3, <1>2
      <4>2. ~ (n <= lastId[c])
        <5> SUFFICES ASSUME n <= lastId[c] PROVE FALSE
          OBVIOUS
        <5>1. PICK i \in 1..Len(wire[c]) : wire[c][i] = n
          BY <3>1, <3>3, <2>7 DEF Continues
        <5> QED BY <5>1, <2>3
      <4>3. lastId[c] < n
        BY <4>1, <4>2, <2>2
      <4>4. Seen(lastId'[c])
        BY <4>2, <3>3, <2>5
      <4>5. Seen(n)
        BY <4>1, <4>4, <3>3, <1>0, SeenDownward
      <4> QED BY <4>3, <4>5, <2>2
    <3> QED BY <3>2, <3>3, <2>1, <2>3, <2>7 DEF Continues
  <2>8. ASSUME Current, conn = c PROVE NoGap(conn)'
    <3>1. \A j \in Jobs : published[j] => id[j] <= lastId'[c]
      BY <2>6, <1>0 DEF NumbersInv, Visible, Seen
    <3>2. ASSUME NEW i \in 1..Len(buf[c]), NEW n \in Ids, lastId'[c] < n, n < buf[c][i] PROVE FALSE
      <4>1. Seen(buf[c][i])
        BY <1>0 DEF DeliveryInv
      <4> QED BY <4>1, <3>2, <2>5, <2>6, <1>2
    <3> QED BY <3>1, <3>2, <2>1, <2>8 DEF NoGap, store
  <2>9. ASSUME Current, conn # c
        PROVE  handler'[conn] = handler[conn] /\ lastId'[conn] = lastId[conn] /\ wire'[conn] = wire[conn]
    BY <2>1, <2>9 DEF Current
  <2>10. ASSUME Current, handler'[conn] \in {"reading", "live"} PROVE Continues(conn)'
    BY <2>1, <2>7, <2>9, <2>10, <1>0 DEF DeliveryInv, Continues
  <2>11. ASSUME Current, handler'[conn] = "live" PROVE NoGap(conn)'
    BY <2>1, <2>8, <2>9, <2>11, <1>0 DEF DeliveryInv, NoGap, store
  <2>12. ASSUME NEW d \in Conns, NEW i \in 1..Len(wire'[d]) PROVE Seen(wire'[d][i])
    BY <2>1, <2>2, <2>3, <2>12, <1>0 DEF DeliveryInv
  <2>13. \A d \in Conns : handler'[d] = "none" => handler[d] = "none"
    BY <2>1
  <2>14. (Current' <=> Current) /\ \A n : Seen(n)' <=> Seen(n)
    BY <2>1 DEF Current, Seen, Visible, store
  <2> QED BY <2>1, <2>10, <2>11, <2>12, <2>13, <2>14, <1>0 DEF DeliveryInv, store, Visible, NoneSkipped
<1>9. ASSUME NEW c \in Conns, Live(c) PROVE DeliveryInv'
  <2> DEFINE e == Head(buf[c])
  <2>1. /\ handler[c] = "live" /\ buf[c] # <<>> /\ buf'[c] = Tail(buf[c])
        /\ IF e > lastId[c] THEN wire'[c] = Append(wire[c], e) /\ lastId'[c] = e
                            ELSE wire'[c] = wire[c] /\ lastId'[c] = lastId[c]
        /\ \A d \in Conns \ {c} : lastId'[d] = lastId[d] /\ wire'[d] = wire[d] /\ buf'[d] = buf[d]
        /\ UNCHANGED <<store, handler, lastEv, applied, conn, dead>>
    BY <1>0, <1>9 DEF Live, Writes, tab, TypeOK
  <2>2. wire[c] \in Seq(Ids) /\ lastId[c] \in Ids /\ lastId[c] \in Nat /\ buf[c] \in Seq(Ids)
    BY <1>0, <1>2 DEF TypeOK
  <2>3. /\ Len(buf[c]) \in Nat \ {0} /\ Len(buf'[c]) = Len(buf[c]) - 1
        /\ \A i \in 1..Len(buf'[c]) : buf'[c][i] = buf[c][i + 1]
        /\ e = buf[c][1] /\ e \in Ids
    <3>1. /\ Len(buf[c]) \in Nat \ {0} /\ Len(Tail(buf[c])) = Len(buf[c]) - 1
          /\ \A i \in 1..Len(Tail(buf[c])) : Tail(buf[c])[i] = buf[c][i + 1]
          /\ Head(buf[c]) = buf[c][1] /\ buf[c][1] \in Ids
      BY <2>1, <2>2, Tailed
    <3> QED BY <3>1, <2>1
  <2> HIDE DEF e
  <2>4. e \in Nat /\ Seen(e) /\ 1 \in 1..Len(buf[c])
    BY <2>3, <1>0, <1>2 DEF DeliveryInv
  <2>5. lastId[c] <= lastId'[c] /\ lastId'[c] \in Nat /\ e <= lastId'[c]
    BY <2>1, <2>2, <2>4
  <2>6. ASSUME NEW i \in 1..Len(buf[c])
        PROVE  i = 1 \/ (i - 1 \in 1..Len(buf'[c]) /\ buf'[c][i - 1] = buf[c][i])
    BY <2>3
  <2>7. ASSUME Current, conn = c PROVE Continues(conn)' /\ NoGap(conn)'
    <3>1. Continues(c) /\ NoGap(c) /\ lastEv <= lastId[c]
      BY <2>1, <2>7, <1>0 DEF DeliveryInv, Continues
    <3>2. lastEv <= lastId'[c]
      BY <3>1, <2>2, <2>5, <1>2
    <3>3. ASSUME NEW n \in Ids, lastEv < n, n <= lastId'[c] PROVE \E i \in 1..Len(wire'[c]) : wire'[c][i] = n
      <4>1. CASE ~(e > lastId[c])
        BY <4>1, <3>1, <3>3, <2>1 DEF Continues
      <4>2. CASE e > lastId[c]
        <5>1. /\ wire'[c] = Append(wire[c], e) /\ lastId'[c] = e
              /\ Len(wire[c]) \in Nat /\ Len(Append(wire[c], e)) = Len(wire[c]) + 1
              /\ Append(wire[c], e)[Len(wire[c]) + 1] = e
              /\ \A i \in 1..Len(wire[c]) : Append(wire[c], e)[i] = wire[c][i]
          BY <4>2, <2>1, <2>2, <2>3, Appended
        <5>2. n \in Nat
          BY <1>2
        <5>3. CASE n <= lastId[c]
          <6>1. PICK i \in 1..Len(wire[c]) : wire[c][i] = n
            BY <5>3, <3>1, <3>3 DEF Continues
          <6>2. i \in 1..Len(wire'[c])
            BY <5>1
          <6> QED BY <6>1, <6>2, <5>1
        <5>4. CASE ~(n <= lastId[c])
          <6>1. lastId[c] < n /\ n <= e
            BY <5>1, <5>2, <5>4, <3>3, <2>2, <2>4
          <6>2. ~ (n < e)
            <7> SUFFICES ASSUME n < e PROVE FALSE
              OBVIOUS
            <7>1. PICK k \in 1..(1 - 1) : buf[c][k] = n
              BY <6>1, <3>1, <2>3, <2>4 DEF NoGap
            <7> QED BY <7>1
          <6>3. n = e
            BY <6>1, <6>2, <5>2, <2>4
          <6>4. Len(wire[c]) + 1 \in 1..Len(wire'[c])
            BY <5>1
          <6> QED BY <6>3, <6>4, <5>1
        <5> QED BY <5>3, <5>4
      <4> QED BY <4>1, <4>2
    <3>4. ASSUME NEW j \in Jobs, published[j]
          PROVE  id[j] <= lastId'[c] \/ \E i \in 1..Len(buf'[c]) : buf'[c][i] = id[j]
      <4>1. id[j] \in Nat
        BY <1>0, <1>2 DEF TypeOK
      <4>2. CASE id[j] <= lastId[c]
        BY <4>1, <4>2, <2>2, <2>5
      <4>3. CASE \E i \in 1..Len(buf[c]) : buf[c][i] = id[j]
        <5>1. PICK i \in 1..Len(buf[c]) : buf[c][i] = id[j]
          BY <4>3
        <5> QED BY <5>1, <2>3, <2>5, <2>6
      <4> QED BY <4>2, <4>3, <3>1, <3>4 DEF NoGap
    <3>5. ASSUME NEW i \in 1..Len(buf'[c]), NEW n \in Ids, lastId'[c] < n, n < buf'[c][i]
          PROVE  \E k \in 1..(i - 1) : buf'[c][k] = n
      <4>1. i + 1 \in 1..Len(buf[c]) /\ buf'[c][i] = buf[c][i + 1] /\ i \in Nat
        BY <2>3
      <4>2. n \in Nat /\ lastId[c] < n /\ n # e
        BY <3>5, <2>2, <2>4, <2>5, <1>2
      <4>3. PICK k \in 1..((i + 1) - 1) : buf[c][k] = n
        BY <4>1, <4>2, <3>1, <3>5 DEF NoGap
      <4>4. k # 1 /\ k \in 1..Len(buf[c])
        BY <4>1, <4>2, <4>3, <2>3
      <4>5. k - 1 \in 1..(i - 1) /\ buf'[c][k - 1] = n
        BY <4>1, <4>3, <4>4, <2>6
      <4> QED BY <4>5
    <3>6. Continues(conn)'
      BY <3>2, <3>3, <2>1, <2>7 DEF Continues
    <3>7. NoGap(conn)'
      <4>1. \A j \in Jobs : published'[j] =>
               id'[j] <= lastId'[conn'] \/ \E i \in 1..Len(buf'[conn']) : buf'[conn'][i] = id'[j]
        BY <3>4, <2>1, <2>7 DEF store
      <4>2. \A i \in 1..Len(buf'[conn']) : \A n \in Ids :
               lastId'[conn'] < n /\ n < buf'[conn'][i] => \E k \in 1..(i - 1) : buf'[conn'][k] = n
        BY <3>5, <2>1, <2>7
      <4> QED BY <4>1, <4>2, Zenon DEF NoGap
    <3> QED BY <3>6, <3>7
  <2>8. ASSUME Current, conn # c
        PROVE  lastId'[conn] = lastId[conn] /\ wire'[conn] = wire[conn] /\ buf'[conn] = buf[conn]
    BY <2>1, <2>8 DEF Current
  <2>9. ASSUME Current, handler'[conn] \in {"reading", "live"} PROVE Continues(conn)'
    BY <2>1, <2>7, <2>8, <2>9, <1>0 DEF DeliveryInv, Continues
  <2>10. ASSUME Current, handler'[conn] = "live" PROVE NoGap(conn)'
    BY <2>1, <2>7, <2>8, <2>10, <1>0 DEF DeliveryInv, NoGap, store
  <2>11. ASSUME NEW d \in Conns, NEW i \in 1..Len(buf'[d]) PROVE Seen(buf'[d][i])
    <3>1. CASE d = c
      <4>1. i + 1 \in 1..Len(buf[c]) /\ buf'[c][i] = buf[c][i + 1]
        BY <3>1, <2>3
      <4> QED BY <4>1, <3>1, <1>0 DEF DeliveryInv
    <3>2. CASE d # c
      BY <3>2, <2>1, <1>0 DEF DeliveryInv
    <3> QED BY <3>1, <3>2
  <2>12. ASSUME NEW d \in Conns, NEW i \in 1..Len(wire'[d]) PROVE Seen(wire'[d][i])
    <3>1. CASE wire'[d] = wire[d]
      BY <3>1, <2>12, <1>0 DEF DeliveryInv
    <3>2. CASE d = c /\ wire'[c] = Append(wire[c], e)
      <4>1. /\ Len(wire[c]) \in Nat /\ Len(Append(wire[c], e)) = Len(wire[c]) + 1
            /\ Append(wire[c], e)[Len(wire[c]) + 1] = e
            /\ \A k \in 1..Len(wire[c]) : Append(wire[c], e)[k] = wire[c][k]
        BY <2>2, <2>3, Appended
      <4>2. i = Len(wire[c]) + 1 \/ i \in 1..Len(wire[c])
        BY <4>1, <3>2, <2>12
      <4> QED BY <4>1, <4>2, <3>2, <2>4, <1>0 DEF DeliveryInv
    <3> QED BY <3>1, <3>2, <2>1
  <2>13. \A d \in Conns : handler'[d] = "none" => buf'[d] = <<>>
    BY <2>1, <1>0 DEF DeliveryInv
  <2>14. (Current' <=> Current) /\ \A n : Seen(n)' <=> Seen(n)
    BY <2>1 DEF Current, Seen, Visible, store
  <2> QED BY <2>1, <2>9, <2>10, <2>11, <2>12, <2>13, <2>14, <1>0 DEF DeliveryInv, store, Visible, NoneSkipped
<1>10. ASSUME NEW c \in Conns, Remove(c) \/ Unsubscribed(c) PROVE DeliveryInv'
  <2>1. c \in dead
    BY <1>0, <1>10 DEF Remove, Unsubscribed, WireInv
  <2>2. /\ handler'[c] \in {"closing", "gone"}
        /\ buf'[c] \in {buf[c], <<>>} /\ wire'[c] \in {wire[c], <<>>}
        /\ \A d \in Conns \ {c} : handler'[d] = handler[d] /\ wire'[d] = wire[d] /\ buf'[d] = buf[d]
        /\ \A d \in Conns \ {c} : lastId'[d] = lastId[d]
        /\ UNCHANGED <<store, lastEv, applied, conn, dead>>
    BY <1>0, <1>10 DEF Remove, Unsubscribed, tab, TypeOK
  <2>3. Current => /\ handler'[conn] = handler[conn] /\ wire'[conn] = wire[conn]
                   /\ buf'[conn] = buf[conn] /\ lastId'[conn] = lastId[conn]
    BY <2>1, <2>2 DEF Current
  <2>4. /\ Current' <=> Current
        /\ \A n : Seen(n)' <=> Seen(n)
    BY <2>2 DEF Current, Seen, Visible, store
  <2>5. Current' => (Continues(conn)' <=> Continues(conn)) /\ (NoGap(conn)' <=> NoGap(conn))
    BY <2>2, <2>3, <2>4 DEF Continues, NoGap, store
  <2>6. ASSUME NEW d \in Conns
        PROVE  /\ \A i \in 1..Len(buf'[d]) : Seen(buf'[d][i])
               /\ \A i \in 1..Len(wire'[d]) : Seen(wire'[d][i])
               /\ handler'[d] = "none" => buf'[d] = <<>>
    <3>1. CASE d = c
      <4>1. (buf'[c] = buf[c] \/ buf'[c] = <<>>) /\ (wire'[c] = wire[c] \/ wire'[c] = <<>>)
        BY <2>2
      <4> QED BY <4>1, <3>1, <2>2, <1>0 DEF DeliveryInv
    <3>2. CASE d # c
      BY <3>2, <2>2, <1>0 DEF DeliveryInv
    <3> QED BY <3>1, <3>2
  <2> QED BY <2>2, <2>3, <2>4, <2>5, <2>6, <1>0 DEF DeliveryInv, store, Visible, NoneSkipped
<1>11. ASSUME Connect \/ Reconnect PROVE DeliveryInv'
  <2>1. /\ UNCHANGED <<store, lastId, buf, wire, lastEv, applied, handler>>
        /\ \/ UNCHANGED <<conn, dead>>
           \/ conn' = conn + 1
    BY <1>11 DEF Connect, Reconnect, Dial, serving
  <2>2. conn' = conn + 1 /\ conn' \in Conns => handler[conn'] = "none"
    <3>1. conn \in Nat
      BY <1>0 DEF TypeOK
    <3>2. conn + 1 > conn
      BY <3>1
    <3> QED BY <3>2, <1>0 DEF WireInv
  <2>3. Visible' = Visible
    BY <2>1 DEF store, Visible
  <2>4. Current' => (Current /\ conn' = conn) \/ handler[conn'] = "none"
    BY <2>1, <2>2 DEF Current
  <2> QED BY <2>1, <2>3, <2>4, <1>0, DeliveryKept DEF store
<1>12. ASSUME Opened \/ Offline \/ Lose \/ RedisTakes \/ (\E q \in Queries : Querying(q))
               \/ UNCHANGED vars
       PROVE  DeliveryInv'
  <2>1. /\ UNCHANGED <<store, lastId, buf, wire, lastEv, applied, handler, conn>>
        /\ dead \subseteq dead'
    BY <1>12 DEF RedisTakes, Opened, Offline, Lose, Querying, Fetch, Read, Show, vars, serving, tab
  <2>2. Visible' = Visible
    BY <2>1 DEF store, Visible
  <2>3. Current' => Current
    BY <2>1 DEF Current
  <2> QED BY <2>1, <2>2, <2>3, <1>0, DeliveryKept DEF store
<1>13. ASSUME Receive PROVE DeliveryInv'
  <2>1. /\ conn \in Conns /\ conn \notin dead /\ wire[conn] # <<>> /\ lastEv' = Head(wire[conn])
        /\ wire' = [wire EXCEPT ![conn] = Tail(wire[conn])]
        /\ UNCHANGED <<store, lastId, buf, handler, conn, dead>>
    BY <1>13 DEF Receive, Frame
  <2> DEFINE h == Head(wire[conn])
  <2>2. PICK j \in Jobs : id[j] = h /\ applied' = applied \cup {j}
    BY <1>13 DEF Receive, Frame
  <2>3. wire[conn] \in Seq(Ids) /\ lastId[conn] \in Nat
    BY <2>1, <1>0, <1>2 DEF TypeOK
  <2>4. /\ wire'[conn] = Tail(wire[conn]) /\ \A d \in Conns \ {conn} : wire'[d] = wire[d]
        /\ Len(wire[conn]) \in Nat \ {0} /\ Len(wire'[conn]) = Len(wire[conn]) - 1
        /\ \A i \in 1..Len(wire'[conn]) : wire'[conn][i] = wire[conn][i + 1]
        /\ h = wire[conn][1] /\ h \in Ids
    <3>1. wire'[conn] = Tail(wire[conn]) /\ \A d \in Conns \ {conn} : wire'[d] = wire[d]
      BY <2>1, <1>0 DEF TypeOK
    <3>2. /\ Len(wire[conn]) \in Nat \ {0} /\ Len(Tail(wire[conn])) = Len(wire[conn]) - 1
          /\ \A i \in 1..Len(Tail(wire[conn])) : Tail(wire[conn])[i] = wire[conn][i + 1]
          /\ Head(wire[conn]) = wire[conn][1] /\ wire[conn][1] \in Ids
      BY <2>1, <2>3, Tailed
    <3> QED BY <3>1, <3>2
  <2>5. lastEv' = h
    BY <2>1
  <2> HIDE DEF h
  <2>6. h \in Nat /\ 1 \in 1..Len(wire[conn]) /\ Seen(h)
    BY <2>1, <2>4, <1>0, <1>2 DEF DeliveryInv
  <2>7. h # 0 /\ j \in Visible
    BY <2>2, <2>6, <1>0, SeenDownward
  <2>8. ~Unread(conn) /\ handler[conn] # "reading" /\ Ascends(conn)
    BY <2>1, <1>0 DEF WireInv, Current
  <2>9. Current /\ handler[conn] = "live" /\ Continues(conn)
    <3>1. handler[conn] = "live"
      BY <2>1, <2>8, <1>0 DEF Unread, WireInv, TypeOK
    <3> QED BY <3>1, <2>1, <1>0 DEF Current, DeliveryInv
  <2>10. h <= lastId[conn] /\ lastEv < h
    BY <2>4, <2>6, <2>8, <1>0 DEF Ascends, DeliveryInv
  <2>11. ASSUME NEW n \in Ids, lastEv < n, n <= lastId[conn]
         PROVE  n = h \/ \E i \in 1..Len(wire'[conn]) : wire'[conn][i] = n /\ h < n
    <3>1. PICK i \in 1..Len(wire[conn]) : wire[conn][i] = n
      BY <2>9, <2>11 DEF Continues
    <3>2. CASE i = 1
      BY <3>1, <3>2, <2>4
    <3>3. CASE i # 1
      <4>1. i - 1 \in 1..Len(wire'[conn]) /\ wire'[conn][i - 1] = n /\ 1 \in 1..(i - 1)
        <5>1. i - 1 \in 1..Len(wire'[conn]) /\ 1 \in 1..(i - 1) /\ (i - 1) + 1 = i
          BY <3>3, <2>4
        <5> QED BY <5>1, <3>1, <2>4
      <4>2. h < n
        BY <4>1, <3>1, <2>4, <2>8 DEF Ascends
      <4> QED BY <4>1, <4>2
    <3> QED BY <3>2, <3>3
  <2>12. Continues(conn)'
    <3>1. ASSUME NEW n \in Ids, h < n, n <= lastId[conn] PROVE \E i \in 1..Len(wire'[conn]) : wire'[conn][i] = n
      <4>1. lastEv < n /\ n # h
        BY <3>1, <2>6, <2>10, <1>2
      <4> QED BY <4>1, <3>1, <2>11
    <3> QED BY <3>1, <2>1, <2>5, <2>10 DEF Continues
  <2>13. ASSUME NEW k \in Visible, id[k] <= h PROVE k \in applied'
    <3>1. k \in Jobs /\ id[k] \in Ids /\ id[k] \in Nat
      BY <1>0, <1>2 DEF Visible, TypeOK
    <3>2. CASE id[k] <= lastEv
      BY <3>2, <2>2, <1>0 DEF DeliveryInv, NoneSkipped
    <3>3. CASE ~(id[k] <= lastEv)
      <4>1. lastEv < id[k] /\ id[k] <= lastId[conn] /\ ~ (h < id[k])
        BY <3>1, <3>3, <2>3, <2>6, <2>10, <2>13, <1>2
      <4>2. id[k] = h
        BY <4>1, <3>1, <2>11
      <4>3. k = j
        BY <4>2, <3>1, <2>2, <2>7, <1>0 DEF NumbersInv, Numbered, Visible
      <4> QED BY <4>3, <2>2
    <3> QED BY <3>2, <3>3
  <2>14. /\ Current' <=> Current
         /\ \A n : Seen(n)' <=> Seen(n)
         /\ Visible' = Visible /\ id' = id
         /\ NoGap(conn)' <=> NoGap(conn)
    BY <2>1 DEF Current, Seen, Visible, store, NoGap
  <2>15. NoneSkipped'
    BY <2>5, <2>13, <2>14 DEF NoneSkipped
  <2>16. ASSUME NEW d \in Conns, NEW i \in 1..Len(wire'[d]) PROVE Seen(wire'[d][i])
    <3>1. CASE d = conn
      <4>1. i + 1 \in 1..Len(wire[conn]) /\ wire'[conn][i] = wire[conn][i + 1]
        BY <3>1, <2>4
      <4> QED BY <4>1, <3>1, <1>0 DEF DeliveryInv
    <3>2. CASE d # conn
      BY <3>2, <2>4, <1>0 DEF DeliveryInv
    <3> QED BY <3>1, <3>2
  <2>17. lastEv' # Nothing /\ Seen(lastEv')
    BY <2>5, <2>6, NothingAssumption
  <2> QED BY <2>1, <2>9, <2>12, <2>14, <2>15, <2>16, <2>17, <1>0 DEF DeliveryInv
<1> QED
  BY <1>3, <1>4, <1>5, <1>6, <1>7, <1>8, <1>9, <1>10, <1>11, <1>12, <1>13
     DEF Next, Ending, Serving, Following

(* Where the environment keeps its promises, a connection that is lost at  *)
(* any moment can be resumed from the number the tab remembers: whatever   *)
(* is visible up to it has been applied (sse.go 69-80, StreamProvider.tsx  *)
(* 64, 92).                                                                *)
THEOREM StreamResumes ==
  ASSUME {"in_order", "hub_calls", "confirmed", "linked", "room", "warm"} \subseteq Kept
  PROVE  Spec => []Resumable
<1>1. Init => StreamInv /\ KeptInv
  BY InitStream, InitKept
<1>2. (StreamInv /\ KeptInv) /\ [Next]_vars => (StreamInv /\ KeptInv)'
  BY StreamStep, HubStep, OrderStep, DeliveryStep DEF KeptInv
<1>3. StreamInv /\ KeptInv => Resumable
  BY DEF StreamInv, KeptInv, DeliveryInv, Resumable
<1> QED BY <1>1, <1>2, <1>3, PTL DEF Spec
=============================================================================
