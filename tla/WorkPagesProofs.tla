-------------------------- MODULE WorkPagesProofs ---------------------------
(***************************************************************************)
(* Theorems about the pages of the site, for any jobs, assets, records and *)
(* works and any bounds, with their proofs: first each part's own lemmas   *)
(* (the creation page, the task pages, the library, the records a user     *)
(* keeps, the community), then the theorems about the whole site, where    *)
(* what one part does leaves the others alone.  A theorem names as         *)
(* hypotheses the promises about the user and the network that it needs.   *)
(***************************************************************************)
EXTENDS WorkPages, FiniteSetTheorems, TLAPS
-----------------------------------------------------------------------------
(* The creation page.                                                      *)
Quotes == [of : Bodies, at : Prices]
Presses == [body : Bodies, quote : Quotes]
Entries == [body : Bodies, presses : SUBSET Presses, told : BOOLEAN]
Requests == [n : Nat, key : Nat, body : Bodies, quote : Quotes, answer : {Nothing}]
Charges == [key : Nat, body : Bodies, charged : Quotes]

(* p was pressed under the key k. *)
Made(log, k, p) == k \in 1..Len(log) /\ p \in log[k].presses

(* Between two keys of the same request an answer came: ToldOf is the      *)
(* statement of NoSecondJob, of all the keys and not of those with a job.  *)
ToldOf(log) == \A l \in 1..Len(log) : \A k \in 1..(l - 1) :
                  (\A i \in k..l : log[i].body = log[k].body) => log[k].told

PageOK == /\ body \in Bodies \cup {Nothing} /\ debounced \in Bodies \cup {Nothing}
          /\ quote \in Prices \cup {Nothing} /\ price \in Prices /\ newest \in Nat
          /\ asked \in Seq(Entries)

(* What is on its way, and what was made, was pressed under its key.       *)
WireMade == \A m \in wire : m \in Requests /\ Made(asked, m.key, [body |-> m.body, quote |-> m.quote])
JobsMade == \A j \in jobs : j \in Charges /\ Made(asked, j.key, [body |-> j.body, quote |-> j.charged])

(* The page holds the last key, with the request it is for, or has given   *)
(* it up because an answer came.                                           *)
Holds(i, log) == /\ i # Nothing => /\ log # <<>> /\ i.key = Len(log) /\ i.body = log[Len(log)].body
                 /\ i = Nothing /\ log # <<>> => log[Len(log)].told

SubmissionInv == PageOK /\ WireMade /\ JobsMade /\ Holds(idem, asked) /\ ToldOf(asked)
-----------------------------------------------------------------------------
(* The log of keys grows at its end, and an entry only gains presses and   *)
(* answers.                                                                *)
Grown(older, newer) ==
    /\ Len(newer) = Len(older)
    /\ \A k \in 1..Len(older) : /\ newer[k].body = older[k].body
                                /\ older[k].presses \subseteq newer[k].presses
                                /\ older[k].told => newer[k].told

LEMMA GrownKeeps ==
  ASSUME NEW older \in Seq(Entries), NEW newer \in Seq(Entries), Grown(older, newer)
  PROVE  /\ \A k, p : Made(older, k, p) => Made(newer, k, p)
         /\ ToldOf(older) => ToldOf(newer)
<1>1. \A k, p : Made(older, k, p) => Made(newer, k, p)
  BY DEF Grown, Made
<1>2. ASSUME ToldOf(older), NEW l \in 1..Len(newer), NEW k \in 1..(l - 1),
             \A i \in k..l : newer[i].body = newer[k].body
      PROVE  newer[k].told
  <2>1. l \in 1..Len(older) /\ k \in 1..Len(older) /\ \A i \in k..l : i \in 1..Len(older)
    BY DEF Grown
  <2>2. \A i \in k..l : older[i].body = older[k].body
    BY <1>2, <2>1 DEF Grown
  <2>3. older[k].told
    BY <1>2, <2>1, <2>2 DEF ToldOf
  <2> QED BY <2>1, <2>3 DEF Grown
<1>3. ToldOf(older) => ToldOf(newer)
  BY <1>2 DEF ToldOf
<1> QED BY <1>1, <1>3

LEMMA AppendKeeps ==
  ASSUME NEW log \in Seq(Entries), NEW e \in Entries
  PROVE  /\ Append(log, e) \in Seq(Entries)
         /\ \A k, p : Made(log, k, p) => Made(Append(log, e), k, p)
         /\ \A p \in e.presses : Made(Append(log, e), Len(log) + 1, p)
  BY DEF Made

(* A key is asked for when the last one was for another request, or given  *)
(* up for an answer.                                                       *)
LEMMA AppendTold ==
  ASSUME NEW log \in Seq(Entries), NEW e \in Entries, ToldOf(log),
         log = <<>> \/ log[Len(log)].told \/ log[Len(log)].body # e.body
  PROVE  ToldOf(Append(log, e))
<1> DEFINE new == Append(log, e)
           n == Len(log)
<1>1. n \in Nat /\ Len(new) = n + 1 /\ new[n + 1] = e /\ \A i \in 1..n : new[i] = log[i]
  OBVIOUS
<1> HIDE DEF new
<1>2. ASSUME NEW l \in 1..(n + 1), NEW k \in 1..(l - 1), \A i \in k..l : new[i].body = new[k].body
      PROVE  new[k].told
  <2>1. k \in 1..n /\ new[k] = log[k]
    BY <1>1
  <2>2. CASE l \in 1..n
    <3>1. \A i \in k..l : log[i].body = log[k].body
      BY <1>1, <1>2, <2>1, <2>2
    <3> QED BY <2>1, <2>2, <3>1 DEF ToldOf
  <2>3. CASE l = n + 1
    <3>1. log # <<>> /\ n \in k..l /\ l \in k..l /\ n \in 1..n
      BY <1>1, <2>1, <2>3
    <3>2. log[n].body = log[k].body /\ e.body = log[k].body
      BY <1>1, <1>2, <2>1, <2>3, <3>1
    <3>3. log[n].told
      BY <3>1, <3>2
    <3>4. CASE k = n
      BY <2>1, <3>3, <3>4
    <3>5. CASE k # n
      <4>1. k \in 1..(n - 1)
        BY <1>1, <2>1, <3>5
      <4>2. \A i \in k..n : log[i].body = log[k].body
        BY <1>1, <1>2, <2>1, <2>3
      <4> QED BY <2>1, <3>1, <4>1, <4>2 DEF ToldOf
    <3> QED BY <3>4, <3>5
  <2> QED BY <1>1, <2>2, <2>3
<1>3. ToldOf(new)
  BY <1>1, <1>2 DEF ToldOf
<1> QED BY <1>3 DEF new

(* The log after an answer or after the page is left: told is set.         *)
LEMMA ToldGrows ==
  ASSUME NEW log \in Seq(Entries), NEW gone \in SUBSET (1..Len(log)),
         NEW new, new = [k \in 1..Len(log) |-> IF k \in gone THEN [log[k] EXCEPT !.told = TRUE] ELSE log[k]]
  PROVE  /\ new \in Seq(Entries) /\ Grown(log, new)
         /\ \A k \in gone : new[k].told
<1>1. \A k \in 1..Len(log) : log[k] \in Entries
  OBVIOUS
<1>2. \A k \in 1..Len(log) : /\ [log[k] EXCEPT !.told = TRUE] \in Entries
                             /\ [log[k] EXCEPT !.told = TRUE].told
                             /\ [log[k] EXCEPT !.told = TRUE].body = log[k].body
                             /\ [log[k] EXCEPT !.told = TRUE].presses = log[k].presses
  BY <1>1 DEF Entries
<1>3. new \in [1..Len(log) -> Entries] /\ Len(log) \in Nat
  BY <1>1, <1>2
<1>4. new \in Seq(Entries) /\ Len(new) = Len(log)
  BY <1>3
<1>5. \A k \in 1..Len(log) : new[k] = IF k \in gone THEN [log[k] EXCEPT !.told = TRUE] ELSE log[k]
  OBVIOUS
<1> QED BY <1>2, <1>4, <1>5 DEF Grown

(* Another press under a key that is held.                                 *)
LEMMA PressGrows ==
  ASSUME NEW log \in Seq(Entries), NEW k \in 1..Len(log), NEW p \in Presses,
         NEW new, new = [log EXCEPT ![k].presses = @ \cup {p}]
  PROVE  new \in Seq(Entries) /\ Grown(log, new) /\ Made(new, k, p) /\ new[k].body = log[k].body
<1>1. \A i \in 1..Len(log) : log[i] \in Entries
  OBVIOUS
<1> DEFINE e == [log[k] EXCEPT !.presses = @ \cup {p}]
<1>2. /\ e \in Entries /\ e.told = log[k].told /\ e.body = log[k].body
      /\ e.presses = log[k].presses \cup {p}
  BY <1>1 DEF Entries
<1>3. new = [log EXCEPT ![k] = e]
  OBVIOUS
<1> HIDE DEF e
<1>a. log \in [1..Len(log) -> Entries] /\ Len(log) \in Nat
  OBVIOUS
<1>b. DOMAIN new = 1..Len(log) /\ new = [i \in 1..Len(log) |-> IF i = k THEN e ELSE log[i]]
  BY <1>3, <1>a
<1>c. new \in [1..Len(log) -> Entries]
  BY <1>1, <1>2, <1>b
<1>4. new \in Seq(Entries) /\ Len(new) = Len(log)
  BY <1>a, <1>c
<1>5. \A i \in 1..Len(log) : new[i] = IF i = k THEN e ELSE log[i]
  BY <1>b
<1>6. Grown(log, new)
  BY <1>2, <1>4, <1>5 DEF Grown
<1>7. Made(new, k, p)
  BY <1>2, <1>4, <1>5 DEF Made
<1> QED BY <1>2, <1>4, <1>5, <1>6, <1>7
-----------------------------------------------------------------------------
LEMMA InitSubmission == Init => SubmissionInv
<1> SUFFICES ASSUME Init PROVE SubmissionInv
  OBVIOUS
<1>1. /\ body = Nothing /\ debounced = Nothing /\ quote = Nothing /\ price = 0 /\ newest = 0
      /\ asked = <<>> /\ wire = {} /\ jobs = {} /\ idem = Nothing
  BY DEF Init, CreateInit, SubmissionInit
<1>2. PageOK
  BY <1>1, SubmissionAssumption DEF PageOK, Prices
<1>3. WireMade /\ JobsMade
  BY <1>1 DEF WireMade, JobsMade
<1>4. Holds(idem, asked) /\ ToldOf(asked)
  BY <1>1 DEF Holds, ToldOf
<1> QED BY <1>2, <1>3, <1>4 DEF SubmissionInv

(* When the log grows, all that was made stays made.                       *)
LEMMA MadeKept ==
  ASSUME WireMade, JobsMade, wire' \subseteq wire, jobs' = jobs,
         \A k, p : Made(asked, k, p) => Made(asked', k, p)
  PROVE  WireMade' /\ JobsMade'
<1>1. \A m \in wire' : m \in Requests /\ Made(asked', m.key, [body |-> m.body, quote |-> m.quote])
  BY DEF WireMade
<1>2. \A j \in jobs' : j \in Charges /\ Made(asked', j.key, [body |-> j.body, quote |-> j.charged])
  BY DEF JobsMade
<1> QED BY <1>1, <1>2 DEF WireMade, JobsMade

(* Only what is known of the log and the key it holds last is told apart.  *)
LEMMA LogStays ==
  ASSUME SubmissionInv, PageOK', UNCHANGED <<asked, idem, jobs>>, wire' \subseteq wire
  PROVE  SubmissionInv'
<1>1. WireMade' /\ JobsMade'
  BY MadeKept DEF SubmissionInv
<1>2. Holds(idem', asked') /\ ToldOf(asked')
  BY DEF SubmissionInv
<1> QED BY <1>1, <1>2 DEF SubmissionInv

(* An answer, or leaving the page, gives up the key that is held.          *)
LEMMA KeyGivenUp ==
  ASSUME SubmissionInv, NEW gone \in SUBSET (1..Len(asked)),
         asked' = [k \in 1..Len(asked) |-> IF k \in gone THEN [asked[k] EXCEPT !.told = TRUE] ELSE asked[k]],
         idem' = Nothing, idem # Nothing => idem.key \in gone, UNCHANGED <<wire, jobs, price, newest>>,
         body' \in Bodies \cup {Nothing}, debounced' \in Bodies \cup {Nothing},
         quote' \in Prices \cup {Nothing}
  PROVE  SubmissionInv'
<1>0. asked \in Seq(Entries) /\ ToldOf(asked) /\ Holds(idem, asked)
  BY DEF SubmissionInv, PageOK
<1>1. /\ asked' \in Seq(Entries) /\ Grown(asked, asked') /\ \A k \in gone : asked'[k].told
  BY <1>0, ToldGrows
<1>2. (\A k, p : Made(asked, k, p) => Made(asked', k, p)) /\ ToldOf(asked')
  BY <1>0, <1>1, GrownKeeps
<1>3. WireMade' /\ JobsMade'
  BY <1>2, MadeKept DEF SubmissionInv
<1>4. Holds(idem', asked')
  <2>1. asked' # <<>> => asked # <<>> /\ Len(asked') = Len(asked) /\ Len(asked) \in 1..Len(asked)
    BY <1>0, <1>1 DEF Grown
  <2>2. asked # <<>> => asked[Len(asked)].told \/ Len(asked) \in gone
    BY <1>0 DEF Holds
  <2>3. asked' # <<>> => asked'[Len(asked')].told
    BY <1>1, <2>1, <2>2 DEF Grown
  <2> QED BY <2>3 DEF Holds
<1>5. PageOK'
  BY <1>1 DEF SubmissionInv, PageOK
<1> QED BY <1>2, <1>3, <1>4, <1>5 DEF SubmissionInv
-----------------------------------------------------------------------------
(* The same body under the same key, a new key for another: and the price  *)
(* pressed is kept under it.                                               *)
LEMMA PressKeeps ==
  ASSUME SubmissionInv, Press(body), UNCHANGED body
  PROVE  SubmissionInv'
<1> DEFINE made == [body |-> body, quote |-> [of |-> debounced, at |-> quote]]
           key == KeyFor(body)
           entry == [body |-> body, presses |-> {made}, told |-> FALSE]
<1>1. /\ asked \in Seq(Entries) /\ ToldOf(asked) /\ Holds(idem, asked)
      /\ Len(asked) \in Nat /\ newest \in Nat /\ price \in Prices
  BY DEF SubmissionInv, PageOK
<1>2. body \in Bodies /\ debounced \in Bodies /\ quote \in Prices
  BY DEF Press, CanSubmit, SubmissionInv, PageOK
<1>3. made \in Presses /\ made.body = body /\ made.quote \in Quotes
      /\ made.quote = [of |-> debounced, at |-> quote]
  BY <1>2 DEF Presses, Quotes
<1>4. entry \in Entries /\ entry.body = body /\ made \in entry.presses
  BY <1>2, <1>3 DEF Entries
<1>5. PICK clicks \in 1..2 :
        LET clicked == {[n |-> newest + i, key |-> key, body |-> body, quote |-> made.quote,
                      answer |-> Nothing] : i \in 1..clicks}
        IN /\ newest' = newest + clicks
           /\ wire' = wire \cup clicked
           /\ idem' = [body |-> body, key |-> key]
           /\ asked' = IF key \in Keys
                       THEN [asked EXCEPT ![key].presses = @ \cup {made}]
                       ELSE Append(asked, entry)
  BY DEF Press
<1>6. UNCHANGED <<debounced, quote, jobs, price>>
  BY DEF Press
<1> HIDE DEF made, entry
<1>7. /\ asked' \in Seq(Entries) /\ ToldOf(asked')
      /\ \A k, p : Made(asked, k, p) => Made(asked', k, p)
      /\ key \in Nat /\ Made(asked', key, made)
      /\ asked' # <<>> /\ key = Len(asked') /\ asked'[Len(asked')].body = body
  <2>1. CASE idem # Nothing /\ idem.body = body
    <3>1. key = Len(asked) /\ key \in 1..Len(asked) /\ asked[key].body = body
      BY <1>1, <2>1 DEF KeyFor, Holds
    <3>2. asked' = [asked EXCEPT ![key].presses = @ \cup {made}]
      BY <1>5, <3>1 DEF Keys
    <3> HIDE DEF key
    <3>3. /\ asked' \in Seq(Entries) /\ Grown(asked, asked') /\ Made(asked', key, made)
          /\ asked'[key].body = body
      BY <1>1, <1>3, <3>1, <3>2, PressGrows
    <3>4. Len(asked') = Len(asked)
      BY <3>3 DEF Grown
    <3>5. ToldOf(asked') /\ \A k, p : Made(asked, k, p) => Made(asked', k, p)
      BY <1>1, <3>3, GrownKeeps
    <3> QED BY <1>1, <3>1, <3>3, <3>4, <3>5
  <2>2. CASE ~(idem # Nothing /\ idem.body = body)
    <3>1. key = Len(asked) + 1 /\ key \notin Keys
      BY <1>1, <2>2 DEF KeyFor, Keys
    <3>2. asked' = Append(asked, entry)
      BY <1>5, <3>1
    <3>3. asked = <<>> \/ asked[Len(asked)].told \/ asked[Len(asked)].body # entry.body
      BY <1>1, <1>4, <2>2 DEF Holds
    <3>4. ToldOf(asked')
      BY <1>1, <1>4, <3>2, <3>3, AppendTold
    <3>5. /\ asked' \in Seq(Entries) /\ \A k, p : Made(asked, k, p) => Made(asked', k, p)
          /\ Made(asked', Len(asked) + 1, made)
      BY <1>1, <1>4, <3>2, AppendKeeps
    <3>6. Len(asked') = Len(asked) + 1 /\ asked'[Len(asked) + 1] = entry
      BY <1>1, <1>4, <3>2
    <3> HIDE DEF key
    <3> QED BY <1>1, <1>4, <3>1, <3>4, <3>5, <3>6
  <2> QED BY <2>1, <2>2
<1> HIDE DEF key
<1>8. WireMade'
  <2>1. ASSUME NEW m \in wire'
        PROVE  m \in Requests /\ Made(asked', m.key, [body |-> m.body, quote |-> m.quote])
    <3>1. CASE m \in wire
      BY <1>7, <3>1 DEF SubmissionInv, WireMade
    <3>2. CASE m \notin wire
      <4>1. PICK i \in 1..2 : m = [n |-> newest + i, key |-> key, body |-> body, quote |-> made.quote,
                                   answer |-> Nothing]
        BY <1>5, <2>1, <3>2
      <4>2. m \in Requests
        BY <1>1, <1>2, <1>3, <1>7, <4>1 DEF Requests
      <4>3. [body |-> m.body, quote |-> m.quote] = made
        BY <1>3, <4>1 DEF Presses
      <4> QED BY <1>7, <4>1, <4>2, <4>3
    <3> QED BY <3>1, <3>2
  <2> QED BY <2>1 DEF WireMade
<1>9. JobsMade'
  BY <1>6, <1>7 DEF SubmissionInv, JobsMade
<1>10. Holds(idem', asked')
  <2>1. idem'.body = body /\ idem'.key = key
    BY <1>5
  <2>2. idem' # Nothing
    BY <1>2, <1>5, <1>7, PageAssumption
  <2> QED BY <1>7, <2>1, <2>2 DEF Holds
<1>11. PageOK'
  <2>1. newest' \in Nat
    BY <1>1, <1>5
  <2> QED BY <1>6, <1>7, <2>1 DEF SubmissionInv, PageOK
<1> QED BY <1>7, <1>8, <1>9, <1>10, <1>11 DEF SubmissionInv

(* A job is made of the request that arrives, at the price it names.       *)
LEMMA HandleKeeps ==
  ASSUME SubmissionInv, Handle, UNCHANGED body
  PROVE  SubmissionInv'
<1>1. PICK m \in wire :
        /\ wire' = wire \ {m}
        /\ \/ UNCHANGED jobs
           \/ /\ ~PriceDiffers(m)
              /\ jobs' = jobs \cup {[key |-> m.key, body |-> m.body, charged |-> PriceOf(m.body)]}
  BY DEF Handle
<1>2. UNCHANGED <<debounced, quote, idem, newest, price, asked>>
  BY DEF Handle, tab
<1>3. PageOK' /\ Holds(idem', asked') /\ ToldOf(asked')
  BY <1>2 DEF SubmissionInv, PageOK
<1>4. WireMade'
  BY <1>1, <1>2 DEF SubmissionInv, WireMade
<1>5. CASE UNCHANGED jobs
  BY <1>2, <1>3, <1>4, <1>5 DEF SubmissionInv, JobsMade
<1>6. CASE /\ ~PriceDiffers(m)
           /\ jobs' = jobs \cup {[key |-> m.key, body |-> m.body, charged |-> PriceOf(m.body)]}
  <2> DEFINE job == [key |-> m.key, body |-> m.body, charged |-> PriceOf(m.body)]
  <2>1. m \in Requests /\ Made(asked, m.key, [body |-> m.body, quote |-> m.quote]) /\ PriceOf(m.body) = m.quote
    BY <1>6 DEF SubmissionInv, WireMade, PriceDiffers
  <2>2. job \in Charges /\ Made(asked, job.key, [body |-> job.body, quote |-> job.charged])
    BY <2>1 DEF Charges, Requests
  <2> HIDE DEF job
  <2>3. \A j \in jobs' : j \in jobs \/ j = job
    BY <1>6 DEF job
  <2>4. \A j \in jobs' : j \in Charges /\ Made(asked', j.key, [body |-> j.body, quote |-> j.charged])
    BY <1>2, <2>2, <2>3 DEF SubmissionInv, JobsMade
  <2> QED BY <1>3, <1>4, <2>4 DEF SubmissionInv, JobsMade
<1> QED BY <1>1, <1>5, <1>6

LEMMA GivesUpKeeps ==
  ASSUME SubmissionInv, NEW c, GivesUp(c), UNCHANGED <<body, debounced, quote, newest, server>>
  PROVE  SubmissionInv'
<1> DEFINE gone == {k \in 1..Len(asked) : k = c.key \/ (idem # Nothing /\ idem.key = k)}
<1>1. asked \in Seq(Entries) /\ Holds(idem, asked) /\ PageOK
  BY DEF SubmissionInv, PageOK
<1>2. idem # Nothing => idem.key \in gone
  <2>1. idem # Nothing => idem.key \in 1..Len(asked)
    BY <1>1 DEF Holds
  <2> QED BY <2>1
<1>3. asked' = [k \in 1..Len(asked) |-> IF k \in gone THEN [asked[k] EXCEPT !.told = TRUE] ELSE asked[k]]
  BY DEF GivesUp, Keys
<1>4. idem' = Nothing /\ UNCHANGED <<wire, jobs, price, newest>>
  BY DEF GivesUp, server
<1>5. body' \in Bodies \cup {Nothing} /\ debounced' \in Bodies \cup {Nothing}
      /\ quote' \in Prices \cup {Nothing}
  BY <1>1 DEF PageOK
<1>6. gone \in SUBSET (1..Len(asked))
  OBVIOUS
<1> HIDE DEF gone
<1> QED BY <1>2, <1>3, <1>4, <1>5, <1>6, KeyGivenUp

LEMMA LeaveKeeps ==
  ASSUME SubmissionInv, Unmount, UNCHANGED body
  PROVE  SubmissionInv'
<1> DEFINE gone == 1..Len(asked)
<1>1. asked \in Seq(Entries) /\ Holds(idem, asked) /\ PageOK
  BY DEF SubmissionInv, PageOK
<1>2. idem # Nothing => idem.key \in gone
  BY <1>1 DEF Holds
<1>3. asked' = [k \in 1..Len(asked) |-> IF k \in gone THEN [asked[k] EXCEPT !.told = TRUE] ELSE asked[k]]
  BY DEF Unmount, Keys
<1>4. idem' = Nothing /\ UNCHANGED <<wire, jobs, price, newest>>
  BY DEF Unmount, server
<1>5. body' \in Bodies \cup {Nothing} /\ debounced' \in Bodies \cup {Nothing}
      /\ quote' \in Prices \cup {Nothing}
  BY <1>1 DEF PageOK, Unmount
<1>6. gone \in SUBSET (1..Len(asked))
  OBVIOUS
<1> HIDE DEF gone
<1> QED BY <1>2, <1>3, <1>4, <1>5, <1>6, KeyGivenUp

(* A page that is priced anew, or edited.                                  *)
LEMMA PricingKeeps ==
  ASSUME SubmissionInv, UNCHANGED <<asked, idem, jobs, wire, newest>>,
         body' \in Bodies \cup {Nothing}, debounced' \in Bodies \cup {Nothing},
         quote' \in Prices \cup {Nothing}, price' \in Prices
  PROVE  SubmissionInv'
<1>1. PageOK'
  BY DEF SubmissionInv, PageOK
<1> QED BY <1>1, LogStays

LEMMA CreateStep ==
  ASSUME SubmissionInv, CreateNext
  PROVE  SubmissionInv'
<1>0. /\ body \in Bodies \cup {Nothing} /\ debounced \in Bodies \cup {Nothing}
      /\ quote \in Prices \cup {Nothing} /\ price \in Prices /\ asked \in Seq(Entries)
  BY DEF SubmissionInv, PageOK
<1>1. CASE Edit
  <2>1. body' \in Bodies \cup {Nothing}
    BY <1>1 DEF Edit
  <2>2. UNCHANGED <<asked, idem, jobs, wire, newest, debounced, quote, price>>
    BY <1>1 DEF Edit, submission, tab, server
  <2> QED BY <1>0, <2>1, <2>2, PricingKeeps
<1>2. CASE Review \/ Reconsider
  <2>1. UNCHANGED <<asked, idem, jobs, wire, newest, body, debounced, quote, price>>
    BY <1>2 DEF Review, Reconsider, submission, tab, server
  <2> QED BY <1>0, <2>1, PricingKeeps
<1>3. CASE Generate
  BY <1>3, PressKeeps DEF Generate, pane
<1>4. CASE Created
  <2>1. PICK c \in calls : Succeed(c)
    BY <1>4 DEF Created
  <2>2. GivesUp(c) /\ UNCHANGED <<body, debounced, quote, newest, server>>
    BY <1>4, <2>1 DEF Created, Succeed
  <2> QED BY <2>2, GivesUpKeeps
<1>5. CASE Leave
  BY <1>5, LeaveKeeps DEF Leave
<1>6. CASE Settle(body) /\ UNCHANGED pane
  <2>1. UNCHANGED <<asked, idem, jobs, wire, newest, body, price>> /\ debounced' = body
    BY <1>6 DEF Settle, Debounced, pane, server
  <2>2. quote' \in Prices \cup {Nothing}
    <3>1. \A k \in Keys : \A p \in asked[k].presses : p.quote.at \in Prices
      <4>1. \A k \in Keys : asked[k] \in Entries
        BY <1>0 DEF Keys
      <4> QED BY <4>1 DEF Entries, Presses, Quotes
    <3> QED BY <1>6, <3>1 DEF Settle
  <2> QED BY <1>0, <2>1, <2>2, PricingKeeps
<1>7. CASE QuoteAnswered /\ UNCHANGED pane
  <2>1. UNCHANGED <<asked, idem, jobs, wire, newest, body, debounced, price>> /\ quote' \in {price, quote}
    BY <1>7 DEF QuoteAnswered, pane, server
  <2> QED BY <1>0, <2>1, PricingKeeps
<1>8. CASE Refocus /\ UNCHANGED pane
  <2>1. UNCHANGED <<asked, idem, jobs, wire, newest, body, debounced, quote, price>>
    BY <1>8 DEF Refocus, pane, server
  <2> QED BY <1>0, <2>1, PricingKeeps
<1>9. CASE Handle /\ UNCHANGED pane
  BY <1>9, HandleKeeps DEF pane
<1>10. CASE Reprice /\ UNCHANGED pane
  <2>1. UNCHANGED <<asked, idem, jobs, wire, newest, body, debounced, quote>> /\ price' \in Prices
    BY <1>0, <1>10, SubmissionAssumption DEF Reprice, pane, tab, Prices
  <2> QED BY <1>0, <2>1, PricingKeeps
<1>11. CASE Refused /\ UNCHANGED pane
  <2>1. PICK c \in calls : GivesUp(c)
    BY <1>11 DEF Refused
  <2>2. UNCHANGED <<body, debounced, quote, newest, server>>
    BY <1>11 DEF Refused, pane
  <2> QED BY <2>1, <2>2, GivesUpKeeps
<1>12. CASE Lost /\ UNCHANGED pane
  <2>1. UNCHANGED <<asked, idem, jobs, wire, newest, body, debounced, quote, price>>
    BY <1>12 DEF Lost, pane, tab, server
  <2> QED BY <1>0, <2>1, PricingKeeps
<1> QED BY <1>1, <1>2, <1>3, <1>4, <1>5, <1>6, <1>7, <1>8, <1>9, <1>10, <1>11, <1>12
        DEF CreateNext, Proceeds, SubmissionStep
-----------------------------------------------------------------------------
(* The site's other parts do not touch the page.                           *)
LEMMA SubmissionStays ==
  ASSUME SubmissionInv, UNCHANGED createVars
  PROVE  SubmissionInv'
<1>1. UNCHANGED <<asked, idem, jobs, wire, newest, body, debounced, quote, price>>
  BY DEF createVars, submission, pane, tab, server
<1>2. /\ body \in Bodies \cup {Nothing} /\ debounced \in Bodies \cup {Nothing}
      /\ quote \in Prices \cup {Nothing} /\ price \in Prices
  BY DEF SubmissionInv, PageOK
<1> QED BY <1>1, <1>2, PricingKeeps

LEMMA SubmissionStepKeeps == SubmissionInv /\ [Next]_workVars => SubmissionInv'
<1> SUFFICES ASSUME SubmissionInv, [Next]_workVars PROVE SubmissionInv'
  OBVIOUS
<1>1. CASE InCreate
  BY <1>1, CreateStep DEF InCreate
<1>2. CASE InTasks \/ InLibrary \/ InShelf \/ InCommunity \/ UNCHANGED workVars
  BY <1>2, SubmissionStays DEF InTasks, InLibrary, InShelf, InCommunity, workVars
<1> QED BY <1>1, <1>2 DEF Next

LEMMA SubmissionInvariant == Spec => []SubmissionInv
  BY InitSubmission, SubmissionStepKeeps, PTL DEF Spec

(* A creation page's own state: what it holds of its calls, its key, its   *)
(* notice and its dialog.                                                  *)
Calls == [n : Nat, key : Nat, body : Bodies, quote : Quotes, answer : Outcomes \cup {Nothing}]
CallsKnown == calls \subseteq Calls /\ \A c \in calls : c.n \in 1..newest /\ c.key \in Keys
KeysHeld == /\ idem = Nothing \/ idem \in [body : Bodies, key : Keys]
            /\ lastJob \in Keys \cup {Nothing}
PageTypes == /\ CallsKnown /\ KeysHeld
             /\ fetching \in BOOLEAN /\ notice \in Notices /\ newest \in 0..MaxCalls
             /\ confirming => reviewing

LEMMA PageTypesInit == CreateInit => PageTypes
<1> SUFFICES ASSUME CreateInit PROVE PageTypes
  OBVIOUS
<1>1. calls = {} /\ newest = 0 /\ idem = Nothing /\ notice = Nothing /\ fetching = FALSE /\ confirming = FALSE /\ lastJob = Nothing
  BY DEF CreateInit, SubmissionInit
<1>2. newest \in 0..MaxCalls
  BY <1>1, SubmissionAssumption
<1>3. CallsKnown /\ KeysHeld /\ fetching \in BOOLEAN /\ notice \in Notices /\ (confirming => reviewing)
  BY <1>1 DEF CallsKnown, KeysHeld, Notices
<1> QED BY <1>2, <1>3 DEF PageTypes

(* No key is taken back.                                                   *)
KeysStay == Keys \subseteq Keys'
LEMMA GivenUpKeys ==
  ASSUME SubmissionInv, SubmissionInv', asked' = asked \/ Unmount \/ \E c : GivesUp(c)
  PROVE  KeysStay
<1>1. asked \in Seq(Entries) /\ asked' \in Seq(Entries)
  BY DEF SubmissionInv, PageOK
<1>2. DOMAIN asked' = 1..Len(asked)
  BY <1>1 DEF Unmount, GivesUp, Keys
<1> QED BY <1>1, <1>2 DEF KeysStay, Keys

LEMMA CallsLeave ==
  ASSUME PageTypes, KeysStay, newest' = newest, calls' \subseteq calls
  PROVE  CallsKnown'
  BY DEF PageTypes, CallsKnown, KeysStay

LEMMA KeysKept ==
  ASSUME PageTypes, KeysStay, idem' \in {idem, Nothing}, lastJob' = lastJob \/ \E c \in calls : lastJob' = c.key
  PROVE  KeysHeld'
  BY DEF PageTypes, KeysHeld, CallsKnown, KeysStay

(* Two clicks at most: each sends a call under the one key.                *)
LEMMA PressTyped ==
  ASSUME SubmissionInv, SubmissionInv', PageTypes, Generate
  PROVE  PageTypes'
<1>1. /\ body \in Bodies /\ debounced \in Bodies /\ quote \in Prices /\ newest \in 0..MaxCalls
      /\ asked \in Seq(Entries) /\ asked' \in Seq(Entries) /\ Holds(idem', asked')
  BY DEF Generate, Press, CanSubmit, SubmissionInv, PageOK, PageTypes
<1> DEFINE quoted == [of |-> debounced, at |-> quote]
           made == [body |-> body, quote |-> quoted]
           key == KeyFor(body)
           entry == [body |-> body, presses |-> {made}, told |-> FALSE]
           clicked(n) == {[n |-> newest + i, key |-> key, body |-> body, quote |-> quoted, answer |-> Nothing] : i \in 1..n}
<1>2. PICK clicks \in 1..2 :
        /\ newest + clicks <= MaxCalls /\ newest' = newest + clicks
        /\ calls' = calls \cup clicked(clicks)
        /\ idem' = [body |-> body, key |-> key]
        /\ asked' = IF key \in Keys THEN [asked EXCEPT ![key].presses = @ \cup {made}] ELSE Append(asked, entry)
  BY DEF Generate, Press
<1>3. quoted \in Quotes
  BY <1>1 DEF Quotes
<1>4. UNCHANGED <<fetching, pane>> /\ notice' = Nothing
  BY DEF Generate, Press
<1>5. Len(asked') \in Nat /\ Len(asked) \in Nat /\ Len(asked) <= Len(asked')
  BY <1>1, <1>2
<1>6. KeysStay
  BY <1>5 DEF KeysStay, Keys
<1> HIDE DEF key, quoted
<1>7. key \in Keys' /\ key \in Nat
  <2>1. idem' # Nothing /\ idem'.key = key
    <3> HIDE DEF entry, made
    <3>1. asked' # <<>> \/ idem' = Nothing
      BY <1>1 DEF Holds
    <3>2. KeyFor(body) \in Nat
      BY <1>1 DEF KeyFor, SubmissionInv, Holds
    <3> QED BY <1>1, <1>2, <3>2, PageAssumption DEF key
  <2>2. key = Len(asked') /\ asked' # <<>>
    BY <1>1, <2>1 DEF Holds
  <2> QED BY <1>1, <1>5, <2>2 DEF Keys
<1>8. newest' \in 0..MaxCalls
  BY <1>1, <1>2, SubmissionAssumption
<1>9. CallsKnown'
  <2> SUFFICES ASSUME NEW c \in calls' PROVE c \in Calls /\ c.n \in 1..newest' /\ c.key \in Keys'
    BY DEF CallsKnown
  <2>1. CASE c \in calls
    <3>1. c \in Calls /\ c.n \in 1..newest /\ c.key \in Keys
      BY <2>1 DEF PageTypes, CallsKnown
    <3> QED BY <1>1, <1>2, <1>6, <3>1 DEF KeysStay
  <2>2. CASE c \notin calls
    <3>1. PICK i \in 1..clicks : c = [n |-> newest + i, key |-> key, body |-> body, quote |-> quoted, answer |-> Nothing]
      BY <1>2, <2>2
    <3> QED BY <1>1, <1>2, <1>3, <1>7, <3>1 DEF Calls
  <2> QED BY <2>1, <2>2
<1>10. KeysHeld'
  BY <1>1, <1>2, <1>4, <1>6, <1>7 DEF KeysHeld, KeysStay, PageTypes, pane
<1> QED BY <1>4, <1>8, <1>9, <1>10 DEF PageTypes, Notices, pane

LEMMA HandledTyped ==
  ASSUME PageTypes, Handle, UNCHANGED pane
  PROVE  PageTypes'
<1>1. UNCHANGED <<tab, newest, asked>>
  BY DEF Handle
<1>2. PICK m \in wire, outcome \in Outcomes : Answer(m, outcome)
  BY DEF Handle, Outcomes
<1>3. CallsKnown'
  <2> SUFFICES ASSUME NEW c \in calls' PROVE c \in Calls /\ c.n \in 1..newest /\ c.key \in Keys
    BY <1>1 DEF CallsKnown, Keys
  <2>1. PICK d \in calls : c = IF d.n = m.n THEN [d EXCEPT !.answer = outcome] ELSE d
    BY <1>2 DEF Answer
  <2>2. d \in Calls /\ d.n \in 1..newest /\ d.key \in Keys
    BY DEF PageTypes, CallsKnown
  <2>3. c \in Calls /\ c.n = d.n /\ c.key = d.key
    BY <1>2, <2>1, <2>2 DEF Calls
  <2> QED BY <2>2, <2>3
<1> QED BY <1>1, <1>3 DEF PageTypes, KeysHeld, Keys, tab, pane

LEMMA PageTypesStep ==
  ASSUME SubmissionInv, SubmissionInv', PageTypes, CreateNext
  PROVE  PageTypes'
<1>1. CASE Edit \/ Review \/ Reconsider
  <2>1. UNCHANGED <<submission, reviewing, lastJob>> /\ (confirming' => reviewing)
    BY <1>1 DEF Edit, Review, Reconsider, PageTypes
  <2> QED BY <2>1 DEF PageTypes, CallsKnown, KeysHeld, Keys, submission, tab
<1>2. CASE Created
  <2>1. PICK c \in calls : Succeed(c) /\ lastJob' = c.key
    BY <1>2 DEF Created
  <2>2. /\ calls' \subseteq calls /\ notice' = Nothing /\ GivesUp(c) /\ idem' = Nothing
        /\ UNCHANGED <<fetching, newest, reviewing>> /\ confirming' = FALSE
    BY <1>2, <2>1 DEF Succeed, Created, GivesUp
  <2>3. KeysStay
    BY <2>2, GivenUpKeys
  <2>4. CallsKnown' /\ KeysHeld'
    BY <2>1, <2>2, <2>3, CallsLeave, KeysKept
  <2> QED BY <2>2, <2>4 DEF PageTypes, Notices
<1>3. CASE Leave
  <2>1. /\ Unmount /\ calls' \subseteq calls /\ newest' = newest /\ notice' = Nothing /\ fetching' = FALSE /\ idem' = Nothing
        /\ lastJob' = lastJob /\ confirming' = FALSE
    BY <1>3 DEF Leave, Unmount
  <2>2. KeysStay
    BY <2>1, GivenUpKeys
  <2>3. CallsKnown' /\ KeysHeld'
    BY <2>1, <2>2, CallsLeave, KeysKept
  <2> QED BY <2>1, <2>3 DEF PageTypes, Notices
<1>4. CASE Refused /\ UNCHANGED pane
  <2>1. PICK c \in calls : calls' = calls \ {c} /\ GivesUp(c)
    BY <1>4 DEF Refused
  <2>2. UNCHANGED <<newest, pane>> /\ notice' \in {notice, "priceChanged", "insufficient"}
    BY <1>4 DEF Refused, pane
  <2>3. fetching' = fetching \/ fetching' = (debounced # Nothing)
    BY <1>4 DEF Refused
  <2>4. KeysStay /\ idem' = Nothing
    BY <2>1, GivenUpKeys DEF GivesUp
  <2>5. CallsKnown' /\ KeysHeld'
    BY <2>1, <2>2, <2>4, CallsLeave, KeysKept DEF pane
  <2>6. fetching' \in BOOLEAN
    <3>1. (debounced # Nothing) \in BOOLEAN
      OBVIOUS
    <3> QED BY <2>3, <3>1 DEF PageTypes
  <2> QED BY <2>2, <2>5, <2>6 DEF PageTypes, Notices, pane
<1>5. CASE Lost /\ UNCHANGED pane
  <2>1. calls' \subseteq calls /\ UNCHANGED <<tab, newest, asked, pane>>
    BY <1>5 DEF Lost
  <2>2. KeysStay
    BY <2>1 DEF KeysStay, Keys
  <2>3. CallsKnown' /\ KeysHeld'
    BY <2>1, <2>2, CallsLeave, KeysKept DEF tab, pane
  <2> QED BY <2>1, <2>3 DEF PageTypes, tab, pane
<1>6. CASE (Settle(body) \/ QuoteAnswered \/ Refocus) /\ UNCHANGED pane
  <2>1. UNCHANGED <<idem, notice, calls, newest, asked, pane>>
    BY <1>6 DEF Settle, QuoteAnswered, Refocus
  <2>2. fetching' \in BOOLEAN
    BY <1>6 DEF Settle, QuoteAnswered, Refocus
  <2> QED BY <2>1, <2>2 DEF PageTypes, CallsKnown, KeysHeld, Keys, pane
<1>7. CASE Reprice /\ UNCHANGED pane
  BY <1>7 DEF Reprice, PageTypes, CallsKnown, KeysHeld, Keys, tab, pane
<1> QED BY <1>1, <1>2, <1>3, <1>4, <1>5, <1>6, <1>7, PressTyped, HandledTyped DEF CreateNext, Proceeds, SubmissionStep

LEMMA PageTypesMean == SubmissionInv /\ PageTypes => CreateTypeOK
  BY DEF SubmissionInv, PageOK, PageTypes, CallsKnown, KeysHeld, Calls, CreateTypeOK

-----------------------------------------------------------------------------
LEMMA Joins ==
  ASSUME NEW S, IsFiniteSet(S), NEW max \in Nat, Cardinality(S) < max, NEW y
  PROVE  IsFiniteSet(S \cup {y}) /\ Cardinality(S \cup {y}) <= max
<1>1. /\ IsFiniteSet(S \cup {y})
      /\ Cardinality(S \cup {y}) = IF y \in S THEN Cardinality(S) ELSE Cardinality(S) + 1
  BY FS_AddElement
<1>2. Cardinality(S) \in Nat
  BY FS_CardinalityType
<1> QED BY <1>1, <1>2

LEMMA Leaves ==
  ASSUME NEW S, IsFiniteSet(S), NEW max \in Nat, Cardinality(S) <= max, NEW x \in S
  PROVE  IsFiniteSet(S \ {x}) /\ Cardinality(S \ {x}) <= max /\ Cardinality(S \ {x}) < max
<1>1. /\ IsFiniteSet(S \ {x})
      /\ Cardinality(S \ {x}) = IF x \in S THEN Cardinality(S) - 1 ELSE Cardinality(S)
  BY FS_RemoveElement
<1>2. Cardinality(S) \in Nat
  BY FS_CardinalityType
<1> QED BY <1>1, <1>2

LEMMA Replaced ==
  ASSUME NEW S, IsFiniteSet(S), NEW max \in Nat, Cardinality(S) <= max, NEW x \in S, NEW y
  PROVE  IsFiniteSet((S \ {x}) \cup {y}) /\ Cardinality((S \ {x}) \cup {y}) <= max
<1> DEFINE T == S \ {x}
<1>1. IsFiniteSet(T) /\ Cardinality(T) < max
  BY Leaves
<1> HIDE DEF T
<1>2. IsFiniteSet(T \cup {y}) /\ Cardinality(T \cup {y}) <= max
  BY <1>1, Joins
<1> QED BY <1>2 DEF T

LEMMA Images ==
  ASSUME NEW S, IsFiniteSet(S), NEW max \in Nat, Cardinality(S) <= max,
         NEW T, NEW F \in [S -> T], \A t \in T : \E x \in S : F[x] = t
  PROVE  IsFiniteSet(T) /\ Cardinality(T) <= max
<1>1. F \in Surjection(S, T)
  BY DEF Surjection
<1>2. IsFiniteSet(T) /\ Cardinality(T) <= Cardinality(S)
  BY <1>1, FS_Surjection
<1>3. Cardinality(T) \in Nat /\ Cardinality(S) \in Nat
  BY <1>2, FS_CardinalityType
<1> QED BY <1>2, <1>3
-----------------------------------------------------------------------------
Statuses == ACTIVE \cup TERMINAL \cup {"unmade", "gone"}
Shapes == {"one", "page", "pages"}
TaskAnswers == [shape : Shapes, rows : SUBSET [job : Jobs, status : ACTIVE \cup TERMINAL]]
TaskLoads == [shape : Shapes, answer : {Nothing} \cup TaskAnswers]
TaskPlaces == {"center", "away"} \cup Jobs
Dialogs == [kind : {"rename", "cancel", "delete"}, job : Jobs, row : Jobs \cup {Nothing}, list : TaskQueries \cup {Nothing}, busy : BOOLEAN]
TaskCalls == [kind : {"rename", "cancel", "delete", "retry"}, job : Jobs, opened : Jobs, from : TaskPlaces,
              made : Jobs \cup {Nothing}, answer : {Nothing, "ok", "refused"}]

(* A dialog of a row is in the task center, one without on a job's page;   *)
(* a retry that is done has made a job.                                    *)
TaskTypes ==
    /\ state \in [Jobs -> Statuses] /\ moves \in 0..MaxMoves /\ online \in BOOLEAN /\ news \in BOOLEAN
    /\ where \in TaskPlaces /\ view \in Views
    /\ listed \in [TaskQueries -> TaskAnswers \cup {Nothing}] /\ loads \in [TaskQueries -> TaskLoads \cup {Nothing}]
    /\ dialog \in Dialogs \cup {Nothing}
    /\ dialog # Nothing => IF where \in Jobs THEN dialog.row = Nothing ELSE where = "center" /\ dialog.row = dialog.job
    /\ sent \subseteq TaskCalls /\ IsFiniteSet(sent) /\ Cardinality(sent) <= MaxTaskCalls
    /\ \A c \in sent : c.kind = "retry" /\ c.answer = "ok" => c.made \in Jobs

(* The page of a job has rows of that job only.  Nobody leaves it under    *)
(* its dialog, and no retry does.                                          *)
OfItsJob(answer, q) == \A r \in answer.rows : r.job = q
RowsAreTheirs == \A q \in Jobs : /\ listed[q] # Nothing => OfItsJob(listed[q], q)
                                 /\ loads[q] # Nothing /\ loads[q].answer # Nothing => OfItsJob(loads[q].answer, q)
DialogsStay ==
    /\ dialog # Nothing => /\ where \in Jobs => dialog.job = where
                           /\ \A c \in sent : c.kind # "retry"
    /\ ActsWhereOpened
DialogsInv == RowsAreTheirs /\ DialogsStay

(* What changed on the server will be announced, or a delete that was done *)
(* has not been heard of; else every answer under way, and every list that *)
(* is shown and not loaded again, is what the server would say now.        *)
Unheard == news \/ \E c \in sent : c.kind = "delete" /\ c.answer = "ok"
Now == [q \in TaskQueries |-> [shape \in Shapes |-> AnswerOf(q, shape)]]
LoadsFit == \A q \in DOMAIN watch : loads[q] # Nothing => loads[q].shape = watch[q]
LoadsCurrent ==
    ~Unheard => \A q \in TaskQueries :
        loads[q] # Nothing /\ loads[q].answer # Nothing => loads[q].answer = Now[q][loads[q].shape]
ListsCurrent ==
    \A q \in DOMAIN watch \cap Views :
        loads[q] = Nothing => /\ listed[q] # Nothing
                              /\ ~Unheard => listed[q] = Now[q][watch[q]]
FreshInv == LoadsFit /\ LoadsCurrent /\ ListsCurrent

(* A finite set has a part of every smaller size.                          *)
LEMMA Parts ==
  ASSUME NEW S, IsFiniteSet(S), NEW k \in Nat, k < Cardinality(S)
  PROVE  \E T \in SUBSET S : Cardinality(T) = k
<1>1. Cardinality(S) \in Nat /\ ExistsBijection(1..Cardinality(S), S)
  BY FS_CardinalityType
<1>2. PICK b : b \in Bijection(1..Cardinality(S), S)
  BY <1>1 DEF ExistsBijection
<1> DEFINE T == {b[i] : i \in 1..k}
           c == [i \in 1..k |-> b[i]]
<1>3. 1..k \subseteq 1..Cardinality(S)
  BY <1>1
<1>4. c \in Bijection(1..k, T)
  BY <1>2, <1>3 DEF Bijection, Injection, Surjection, IsInjective
<1>5. Cardinality(T) = k
  <2> HIDE DEF T, c
  <2>1. ExistsBijection(1..k, T)
    BY <1>4 DEF ExistsBijection
  <2> QED BY <2>1, FS_CountingElements
<1>6. T \in SUBSET S
  BY <1>2, <1>3 DEF Bijection, Injection
<1> QED BY <1>5, <1>6

LEMMA TaskNothing == Nothing # "ok" /\ Nothing # "refused" /\ Nothing \notin Jobs /\ Nothing \notin TaskAnswers /\ Nothing \notin TaskLoads
  BY NothingInTasks DEF TaskAnswers, TaskLoads, Shapes

LEMMA Watching ==
  ASSUME NEW place, NEW v \in Views
  PROVE  /\ DOMAIN Watches(place, v) \subseteq TaskQueries
         /\ \A q \in DOMAIN Watches(place, v) : Watches(place, v)[q] \in Shapes
         /\ \A q \in DOMAIN Watches(place, v) : Watches(place, v)[q] = "one" => place \in Jobs
         /\ place = "center" => DOMAIN Watches(place, v) \subseteq Views
         /\ place \in Jobs => Watches(place, v) = [q \in {place} |-> "one"]
  BY TaskAssumption DEF Watches, TaskQueries, Views, Shapes

LEMMA Loading == ASSUME NEW shape \in Shapes
                 PROVE  Load(shape) \in TaskLoads /\ Load(shape).shape = shape /\ Load(shape).answer = Nothing
  BY DEF Load, TaskLoads

(* What a page that is come to asks for, and what is asked for again.      *)
LEMMA AskedFor ==
  ASSUME NEW old \in [TaskQueries -> TaskLoads \cup {Nothing}], NEW w, \A q \in DOMAIN w : w[q] \in Shapes
  PROVE  /\ Watched(old, w) \in [TaskQueries -> TaskLoads \cup {Nothing}]
         /\ \A q \in TaskQueries : \/ Watched(old, w)[q] = old[q] /\ (q \in DOMAIN w => old[q] # Nothing)
                                   \/ q \in DOMAIN w /\ old[q] = Nothing /\ Watched(old, w)[q] = Load(w[q])
  BY Loading DEF Watched

LEMMA AskedAfresh ==
  ASSUME TaskTypes
  PROVE  /\ Refreshed \in [TaskQueries -> TaskLoads \cup {Nothing}]
         /\ \A q \in TaskQueries : \/ Refreshed[q] = Load(watch[q]) /\ q \in DOMAIN watch
                                   \/ Refreshed[q] = loads[q] /\ (q \in DOMAIN watch => loads[q] # Nothing /\ listed[q] = Nothing)
<1>1. \A q \in DOMAIN watch : watch[q] \in Shapes
  BY Watching DEF watch, TaskTypes
<1>2. loads \in [TaskQueries -> TaskLoads \cup {Nothing}]
  BY DEF TaskTypes
<1> QED BY <1>1, <1>2, Loading DEF Refreshed, Invalidated, JobQueries

LEMMA AnswerTyped ==
  ASSUME TaskTypes, NEW q \in TaskQueries, NEW shape \in Shapes
  PROVE  AnswerOf(q, shape) \in TaskAnswers /\ AnswerOf(q, shape).shape = shape
<1> DEFINE js == IF q \in Jobs THEN {j \in {q} : state[j] \notin {"unmade", "gone"}}
                 ELSE {j \in Jobs : state[j] \in Listed(q)}
           some == IF shape = "page" THEN FirstPage(js) ELSE js
<1>1. js \subseteq Jobs /\ \A j \in js : state[j] \in ACTIVE \cup TERMINAL
  <2>1. CASE q \in Jobs
    BY <2>1 DEF TaskTypes, Statuses
  <2>2. CASE q \notin Jobs
    <3>1. q \in Views
      BY <2>2 DEF TaskQueries
    <3>2. Listed(q) \subseteq ACTIVE \cup TERMINAL
      BY <3>1 DEF Listed, Views, ACTIVE, TERMINAL
    <3> QED BY <2>2, <3>2
  <2> QED BY <2>1, <2>2
<1>2. IsFiniteSet(js)
  BY <1>1, TaskAssumption, FS_Subset
<1> HIDE DEF js
<1>3. some \subseteq js
  <2>1. ASSUME Cardinality(js) > PinLimit PROVE \E s \in SUBSET js : Cardinality(s) = PinLimit
    BY <1>2, <2>1, Parts, TaskAssumption
  <2>2. CASE Cardinality(js) <= PinLimit
    BY <2>2 DEF FirstPage
  <2>3. CASE ~(Cardinality(js) <= PinLimit)
    <3>1. Cardinality(js) > PinLimit
      BY <1>2, <2>3, FS_CardinalityType, TaskAssumption
    <3>2. FirstPage(js) \in SUBSET js
      BY <2>1, <2>3, <3>1 DEF FirstPage
    <3> QED BY <3>2
  <2> QED BY <2>2, <2>3
<1>4. AnswerOf(q, shape) = [shape |-> shape, rows |-> RowsOf(some)]
  BY DEF AnswerOf, js
<1> HIDE DEF some
<1>5. RowsOf(some) \subseteq [job : Jobs, status : ACTIVE \cup TERMINAL]
  BY <1>1, <1>3 DEF RowsOf
<1> QED BY <1>4, <1>5 DEF TaskAnswers

LEMMA TaskTypesInit == TaskInit => TaskTypes
<1> SUFFICES ASSUME TaskInit PROVE TaskTypes
  OBVIOUS
<1>1. PICK v \in StartVisits : state = v.state /\ where = v.where
  BY DEF TaskInit
<1>2. state \in [Jobs -> Statuses] /\ where \in TaskPlaces
  BY <1>1, StartsTyped DEF Statuses, TaskPlaces
<1>3. view \in Views /\ listed = [q \in TaskQueries |-> Nothing] /\ loads = Watched(listed, Watches(where, view))
  BY DEF TaskInit, Views
<1>4. loads \in [TaskQueries -> TaskLoads \cup {Nothing}]
  <2>1. \A q \in DOMAIN Watches(where, view) : Watches(where, view)[q] \in Shapes
    BY <1>3, Watching
  <2>2. listed \in [TaskQueries -> TaskLoads \cup {Nothing}]
    BY <1>3
  <2> QED BY <1>3, <2>1, <2>2, AskedFor
<1>5. IsFiniteSet(sent) /\ Cardinality(sent) <= MaxTaskCalls /\ sent = {}
  BY FS_EmptySet, TaskAssumption DEF TaskInit
<1>6. moves \in 0..MaxMoves
  BY TaskAssumption DEF TaskInit
<1> QED BY <1>2, <1>3, <1>4, <1>5, <1>6 DEF TaskInit, TaskTypes

(* A step to another page.                                                 *)
LEMMA ShownTyped ==
  ASSUME TaskTypes, NEW place \in TaskPlaces, NEW v \in Views, Shows(place, v)
  PROVE  /\ where' = place /\ view' = v /\ listed' = listed
         /\ where' \in TaskPlaces /\ view' \in Views /\ listed' \in [TaskQueries -> TaskAnswers \cup {Nothing}]
         /\ loads' \in [TaskQueries -> TaskLoads \cup {Nothing}]
<1>1. \A q \in DOMAIN Watches(place, v) : Watches(place, v)[q] \in Shapes
  BY Watching
<1>2. loads \in [TaskQueries -> TaskLoads \cup {Nothing}]
  BY DEF TaskTypes
<1> QED BY <1>1, <1>2, AskedFor DEF Shows, TaskTypes

DialogTyped == /\ dialog \in Dialogs \cup {Nothing}
               /\ dialog # Nothing => IF where \in Jobs THEN dialog.row = Nothing ELSE where = "center" /\ dialog.row = dialog.job
SentTyped == /\ sent \subseteq TaskCalls /\ IsFiniteSet(sent) /\ Cardinality(sent) <= MaxTaskCalls
             /\ \A c \in sent : c.kind = "retry" /\ c.answer = "ok" => c.made \in Jobs

LEMMA FollowsTyped ==
  ASSUME TaskTypes, NEW place \in TaskPlaces, where' = place, dialog' = Follows(place)
  PROVE  DialogTyped'
  BY DEF Follows, TaskTypes, DialogTyped

LEMMA UnbusyDialog ==
  ASSUME TaskTypes, dialog' = IF dialog = Nothing THEN dialog ELSE [dialog EXCEPT !.busy = FALSE], where' = where
  PROVE  DialogTyped'
<1>1. CASE dialog = Nothing
  BY <1>1 DEF DialogTyped, TaskTypes
<1>2. CASE dialog # Nothing
  <2>1. dialog \in Dialogs
    BY <1>2 DEF TaskTypes
  <2>2. dialog' \in Dialogs /\ dialog'.row = dialog.row /\ dialog'.job = dialog.job
    BY <1>2, <2>1 DEF Dialogs
  <2> QED BY <1>2, <2>2 DEF DialogTyped, TaskTypes
<1> QED BY <1>1, <1>2

LEMMA CallSent ==
  ASSUME TaskTypes, NEW kind \in {"rename", "cancel", "delete", "retry"}, NEW j \in Jobs, NEW opened \in Jobs,
         Cardinality(sent) < MaxTaskCalls, sent' = sent \cup {Call(kind, j, opened)}
  PROVE  SentTyped'
<1> DEFINE c == Call(kind, j, opened)
<1>1. c \in TaskCalls /\ c.answer # "ok"
  BY TaskNothing DEF Call, TaskCalls, TaskTypes
<1>2. sent' = sent \cup {c}
  OBVIOUS
<1> HIDE DEF c
<1>3. IsFiniteSet(sent \cup {c}) /\ Cardinality(sent \cup {c}) <= MaxTaskCalls
  BY Joins, TaskAssumption DEF TaskTypes
<1> QED BY <1>1, <1>2, <1>3 DEF TaskTypes, SentTyped

LEMMA CallAnswered ==
  ASSUME TaskTypes, NEW c \in sent, NEW made \in Jobs \cup {Nothing}, NEW answer \in {"ok", "refused"},
         sent' = (sent \ {c}) \cup {[c EXCEPT !.answer = answer, !.made = made]},
         c.kind = "retry" /\ answer = "ok" => made \in Jobs
  PROVE  SentTyped'
<1> DEFINE d == [c EXCEPT !.answer = answer, !.made = made]
<1>1. c \in TaskCalls
  BY DEF TaskTypes
<1>2. d \in TaskCalls /\ d.kind = c.kind /\ d.answer = answer /\ d.made = made
  BY <1>1 DEF TaskCalls
<1>3. sent' = (sent \ {c}) \cup {d}
  OBVIOUS
<1> HIDE DEF d
<1>4. IsFiniteSet((sent \ {c}) \cup {d}) /\ Cardinality((sent \ {c}) \cup {d}) <= MaxTaskCalls
  BY Replaced, TaskAssumption DEF TaskTypes
<1> QED BY <1>2, <1>3, <1>4 DEF TaskTypes, SentTyped

LEMMA CallEnds ==
  ASSUME TaskTypes, NEW c \in sent, sent' = sent \ {c}
  PROVE  SentTyped'
<1>1. IsFiniteSet(sent \ {c}) /\ Cardinality(sent \ {c}) <= MaxTaskCalls
  BY Leaves, TaskAssumption DEF TaskTypes
<1> QED BY <1>1 DEF TaskTypes, SentTyped

ServedTyped == state \in [Jobs -> Statuses] /\ moves \in 0..MaxMoves /\ online \in BOOLEAN /\ news \in BOOLEAN
ScreenTyped == /\ where \in TaskPlaces /\ view \in Views
               /\ listed \in [TaskQueries -> TaskAnswers \cup {Nothing}] /\ loads \in [TaskQueries -> TaskLoads \cup {Nothing}]
LEMMA TypesApart == TaskTypes <=> ServedTyped /\ ScreenTyped /\ DialogTyped /\ SentTyped
  BY DEF TaskTypes, ServedTyped, ScreenTyped, DialogTyped, SentTyped
LEMMA TypesTogether == ServedTyped' /\ ScreenTyped' /\ DialogTyped' /\ SentTyped' => TaskTypes'
  BY DEF TaskTypes, ServedTyped, ScreenTyped, DialogTyped, SentTyped

(* What the server and the stream do.                                      *)
LEMMA ServerTyped ==
  ASSUME TaskTypes, JobMoves \/ Deliver \/ Connection
  PROVE  TaskTypes'
<1> USE TypesApart, TypesTogether
<1>1. CASE JobMoves
  <2>1. PICK j \in Jobs : \E s \in Moves(state[j]) : state' = [state EXCEPT ![j] = s]
    BY <1>1 DEF JobMoves
  <2>2. PICK s \in Moves(state[j]) : state' = [state EXCEPT ![j] = s]
    BY <2>1
  <2>3. s \in Statuses
    <3>1. state[j] \in Statuses
      BY DEF TaskTypes
    <3> QED BY <2>2, <3>1 DEF Moves, Statuses, ACTIVE, TERMINAL
  <2>4. ServedTyped'
    BY <1>1, <2>2, <2>3, TaskAssumption DEF JobMoves, ServedTyped, TaskTypes
  <2>5. ScreenTyped' /\ DialogTyped' /\ SentTyped'
    BY <1>1 DEF JobMoves, ScreenTyped, DialogTyped, SentTyped, screen
  <2> QED BY <2>4, <2>5
<1>2. CASE Deliver
  <2>1. ServedTyped' /\ DialogTyped' /\ SentTyped'
    BY <1>2 DEF Deliver, ServedTyped, DialogTyped, SentTyped
  <2>2. ScreenTyped'
    BY <1>2, AskedAfresh DEF Deliver, ScreenTyped
  <2> QED BY <2>1, <2>2
<1>3. CASE Connection
  BY <1>3 DEF Connection, ServedTyped, ScreenTyped, DialogTyped, SentTyped
<1> QED BY <1>1, <1>2, <1>3

(* What the page loads.                                                    *)
LEMMA LoadsTyped ==
  ASSUME TaskTypes, Poll \/ TaskReads \/ TaskArrivals \/ Dropped
  PROVE  TaskTypes'
<1> USE TypesApart, TypesTogether
<1>1. CASE Poll
  <2>1. ServedTyped' /\ DialogTyped' /\ SentTyped'
    BY <1>1 DEF Poll, ServedTyped, DialogTyped, SentTyped, served
  <2>2. Load("one") \in TaskLoads
    BY Loading DEF Shapes
  <2>3. ScreenTyped'
    BY <1>1, <2>2 DEF Poll, ScreenTyped
  <2> QED BY <2>1, <2>3
<1>2. CASE TaskReads
  <2>1. PICK q \in TaskQueries : TaskRead(q)
    BY <1>2 DEF TaskReads
  <2>2. ServedTyped' /\ DialogTyped' /\ SentTyped'
    BY <2>1 DEF TaskRead, ServedTyped, DialogTyped, SentTyped, served
  <2>3. loads[q] \in TaskLoads
    BY <2>1 DEF TaskRead, ScreenTyped
  <2> DEFINE answer == AnswerOf(q, loads[q].shape)
             read == [loads[q] EXCEPT !.answer = answer]
  <2>4. answer \in TaskAnswers
    BY <2>3, AnswerTyped DEF TaskLoads
  <2> HIDE DEF answer
  <2>5. read \in TaskLoads
    BY <2>3, <2>4 DEF TaskLoads
  <2>6. loads' = [loads EXCEPT ![q] = read]
    BY <2>1 DEF TaskRead, answer
  <2> HIDE DEF read
  <2>7. ScreenTyped'
    BY <2>1, <2>5, <2>6 DEF TaskRead, ScreenTyped
  <2> QED BY <2>2, <2>7
<1>3. CASE TaskArrivals
  <2>1. PICK q \in TaskQueries : TaskArrives(q)
    BY <1>3 DEF TaskArrivals
  <2>2. ServedTyped' /\ SentTyped'
    BY <2>1 DEF TaskArrives, ServedTyped, SentTyped, served
  <2>3. loads[q].answer \in TaskAnswers
    BY <2>1 DEF TaskArrives, ScreenTyped, TaskLoads
  <2>4. ScreenTyped'
    BY <2>1, <2>3 DEF TaskArrives, ScreenTyped
  <2>5. DialogTyped'
    BY <2>1 DEF TaskArrives, DialogTyped, RowDialog
  <2> QED BY <2>2, <2>4, <2>5
<1>4. CASE Dropped
  BY <1>4 DEF Dropped, ServedTyped, ScreenTyped, DialogTyped, SentTyped, served
<1> QED BY <1>1, <1>2, <1>3, <1>4

(* What the user does.                                                     *)
LEMMA PlacesTyped ==
  ASSUME TaskTypes, Go \/ SetView
  PROVE  TaskTypes'
<1> USE TypesApart, TypesTogether
<1>1. ServedTyped' /\ SentTyped'
  BY DEF Go, SetView, ServedTyped, SentTyped, served
<1>2. CASE Go
  <2>1. PICK place \in Tour : place # where /\ Shows(place, view) /\ dialog' = Follows(place)
    BY <1>2 DEF Go
  <2>2. place \in TaskPlaces
    BY DEF Tour, TaskPlaces
  <2>3. ScreenTyped' /\ where' = place
    BY <2>1, <2>2, ShownTyped DEF ScreenTyped
  <2>4. DialogTyped'
    BY <2>1, <2>2, <2>3, FollowsTyped
  <2> QED BY <1>1, <2>3, <2>4
<1>3. CASE SetView
  <2>1. PICK v \in Views : Shows("center", v)
    BY <1>3 DEF SetView
  <2>2. ScreenTyped'
    BY <2>1, ShownTyped DEF ScreenTyped, TaskPlaces
  <2>3. DialogTyped'
    BY <1>3 DEF SetView, DialogTyped
  <2> QED BY <1>1, <2>2, <2>3
<1> QED BY <1>2, <1>3

LEMMA OpenedTyped == ASSUME TaskTypes, OpenDialog PROVE TaskTypes'
<1> USE TypesApart, TypesTogether
<1>1. ServedTyped' /\ ScreenTyped' /\ SentTyped'
  BY DEF OpenDialog, ServedTyped, ScreenTyped, SentTyped, served, screen
<1>2. PICK q \in DOMAIN watch : listed[q] # Nothing /\ \E r \in listed[q].rows : \E kind \in Offers(r.status) :
         dialog' = IF where = "center" THEN Opened(kind, r.job, r.job, q) ELSE Opened(kind, r.job, Nothing, Nothing)
  BY DEF OpenDialog
<1>3. PICK r \in listed[q].rows : \E kind \in Offers(r.status) :
         dialog' = IF where = "center" THEN Opened(kind, r.job, r.job, q) ELSE Opened(kind, r.job, Nothing, Nothing)
  BY <1>2
<1>4. PICK kind \in Offers(r.status) :
         dialog' = IF where = "center" THEN Opened(kind, r.job, r.job, q) ELSE Opened(kind, r.job, Nothing, Nothing)
  BY <1>3
<1>5. q \in TaskQueries
  BY Watching DEF watch, ScreenTyped
<1>6. r.job \in Jobs
  BY <1>2, <1>5 DEF ScreenTyped, TaskAnswers
<1>7. kind \in {"rename", "cancel", "delete"}
  BY DEF Offers
<1>8. where = "center" \/ where \in Jobs
  <2>1. DOMAIN watch # {}
    BY <1>2
  <2> QED BY <2>1 DEF watch, Watches, ScreenTyped, TaskPlaces
<1>9. "center" \notin Jobs
  BY TaskAssumption
<1>10. DialogTyped'
  <2>1. CASE where = "center"
    <3>1. dialog' = Opened(kind, r.job, r.job, q) /\ where' = "center"
      BY <1>4, <2>1 DEF OpenDialog, screen
    <3>2. Opened(kind, r.job, r.job, q) \in Dialogs
      BY <1>5, <1>6, <1>7 DEF Opened, Dialogs
    <3> QED BY <1>9, <3>1, <3>2 DEF DialogTyped, Opened
  <2>2. CASE where # "center"
    <3>1. dialog' = Opened(kind, r.job, Nothing, Nothing) /\ where' = where /\ where \in Jobs
      BY <1>4, <1>8, <2>2 DEF OpenDialog, screen
    <3>2. Opened(kind, r.job, Nothing, Nothing) \in Dialogs
      BY <1>6, <1>7 DEF Opened, Dialogs
    <3> QED BY <3>1, <3>2 DEF DialogTyped, Opened
  <2> QED BY <2>1, <2>2
<1> QED BY <1>1, <1>10

LEMMA UserTyped ==
  ASSUME TaskTypes, Dismiss \/ Confirm \/ Retry
  PROVE  TaskTypes'
<1> USE TypesApart, TypesTogether
<1>1. CASE Dismiss
  BY <1>1 DEF Dismiss, ServedTyped, ScreenTyped, SentTyped, DialogTyped, served, screen
<1>2. CASE Confirm
  <2>1. ServedTyped' /\ ScreenTyped'
    BY <1>2 DEF Confirm, ServedTyped, ScreenTyped, served
  <2>2. dialog \in Dialogs /\ dialog # Nothing
    BY <1>2 DEF Confirm, DialogTyped
  <2>3. dialog' \in Dialogs /\ dialog'.row = dialog.row /\ dialog'.job = dialog.job
    <3> DEFINE yes == TRUE
    <3>1. dialog' = [dialog EXCEPT !.busy = yes] /\ yes \in BOOLEAN
      BY <1>2 DEF Confirm
    <3> HIDE DEF yes
    <3> QED BY <2>2, <3>1 DEF Dialogs
  <2>4. where' = where
    BY <1>2 DEF Confirm
  <2>5. DialogTyped'
    BY <2>2, <2>3, <2>4 DEF DialogTyped
  <2>6. Target \in Jobs
    BY <2>2 DEF Target, DialogTyped, Dialogs
  <2>7. SentTyped'
    BY <1>2, <2>2, <2>6, CallSent DEF Confirm, Dialogs
  <2> QED BY <2>1, <2>5, <2>7
<1>3. CASE Retry
  <2>1. ServedTyped' /\ ScreenTyped' /\ DialogTyped'
    BY <1>3 DEF Retry, ServedTyped, ScreenTyped, DialogTyped, served
  <2>2. SentTyped'
    BY <1>3, CallSent DEF Retry
  <2> QED BY <2>1, <2>2
<1> QED BY <1>1, <1>2, <1>3

(* What a call did on the server, and what it answers.                     *)
LEMMA Effects ==
  ASSUME TaskTypes, NEW c \in sent, Serve(c)
  PROVE  \E s \in [Jobs -> Statuses] : \E made \in Jobs \cup {Nothing} : \E answer \in {"ok", "refused"} :
            /\ Answers(c, s, made, answer) /\ news' \in BOOLEAN
            /\ c.kind = "retry" /\ answer = "ok" => made \in Jobs
            /\ s = state \/ news' \/ (c.kind = "delete" /\ answer = "ok")
            /\ news' = news \/ news'
<1>1. c.job \in Jobs /\ state \in [Jobs -> Statuses] /\ news \in BOOLEAN
  BY DEF TaskTypes, TaskCalls
<1>2. CASE Gone(c) /\ Answers(c, state, Nothing, "refused") /\ UNCHANGED news
  BY <1>1, <1>2
<1>3. CASE ~Gone(c) /\ c.kind = "rename" /\ Answers(c, state, Nothing, "ok") /\ UNCHANGED news
  BY <1>1, <1>3
<1>4. CASE /\ ~Gone(c) /\ c.kind = "cancel"
           /\ IF state[c.job] \in ACTIVE
              THEN /\ \E s \in {"cancelling", "cancelled"} : Answers(c, [state EXCEPT ![c.job] = s], Nothing, "ok")
                   /\ news' = TRUE
              ELSE Answers(c, state, Nothing, "ok") /\ UNCHANGED news
  <2>1. CASE state[c.job] \in ACTIVE
    <3>1. PICK s \in {"cancelling", "cancelled"} : Answers(c, [state EXCEPT ![c.job] = s], Nothing, "ok")
      BY <1>4, <2>1
    <3>2. [state EXCEPT ![c.job] = s] \in [Jobs -> Statuses]
      BY <1>1 DEF Statuses, ACTIVE, TERMINAL
    <3> QED BY <1>4, <2>1, <3>1, <3>2
  <2>2. CASE state[c.job] \notin ACTIVE
    BY <1>1, <1>4, <2>2
  <2> QED BY <2>1, <2>2
<1>5. CASE /\ ~Gone(c) /\ c.kind = "delete" /\ UNCHANGED news
           /\ IF state[c.job] \in TERMINAL
              THEN Answers(c, [state EXCEPT ![c.job] = "gone"], Nothing, "ok")
              ELSE Answers(c, state, Nothing, "refused")
  <2>1. CASE state[c.job] \in TERMINAL
    <3>1. [state EXCEPT ![c.job] = "gone"] \in [Jobs -> Statuses]
      BY <1>1 DEF Statuses
    <3> QED BY <1>1, <1>5, <2>1, <3>1
  <2>2. CASE state[c.job] \notin TERMINAL
    BY <1>1, <1>5, <2>2
  <2> QED BY <2>1, <2>2
<1>6. CASE /\ ~Gone(c) /\ c.kind = "retry" /\ state[c.job] = "failed"
           /\ \E j \in Jobs : state[j] = "unmade" /\ Answers(c, [state EXCEPT ![j] = "queued"], j, "ok")
           /\ news' = TRUE
  <2>1. PICK j \in Jobs : Answers(c, [state EXCEPT ![j] = "queued"], j, "ok")
    BY <1>6
  <2>2. [state EXCEPT ![j] = "queued"] \in [Jobs -> Statuses]
    BY <1>1 DEF Statuses, ACTIVE
  <2> QED BY <1>6, <2>1, <2>2
<1> QED BY <1>2, <1>3, <1>4, <1>5, <1>6 DEF Serve

LEMMA ServeTyped == ASSUME TaskTypes, NEW c \in sent, Serve(c) PROVE TaskTypes'
<1> USE TypesApart, TypesTogether
<1>1. PICK s \in [Jobs -> Statuses] : \E made \in Jobs \cup {Nothing} : \E answer \in {"ok", "refused"} :
            /\ Answers(c, s, made, answer) /\ news' \in BOOLEAN
            /\ c.kind = "retry" /\ answer = "ok" => made \in Jobs
  BY Effects
<1>2. PICK made \in Jobs \cup {Nothing} : \E answer \in {"ok", "refused"} :
            /\ Answers(c, s, made, answer) /\ news' \in BOOLEAN
            /\ c.kind = "retry" /\ answer = "ok" => made \in Jobs
  BY <1>1
<1>3. PICK answer \in {"ok", "refused"} :
            /\ Answers(c, s, made, answer) /\ news' \in BOOLEAN
            /\ c.kind = "retry" /\ answer = "ok" => made \in Jobs
  BY <1>2
<1>4. UNCHANGED <<moves, online, screen, dialog>>
  BY DEF Serve
<1>5. ServedTyped' /\ ScreenTyped' /\ DialogTyped'
  BY <1>3, <1>4 DEF Answers, ServedTyped, ScreenTyped, DialogTyped, screen
<1>6. SentTyped'
  BY <1>3, CallAnswered DEF Answers
<1> QED BY <1>5, <1>6

LEMMA LostTyped == ASSUME TaskTypes, NEW c \in sent, CallLost(c) PROVE TaskTypes'
<1> USE TypesApart, TypesTogether
<1>1. ServedTyped' /\ ScreenTyped'
  BY DEF CallLost, ServedTyped, ScreenTyped, served, screen
<1>2. DialogTyped'
  BY UnbusyDialog DEF CallLost, screen
<1>3. SentTyped'
  BY CallEnds DEF CallLost
<1> QED BY <1>1, <1>2, <1>3

LEMMA SettleTyped == ASSUME TaskTypes, NEW c \in sent, CallSettles(c) PROVE TaskTypes'
<1> USE TypesApart, TypesTogether
<1>1. ServedTyped' /\ SentTyped'
  BY CallEnds DEF CallSettles, ServedTyped, served
<1>2. CASE /\ c.answer = "refused"
           /\ dialog' = IF dialog = Nothing THEN dialog ELSE [dialog EXCEPT !.busy = FALSE]
           /\ UNCHANGED screen
  <2>1. ScreenTyped' /\ where' = where
    BY <1>2 DEF ScreenTyped, screen
  <2>2. DialogTyped'
    BY <1>2, <2>1, UnbusyDialog
  <2> QED BY <1>1, <2>1, <2>2
<1>3. CASE c.answer = "ok" /\ c.kind = "retry" /\ dialog' = Follows(c.made) /\ Shows(c.made, view)
  <2>1. c.made \in TaskPlaces
    BY <1>3 DEF SentTyped, TaskPlaces
  <2>2. ScreenTyped' /\ where' = c.made
    BY <1>3, <2>1, ShownTyped DEF ScreenTyped
  <2>3. DialogTyped'
    BY <1>3, <2>1, <2>2, FollowsTyped
  <2> QED BY <1>1, <2>2, <2>3
<1>4. CASE /\ c.answer = "ok" /\ c.kind = "delete" /\ c.from \in Jobs
           /\ dialog' = Follows("center") /\ where' = "center"
           /\ loads' = Watched(Refreshed, Watches("center", view)) /\ UNCHANGED <<turns, view, listed>>
  <2>1. "center" \in TaskPlaces
    BY DEF TaskPlaces
  <2>2. DialogTyped'
    BY <1>4, <2>1, FollowsTyped
  <2>3. \A q \in DOMAIN Watches("center", view) : Watches("center", view)[q] \in Shapes
    BY Watching DEF ScreenTyped
  <2>4. ScreenTyped'
    BY <1>4, <2>1, <2>3, AskedAfresh, AskedFor DEF ScreenTyped
  <2> QED BY <1>1, <2>2, <2>4
<1>5. CASE /\ c.answer = "ok" /\ dialog' = DialogAfter(c) /\ loads' = Refreshed
           /\ UNCHANGED <<turns, where, view, listed>>
  <2>1. ScreenTyped'
    BY <1>5, AskedAfresh DEF ScreenTyped
  <2>2. DialogTyped'
    BY <1>5 DEF DialogTyped, DialogAfter
  <2> QED BY <1>1, <2>1, <2>2
<1> QED BY <1>2, <1>3, <1>4, <1>5 DEF CallSettles

LEMMA TaskTypesStep == ASSUME TaskTypes, TaskNext PROVE TaskTypes'
  BY ServerTyped, LoadsTyped, PlacesTyped, OpenedTyped, UserTyped, ServeTyped, LostTyped, SettleTyped DEF TaskNext

LEMMA TaskTypesMean == TaskTypes => TaskTypeOK
  BY TaskNothing DEF TaskTypes, TaskTypeOK, Statuses, TaskAnswers, TaskLoads, Shapes, TaskPlaces

(* The rows of a job's page.                                               *)
LEMMA RowsInit == TaskInit => RowsAreTheirs
<1> SUFFICES ASSUME TaskInit PROVE RowsAreTheirs
  OBVIOUS
<1>1. listed = [q \in TaskQueries |-> Nothing] /\ loads = Watched(listed, Watches(where, view)) /\ view \in Views
  BY DEF TaskInit, Views
<1>2. \A q \in DOMAIN Watches(where, view) : Watches(where, view)[q] \in Shapes
  BY <1>1, Watching
<1>3. listed \in [TaskQueries -> TaskLoads \cup {Nothing}]
  BY <1>1
<1>4. \A q \in TaskQueries : loads[q] = Nothing \/ loads[q].answer = Nothing
  BY <1>1, <1>2, <1>3, AskedFor, Loading
<1> QED BY <1>1, <1>4 DEF RowsAreTheirs, TaskQueries

(* A query's load stays, ends or starts afresh.                            *)
LoadGoesOn(q) == loads'[q] = loads[q] \/ loads'[q] = Nothing \/ loads'[q].answer = Nothing
LEMMA RowsStay ==
  ASSUME RowsAreTheirs, \A q \in TaskQueries : LoadGoesOn(q) /\ (listed'[q] = listed[q] \/ listed'[q] = Nothing)
  PROVE  RowsAreTheirs'
<1> SUFFICES ASSUME NEW q \in Jobs
             PROVE  /\ listed'[q] # Nothing => OfItsJob(listed'[q], q)
                    /\ loads'[q] # Nothing /\ loads'[q].answer # Nothing => OfItsJob(loads'[q].answer, q)
  BY DEF RowsAreTheirs, OfItsJob
<1>1. LoadGoesOn(q) /\ (listed'[q] = listed[q] \/ listed'[q] = Nothing)
  BY DEF TaskQueries
<1>2. /\ listed[q] # Nothing => OfItsJob(listed[q], q)
      /\ loads[q] # Nothing /\ loads[q].answer # Nothing => OfItsJob(loads[q].answer, q)
  BY DEF RowsAreTheirs, OfItsJob
<1>3. listed'[q] # Nothing => OfItsJob(listed'[q], q)
  BY <1>1, <1>2
<1>4. loads'[q] # Nothing /\ loads'[q].answer # Nothing => OfItsJob(loads'[q].answer, q)
  BY <1>1, <1>2 DEF LoadGoesOn
<1> QED BY <1>3, <1>4
LEMMA ShowsGoesOn ==
  ASSUME TaskTypes, NEW place, NEW v \in Views, Shows(place, v)
  PROVE  \A q \in TaskQueries : LoadGoesOn(q) /\ listed'[q] = listed[q]
<1>1. \A q \in DOMAIN Watches(place, v) : Watches(place, v)[q] \in Shapes
  BY Watching
<1>2. loads \in [TaskQueries -> TaskLoads \cup {Nothing}]
  BY DEF TaskTypes
<1> QED BY <1>1, <1>2, AskedFor, Loading DEF Shows, LoadGoesOn
LEMMA RefreshedGoesOn ==
  ASSUME TaskTypes, loads' = Refreshed \/ \E place : loads' = Watched(Refreshed, Watches(place, view))
  PROVE  \A q \in TaskQueries : LoadGoesOn(q)
<1>1. view \in Views /\ \A q \in DOMAIN watch : watch[q] \in Shapes
  BY Watching DEF watch, TaskTypes
<1>2. CASE loads' = Refreshed
  BY <1>1, <1>2, AskedAfresh, Loading DEF LoadGoesOn
<1>3. CASE \E place : loads' = Watched(Refreshed, Watches(place, view))
  <2>1. PICK place : loads' = Watched(Refreshed, Watches(place, view))
    BY <1>3
  <2>2. \A q \in DOMAIN Watches(place, view) : Watches(place, view)[q] \in Shapes
    BY <1>1, Watching
  <2>3. Refreshed \in [TaskQueries -> TaskLoads \cup {Nothing}]
    BY AskedAfresh
  <2>4. \A q \in TaskQueries : loads'[q] = Refreshed[q] \/ loads'[q].answer = Nothing
    BY <2>1, <2>2, <2>3, AskedFor, Loading
  <2>5. \A q \in TaskQueries : Refreshed[q] = loads[q] \/ Refreshed[q].answer = Nothing
    BY <1>1, AskedAfresh, Loading
  <2> QED BY <2>4, <2>5 DEF LoadGoesOn
<1> QED BY <1>2, <1>3

LEMMA RowsStep == ASSUME TaskTypes, RowsAreTheirs, TaskNext PROVE RowsAreTheirs'
<1>1. loads \in [TaskQueries -> TaskLoads \cup {Nothing}] /\ listed \in [TaskQueries -> TaskAnswers \cup {Nothing}] /\ view \in Views
  BY DEF TaskTypes
<1>2. ASSUME UNCHANGED <<listed, loads>> PROVE RowsAreTheirs'
  BY <1>2 DEF RowsAreTheirs
<1>3. CASE Deliver
  BY <1>3, RefreshedGoesOn, RowsStay DEF Deliver
<1>4. CASE Poll
  <2>1. Load("one").answer = Nothing
    BY Loading DEF Shapes
  <2> QED BY <1>1, <1>4, <2>1, RowsStay DEF Poll, LoadGoesOn
<1>5. CASE TaskReads
  <2>1. PICK q \in TaskQueries : TaskRead(q)
    BY <1>5 DEF TaskReads
  <2>2. loads[q] \in TaskLoads
    BY <1>1, <2>1 DEF TaskRead
  <2>3. loads'[q].answer = AnswerOf(q, loads[q].shape) /\ listed' = listed /\ \A k \in TaskQueries \ {q} : loads'[k] = loads[k]
    BY <1>1, <2>1, <2>2 DEF TaskRead, TaskLoads
  <2>4. q \in Jobs => OfItsJob(AnswerOf(q, loads[q].shape), q)
    <3>1. AnswerOf(q, loads[q].shape) \in TaskAnswers /\ loads[q].shape \in Shapes
      BY <2>2, AnswerTyped DEF TaskLoads
    <3> SUFFICES ASSUME q \in Jobs, NEW r \in AnswerOf(q, loads[q].shape).rows PROVE r.job = q
      BY DEF OfItsJob
    <3>2. \E js \in SUBSET {q} : r \in RowsOf(js)
      <4> DEFINE mine == {j \in {q} : state[j] \notin {"unmade", "gone"}}
      <4>1. IsFiniteSet(mine) /\ PinLimit \in Nat /\ Cardinality(mine) <= 1 /\ Cardinality(mine) \in Nat
        <5>1. IsFiniteSet({q}) /\ Cardinality({q}) = 1
          BY FS_Singleton
        <5>2. IsFiniteSet(mine) /\ Cardinality(mine) <= Cardinality({q})
          BY <5>1, FS_Subset
        <5> HIDE DEF mine
        <5> QED BY <5>1, <5>2, FS_CardinalityType, TaskAssumption
      <4>2. r \in RowsOf(IF loads[q].shape = "page" THEN FirstPage(mine) ELSE mine)
        BY DEF AnswerOf
      <4>3. FirstPage(mine) = mine
        <5> HIDE DEF mine
        <5> QED BY <4>1, TaskAssumption DEF FirstPage
      <4> QED BY <4>2, <4>3
    <3> QED BY <3>2 DEF RowsOf
  <2> QED BY <2>3, <2>4 DEF RowsAreTheirs, TaskQueries
<1>6. CASE TaskArrivals
  <2>1. PICK q \in TaskQueries : TaskArrives(q)
    BY <1>6 DEF TaskArrivals
  <2>2. \A k \in TaskQueries : LoadGoesOn(k) /\ (listed'[k] = listed[k] \/ (k = q /\ listed'[k] = loads[k].answer))
    BY <1>1, <2>1 DEF TaskArrives, LoadGoesOn
  <2>3. loads[q] # Nothing /\ loads[q].answer # Nothing
    BY <2>1 DEF TaskArrives
  <2> QED BY <2>2, <2>3 DEF RowsAreTheirs, LoadGoesOn, TaskQueries
<1>7. CASE Dropped
  <2>1. \A q \in TaskQueries : LoadGoesOn(q) /\ (listed'[q] = listed[q] \/ listed'[q] = Nothing)
    BY <1>1, <1>7 DEF Dropped, LoadGoesOn
  <2> QED BY <2>1, RowsStay
<1>8. CASE Go
  <2>1. PICK place \in Tour : Shows(place, view)
    BY <1>8 DEF Go
  <2> QED BY <1>1, <2>1, ShowsGoesOn, RowsStay
<1>9. CASE SetView
  <2>1. PICK v \in Views : Shows("center", v)
    BY <1>9 DEF SetView
  <2> QED BY <2>1, ShowsGoesOn, RowsStay
<1>10. ASSUME NEW c \in sent, CallSettles(c) PROVE RowsAreTheirs'
  <2>1. CASE UNCHANGED screen
    BY <1>2, <2>1 DEF screen
  <2>2. CASE Shows(c.made, view)
    BY <1>1, <2>2, ShowsGoesOn, RowsStay
  <2>3. CASE UNCHANGED listed /\ (loads' = Refreshed \/ loads' = Watched(Refreshed, Watches("center", view)))
    BY <2>3, RefreshedGoesOn, RowsStay
  <2> QED BY <1>10, <2>1, <2>2, <2>3 DEF CallSettles
<1> QED BY <1>2, <1>3, <1>4, <1>5, <1>6, <1>7, <1>8, <1>9, <1>10
     DEF TaskNext, JobMoves, Connection, OpenDialog, Dismiss, Confirm, Retry, Serve, CallLost, screen

LEMMA DialogsInit == TaskInit => DialogsInv
  BY RowsInit DEF TaskInit, DialogsInv, DialogsStay, ActsWhereOpened

(* The calls are of those that were sent.                                  *)
CallsStay == \A c \in sent' : \E d \in sent : c.kind = d.kind /\ c.job = d.job /\ c.opened = d.opened
DialogStays == dialog' # Nothing => dialog # Nothing /\ dialog'.job = dialog.job /\ where' = where
LEMMA TaskDialogsKept == ASSUME DialogsStay, CallsStay, DialogStays PROVE DialogsStay'
  BY DEF DialogsStay, CallsStay, DialogStays, ActsWhereOpened
LEMMA SameCalls == ASSUME sent' \subseteq sent PROVE CallsStay
  BY DEF CallsStay
LEMMA SameDialog == ASSUME dialog' = Nothing \/ (dialog' = dialog /\ where' = where) PROVE DialogStays
  BY DEF DialogStays
LEMMA AnsweredCalls ==
  ASSUME TaskTypes, NEW c \in sent, Serve(c)
  PROVE  CallsStay
<1>1. PICK s \in [Jobs -> Statuses], made \in Jobs \cup {Nothing}, answer \in {"ok", "refused"} : Answers(c, s, made, answer)
  BY Effects
<1> DEFINE d == [c EXCEPT !.answer = answer, !.made = made]
<1>2. c \in TaskCalls
  BY DEF TaskTypes
<1>3. d.kind = c.kind /\ d.job = c.job /\ d.opened = c.opened
  BY <1>2 DEF TaskCalls
<1>4. sent' = (sent \ {c}) \cup {d}
  BY <1>1 DEF Answers
<1> HIDE DEF d
<1> QED BY <1>3, <1>4 DEF CallsStay

LEMMA UnbusyStays ==
  ASSUME TaskTypes, dialog' = IF dialog = Nothing THEN dialog ELSE [dialog EXCEPT !.busy = FALSE], where' = where
  PROVE  DialogStays
<1>1. CASE dialog = Nothing
  BY <1>1 DEF DialogStays
<1>2. CASE dialog # Nothing
  <2>1. dialog \in Dialogs
    BY <1>2 DEF TaskTypes
  <2>2. dialog'.job = dialog.job
    BY <1>2, <2>1 DEF Dialogs
  <2> QED BY <1>2, <2>2 DEF DialogStays
<1> QED BY <1>1, <1>2

LEMMA OpenedStays == ASSUME TaskTypes, RowsAreTheirs, "dialogs" \in KeptTasks, DialogsStay, OpenDialog PROVE DialogsStay'
<1>1. sent' = sent /\ where' = where /\ \A c \in sent : c.kind # "retry"
  BY DEF OpenDialog, screen
<1>2. PICK q \in DOMAIN watch : listed[q] # Nothing /\ \E r \in listed[q].rows : \E kind \in Offers(r.status) :
         dialog' = IF where = "center" THEN Opened(kind, r.job, r.job, q) ELSE Opened(kind, r.job, Nothing, Nothing)
  BY DEF OpenDialog
<1>3. PICK r \in listed[q].rows : \E kind \in Offers(r.status) :
         dialog' = IF where = "center" THEN Opened(kind, r.job, r.job, q) ELSE Opened(kind, r.job, Nothing, Nothing)
  BY <1>2
<1>4. dialog'.job = r.job
  BY <1>3 DEF Opened
<1>5. where \in Jobs => r.job = where
  <2> SUFFICES ASSUME where \in Jobs PROVE r.job = where
    OBVIOUS
  <2>1. watch = [x \in {where} |-> "one"]
    BY Watching DEF watch, TaskTypes
  <2>2. q \in {where}
    BY <1>2, <2>1
  <2>3. q = where
    BY <2>2
  <2>4. listed[where] # Nothing /\ r \in listed[where].rows
    BY <1>2, <1>3, <2>3
  <2> QED BY <2>4 DEF RowsAreTheirs, OfItsJob
<1> QED BY <1>1, <1>4, <1>5 DEF DialogsStay, ActsWhereOpened

LEMMA ConfirmStays == ASSUME TaskTypes, DialogsStay, Confirm PROVE DialogsStay'
<1>1. dialog \in Dialogs /\ dialog # Nothing /\ where' = where
  BY DEF Confirm, TaskTypes
<1>2. dialog'.job = dialog.job
  BY <1>1 DEF Confirm, Dialogs
<1>3. Target = dialog.job
  BY <1>1 DEF Target, TaskTypes, DialogsStay
<1> DEFINE c == Call(dialog.kind, Target, dialog.job)
<1>4. c.kind # "retry" /\ c.job = c.opened
  BY <1>1, <1>3 DEF Call, Dialogs
<1>5. sent' = sent \cup {c}
  BY DEF Confirm
<1> HIDE DEF c
<1> QED BY <1>1, <1>2, <1>4, <1>5 DEF DialogsStay, ActsWhereOpened

LEMMA RetryStays == ASSUME TaskTypes, DialogsStay, Retry PROVE DialogsStay'
<1> DEFINE c == Call("retry", where, where)
<1>1. c.job = c.opened /\ sent' = sent \cup {c}
  BY DEF Call, Retry
<1>2. dialog' = Nothing
  BY DEF Retry
<1> HIDE DEF c
<1> QED BY <1>1, <1>2 DEF DialogsStay, ActsWhereOpened

LEMMA SettleStays == ASSUME TaskTypes, "dialogs" \in KeptTasks, DialogsStay, NEW c \in sent, CallSettles(c) PROVE DialogsStay'
<1>1. CallsStay
  BY SameCalls DEF CallSettles
<1>2. DialogStays
  <2>1. CASE /\ dialog' = IF dialog = Nothing THEN dialog ELSE [dialog EXCEPT !.busy = FALSE]
             /\ UNCHANGED screen
    BY <2>1, UnbusyStays DEF screen
  <2>2. CASE c.kind = "retry" /\ dialog' = Follows(c.made)
    <3>1. dialog = Nothing
      BY <2>2 DEF DialogsStay
    <3> QED BY <2>2, <3>1, SameDialog DEF Follows
  <2>3. CASE dialog' = Follows("center")
    BY <2>3, TaskAssumption, SameDialog DEF Follows
  <2>4. CASE dialog' = DialogAfter(c) /\ UNCHANGED where
    BY <2>4, SameDialog DEF DialogAfter
  <2> QED BY <2>1, <2>2, <2>3, <2>4 DEF CallSettles
<1> QED BY <1>1, <1>2, TaskDialogsKept

LEMMA DialogsStep == ASSUME "dialogs" \in KeptTasks, TaskTypes, DialogsInv, TaskNext PROVE DialogsInv'
<1>1. RowsAreTheirs'
  BY RowsStep DEF DialogsInv
<1> SUFFICES DialogsStay'
  BY <1>1 DEF DialogsInv
<1>2. ASSUME sent' = sent, dialog' = Nothing \/ (dialog' = dialog /\ where' = where) PROVE DialogsStay'
  BY <1>2, SameCalls, SameDialog, TaskDialogsKept DEF DialogsInv
<1>3. CASE JobMoves \/ Deliver \/ Connection \/ Poll \/ TaskReads \/ Dropped \/ Dismiss \/ SetView
  BY <1>2, <1>3 DEF JobMoves, Deliver, Connection, Poll, TaskReads, TaskRead, Dropped, Dismiss, SetView, screen
<1>4. CASE TaskArrivals
  BY <1>2, <1>4 DEF TaskArrivals, TaskArrives, RowDialog
<1>5. CASE Go
  BY <1>2, <1>5 DEF Go, Follows
<1>6. CASE \E c \in sent : Serve(c)
  BY <1>6, AnsweredCalls, SameDialog, TaskDialogsKept DEF Serve, screen, DialogsInv
<1>7. CASE \E c \in sent : CallLost(c)
  BY <1>7, SameCalls, UnbusyStays, TaskDialogsKept DEF CallLost, screen, DialogsInv
<1> QED BY <1>3, <1>4, <1>5, <1>6, <1>7, OpenedStays, ConfirmStays, RetryStays, SettleStays DEF TaskNext, DialogsInv

(* Every query that is watched is loaded, and no load is answered yet.     *)
AllAsked(w) == \A q \in TaskQueries :
    /\ loads[q] = Nothing \/ loads[q].answer = Nothing
    /\ q \in DOMAIN w => loads[q] # Nothing /\ loads[q].shape = w[q]
LEMMA AskedIsFresh == ASSUME view \in Views, AllAsked(watch) PROVE FreshInv
<1>1. DOMAIN watch \subseteq TaskQueries
  BY Watching DEF watch
<1> QED BY <1>1 DEF AllAsked, FreshInv, LoadsFit, LoadsCurrent, ListsCurrent
LEMMA AskedStaysFresh == ASSUME view' \in Views, AllAsked(watch)' PROVE FreshInv'
<1>1. DOMAIN watch' \subseteq TaskQueries
  BY Watching DEF watch
<1> QED BY <1>1 DEF AllAsked, FreshInv, LoadsFit, LoadsCurrent, ListsCurrent

LEMMA FreshInit == TaskInit => FreshInv
<1> SUFFICES ASSUME TaskInit PROVE FreshInv
  OBVIOUS
<1>1. listed = [q \in TaskQueries |-> Nothing] /\ loads = Watched(listed, Watches(where, view)) /\ view \in Views
  BY DEF TaskInit, Views
<1>2. \A q \in DOMAIN Watches(where, view) : Watches(where, view)[q] \in Shapes
  BY <1>1, Watching
<1>3. listed \in [TaskQueries -> TaskLoads \cup {Nothing}]
  BY <1>1
<1>4. AllAsked(watch)
  <2> SUFFICES ASSUME NEW q \in TaskQueries
               PROVE  /\ loads[q] = Nothing \/ loads[q].answer = Nothing
                      /\ q \in DOMAIN watch => loads[q] # Nothing /\ loads[q].shape = watch[q]
    BY DEF AllAsked
  <2>1. \/ loads[q] = Nothing /\ q \notin DOMAIN watch
        \/ q \in DOMAIN watch /\ loads[q] = Load(watch[q])
    BY <1>1, <1>2, <1>3, AskedFor DEF watch
  <2>2. q \in DOMAIN watch => watch[q] \in Shapes
    BY <1>2 DEF watch
  <2> QED BY <2>1, <2>2, Loading, TaskNothing
<1> QED BY <1>1, <1>4, AskedIsFresh

(* A load that would not be replaced is not there when something changes.  *)
LEMMA Replaceable ==
  ASSUME "loads" \in KeptTasks, LoadsUndisturbed, TaskTypes, LoadsFit
  PROVE  \A q \in TaskQueries : /\ Refreshed[q] = Nothing \/ Refreshed[q].answer = Nothing
                                /\ q \in DOMAIN watch => Refreshed[q] # Nothing /\ Refreshed[q].shape = watch[q]
                                /\ q \notin DOMAIN watch => Refreshed[q] = loads[q]
<1> TAKE q \in TaskQueries
<1>1. \/ Refreshed[q] = Load(watch[q]) /\ q \in DOMAIN watch
      \/ Refreshed[q] = loads[q] /\ (q \in DOMAIN watch => loads[q] # Nothing /\ listed[q] = Nothing)
  BY AskedAfresh
<1>2. q \in DOMAIN watch => watch[q] \in Shapes
  BY Watching DEF watch, TaskTypes
<1>3. ~(loads[q] # Nothing /\ loads[q].answer # Nothing /\ (listed[q] = Nothing \/ q \notin DOMAIN watch))
  BY DEF LoadsUndisturbed, Uncancelled
<1>4. CASE Refreshed[q] = Load(watch[q]) /\ q \in DOMAIN watch
  BY <1>2, <1>4, Loading, TaskNothing
<1>5. CASE Refreshed[q] = loads[q] /\ (q \in DOMAIN watch => loads[q] # Nothing /\ listed[q] = Nothing)
  BY <1>3, <1>5 DEF LoadsFit
<1> QED BY <1>1, <1>4, <1>5

LEMMA RefreshedIsFresh ==
  ASSUME "loads" \in KeptTasks, LoadsUndisturbed, TaskTypes, LoadsFit, loads' = Refreshed, UNCHANGED <<where, view>>
  PROVE  FreshInv'
<1>1. watch' = watch /\ view' \in Views
  BY DEF watch, TaskTypes
<1>2. AllAsked(watch)'
  BY <1>1, Replaceable DEF AllAsked
<1> QED BY <1>1, <1>2, AskedStaysFresh

LEMMA DeleteIsFresh ==
  ASSUME "loads" \in KeptTasks, "shapes" \in KeptTasks, LoadsUndisturbed, TaskTypes, LoadsFit,
         Fits("center", view), where' = "center", view' = view,
         loads' = Watched(Refreshed, Watches("center", view))
  PROVE  FreshInv'
<1> DEFINE w == Watches("center", view)
<1>1. view' \in Views /\ watch' = w /\ DOMAIN w \subseteq Views /\ \A q \in DOMAIN w : w[q] \in Shapes
  BY Watching DEF watch, TaskTypes
<1>2. ASSUME NEW q \in TaskQueries, q \in DOMAIN w, q \in DOMAIN watch PROVE watch[q] = w[q]
  <2>1. where \notin Jobs
    <3> SUFFICES ASSUME where \in Jobs PROVE FALSE
      OBVIOUS
    <3>1. watch = [x \in {where} |-> "one"]
      BY Watching DEF watch, TaskTypes
    <3>2. q \in {where}
      BY <1>2, <3>1
    <3>3. q \in Jobs /\ q \in Views
      BY <1>1, <1>2, <3>2
    <3> QED BY <3>3, TaskAssumption DEF Views
  <2>2. where # "away"
    <3> SUFFICES ASSUME where = "away" PROVE FALSE
      OBVIOUS
    <3>1. watch = [x \in {} |-> "one"]
      BY TaskAssumption DEF watch, Watches
    <3> QED BY <1>2, <3>1
  <2> QED BY <2>1, <2>2 DEF TaskTypes, TaskPlaces, watch
<1>3. \A q \in DOMAIN w : loads[q] # Nothing => loads[q].shape = w[q]
  BY DEF Fits
<1>4. Refreshed \in [TaskQueries -> TaskLoads \cup {Nothing}] /\ loads' = Watched(Refreshed, w)
  BY AskedAfresh
<1> HIDE DEF w
<1>5. AllAsked(w)'
  <2> SUFFICES ASSUME NEW q \in TaskQueries
               PROVE  /\ loads'[q] = Nothing \/ loads'[q].answer = Nothing
                      /\ q \in DOMAIN w => loads'[q] # Nothing /\ loads'[q].shape = w[q]
    BY <1>1 DEF AllAsked, w
  <2>1. \/ loads'[q] = Refreshed[q] /\ (q \in DOMAIN w => Refreshed[q] # Nothing)
        \/ q \in DOMAIN w /\ Refreshed[q] = Nothing /\ loads'[q] = Load(w[q])
    BY <1>1, <1>4, AskedFor
  <2>2. CASE loads'[q] = Refreshed[q] /\ (q \in DOMAIN w => Refreshed[q] # Nothing)
    BY <1>2, <1>3, <2>2, Replaceable
  <2>3. CASE q \in DOMAIN w /\ loads'[q] = Load(w[q])
    BY <1>1, <2>3, Loading, TaskNothing
  <2> QED BY <2>1, <2>2, <2>3
<1>6. AllAsked(watch)'
  BY <1>1, <1>5 DEF AllAsked, w
<1> QED BY <1>1, <1>6, AskedStaysFresh

(* The answers stay what they are as long as the jobs do.                  *)
LEMMA NowStays == ASSUME state' = state PROVE Now' = Now
  BY DEF Now, AnswerOf, RowsOf
LEMMA NowIs == ASSUME NEW q \in TaskQueries, NEW shape \in Shapes PROVE Now[q][shape] = AnswerOf(q, shape)
  BY DEF Now

(* News does not go away by itself, nor what a call did before it is heard *)
(* of.                                                                     *)
NewsStays == Unheard => Unheard'
SameScreen == UNCHANGED <<where, view, listed, loads>>
LEMMA ScreenStays == ASSUME FreshInv, SameScreen, state' = state, NewsStays PROVE FreshInv'
<1>1. watch' = watch /\ Now' = Now
  BY NowStays DEF SameScreen, watch
<1> QED BY <1>1 DEF FreshInv, LoadsFit, LoadsCurrent, ListsCurrent, SameScreen, NewsStays

(* What the server changes is news, or a delete that is not heard of.      *)
LEMMA ChangeIsNews == ASSUME FreshInv, SameScreen, Unheard' PROVE FreshInv'
<1>1. watch' = watch
  BY DEF SameScreen, watch
<1> QED BY <1>1 DEF FreshInv, LoadsFit, LoadsCurrent, ListsCurrent, SameScreen

LEMMA ServedStays == ASSUME FreshInv, TaskTypes, NEW c \in sent, Serve(c) PROVE FreshInv'
<1>1. SameScreen /\ c.answer = Nothing
  BY DEF Serve, SameScreen, screen
<1>2. PICK s \in [Jobs -> Statuses] : \E made \in Jobs \cup {Nothing} : \E answer \in {"ok", "refused"} :
            /\ Answers(c, s, made, answer)
            /\ s = state \/ news' \/ (c.kind = "delete" /\ answer = "ok")
            /\ news' = news \/ news'
  BY Effects
<1>3. PICK made \in Jobs \cup {Nothing} : \E answer \in {"ok", "refused"} :
            /\ Answers(c, s, made, answer)
            /\ s = state \/ news' \/ (c.kind = "delete" /\ answer = "ok")
            /\ news' = news \/ news'
  BY <1>2
<1>4. PICK answer \in {"ok", "refused"} :
            /\ Answers(c, s, made, answer)
            /\ s = state \/ news' \/ (c.kind = "delete" /\ answer = "ok")
            /\ news' = news \/ news'
  BY <1>3
<1> DEFINE d == [c EXCEPT !.answer = answer, !.made = made]
<1>5. c \in TaskCalls
  BY DEF TaskTypes
<1>6. d.kind = c.kind /\ d.answer = answer
  BY <1>5 DEF TaskCalls
<1>7. state' = s /\ sent' = (sent \ {c}) \cup {d}
  BY <1>4 DEF Answers
<1> HIDE DEF d
<1>8. CASE news' \/ (c.kind = "delete" /\ answer = "ok")
  <2>1. Unheard'
    BY <1>6, <1>7, <1>8 DEF Unheard
  <2> QED BY <1>1, <2>1, ChangeIsNews
<1>9. CASE s = state /\ news' = news
  <2>1. NewsStays
    BY <1>1, <1>7, <1>9, TaskNothing DEF NewsStays, Unheard
  <2> QED BY <1>1, <1>7, <1>9, <2>1, ScreenStays
<1> QED BY <1>4, <1>8, <1>9

(* A page that is come to asks for what it shows, or has it loaded in the  *)
(* shape it reads.                                                         *)
LEMMA ShownIsFresh ==
  ASSUME "shapes" \in KeptTasks, FreshInv, TaskTypes, NEW place \in TaskPlaces, NEW v \in Views, Shows(place, v),
         state' = state, NewsStays
  PROVE  FreshInv'
<1> DEFINE w == Watches(place, v)
<1>1. watch' = w /\ view' \in Views /\ DOMAIN w \subseteq TaskQueries /\ \A q \in DOMAIN w : w[q] \in Shapes
  BY Watching DEF watch, Shows
<1>2. \A q \in DOMAIN w : loads[q] # Nothing => loads[q].shape = w[q]
  BY DEF Shows, Fits
<1>3. loads' = Watched(loads, w) /\ listed' = listed /\ loads \in [TaskQueries -> TaskLoads \cup {Nothing}]
  BY DEF Shows, TaskTypes
<1> HIDE DEF w
<1>4. Now' = Now
  BY NowStays
<1>5. \A q \in TaskQueries : \/ loads'[q] = loads[q] /\ (q \in DOMAIN w => loads[q] # Nothing)
                             \/ q \in DOMAIN w /\ loads'[q] = Load(w[q])
  BY <1>1, <1>3, AskedFor
<1>6. \A q \in DOMAIN w : loads'[q] # Nothing /\ loads'[q].shape = w[q]
  <2> TAKE q \in DOMAIN w
  <2>1. CASE loads'[q] = loads[q] /\ loads[q] # Nothing
    BY <1>2, <2>1
  <2>2. CASE loads'[q] = Load(w[q])
    BY <1>1, <2>2, Loading, TaskNothing
  <2> QED BY <1>1, <1>5, <2>1, <2>2
<1>7. LoadsCurrent'
  <2> SUFFICES ASSUME ~Unheard', NEW q \in TaskQueries, loads'[q] # Nothing, loads'[q].answer # Nothing
               PROVE  loads'[q].answer = Now'[q][loads'[q].shape]
    BY DEF LoadsCurrent
  <2>1. CASE loads'[q] = loads[q]
    BY <1>4, <2>1 DEF FreshInv, LoadsCurrent, NewsStays
  <2>2. CASE q \in DOMAIN w /\ loads'[q] = Load(w[q])
    BY <1>1, <2>2, Loading
  <2> QED BY <1>5, <2>1, <2>2
<1>8. LoadsFit' /\ ListsCurrent'
  BY <1>1, <1>6 DEF LoadsFit, ListsCurrent
<1> QED BY <1>7, <1>8 DEF FreshInv

LEMMA ReadIsFresh == ASSUME FreshInv, TaskTypes, NEW q \in TaskQueries, TaskRead(q) PROVE FreshInv'
<1>1. loads[q] \in TaskLoads /\ loads \in [TaskQueries -> TaskLoads \cup {Nothing}]
  BY DEF TaskRead, TaskTypes
<1> DEFINE answer == AnswerOf(q, loads[q].shape)
           read == [loads[q] EXCEPT !.answer = answer]
<1>2. answer = Now[q][loads[q].shape]
  BY <1>1, NowIs DEF TaskLoads
<1> HIDE DEF answer
<1>3. read.shape = loads[q].shape /\ read.answer = answer
  BY <1>1 DEF TaskLoads
<1>4. read \in TaskLoads
  <2>1. answer \in TaskAnswers
    BY <1>1, AnswerTyped DEF answer, TaskLoads
  <2> QED BY <1>1, <2>1 DEF TaskLoads
<1>5. loads' = [loads EXCEPT ![q] = read]
  BY DEF TaskRead, answer
<1> HIDE DEF read
<1>6. watch' = watch /\ Now' = Now /\ listed' = listed /\ (Unheard' <=> Unheard)
  BY NowStays DEF TaskRead, watch, served, Unheard
<1>7. read # Nothing /\ loads[q] # Nothing /\ loads'[q] = read /\ \A k \in TaskQueries \ {q} : loads'[k] = loads[k]
  BY <1>1, <1>4, <1>5, TaskNothing
<1>8. DOMAIN watch \subseteq TaskQueries
  BY Watching DEF watch, TaskTypes
<1>9. LoadsFit'
  BY <1>3, <1>6, <1>7, <1>8 DEF FreshInv, LoadsFit
<1>10. LoadsCurrent'
  BY <1>2, <1>3, <1>6, <1>7 DEF FreshInv, LoadsCurrent
<1>11. ListsCurrent'
  BY <1>6, <1>7, <1>8 DEF FreshInv, ListsCurrent
<1> QED BY <1>9, <1>10, <1>11 DEF FreshInv

LEMMA ArrivalIsFresh == ASSUME FreshInv, TaskTypes, NEW q \in TaskQueries, TaskArrives(q) PROVE FreshInv'
<1>1. watch' = watch /\ Now' = Now /\ (Unheard' <=> Unheard)
  BY NowStays DEF TaskArrives, watch, served, Unheard
<1>2. DOMAIN watch \subseteq TaskQueries
  BY Watching DEF watch, TaskTypes
<1>3. loads'[q] = Nothing /\ \A k \in TaskQueries \ {q} : loads'[k] = loads[k] /\ listed'[k] = listed[k]
  BY DEF TaskArrives, TaskTypes
<1>4. loads[q] # Nothing /\ loads[q].answer # Nothing /\ (q \in Views => listed'[q] = loads[q].answer)
  BY TaskAssumption DEF TaskArrives, TaskTypes, Views
<1>5. LoadsFit'
  BY <1>1, <1>2, <1>3 DEF FreshInv, LoadsFit
<1>6. LoadsCurrent'
  BY <1>1, <1>3 DEF FreshInv, LoadsCurrent
<1>7. ListsCurrent'
  <2> SUFFICES ASSUME NEW k \in DOMAIN watch \cap Views, loads'[k] = Nothing
               PROVE  listed'[k] # Nothing /\ (~Unheard => listed'[k] = Now[k][watch[k]])
    BY <1>1 DEF ListsCurrent
  <2>1. CASE k = q
    BY <1>4, <2>1 DEF FreshInv, LoadsFit, LoadsCurrent
  <2>2. CASE k # q
    BY <1>2, <1>3, <2>2 DEF FreshInv, ListsCurrent
  <2> QED BY <2>1, <2>2
<1> QED BY <1>5, <1>6, <1>7 DEF FreshInv

LEMMA PollIsFresh == ASSUME FreshInv, TaskTypes, Poll PROVE FreshInv'
<1>1. watch' = watch /\ Now' = Now /\ listed' = listed /\ (Unheard' <=> Unheard)
  BY NowStays DEF Poll, watch, served, Unheard
<1>2. watch = [x \in {where} |-> "one"] /\ where \in Jobs
  BY Watching DEF watch, TaskTypes, Poll
<1>3. loads'[where] = Load("one") /\ \A k \in TaskQueries \ {where} : loads'[k] = loads[k]
  BY <1>2 DEF Poll, TaskTypes, TaskQueries
<1>4. Load("one").shape = "one" /\ Load("one").answer = Nothing
  BY Loading DEF Shapes
<1>5. LoadsFit'
  BY <1>1, <1>2, <1>3, <1>4 DEF LoadsFit
<1>6. LoadsCurrent'
  BY <1>1, <1>3, <1>4 DEF FreshInv, LoadsCurrent
<1>7. ListsCurrent'
  BY <1>1, <1>2, TaskAssumption DEF ListsCurrent, Views
<1> QED BY <1>5, <1>6, <1>7 DEF FreshInv

LEMMA DroppedIsFresh == ASSUME FreshInv, TaskTypes, Dropped PROVE FreshInv'
<1>1. watch' = watch /\ Now' = Now /\ loads' = loads /\ (Unheard' <=> Unheard)
  BY NowStays DEF Dropped, watch, served, Unheard
<1>2. \A q \in DOMAIN watch : listed'[q] = listed[q]
  BY Watching DEF Dropped, Idle, watch, TaskTypes
<1> QED BY <1>1, <1>2 DEF FreshInv, LoadsFit, LoadsCurrent, ListsCurrent

LEMMA CallsKeepNews ==
  ASSUME TaskTypes, news' = news, \/ Confirm \/ Retry
  PROVE  NewsStays
<1>1. \A c \in sent : c \in sent'
  BY DEF Confirm, Retry
<1> QED BY <1>1 DEF NewsStays, Unheard

LEMMA SettleIsFresh ==
  ASSUME {"loads", "shapes"} \subseteq KeptTasks, FreshInv, TaskTypes, NEW c \in sent, CallSettles(c)
  PROVE  FreshInv'
<1>1. state' = state /\ news' = news /\ sent' = sent \ {c} /\ LoadsUndisturbed /\ view \in Views
  BY DEF CallSettles, served, TaskTypes
<1>2. ASSUME ~(c.kind = "delete" /\ c.answer = "ok") PROVE NewsStays
  BY <1>1, <1>2 DEF NewsStays, Unheard
<1>3. CASE c.answer = "refused" /\ UNCHANGED screen
  <2>1. SameScreen /\ NewsStays
    BY <1>2, <1>3 DEF SameScreen, screen
  <2> QED BY <1>1, <2>1, ScreenStays
<1>4. CASE c.answer = "ok" /\ c.kind = "retry" /\ Shows(c.made, view)
  <2>1. c.made \in TaskPlaces
    BY <1>4 DEF TaskTypes, TaskPlaces
  <2> QED BY <1>1, <1>2, <1>4, <2>1, ShownIsFresh
<1>5. CASE /\ Fits("center", view) /\ where' = "center" /\ UNCHANGED <<turns, view, listed>>
           /\ loads' = Watched(Refreshed, Watches("center", view))
  BY <1>1, <1>5, DeleteIsFresh DEF FreshInv
<1>6. CASE loads' = Refreshed /\ UNCHANGED <<turns, where, view, listed>>
  BY <1>1, <1>6, RefreshedIsFresh DEF FreshInv
<1> QED BY <1>3, <1>4, <1>5, <1>6 DEF CallSettles

LEMMA FreshStep ==
  ASSUME {"loads", "shapes", "answers"} \subseteq KeptTasks, TaskTypes, FreshInv, TaskNext
  PROVE  FreshInv'
<1>1. CASE JobMoves
  <2>1. SameScreen /\ Unheard'
    BY <1>1 DEF JobMoves, SameScreen, Unheard, screen
  <2> QED BY <2>1, ChangeIsNews
<1>2. CASE Deliver
  BY <1>2, RefreshedIsFresh DEF Deliver, FreshInv
<1>3. CASE Connection \/ OpenDialog \/ Dismiss
  <2>1. SameScreen /\ NewsStays /\ state' = state
    BY <1>3 DEF Connection, OpenDialog, Dismiss, SameScreen, NewsStays, Unheard, served, screen
  <2> QED BY <2>1, ScreenStays
<1>4. CASE Confirm \/ Retry
  <2>1. SameScreen /\ state' = state /\ news' = news
    BY <1>4 DEF Confirm, Retry, SameScreen, served
  <2> QED BY <1>4, <2>1, CallsKeepNews, ScreenStays
<1>5. CASE Go \/ SetView
  <2>1. NewsStays /\ state' = state /\ view \in Views
    BY <1>5 DEF Go, SetView, NewsStays, Unheard, served, TaskTypes
  <2>2. \E place \in TaskPlaces : \E v \in Views : Shows(place, v)
    BY <1>5, <2>1 DEF Go, SetView, Tour, TaskPlaces
  <2> QED BY <2>1, <2>2, ShownIsFresh
<1>6. CASE \E c \in sent : CallLost(c)
  <2>1. PICK c \in sent : CallLost(c)
    BY <1>6
  <2>2. SameScreen /\ state' = state
    BY <2>1 DEF CallLost, SameScreen, served, screen
  <2>3. NewsStays
    BY <2>1, TaskNothing DEF CallLost, NewsStays, Unheard, served
  <2> QED BY <2>2, <2>3, ScreenStays
<1> QED BY <1>1, <1>2, <1>3, <1>4, <1>5, <1>6, ReadIsFresh, ArrivalIsFresh, PollIsFresh, DroppedIsFresh, ServedStays, SettleIsFresh
     DEF TaskNext, TaskReads, TaskArrivals

(* What the task center shows when everything has been dealt with.         *)
LEMMA ShownOnce == TaskTypes /\ FreshInv => EachTaskOnce
<1> SUFFICES ASSUME TaskTypes, FreshInv, Settled, where = "center", view = "all",
                    Cardinality({j \in Jobs : state[j] = "awaiting_review"}) <= PinLimit, NEW j \in Jobs
             PROVE  /\ Cardinality({q \in DOMAIN watch : \E r \in listed[q].rows : r.job = j}) = IF Exists(j) THEN 1 ELSE 0
                    /\ \A q \in DOMAIN watch :
                         /\ listed[q].shape = watch[q]
                         /\ \A r \in listed[q].rows : r.job = j => r.status = state[j]
  BY DEF EachTaskOnce
<1> DEFINE others == {x \in Jobs : state[x] \in Listed("all")}
           pinned == {x \in Jobs : state[x] = "awaiting_review"}
<1>1. "all" # "needs_review" /\ "all" \notin Jobs /\ "needs_review" \notin Jobs /\ {"all", "needs_review"} \subseteq TaskQueries
  BY TaskAssumption DEF TaskQueries, Views
<1>2. watch = [q \in {"all", "needs_review"} |-> IF q = "all" THEN "pages" ELSE "page"]
  BY TaskAssumption DEF watch, Watches
<1>3. DOMAIN watch = {"all", "needs_review"} /\ watch["all"] = "pages" /\ watch["needs_review"] = "page"
  BY <1>1, <1>2
<1>4. listed["all"] = Now["all"]["pages"] /\ listed["needs_review"] = Now["needs_review"]["page"]
  BY <1>1, <1>3 DEF Settled, Unheard, FreshInv, ListsCurrent, Views
<1>5. listed["all"] = AnswerOf("all", "pages") /\ listed["needs_review"] = AnswerOf("needs_review", "page")
  BY <1>1, <1>4, NowIs DEF Shapes
<1>6. listed["all"] = [shape |-> "pages", rows |-> RowsOf(others)]
  BY <1>1, <1>5 DEF AnswerOf
<1>7. listed["needs_review"] = [shape |-> "page", rows |-> RowsOf(pinned)]
  <2>1. {x \in Jobs : state[x] \in Listed("needs_review")} = pinned
    BY DEF Listed
  <2>2. AnswerOf("needs_review", "page") = [shape |-> "page", rows |-> RowsOf(FirstPage(pinned))]
    BY <1>1, <2>1 DEF AnswerOf
  <2>3. FirstPage(pinned) = pinned
    BY DEF FirstPage
  <2> QED BY <1>5, <2>2, <2>3
<1>8. \A js, x : (\E r \in RowsOf(js) : r.job = x) <=> x \in js
  <2> TAKE js, x
  <2>1. \A i \in js : [job |-> i, status |-> state[i]] \in RowsOf(js)
    BY DEF RowsOf
  <2>2. \A r \in RowsOf(js) : r.job \in js
    BY DEF RowsOf
  <2> QED BY <2>1, <2>2
<1>9. \A x : (\E r \in RowsOf(pinned) : r.job = x) <=> x \in pinned
  BY <1>8
<1>10. /\ \A r \in RowsOf(others) : r.job = j => r.status = state[j]
       /\ \A r \in RowsOf(pinned) : r.job = j => r.status = state[j]
  BY DEF RowsOf
<1>11. /\ Exists(j) <=> (j \in others \/ j \in pinned)
       /\ ~(j \in others /\ j \in pinned)
  BY DEF Exists, Listed, TaskTypes, Statuses, ACTIVE, TERMINAL
<1> DEFINE shows == {q \in DOMAIN watch : \E r \in listed[q].rows : r.job = j}
<1>12. \A q : q \in shows <=> (q = "all" /\ j \in others) \/ (q = "needs_review" /\ j \in pinned)
  <2> HIDE DEF others, pinned
  <2> QED BY <1>3, <1>6, <1>7, <1>8, <1>9
<1>13. Cardinality(shows) = IF Exists(j) THEN 1 ELSE 0
  <2> HIDE DEF shows, others, pinned
  <2>1. CASE j \in others
    <3>1. shows = {"all"}
      BY <1>11, <1>12, <2>1
    <3> QED BY <1>11, <2>1, <3>1, FS_Singleton
  <2>2. CASE j \in pinned
    <3>1. shows = {"needs_review"}
      BY <1>11, <1>12, <2>2
    <3> QED BY <1>11, <2>2, <3>1, FS_Singleton
  <2>3. CASE ~Exists(j)
    <3>1. shows = {}
      BY <1>11, <1>12, <2>3
    <3> QED BY <2>3, <3>1, FS_EmptySet
  <2> QED BY <1>11, <2>1, <2>2, <2>3
<1>14. \A q \in DOMAIN watch : listed[q].shape = watch[q] /\ \A r \in listed[q].rows : r.job = j => r.status = state[j]
  <2> HIDE DEF others, pinned
  <2> QED BY <1>3, <1>6, <1>7, <1>10
<1> QED BY <1>13, <1>14
-----------------------------------------------------------------------------
LibPlaces == ListKeys \cup {"away"} \cup Everything
ListAnswers == [ids : SUBSET Everything]
ListLoads == [shape : {"pages"}, answer : ListAnswers \cup {Nothing}]
Boxes == [kind : {"delete", "empty", "publish"}, ids : SUBSET Everything, busy : BOOLEAN]
LibRequests == [op : {"delete", "empty", "publish", "unpublish", "restore"}, ids : SUBSET Everything, from : LibPlaces,
                mine : BOOLEAN, shown : SUBSET Everything, changed : SUBSET Everything, answer : {Nothing, "ok"}]
Toasts == [undo : SUBSET Everything, took : SUBSET Everything]
Stages == Uploading \cup {"none", "done", "failed", "removed"}

LibraryTypes ==
    /\ shelf \in [Everything -> {"unmade", "library", "trash", "purged"}]
    /\ public \subseteq Everything /\ agreed \subseteq Everything /\ selected \subseteq Everything
    /\ at \in LibPlaces
    /\ lists \in [ListKeys -> ListAnswers \cup {Nothing}] /\ reading \in [ListKeys -> ListLoads \cup {Nothing}]
    /\ box \in Boxes \cup {Nothing} /\ toasts \subseteq Toasts
    /\ requests \subseteq LibRequests /\ IsFiniteSet(requests) /\ Cardinality(requests) <= MaxRequests
    /\ uploads \in [Files -> [stage : Stages, cancelled : BOOLEAN]]

(* A file makes an asset only at the end of its upload, and what was       *)
(* cancelled has left the queue.                                           *)
UploadsInv == \A f \in Files :
    /\ uploads[f].stage \in {"none", "prepare", "transfer", "confirm", "removed"} => shelf[f] = "unmade"
    /\ uploads[f].cancelled => uploads[f].stage = "removed"

(* As long as nobody leaves a page on which something is under way, the    *)
(* dialogs and the requests are of the page on the screen.                 *)
RequestsAreHere == \A r \in requests : r.mine
BoxIsHere == box # Nothing /\ box.kind = "publish" => at \in Everything /\ box.ids = {at}
PublishAgreed == \A r \in requests : r.op = "publish" => r.ids \subseteq agreed
PublishInv == RequestsAreHere /\ BoxIsHere /\ PublishAgreed /\ PublishedOnPurpose

(* A delete or an emptying is the only request, and its dialog is open.    *)
Deleting(a) == \E r \in requests : r.op = "delete" /\ r.answer = "ok" /\ a \in r.ids
IsSole == \A r \in requests : r.op \in {"delete", "empty", "publish"} => requests = {r} /\ box # Nothing /\ box.busy
BoxStands ==
    box # Nothing => /\ IF box.busy THEN \E r \in requests : requests = {r} /\ r.op = box.kind ELSE requests = {}
                     /\ \A k \in ListKeys : lists[k] # Nothing
                     /\ box.kind = "delete" => IF at \in Everything THEN box.ids = {at} ELSE at = "library"
                     /\ box.kind = "delete" => \A a \in box.ids : shelf[a] = "library" \/ Deleting(a)
                     /\ at \in Everything => \A k \in ListKeys : reading[k] = Nothing
DeleteStands ==
    \A r \in requests : r.op = "delete" =>
        /\ r.ids = box.ids /\ (r.from \in Everything <=> at \in Everything)
        /\ r.answer = "ok" => r.changed = r.ids
EmptyStands ==
    \A r \in requests : r.op = "empty" =>
        /\ r.changed \subseteq r.shown
        /\ r.answer = Nothing => In("trash") \subseteq r.shown
(* The lists: what the library shows is there, and what is in the trash is *)
(* shown there, or it will be asked for again.                             *)
ListsComing == \A k \in ListKeys : lists[k] = Nothing => reading[k] # Nothing
ListsTrue ==
    /\ \A a \in Shown("library") : shelf[a] = "library" \/ Deleting(a) \/ reading["library"] # Nothing
    /\ \A a \in In("trash") : a \in Shown("trash") \/ Deleting(a) \/ reading["trash"] # Nothing
LoadsTrue ==
    /\ reading["library"] # Nothing /\ reading["library"].answer # Nothing =>
          \A a \in reading["library"].answer.ids : shelf[a] = "library" \/ Deleting(a)
    /\ reading["trash"] # Nothing /\ reading["trash"].answer # Nothing =>
          \A a \in In("trash") : a \in reading["trash"].answer.ids \/ Deleting(a)
SelectionTrue == \A a \in selected : shelf[a] = "library" \/ Deleting(a)
DeleteInv == /\ IsSole /\ BoxStands /\ DeleteStands /\ EmptyStands
             /\ ListsComing /\ ListsTrue /\ LoadsTrue /\ SelectionTrue /\ UndoesItsDelete

LEMMA ListsWatched ==
  ASSUME NEW old \in [ListKeys -> ListLoads \cup {Nothing}], NEW w, \A k \in DOMAIN w : w[k] = "pages"
  PROVE  Watched(old, w) \in [ListKeys -> ListLoads \cup {Nothing}]
  BY DEF Watched, Load, ListLoads

LEMMA ListsInvalidated ==
  ASSUME NEW old \in [ListKeys -> ListLoads \cup {Nothing}], NEW w, \A k \in DOMAIN w : w[k] = "pages", NEW c, NEW stale
  PROVE  Invalidated(old, c, w, stale) \in [ListKeys -> ListLoads \cup {Nothing}]
  BY DEF Invalidated, Load, ListLoads

LEMMA ReadsPages == (\A k \in DOMAIN Reads : Reads[k] = "pages") /\ (\A k \in DOMAIN ReadsBoth : ReadsBoth[k] = "pages")
  BY DEF Reads, ReadsBoth

LEMMA LibTypesInit == LibraryInit => LibraryTypes
<1> SUFFICES ASSUME LibraryInit PROVE LibraryTypes
  OBVIOUS
<1>1. reading \in [ListKeys -> ListLoads \cup {Nothing}]
  <2>1. lists \in [ListKeys -> ListLoads \cup {Nothing}] /\ reading = Watched(lists, ReadsBoth)
    BY DEF LibraryInit
  <2> QED BY <2>1, ListsWatched, ReadsPages
<1>2. IsFiniteSet(requests) /\ Cardinality(requests) <= MaxRequests
  BY FS_EmptySet, LibraryAssumption DEF LibraryInit
<1> QED BY <1>1, <1>2 DEF LibraryInit, LibraryTypes, LibPlaces, ListKeys, Stages

LEMMA LibSent ==
  ASSUME LibraryTypes, NEW op \in {"delete", "empty", "publish", "unpublish", "restore"}, NEW ids \in SUBSET Everything,
         Sends(op, ids)
  PROVE  requests' \subseteq LibRequests /\ IsFiniteSet(requests') /\ Cardinality(requests') <= MaxRequests
<1>1. Request(op, ids) \in LibRequests
  <2>1. Shown("trash") \in SUBSET Everything
    BY DEF LibraryTypes, Shown, ListAnswers, ListKeys
  <2>2. at \in LibPlaces
    BY DEF LibraryTypes
  <2> QED BY <2>1, <2>2 DEF Request, LibRequests
<1>2. Cardinality(requests) < MaxRequests /\ requests' = requests \cup {Request(op, ids)}
  BY DEF Sends
<1> DEFINE r == Request(op, ids)
<1> HIDE DEF r
<1>3. IsFiniteSet(requests \cup {r}) /\ Cardinality(requests \cup {r}) <= MaxRequests
  BY <1>2, Joins, LibraryAssumption DEF LibraryTypes
<1> QED BY <1>1, <1>2, <1>3 DEF r, LibraryTypes

LEMMA LibTypesStep == LibraryTypes /\ [LibraryNext]_libraryVars => LibraryTypes'
<1> SUFFICES ASSUME LibraryTypes, [LibraryNext]_libraryVars PROVE LibraryTypes'
  OBVIOUS
<1> USE DEF LibraryTypes, stored, looks
<1>1. CASE Elsewhere
  <2>1. shelf' \in [Everything -> {"unmade", "library", "trash", "purged"}]
    BY <1>1 DEF Elsewhere, MovedElsewhere
  <2> QED BY <1>1, <2>1 DEF Elsewhere
<1>2. CASE LibGo
  <2>1. PICK place \in ListKeys \cup {"away"} \cup Everything :
           /\ at' = place
           /\ IF at \in ListKeys /\ place \in ListKeys THEN UNCHANGED <<selected, reading, box, requests>>
              ELSE /\ selected' = {}
                   /\ requests' = {[r EXCEPT !.mine = FALSE] : r \in requests}
                   /\ box' = IF at \in Everything /\ place \in Everything THEN box ELSE Nothing
                   /\ reading' = IF place \in ListKeys THEN Watched(reading, ReadsBoth) ELSE reading
    BY <1>2 DEF LibGo
  <2>2. at' \in LibPlaces /\ selected' \subseteq Everything /\ box' \in Boxes \cup {Nothing}
    BY <2>1 DEF LibPlaces
  <2>3. reading' \in [ListKeys -> ListLoads \cup {Nothing}]
    BY <2>1, ListsWatched, ReadsPages
  <2>4. requests' \subseteq LibRequests /\ IsFiniteSet(requests') /\ Cardinality(requests') <= MaxRequests
    <3>1. CASE requests' = {[r EXCEPT !.mine = FALSE] : r \in requests}
      <4> DEFINE F == [r \in requests |-> [r EXCEPT !.mine = FALSE]]
      <4>1. F \in [requests -> requests'] /\ \A t \in requests' : \E r \in requests : F[r] = t
        BY <3>1
      <4> HIDE DEF F
      <4>2. IsFiniteSet(requests') /\ Cardinality(requests') <= MaxRequests
        BY <4>1, Images, LibraryAssumption
      <4>3. \A r \in requests : [r EXCEPT !.mine = FALSE] \in LibRequests
        BY DEF LibRequests
      <4> QED BY <3>1, <4>2, <4>3
    <3>2. CASE requests' = requests
      BY <3>2
    <3> QED BY <2>1, <3>1, <3>2
  <2> QED BY <1>2, <2>2, <2>3, <2>4 DEF LibGo
<1>3. ASSUME Shown("library") \subseteq Everything, Toggle \/ Unselect PROVE LibraryTypes'
  BY <1>3 DEF Toggle, Unselect
<1>4. Shown("library") \subseteq Everything
  BY DEF Shown, ListAnswers, ListKeys
<1>5. CASE OpenBox
  <2>1. \A kind \in {"delete", "empty", "publish"} : \A ids \in SUBSET Everything : Box(kind, ids) \in Boxes
    BY DEF Box, Boxes
  <2>2. box' \in Boxes
    <3>1. CASE \E ids \in {{a} : a \in Shown("library")} \cup ({selected} \ {{}}) : box' = Box("delete", ids)
      BY <1>4, <2>1, <3>1
    <3>2. CASE box' = Box("empty", {})
      BY <2>1, <3>2
    <3>3. CASE at \in Everything /\ box' \in {Box("delete", {at}), Box("publish", {at})}
      BY <2>1, <3>3
    <3> QED BY <1>5, <3>1, <3>2, <3>3 DEF OpenBox
  <2> QED BY <1>5, <2>2 DEF OpenBox
<1>6. CASE CloseBox
  BY <1>6 DEF CloseBox
<1>7. CASE ConfirmBox
  <2>1. box \in Boxes /\ Sends(box.kind, Subjects) /\ box' = [box EXCEPT !.busy = TRUE]
        /\ agreed' = IF box.kind = "publish" THEN agreed \cup box.ids ELSE agreed
    BY <1>7 DEF ConfirmBox
  <2>2. Subjects \in SUBSET Everything /\ box.kind \in {"delete", "empty", "publish", "unpublish", "restore"}
    BY <2>1 DEF Subjects, Boxes
  <2>3. requests' \subseteq LibRequests /\ IsFiniteSet(requests') /\ Cardinality(requests') <= MaxRequests
    BY <2>1, <2>2, LibSent
  <2>4. box' \in Boxes /\ agreed' \subseteq Everything
    BY <2>1 DEF Boxes
  <2> QED BY <1>7, <2>3, <2>4 DEF ConfirmBox
<1>8. CASE Unpublish
  <2>1. {at} \in SUBSET Everything /\ Sends("unpublish", {at})
    BY <1>8 DEF Unpublish
  <2>2. requests' \subseteq LibRequests /\ IsFiniteSet(requests') /\ Cardinality(requests') <= MaxRequests
    BY <2>1, LibSent
  <2> QED BY <1>8, <2>2 DEF Unpublish
<1>9. CASE RestoreOne
  <2>1. PICK a \in Shown("trash") : Sends("restore", {a})
    BY <1>9 DEF RestoreOne
  <2>2. {a} \in SUBSET Everything
    BY DEF Shown, ListAnswers, ListKeys
  <2>3. requests' \subseteq LibRequests /\ IsFiniteSet(requests') /\ Cardinality(requests') <= MaxRequests
    BY <2>1, <2>2, LibSent
  <2> QED BY <1>9, <2>3 DEF RestoreOne
<1>10. CASE Undo
  <2>1. PICK t \in toasts : Sends("restore", t.undo) /\ toasts' = toasts \ {t}
    BY <1>10 DEF Undo
  <2>2. t.undo \in SUBSET Everything
    BY DEF Toasts
  <2>3. requests' \subseteq LibRequests /\ IsFiniteSet(requests') /\ Cardinality(requests') <= MaxRequests
    BY <2>1, <2>2, LibSent
  <2> QED BY <1>10, <2>1, <2>3 DEF Undo
<1>11. CASE ToastLeaves
  BY <1>11 DEF ToastLeaves
<1>12. ASSUME NEW k \in ListKeys, ListRead(k) PROVE LibraryTypes'
  <2>1. reading' \in [ListKeys -> ListLoads \cup {Nothing}]
    BY <1>12 DEF ListRead, ListLoads, ListAnswers, In
  <2> QED BY <1>12, <2>1 DEF ListRead
<1>13. ASSUME NEW k \in ListKeys, ListArrives(k) PROVE LibraryTypes'
  <2>1. reading' \in [ListKeys -> ListLoads \cup {Nothing}] /\ lists' \in [ListKeys -> ListAnswers \cup {Nothing}]
    BY <1>13 DEF ListArrives, ListLoads
  <2> QED BY <1>13, <2>1 DEF ListArrives
<1>14. ASSUME NEW r \in requests, LibServe(r) PROVE LibraryTypes'
  <2>1. Changes(r) \subseteq Everything /\ r \in LibRequests
    BY DEF Changes, LibRequests, In
  <2> DEFINE s == [r EXCEPT !.answer = "ok", !.changed = Changes(r)]
  <2>2. s \in LibRequests /\ requests' = (requests \ {r}) \cup {s}
    BY <1>14, <2>1 DEF LibServe, LibRequests
  <2> HIDE DEF s
  <2>3. requests' \subseteq LibRequests /\ IsFiniteSet(requests') /\ Cardinality(requests') <= MaxRequests
    BY <2>2, Replaced, LibraryAssumption
  <2>4. shelf' \in [Everything -> {"unmade", "library", "trash", "purged"}]
    BY <1>14 DEF LibServe, Becomes
  <2>5. public' \subseteq Everything
    BY <1>14, <2>1 DEF LibServe, LibRequests
  <2> QED BY <1>14, <2>3, <2>4, <2>5 DEF LibServe
<1>15. RefreshedLists \in [ListKeys -> ListLoads \cup {Nothing}]
  BY ListsInvalidated, ReadsPages DEF RefreshedLists
<1>16. ASSUME NEW r \in requests, requests' = requests \ {r}
       PROVE  requests' \subseteq LibRequests /\ IsFiniteSet(requests') /\ Cardinality(requests') <= MaxRequests
  BY <1>16, Leaves, LibraryAssumption
<1>17. ASSUME NEW r \in requests, LibSettle(r) PROVE LibraryTypes'
  <2>1. reading' \in [ListKeys -> ListLoads \cup {Nothing}]
    BY <1>15, <1>17, ListsWatched, ReadsPages DEF LibSettle
  <2>2. toasts' \subseteq Toasts
    BY <1>17 DEF LibSettle, Toasts, LibRequests
  <2>3. box' \in Boxes \cup {Nothing} /\ selected' \subseteq Everything /\ at' \in LibPlaces
    BY <1>17 DEF LibSettle, BoxAfter, Remaining, LibPlaces, ListKeys
  <2> QED BY <1>16, <1>17, <2>1, <2>2, <2>3 DEF LibSettle
<1>18. ASSUME NEW r \in requests, LibLost(r) PROVE LibraryTypes'
  <2>1. box' \in Boxes \cup {Nothing}
    BY <1>18 DEF LibLost, Boxes
  <2> QED BY <1>16, <1>18, <2>1 DEF LibLost
<1>19. ASSUME NEW f \in Files, AddFile(f) \/ Progresses(f) \/ Completes(f) \/ UploadEnds(f) \/ UploadFails(f) \/ CancelUpload(f) \/ RetryUpload(f)
       PROVE  LibraryTypes'
  <2>1. uploads' \in [Files -> [stage : Stages, cancelled : BOOLEAN]]
    <3>1. \A s \in Stages : Staged(f, s) => uploads' \in [Files -> [stage : Stages, cancelled : BOOLEAN]]
      BY DEF Staged
    <3>2. CASE CancelUpload(f)
      <4>1. uploads' = [uploads EXCEPT ![f] = [stage |-> IF Aborts(uploads[f].stage) THEN "removed" ELSE uploads[f].stage, cancelled |-> TRUE]]
        BY <3>2 DEF CancelUpload
      <4> QED BY <4>1 DEF Stages
    <3> QED BY <1>19, <3>1, <3>2 DEF AddFile, Progresses, Completes, UploadEnds, UploadFails, RetryUpload, Stages, Uploading
  <2>2. shelf' \in [Everything -> {"unmade", "library", "trash", "purged"}]
    BY <1>19 DEF AddFile, Progresses, Completes, UploadEnds, UploadFails, CancelUpload, RetryUpload, Everything
  <2>3. reading' \in [ListKeys -> ListLoads \cup {Nothing}]
    BY <1>15, <1>19 DEF AddFile, Progresses, Completes, UploadEnds, UploadFails, CancelUpload, RetryUpload
  <2> QED BY <1>19, <2>1, <2>2, <2>3 DEF AddFile, Progresses, Completes, UploadEnds, UploadFails, CancelUpload, RetryUpload
<1>20. CASE UNCHANGED libraryVars
  BY <1>20 DEF libraryVars
<1> QED BY <1>1, <1>2, <1>3, <1>4, <1>5, <1>6, <1>7, <1>8, <1>9, <1>10, <1>11, <1>12, <1>13, <1>14, <1>17, <1>18, <1>19, <1>20
        DEF LibraryNext
-----------------------------------------------------------------------------
LEMMA UploadsInit == LibraryInit => UploadsInv
  BY DEF LibraryInit, UploadsInv, Everything

(* What is not made yet is moved by nothing but its own upload.            *)
LEMMA UnmadeStays ==
  ASSUME LibraryTypes, [LibraryNext]_libraryVars, NEW f \in Files, shelf[f] = "unmade",
         \A g \in Files : Completes(g) => g # f
  PROVE  shelf'[f] = "unmade"
<1> USE DEF stored, looks
<1>1. shelf \in [Everything -> {"unmade", "library", "trash", "purged"}] /\ f \in Everything
  BY DEF LibraryTypes, Everything
<1>2. CASE Elsewhere
  <2>1. PICK a \in Everything : \E place \in MovedElsewhere(shelf[a]) : shelf' = [shelf EXCEPT ![a] = place]
    BY <1>2 DEF Elsewhere
  <2>2. a # f
    BY <2>1 DEF MovedElsewhere
  <2> QED BY <1>1, <2>1, <2>2
<1>3. ASSUME NEW r \in requests, LibServe(r) PROVE shelf'[f] = "unmade"
  BY <1>1, <1>3 DEF LibServe, Changes, In
<1>4. ASSUME NEW g \in Files, Completes(g) PROVE shelf'[f] = "unmade"
  BY <1>1, <1>4 DEF Completes, Everything
<1>5. CASE UNCHANGED shelf
  BY <1>5
<1> QED BY <1>2, <1>3, <1>4, <1>5
        DEF LibraryNext, libraryVars, LibGo, Toggle, Unselect, OpenBox, CloseBox, ConfirmBox, Unpublish, RestoreOne, Undo,
            ToastLeaves, ListRead, ListArrives, LibSettle, LibLost, AddFile, Progresses, UploadEnds, UploadFails,
            CancelUpload, RetryUpload

LEMMA UploadsStep ==
  ASSUME "transfer" \in KeptLibrary, LibraryTypes, UploadsInv, [LibraryNext]_libraryVars
  PROVE  UploadsInv'
<1> SUFFICES ASSUME NEW f \in Files
             PROVE  /\ uploads'[f].stage \in {"none", "prepare", "transfer", "confirm", "removed"} => shelf'[f] = "unmade"
                    /\ uploads'[f].cancelled => uploads'[f].stage = "removed"
  BY DEF UploadsInv
<1>1. /\ uploads \in [Files -> [stage : Stages, cancelled : BOOLEAN]]
      /\ uploads[f].stage \in {"none", "prepare", "transfer", "confirm", "removed"} => shelf[f] = "unmade"
      /\ uploads[f].cancelled => uploads[f].stage = "removed"
  BY DEF UploadsInv, LibraryTypes
<1>2. ASSUME NEW g \in Files, Completes(g) PROVE uploads'[g].stage = "made" /\ \A h \in Files \ {g} : uploads'[h] = uploads[h]
  BY <1>1, <1>2 DEF Completes, Staged
<1>3. CASE uploads'[f] = uploads[f]
  <2>1. uploads[f].stage \in {"none", "prepare", "transfer", "confirm", "removed"} => \A g \in Files : Completes(g) => g # f
    BY <1>2, <1>3
  <2>2. uploads[f].stage \in {"none", "prepare", "transfer", "confirm", "removed"} => shelf'[f] = "unmade"
    BY <1>1, <2>1, UnmadeStays
  <2> QED BY <1>1, <1>3, <2>2
<1>4. CASE AddFile(f) \/ Progresses(f) \/ RetryUpload(f)
  <2>1. shelf[f] = "unmade" /\ UNCHANGED shelf /\ uploads'[f].cancelled = uploads[f].cancelled /\ uploads[f].stage # "removed"
    BY <1>1, <1>4 DEF AddFile, Progresses, RetryUpload, Staged, stored
  <2> QED BY <1>1, <2>1
<1>5. CASE Completes(f) \/ UploadEnds(f) \/ UploadFails(f)
  <2>1. uploads'[f].stage \in {"made", "done", "failed"} /\ uploads'[f].cancelled = uploads[f].cancelled
        /\ uploads[f].stage # "removed"
    BY <1>1, <1>5 DEF Completes, UploadEnds, UploadFails, Staged, Uploading
  <2> QED BY <1>1, <2>1
<1>6. CASE CancelUpload(f)
  <2>1. uploads[f].stage = "transfer" /\ UNCHANGED shelf /\ uploads'[f].stage = "removed"
    BY <1>1, <1>6 DEF CancelUpload, Aborts, stored
  <2> QED BY <1>1, <2>1
<1>7. ASSUME NEW g \in Files, g # f,
             AddFile(g) \/ Progresses(g) \/ Completes(g) \/ UploadEnds(g) \/ UploadFails(g) \/ CancelUpload(g) \/ RetryUpload(g)
      PROVE  uploads'[f] = uploads[f]
  BY <1>1, <1>7 DEF AddFile, Progresses, Completes, UploadEnds, UploadFails, CancelUpload, RetryUpload, Staged
<1>8. CASE UNCHANGED uploads
  BY <1>3, <1>8
<1> QED BY <1>3, <1>4, <1>5, <1>6, <1>7, <1>8
        DEF LibraryNext, libraryVars, Elsewhere, LibGo, Toggle, Unselect, OpenBox, CloseBox, ConfirmBox, Unpublish, RestoreOne,
            Undo, ToastLeaves, ListRead, ListArrives, LibServe, LibSettle, LibLost

LEMMA UploadsMean == UploadsInv => CancelledMakesNoAsset
  BY DEF UploadsInv, CancelledMakesNoAsset
-----------------------------------------------------------------------------
LEMMA PublishInit == LibraryInit => PublishInv
  BY DEF LibraryInit, PublishInv, RequestsAreHere, BoxIsHere, PublishAgreed, PublishedOnPurpose

(* A request that is sent is of the page on the screen.                    *)
LEMMA PublishSent ==
  ASSUME PublishInv, NEW op, NEW ids, Sends(op, ids), agreed \subseteq agreed', op = "publish" => ids \subseteq agreed'
  PROVE  RequestsAreHere' /\ PublishAgreed'
<1>1. requests' = requests \cup {Request(op, ids)} /\ Request(op, ids).mine /\ Request(op, ids).op = op
      /\ Request(op, ids).ids = ids
  BY DEF Sends, Request
<1> QED BY <1>1 DEF PublishInv, RequestsAreHere, PublishAgreed

LEMMA PublishStep ==
  ASSUME "history" \in KeptLibrary, LibraryTypes, PublishInv, [LibraryNext]_libraryVars
  PROVE  PublishInv'
<1> USE DEF stored, looks
<1>0. RequestsAreHere /\ BoxIsHere /\ PublishAgreed /\ PublishedOnPurpose /\ requests \subseteq LibRequests
      /\ at \in LibPlaces
  BY DEF PublishInv, LibraryTypes
<1>1. CASE UNCHANGED <<requests, box, at, agreed, public>>
  BY <1>0, <1>1 DEF PublishInv, RequestsAreHere, BoxIsHere, PublishAgreed, PublishedOnPurpose
<1>2. CASE LibGo
  <2>1. box = Nothing /\ requests = {}
    BY <1>0, <1>2 DEF LibGo, MayLeave, Busy, RequestsAreHere
  <2>2. requests' = {} /\ box' = Nothing /\ UNCHANGED <<agreed, public>>
    BY <1>2, <2>1 DEF LibGo
  <2> QED BY <1>0, <2>2 DEF PublishInv, RequestsAreHere, BoxIsHere, PublishAgreed, PublishedOnPurpose
<1>3. CASE OpenBox
  <2>1. BoxIsHere'
    <3>1. CASE at \in Everything /\ box' \in {Box("delete", {at}), Box("publish", {at})}
      BY <1>3, <3>1 DEF OpenBox, BoxIsHere, Box
    <3>2. CASE \E ids : box' = Box("delete", ids) \/ box' = Box("empty", ids)
      BY <3>2 DEF BoxIsHere, Box
    <3> QED BY <1>3, <3>1, <3>2 DEF OpenBox
  <2> QED BY <1>0, <1>3, <2>1 DEF OpenBox, PublishInv, RequestsAreHere, PublishAgreed, PublishedOnPurpose
<1>4. CASE CloseBox
  BY <1>0, <1>4 DEF CloseBox, PublishInv, RequestsAreHere, BoxIsHere, PublishAgreed, PublishedOnPurpose
<1>5. CASE ConfirmBox
  <2>1. /\ box # Nothing /\ box \in Boxes /\ Sends(box.kind, Subjects) /\ box' = [box EXCEPT !.busy = TRUE]
        /\ agreed' = IF box.kind = "publish" THEN agreed \cup box.ids ELSE agreed
        /\ UNCHANGED <<at, public>>
    BY <1>5 DEF ConfirmBox, LibraryTypes
  <2>2. BoxIsHere'
    BY <1>0, <2>1 DEF BoxIsHere, Boxes
  <2>3. agreed \subseteq agreed' /\ (box.kind = "publish" => Subjects \subseteq agreed')
    BY <1>0, <2>1 DEF BoxIsHere, Subjects
  <2>4. RequestsAreHere' /\ PublishAgreed'
    BY <2>1, <2>3, PublishSent
  <2> QED BY <1>0, <2>1, <2>2, <2>3, <2>4 DEF PublishInv, PublishedOnPurpose
<1>6. CASE Unpublish \/ RestoreOne \/ Undo
  <2>1. \E op \in {"unpublish", "restore"} : \E ids : Sends(op, ids)
    BY <1>6 DEF Unpublish, RestoreOne, Undo
  <2>2. UNCHANGED <<box, at, agreed, public>>
    BY <1>6 DEF Unpublish, RestoreOne, Undo
  <2>3. RequestsAreHere' /\ PublishAgreed'
    BY <2>1, <2>2, PublishSent
  <2> QED BY <1>0, <2>2, <2>3 DEF PublishInv, BoxIsHere, PublishedOnPurpose
<1>7. ASSUME NEW r \in requests, LibServe(r) PROVE PublishInv'
  <2> DEFINE s == [r EXCEPT !.answer = "ok", !.changed = Changes(r)]
  <2>1. requests' = (requests \ {r}) \cup {s} /\ s.mine = r.mine /\ s.op = r.op /\ s.ids = r.ids /\ UNCHANGED <<box, at, agreed>>
    BY <1>0, <1>7 DEF LibServe, LibRequests
  <2> HIDE DEF s
  <2>2. public' \subseteq public \cup (IF r.op = "publish" THEN r.ids ELSE {})
    BY <1>7 DEF LibServe
  <2>3. PublishedOnPurpose'
    BY <1>0, <2>1, <2>2 DEF PublishedOnPurpose, PublishAgreed
  <2> QED BY <1>0, <2>1, <2>3 DEF PublishInv, RequestsAreHere, BoxIsHere, PublishAgreed
<1>8. ASSUME NEW r \in requests, LibSettle(r) PROVE PublishInv'
  <2>1. requests' = requests \ {r} /\ UNCHANGED <<agreed, public>> /\ r.mine
    BY <1>0, <1>8 DEF LibSettle, RequestsAreHere
  <2>2. BoxIsHere'
    BY <1>0, <1>8, <2>1 DEF LibSettle, BoxIsHere, BoxAfter
  <2> QED BY <1>0, <2>1, <2>2 DEF PublishInv, RequestsAreHere, PublishAgreed, PublishedOnPurpose
<1>9. ASSUME NEW r \in requests, LibLost(r) PROVE PublishInv'
  <2>1. requests' = requests \ {r} /\ UNCHANGED <<agreed, public, at>>
    BY <1>9 DEF LibLost
  <2>2. box \in Boxes \cup {Nothing} /\ box' = IF box = Nothing THEN box ELSE [box EXCEPT !.busy = FALSE]
    BY <1>9 DEF LibLost, LibraryTypes
  <2>3. BoxIsHere'
    BY <1>0, <2>1, <2>2 DEF BoxIsHere, Boxes
  <2> QED BY <1>0, <2>1, <2>3 DEF PublishInv, RequestsAreHere, PublishAgreed, PublishedOnPurpose
<1> QED BY <1>1, <1>2, <1>3, <1>4, <1>5, <1>6, <1>7, <1>8, <1>9
        DEF LibraryNext, libraryVars, Elsewhere, Toggle, Unselect, ToastLeaves, ListRead, ListArrives,
            AddFile, Progresses, Completes, UploadEnds, UploadFails, CancelUpload, RetryUpload
-----------------------------------------------------------------------------
LEMMA LibNothing == Nothing # "ok" /\ Nothing \notin ListLoads /\ Nothing \notin Boxes
  BY NothingInLibrary DEF ListLoads, ListAnswers, Boxes, Everything

(* The lists are watched, in one shape.                                    *)
LEMMA AskedAgain ==
  ASSUME NEW old \in [ListKeys -> ListLoads \cup {Nothing}], NEW k \in ListKeys
  PROVE  /\ Watched(old, ReadsBoth)[k] # Nothing
         /\ old[k] = Nothing => Watched(old, ReadsBoth)[k].answer = Nothing
         /\ old[k] # Nothing => Watched(old, ReadsBoth)[k] = old[k]
<1>1. Load("pages") \in ListLoads /\ Load("pages").answer = Nothing
  BY DEF Load, ListLoads
<1> QED BY <1>1, LibNothing DEF Watched, ReadsBoth

LEMMA ReadAgain ==
  ASSUME LibraryTypes, NEW k \in ListKeys
  PROVE  /\ reading[k] # Nothing => RefreshedLists[k] # Nothing
         /\ RefreshedLists[k] = reading[k] \/ RefreshedLists[k].answer = Nothing
         /\ at \in ListKeys /\ lists[k] # Nothing => RefreshedLists[k] # Nothing /\ RefreshedLists[k].answer = Nothing
         /\ at \notin ListKeys => RefreshedLists[k] = reading[k]
<1>1. Load("pages") \in ListLoads /\ Load("pages").answer = Nothing /\ Load("pages") # Nothing
  BY LibNothing DEF Load, ListLoads
<1> QED BY <1>1 DEF RefreshedLists, Invalidated, Reads, ReadsBoth, AssetQueries, LibraryTypes

LEMMA DeleteInit == LibraryInit => DeleteInv
<1> SUFFICES ASSUME LibraryInit PROVE DeleteInv
  OBVIOUS
<1>1. /\ lists = [k \in ListKeys |-> Nothing] /\ reading = Watched(lists, ReadsBoth)
      /\ requests = {} /\ box = Nothing /\ selected = {} /\ toasts = {}
  BY DEF LibraryInit
<1>2. \A k \in ListKeys : lists[k] = Nothing /\ lists \in [ListKeys -> ListLoads \cup {Nothing}]
  BY <1>1
<1>3. \A k \in ListKeys : reading[k] # Nothing /\ reading[k].answer = Nothing
  BY <1>1, <1>2, AskedAgain
<1>4. "library" \in ListKeys /\ "trash" \in ListKeys
  BY DEF ListKeys
<1> QED BY <1>1, <1>3, <1>4 DEF DeleteInv, IsSole, BoxStands, DeleteStands, EmptyStands, ListsComing, ListsTrue, LoadsTrue,
           SelectionTrue, UndoesItsDelete

(* A step that takes no asset out of the library or into the trash, but    *)
(* for a delete that is answered, and that starts loads but ends none.     *)
Calm ==
    /\ \A a : Deleting(a) => Deleting(a)'
    /\ \A a \in Everything : /\ shelf[a] = "library" => shelf'[a] = "library" \/ Deleting(a)'
                             /\ shelf'[a] = "trash" => shelf[a] = "trash" \/ Deleting(a)'
    /\ \A k \in ListKeys : /\ reading[k] # Nothing => reading'[k] # Nothing
                           /\ reading'[k] = reading[k] \/ reading'[k].answer = Nothing
    /\ UNCHANGED lists

LEMMA TruthKept ==
  ASSUME LibraryTypes, DeleteInv, Calm
  PROVE  ListsComing' /\ ListsTrue' /\ LoadsTrue'
<1>1. ListsComing /\ ListsTrue /\ LoadsTrue /\ "library" \in ListKeys /\ "trash" \in ListKeys
  BY DEF DeleteInv, ListKeys
<1>2. Shown("library") \subseteq Everything /\ Shown("library")' = Shown("library") /\ Shown("trash")' = Shown("trash")
  BY <1>1 DEF Calm, Shown, LibraryTypes, ListAnswers
<1>3. \A a \in In("trash")' : a \in In("trash") \/ Deleting(a)'
  BY DEF Calm, In
<1>4. ListsComing'
  BY <1>1 DEF Calm, ListsComing
<1>5. ListsTrue'
  BY <1>1, <1>2, <1>3 DEF Calm, ListsTrue
<1>6. LoadsTrue'
  <2>1. ASSUME reading'["library"] # Nothing, reading'["library"].answer # Nothing, NEW a \in reading'["library"].answer.ids
        PROVE  shelf'[a] = "library" \/ Deleting(a)'
    <3>1. reading'["library"] = reading["library"]
      BY <1>1, <2>1 DEF Calm
    <3>2. a \in Everything /\ (shelf[a] = "library" \/ Deleting(a))
      BY <1>1, <2>1, <3>1 DEF LoadsTrue, LibraryTypes, ListLoads, ListAnswers
    <3> QED BY <3>2 DEF Calm
  <2>2. ASSUME reading'["trash"] # Nothing, reading'["trash"].answer # Nothing, NEW a \in In("trash")'
        PROVE  a \in reading'["trash"].answer.ids \/ Deleting(a)'
    <3>1. reading'["trash"] = reading["trash"]
      BY <1>1, <2>2 DEF Calm
    <3> QED BY <1>1, <1>3, <2>2, <3>1 DEF LoadsTrue, Calm
  <2> QED BY <2>1, <2>2 DEF LoadsTrue
<1> QED BY <1>4, <1>5, <1>6

LEMMA SelectionKept ==
  ASSUME LibraryTypes, DeleteInv, Calm, selected' \subseteq selected \cup In("library")
  PROVE  SelectionTrue'
<1>1. ASSUME NEW a \in selected' PROVE a \in Everything /\ (shelf[a] = "library" \/ Deleting(a))
  BY DEF DeleteInv, SelectionTrue, LibraryTypes, In
<1> QED BY <1>1 DEF SelectionTrue, Calm

(* A step on the page that leaves requests and dialogs alone.              *)
LEMMA DialogsKept ==
  ASSUME LibraryTypes, DeleteInv, Calm, UNCHANGED <<requests, box, at>>,
         \A a \in Everything : shelf'[a] = "trash" => shelf[a] = "trash",
         at \in Everything => \A k \in ListKeys : reading'[k] = reading[k]
  PROVE  IsSole' /\ BoxStands' /\ DeleteStands' /\ EmptyStands'
<1>1. IsSole /\ BoxStands /\ DeleteStands /\ EmptyStands /\ box \in Boxes \cup {Nothing}
  BY DEF DeleteInv, LibraryTypes
<1>2. IsSole' /\ DeleteStands'
  BY <1>1 DEF IsSole, DeleteStands
<1>3. BoxStands'
  BY <1>1 DEF BoxStands, Calm, Boxes
<1>4. EmptyStands'
  BY <1>1 DEF EmptyStands, In
<1> QED BY <1>2, <1>3, <1>4

(* A request that is no dialog's is sent when no dialog is open.           *)
LEMMA OtherSent ==
  ASSUME LibraryTypes, DeleteInv, box = Nothing, NEW op \in {"unpublish", "restore"}, NEW ids \in SUBSET Everything,
         Sends(op, ids), UNCHANGED <<shelf, looks, selected, box>>, toasts' \subseteq toasts
  PROVE  DeleteInv'
<1> USE DEF looks
<1>1. IsSole /\ BoxStands /\ DeleteStands /\ EmptyStands /\ UndoesItsDelete
  BY DEF DeleteInv
<1> DEFINE s == Request(op, ids)
<1>2. requests' = requests \cup {s} /\ s.op = op
  BY DEF Sends, Request
<1> HIDE DEF s
<1>3. \A r \in requests' : r.op \notin {"delete", "empty", "publish"}
  BY <1>1, <1>2 DEF IsSole
<1>4. Calm
  BY <1>2 DEF Calm, Deleting
<1>5. ListsComing' /\ ListsTrue' /\ LoadsTrue' /\ SelectionTrue'
  <2>1. selected' \subseteq selected \cup In("library")
    BY <1>1
  <2>2. ListsComing' /\ ListsTrue' /\ LoadsTrue'
    BY <1>4, TruthKept
  <2>3. SelectionTrue'
    BY <1>4, <2>1, SelectionKept
  <2> QED BY <2>2, <2>3
<1>6. IsSole' /\ BoxStands' /\ DeleteStands' /\ EmptyStands'
  BY <1>3 DEF IsSole, BoxStands, DeleteStands, EmptyStands
<1>7. UndoesItsDelete'
  BY <1>1 DEF UndoesItsDelete
<1> QED BY <1>5, <1>6, <1>7 DEF DeleteInv

(* The dialogs are confirmed when nothing else is under way: what is shown *)
(* is there, and what is there is shown.                                   *)
LEMMA QuietMeans ==
  ASSUME "quiet" \in KeptLibrary, DeleteInv, Quiet
  PROVE  /\ requests = {} /\ \A k \in ListKeys : reading[k] = Nothing /\ lists[k] # Nothing
         /\ \A a : ~Deleting(a)
         /\ \A a \in Shown("library") : shelf[a] = "library"
         /\ \A a \in selected : shelf[a] = "library"
         /\ In("trash") \subseteq Shown("trash")
<1>1. requests = {} /\ \A k \in ListKeys : reading[k] = Nothing
  BY DEF Quiet
<1>2. (\A a : ~Deleting(a)) /\ "library" \in ListKeys /\ "trash" \in ListKeys
  BY <1>1 DEF Deleting, ListKeys
<1> QED BY <1>1, <1>2 DEF DeleteInv, ListsComing, ListsTrue, SelectionTrue

LEMMA ConfirmKeeps ==
  ASSUME "quiet" \in KeptLibrary, LibraryTypes, DeleteInv, ConfirmBox
  PROVE  DeleteInv'
<1> USE DEF looks, stored
<1>1. /\ box # Nothing /\ ~box.busy /\ Quiet /\ Sends(box.kind, Subjects) /\ box' = [box EXCEPT !.busy = TRUE]
      /\ UNCHANGED <<shelf, looks, selected, toasts>> /\ box \in Boxes
  BY DEF ConfirmBox, LibraryTypes
<1>2. /\ requests = {} /\ \A k \in ListKeys : reading[k] = Nothing /\ lists[k] # Nothing
      /\ \A a : ~Deleting(a)
      /\ In("trash") \subseteq Shown("trash")
  BY <1>1, QuietMeans
<1>3. BoxStands /\ UndoesItsDelete
  BY DEF DeleteInv
<1> DEFINE s == Request(box.kind, Subjects)
<1>4. /\ requests' = {s} /\ s.op = box.kind /\ s.ids = Subjects /\ s.from = at /\ s.shown = Shown("trash")
      /\ s.changed = {} /\ s.answer = Nothing
  BY <1>1, <1>2 DEF Sends, Request
<1> HIDE DEF s
<1>5. box' \in Boxes /\ box'.busy = TRUE /\ box'.kind = box.kind /\ box'.ids = box.ids /\ box' # Nothing
  BY <1>1, LibNothing DEF Boxes
<1>6. \A a : ~Deleting(a)'
  BY <1>4, LibNothing DEF Deleting
<1>7. Calm
  BY <1>1, <1>2 DEF Calm
<1>8. ListsComing' /\ ListsTrue' /\ LoadsTrue' /\ SelectionTrue'
  <2>1. selected' \subseteq selected \cup In("library")
    BY <1>1, <1>7
  <2>2. ListsComing' /\ ListsTrue' /\ LoadsTrue'
    BY <1>1, <1>7, TruthKept
  <2>3. SelectionTrue'
    BY <1>1, <1>7, <2>1, SelectionKept
  <2> QED BY <2>2, <2>3
<1>9. IsSole'
  BY <1>4, <1>5 DEF IsSole
<1>10. BoxStands'
  BY <1>1, <1>2, <1>3, <1>4, <1>5, <1>6 DEF BoxStands
<1>11. DeleteStands'
  BY <1>1, <1>3, <1>4, <1>5, LibNothing DEF DeleteStands, BoxStands, Subjects
<1>12. EmptyStands'
  BY <1>1, <1>2, <1>4 DEF EmptyStands, In
<1> QED BY <1>1, <1>3, <1>8, <1>9, <1>10, <1>11, <1>12 DEF DeleteInv, UndoesItsDelete

LEMMA ServeKeeps ==
  ASSUME LibraryTypes, DeleteInv, NEW r \in requests, LibServe(r)
  PROVE  DeleteInv'
<1> USE DEF looks, stored
<1> DEFINE s == [r EXCEPT !.answer = "ok", !.changed = Changes(r)]
<1>1. r \in LibRequests /\ r.answer = Nothing
  BY DEF LibServe, LibraryTypes
<1>2. /\ requests' = (requests \ {r}) \cup {s} /\ s.op = r.op /\ s.ids = r.ids /\ s.from = r.from /\ s.shown = r.shown
      /\ s.answer = "ok" /\ s.changed = Changes(r)
      /\ UNCHANGED <<looks, selected, box, toasts>>
  BY <1>1 DEF LibServe, LibRequests
<1> HIDE DEF s
<1>3. shelf' = [a \in Everything |-> IF a \in Changes(r) THEN Becomes(r) ELSE shelf[a]]
  BY DEF LibServe
<1>4. IsSole /\ BoxStands /\ DeleteStands /\ EmptyStands /\ UndoesItsDelete /\ ListsTrue
  BY DEF DeleteInv
<1>5. \A a : Deleting(a) => Deleting(a)'
  BY <1>1, <1>2, LibNothing DEF Deleting
<1>6. ASSUME NEW a \in Everything
      PROVE  /\ shelf[a] = "library" => shelf'[a] = "library" \/ Deleting(a)'
             /\ shelf'[a] = "trash" => shelf[a] = "trash" \/ Deleting(a)'
  <2>1. CASE a \notin Changes(r)
    BY <1>3, <2>1
  <2>2. CASE a \in Changes(r) /\ r.op = "delete"
    BY <1>2, <2>2 DEF Deleting, Changes
  <2>3. CASE a \in Changes(r) /\ r.op \in {"restore", "empty"}
    BY <1>3, <2>3 DEF Changes, Becomes, In
  <2> QED BY <2>1, <2>2, <2>3 DEF Changes
<1>7. Calm
  BY <1>2, <1>5, <1>6 DEF Calm
<1>8. ListsComing' /\ ListsTrue' /\ LoadsTrue' /\ SelectionTrue'
  <2>1. selected' \subseteq selected \cup In("library")
    BY <1>2, <1>7
  <2>2. ListsComing' /\ ListsTrue' /\ LoadsTrue'
    BY <1>2, <1>7, TruthKept
  <2>3. SelectionTrue'
    BY <1>2, <1>7, <2>1, SelectionKept
  <2> QED BY <2>2, <2>3
<1>9. IsSole'
  BY <1>2, <1>4 DEF IsSole
<1>10. DeleteStands'
  <2>1. ASSUME r.op = "delete" PROVE Changes(r) = r.ids
    <3>1. requests = {r} /\ box # Nothing /\ r.ids = box.ids
      BY <1>4, <2>1 DEF IsSole, DeleteStands
    <3>2. \A a : ~Deleting(a)
      BY <1>1, <3>1, LibNothing DEF Deleting
    <3>3. box.kind = "delete"
      BY <1>4, <2>1, <3>1 DEF BoxStands, IsSole
    <3>4. \A a \in r.ids : shelf[a] = "library"
      BY <1>4, <3>1, <3>2, <3>3 DEF BoxStands
    <3> QED BY <2>1, <3>4 DEF Changes
  <2> QED BY <1>2, <1>4, <2>1 DEF DeleteStands
<1>11. EmptyStands'
  <2>1. ASSUME r.op = "empty" PROVE Changes(r) \subseteq r.shown
    BY <1>1, <1>4, <2>1 DEF EmptyStands, Changes
  <2>2. ASSUME NEW q \in requests', q.op = "empty" PROVE q = s
    BY <1>2, <1>4, <2>2 DEF IsSole
  <2> QED BY <1>2, <2>1, <2>2, LibNothing DEF EmptyStands
<1>12. BoxStands'
  <2>1. ASSUME box # Nothing PROVE requests = {r} /\ r.op = box.kind /\ box.busy
    BY <1>4, <2>1 DEF BoxStands
  <2>2. ASSUME box # Nothing, box.kind = "delete", NEW a \in box.ids PROVE shelf'[a] = "library" \/ Deleting(a)'
    <3>1. box.ids = r.ids
      BY <1>4, <2>1, <2>2 DEF DeleteStands
    <3> QED BY <1>2, <2>1, <2>2, <3>1 DEF Deleting
  <2>3. requests' = {s} \/ box = Nothing
    BY <1>2, <2>1
  <2>4. box # Nothing => box.busy /\ s.op = box.kind
    BY <1>2, <2>1
  <2> QED BY <1>2, <1>4, <2>2, <2>3, <2>4 DEF BoxStands
<1> QED BY <1>2, <1>4, <1>8, <1>9, <1>10, <1>11, <1>12 DEF DeleteInv, UndoesItsDelete

(* When a request that a dialog sent is answered or lost, none is left;    *)
(* and no dialog is open over a request of another kind.                   *)
LEMMA SoleEnds ==
  ASSUME DeleteInv, NEW r \in requests
  PROVE  /\ \A q \in requests \ {r} : q.op \notin {"delete", "empty", "publish"}
         /\ r.op \in {"delete", "empty", "publish"} => requests \ {r} = {} /\ box # Nothing
         /\ box # Nothing => requests \ {r} = {} /\ box.busy /\ r.op = box.kind
  BY DEF DeleteInv, IsSole, BoxStands

LEMMA SettleKeeps ==
  ASSUME LibraryTypes, PublishInv, DeleteInv, NEW r \in requests, LibSettle(r)
  PROVE  DeleteInv'
<1> USE DEF looks, stored
<1>1. /\ IsSole /\ BoxStands /\ DeleteStands /\ EmptyStands /\ UndoesItsDelete /\ ListsTrue /\ ListsComing /\ LoadsTrue
      /\ SelectionTrue /\ r.mine /\ r \in LibRequests
  BY DEF DeleteInv, PublishInv, RequestsAreHere, LibraryTypes
<1>2. /\ requests' = requests \ {r} /\ r.answer = "ok" /\ box' = BoxAfter(r) /\ UNCHANGED <<shelf, lists>>
  BY DEF LibSettle
<1>3. /\ \A q \in requests' : q.op \notin {"delete", "empty", "publish"}
      /\ box' = Nothing
  <2>1. box # Nothing => r.op = box.kind /\ box \in Boxes
    BY SoleEnds DEF LibraryTypes
  <2> QED BY <1>1, <1>2, <2>1, SoleEnds DEF BoxAfter, Boxes
<1>4. IsSole' /\ BoxStands' /\ DeleteStands' /\ EmptyStands'
  BY <1>3 DEF IsSole, BoxStands, DeleteStands, EmptyStands
<1>5. \A k \in ListKeys :
         /\ reading[k] # Nothing => RefreshedLists[k] # Nothing
         /\ RefreshedLists[k] = reading[k] \/ RefreshedLists[k].answer = Nothing
         /\ at \in ListKeys /\ lists[k] # Nothing => RefreshedLists[k] # Nothing /\ RefreshedLists[k].answer = Nothing
         /\ at \notin ListKeys => RefreshedLists[k] = reading[k]
  BY ReadAgain
<1>6. CASE r.op = "delete"
  <2>1. /\ box # Nothing /\ requests = {r} /\ box.kind = "delete" /\ r.ids = box.ids /\ r.changed = r.ids
        /\ r.from \in Everything <=> at \in Everything
    BY <1>1, <1>2, <1>6, SoleEnds DEF DeleteStands, IsSole
  <2>2. /\ IF at \in Everything THEN r.ids = {at} ELSE at = "library"
        /\ \A k \in ListKeys : lists[k] # Nothing
        /\ at \in Everything => \A k \in ListKeys : reading[k] = Nothing
    BY <1>1, <2>1 DEF BoxStands
  <2>3. UndoesItsDelete'
    BY <1>1, <1>6, <2>1, <2>2 DEF LibSettle, UndoesItsDelete
  <2>4. \A k \in ListKeys : reading'[k] # Nothing /\ reading'[k].answer = Nothing
    <3>1. CASE at \in Everything
      <4>1. reading' = Watched(RefreshedLists, ReadsBoth)
        BY <1>6, <2>1, <3>1 DEF LibSettle
      <4>2. at \notin ListKeys
        BY <3>1, LibraryAssumption DEF ListKeys, Everything
      <4>3. \A k \in ListKeys : RefreshedLists[k] = Nothing
        BY <1>5, <2>2, <3>1, <4>2
      <4>4. DOMAIN RefreshedLists = ListKeys
        BY DEF RefreshedLists, Invalidated, LibraryTypes
      <4>5. RefreshedLists \in [ListKeys -> ListLoads \cup {Nothing}]
        BY <4>3, <4>4 DEF RefreshedLists, Invalidated
      <4> QED BY <4>1, <4>3, <4>5, AskedAgain
    <3>2. CASE at \notin Everything
      <4>1. reading' = RefreshedLists /\ at \in ListKeys
        BY <1>6, <2>1, <2>2, <3>2 DEF LibSettle, ListKeys
      <4> QED BY <1>5, <2>2, <4>1
    <3> QED BY <3>1, <3>2
  <2>5. ListsComing' /\ ListsTrue' /\ LoadsTrue'
    BY <2>4 DEF ListsComing, ListsTrue, LoadsTrue, ListKeys
  <2>6. SelectionTrue'
    BY <1>1, <1>2, <1>6, <2>1 DEF LibSettle, SelectionTrue, Remaining, Deleting
  <2> QED BY <1>4, <2>3, <2>5, <2>6 DEF DeleteInv
<1>7. CASE r.op # "delete"
  <2>1. reading' = RefreshedLists /\ UNCHANGED <<at, selected, toasts>>
    BY <1>7 DEF LibSettle
  <2>2. \A a : Deleting(a) => Deleting(a)'
    BY <1>2, <1>7 DEF Deleting
  <2>3. Calm
    BY <1>2, <1>5, <2>1, <2>2 DEF Calm
  <2>4. ListsComing' /\ ListsTrue' /\ LoadsTrue'
    BY <2>3, TruthKept
  <2>5. SelectionTrue'
    <3>1. selected' \subseteq selected \cup In("library")
      BY <2>1
    <3> QED BY <2>3, <3>1, SelectionKept
  <2> QED BY <1>1, <1>4, <2>1, <2>4, <2>5 DEF DeleteInv, UndoesItsDelete
<1> QED BY <1>6, <1>7

LEMMA LostKeeps ==
  ASSUME "answers" \in KeptLibrary, LibraryTypes, DeleteInv, NEW r \in requests, LibLost(r)
  PROVE  DeleteInv'
<1> USE DEF looks, stored
<1>1. /\ requests' = requests \ {r} /\ UNCHANGED <<shelf, looks, selected, toasts>>
      /\ box' = IF box = Nothing THEN box ELSE [box EXCEPT !.busy = FALSE]
      /\ r.op = "delete" => r.answer = Nothing
  BY DEF LibLost
<1>2. /\ BoxStands /\ UndoesItsDelete /\ box \in Boxes \cup {Nothing}
  BY DEF DeleteInv, LibraryTypes
<1>3. \A q \in requests' : q.op \notin {"delete", "empty", "publish"}
  BY <1>1, SoleEnds
<1>4. \A a : Deleting(a) => Deleting(a)'
  BY <1>1, LibNothing DEF Deleting
<1>5. Calm
  BY <1>1, <1>4 DEF Calm
<1>6. ListsComing' /\ ListsTrue' /\ LoadsTrue'
  BY <1>5, TruthKept
<1>7. SelectionTrue'
  <2>1. selected' \subseteq selected \cup In("library")
    BY <1>1
  <2> QED BY <1>5, <2>1, SelectionKept
<1>8. IsSole' /\ DeleteStands' /\ EmptyStands'
  BY <1>3 DEF IsSole, DeleteStands, EmptyStands
<1>9. BoxStands'
  <2>1. CASE box = Nothing
    BY <1>1, <2>1 DEF BoxStands
  <2>2. CASE box # Nothing
    <3>1. requests' = {} /\ box' \in Boxes /\ box'.busy = FALSE /\ box'.kind = box.kind /\ box'.ids = box.ids
      BY <1>1, <1>2, <2>2, SoleEnds DEF Boxes
    <3> QED BY <1>1, <1>2, <1>4, <2>2, <3>1 DEF BoxStands
  <2> QED BY <2>1, <2>2
<1> QED BY <1>1, <1>2, <1>6, <1>7, <1>8, <1>9 DEF DeleteInv, UndoesItsDelete

LEMMA GoKeeps ==
  ASSUME "history" \in KeptLibrary, LibraryTypes, PublishInv, DeleteInv, LibGo
  PROVE  DeleteInv'
<1> USE DEF looks, stored
<1>1. requests = {} /\ box = Nothing
  BY DEF LibGo, MayLeave, Busy, PublishInv, RequestsAreHere
<1>2. /\ requests' = {} /\ box' = Nothing /\ UNCHANGED <<shelf, lists, toasts>>
      /\ selected' \subseteq selected \cup In("library")
      /\ reading' = reading \/ reading' = Watched(reading, ReadsBoth)
  BY <1>1 DEF LibGo
<1>3. \A k \in ListKeys : /\ reading[k] # Nothing => reading'[k] # Nothing
                          /\ reading'[k] = reading[k] \/ reading'[k].answer = Nothing
  BY <1>2, AskedAgain DEF LibraryTypes
<1>4. Calm
  BY <1>1, <1>2, <1>3 DEF Calm, Deleting
<1>5. ListsComing' /\ ListsTrue' /\ LoadsTrue'
  BY <1>4, TruthKept
<1>6. SelectionTrue'
  BY <1>2, <1>4, SelectionKept
<1>7. IsSole' /\ BoxStands' /\ DeleteStands' /\ EmptyStands'
  BY <1>2 DEF IsSole, BoxStands, DeleteStands, EmptyStands
<1> QED BY <1>2, <1>5, <1>6, <1>7 DEF DeleteInv, UndoesItsDelete

LEMMA OpenKeeps ==
  ASSUME "quiet" \in KeptLibrary, "there" \in KeptLibrary, LibraryTypes, DeleteInv, OpenBox
  PROVE  DeleteInv'
<1> USE DEF looks, stored
<1>1. Quiet /\ UNCHANGED <<shelf, looks, selected, requests, toasts>>
  BY DEF OpenBox
<1>2. /\ requests = {} /\ \A k \in ListKeys : reading[k] = Nothing /\ lists[k] # Nothing
      /\ \A a : ~Deleting(a)
      /\ \A a \in Shown("library") : shelf[a] = "library"
      /\ \A a \in selected : shelf[a] = "library"
  BY <1>1, QuietMeans
<1>3. /\ box'.busy = FALSE
      /\ box'.kind = "delete" => IF at \in Everything THEN box'.ids = {at} ELSE at = "library"
      /\ box'.kind = "delete" => \A a \in box'.ids : shelf[a] = "library"
  <2>1. "library" \notin Everything /\ "trash" \notin Everything
    BY LibraryAssumption DEF Everything
  <2>2. CASE at = "library" /\ \E ids \in {{a} : a \in Shown("library")} \cup ({selected} \ {{}}) : box' = Box("delete", ids)
    BY <1>2, <2>1, <2>2 DEF Box
  <2>3. CASE at = "trash" /\ box' = Box("empty", {})
    BY <2>3 DEF Box
  <2>4. CASE at \in Everything /\ shelf[at] = "library" /\ box' \in {Box("delete", {at}), Box("publish", {at})}
    BY <2>1, <2>4 DEF Box
  <2> QED BY <2>2, <2>3, <2>4 DEF OpenBox
<1>4. Calm
  BY <1>1 DEF Calm, Deleting
<1>5. ListsComing' /\ ListsTrue' /\ LoadsTrue'
  BY <1>4, TruthKept
<1>6. SelectionTrue'
  <2>1. selected' \subseteq selected \cup In("library")
    BY <1>1
  <2> QED BY <1>4, <2>1, SelectionKept
<1>7. IsSole' /\ BoxStands' /\ DeleteStands' /\ EmptyStands'
  BY <1>1, <1>2, <1>3 DEF IsSole, BoxStands, DeleteStands, EmptyStands
<1> QED BY <1>1, <1>5, <1>6, <1>7 DEF DeleteInv, UndoesItsDelete

(* The selection changes on the page, and a dialog that no request is sent *)
(* from is closed.                                                         *)
LEMMA SelectKeeps ==
  ASSUME "quiet" \in KeptLibrary, LibraryTypes, DeleteInv, Toggle \/ Unselect \/ CloseBox
  PROVE  DeleteInv'
<1> USE DEF looks, stored
<1>1. UNCHANGED <<shelf, looks, requests, toasts>>
  BY DEF Toggle, Unselect, CloseBox
<1>2. selected' \subseteq selected \cup In("library")
  <2>1. ASSUME Toggle PROVE selected' \subseteq selected \cup In("library")
    <3>1. \A a \in Shown("library") : shelf[a] = "library"
      BY <2>1, QuietMeans DEF Toggle
    <3>2. Shown("library") \subseteq Everything
      BY DEF LibraryTypes, ListAnswers, Shown, ListKeys
    <3> QED BY <2>1, <3>1, <3>2 DEF Toggle, In
  <2> QED BY <2>1 DEF Unselect, CloseBox
<1>3. Calm
  BY <1>1 DEF Calm, Deleting
<1>4. ListsComing' /\ ListsTrue' /\ LoadsTrue'
  BY <1>3, TruthKept
<1>5. SelectionTrue'
  BY <1>2, <1>3, SelectionKept
<1>6. IsSole' /\ BoxStands' /\ DeleteStands' /\ EmptyStands'
  <2>1. CASE box' = Nothing
    <3>1. requests = {} \/ box = Nothing
      BY <2>1 DEF CloseBox, Toggle, Unselect, DeleteInv, BoxStands
    <3>2. \A r \in requests' : r.op \notin {"delete", "empty", "publish"}
      BY <1>1, <3>1 DEF DeleteInv, IsSole
    <3> QED BY <2>1, <3>2 DEF IsSole, BoxStands, DeleteStands, EmptyStands
  <2>2. CASE box' = box
    <3>1. \A a \in Everything : shelf'[a] = "trash" => shelf[a] = "trash"
      BY <1>1
    <3>2. UNCHANGED <<requests, box, at>> /\ \A k \in ListKeys : reading'[k] = reading[k]
      BY <1>1, <2>2
    <3> QED BY <1>3, <3>1, <3>2, DialogsKept
  <2> QED BY <2>1, <2>2 DEF Toggle, Unselect, CloseBox
<1> QED BY <1>1, <1>4, <1>5, <1>6 DEF DeleteInv, UndoesItsDelete

(* The lists are read and shown, toasts leave, assets move elsewhere and   *)
(* uploads make them.                                                      *)
LEMMA ReadKeeps ==
  ASSUME LibraryTypes, DeleteInv, NEW k \in ListKeys, ListRead(k)
  PROVE  DeleteInv'
<1> USE DEF looks, stored
<1>1. /\ reading[k] # Nothing /\ UNCHANGED <<shelf, lists, at, selected, box, requests, toasts>>
      /\ reading' = [reading EXCEPT ![k].answer = [ids |-> In(k)]]
  BY DEF ListRead
<1>2. /\ reading'[k] # Nothing /\ reading'[k].answer.ids = In(k)
      /\ \A q \in ListKeys : q # k => reading'[q] = reading[q]
  <2>1. reading[k] \in ListLoads
    BY <1>1 DEF LibraryTypes
  <2>2. In(k) \in SUBSET Everything
    BY DEF In
  <2>3. reading'[k] = [reading[k] EXCEPT !.answer = [ids |-> In(k)]]
    BY <1>1 DEF LibraryTypes
  <2>4. reading'[k] \in ListLoads /\ reading'[k].answer = [ids |-> In(k)]
    BY <2>1, <2>2, <2>3 DEF ListLoads, ListAnswers
  <2>5. \A q \in ListKeys : q # k => reading'[q] = reading[q]
    BY <1>1 DEF LibraryTypes
  <2> QED BY <2>4, <2>5, LibNothing
<1>3. IsSole /\ BoxStands /\ DeleteStands /\ EmptyStands /\ ListsComing /\ ListsTrue /\ LoadsTrue /\ SelectionTrue
  BY DEF DeleteInv
<1>4. \A a : Deleting(a)' <=> Deleting(a)
  BY <1>1 DEF Deleting
<1>5. IsSole' /\ DeleteStands' /\ EmptyStands' /\ SelectionTrue'
  BY <1>1, <1>3, <1>4 DEF IsSole, DeleteStands, EmptyStands, SelectionTrue, In
<1>6. BoxStands'
  BY <1>1, <1>2, <1>3, <1>4 DEF BoxStands
<1>7. ListsComing'
  BY <1>1, <1>2, <1>3 DEF ListsComing
<1>8. ListsTrue'
  BY <1>1, <1>2, <1>3, <1>4 DEF ListsTrue, Shown, In, ListKeys
<1>9. LoadsTrue'
  <2>1. In("library")' = In("library") /\ In("trash")' = In("trash") /\ \A a \in In("library") : shelf[a] = "library"
    BY <1>1 DEF In
  <2>2. CASE k = "library"
    BY <1>1, <1>2, <1>3, <1>4, <2>1, <2>2 DEF LoadsTrue, ListKeys
  <2>3. CASE k = "trash"
    BY <1>1, <1>2, <1>3, <1>4, <2>1, <2>3 DEF LoadsTrue, ListKeys
  <2> QED BY <2>2, <2>3 DEF ListKeys
<1> QED BY <1>1, <1>5, <1>6, <1>7, <1>8, <1>9 DEF DeleteInv, UndoesItsDelete

LEMMA ArriveKeeps ==
  ASSUME LibraryTypes, DeleteInv, NEW k \in ListKeys, ListArrives(k)
  PROVE  DeleteInv'
<1> USE DEF looks, stored
<1>1. /\ reading[k] # Nothing /\ reading[k].answer # Nothing /\ UNCHANGED <<shelf, at, selected, box, requests, toasts>>
      /\ lists' = [lists EXCEPT ![k] = reading[k].answer] /\ reading' = [reading EXCEPT ![k] = Nothing]
  BY DEF ListArrives
<1>2. /\ lists'[k] = reading[k].answer /\ reading'[k] = Nothing
      /\ \A q \in ListKeys : q # k => lists'[q] = lists[q] /\ reading'[q] = reading[q]
  BY <1>1 DEF LibraryTypes
<1>3. IsSole /\ BoxStands /\ DeleteStands /\ EmptyStands /\ ListsComing /\ ListsTrue /\ LoadsTrue /\ SelectionTrue
  BY DEF DeleteInv
<1>4. \A a : Deleting(a)' <=> Deleting(a)
  BY <1>1 DEF Deleting
<1>5. IsSole' /\ DeleteStands' /\ SelectionTrue'
  BY <1>1, <1>3, <1>4 DEF IsSole, DeleteStands, SelectionTrue, In
<1>6. BoxStands' /\ EmptyStands'
  BY <1>1, <1>2, <1>3, <1>4 DEF BoxStands, EmptyStands, In
<1>7. ListsComing'
  BY <1>1, <1>2, <1>3 DEF ListsComing
<1>8. LoadsTrue'
  BY <1>1, <1>2, <1>3, <1>4 DEF LoadsTrue, In, ListKeys
<1>9. ListsTrue'
  <2>1. CASE k = "library"
    <3>1. Shown("library")' = reading["library"].answer.ids /\ Shown("trash")' = Shown("trash") /\ In("trash")' = In("trash")
      BY <1>1, <1>2, <2>1 DEF Shown, ListKeys, In
    <3>2. reading'["trash"] = reading["trash"]
      BY <1>2, <2>1 DEF ListKeys
    <3> QED BY <1>1, <1>3, <1>4, <2>1, <3>1, <3>2 DEF ListsTrue, LoadsTrue
  <2>2. CASE k = "trash"
    <3>1. Shown("trash")' = reading["trash"].answer.ids /\ Shown("library")' = Shown("library") /\ In("trash")' = In("trash")
      BY <1>1, <1>2, <2>2 DEF Shown, ListKeys, In
    <3>2. reading'["library"] = reading["library"]
      BY <1>2, <2>2 DEF ListKeys
    <3> QED BY <1>1, <1>3, <1>4, <2>2, <3>1, <3>2 DEF ListsTrue, LoadsTrue
  <2> QED BY <2>1, <2>2 DEF ListKeys
<1> QED BY <1>1, <1>5, <1>6, <1>7, <1>8, <1>9 DEF DeleteInv, UndoesItsDelete

LEMMA BackgroundKeeps ==
  ASSUME "alone" \in KeptLibrary, LibraryTypes, UploadsInv, DeleteInv, UNCHANGED <<at, lists, selected, box, requests>>,
         \/ Elsewhere \/ ToastLeaves
         \/ \E f \in Files : \/ AddFile(f) \/ Progresses(f) \/ Completes(f) \/ UploadEnds(f)
                             \/ UploadFails(f) \/ CancelUpload(f) \/ RetryUpload(f)
  PROVE  DeleteInv'
<1> USE DEF looks, stored
<1>1. toasts' \subseteq toasts
  BY DEF Elsewhere, ToastLeaves, AddFile, Progresses, Completes, UploadEnds, UploadFails, CancelUpload, RetryUpload
<1>2. \A a \in Everything : /\ shelf[a] = "library" => shelf'[a] = "library"
                            /\ shelf'[a] = "trash" => shelf[a] = "trash"
  <2>1. CASE Elsewhere
    <3>1. PICK a \in Everything : \E place \in MovedElsewhere(shelf[a]) : shelf' = [shelf EXCEPT ![a] = place]
      BY <2>1 DEF Elsewhere
    <3>2. PICK place \in MovedElsewhere(shelf[a]) : shelf' = [shelf EXCEPT ![a] = place]
      BY <3>1
    <3>3. shelf[a] # "library" /\ place # "trash"
      BY <3>2 DEF MovedElsewhere
    <3> QED BY <3>2, <3>3 DEF LibraryTypes
  <2>2. ASSUME NEW f \in Files, Completes(f)
        PROVE  \A a \in Everything : /\ shelf[a] = "library" => shelf'[a] = "library"
                                     /\ shelf'[a] = "trash" => shelf[a] = "trash"
    <3>1. shelf' = [shelf EXCEPT ![f] = "library"]
      BY <2>2 DEF Completes
    <3> QED BY <3>1 DEF LibraryTypes
  <2> QED BY <2>1, <2>2 DEF ToastLeaves, AddFile, Progresses, UploadEnds, UploadFails, CancelUpload, RetryUpload
<1>3. /\ \A k \in ListKeys : /\ reading[k] # Nothing => reading'[k] # Nothing
                             /\ reading'[k] = reading[k] \/ reading'[k].answer = Nothing
      /\ at \in Everything => \A k \in ListKeys : reading'[k] = reading[k]
  <2>1. CASE reading' = reading
    BY <2>1
  <2>2. CASE reading' = RefreshedLists
    <3>1. at \in Everything => at \notin ListKeys
      BY LibraryAssumption DEF Everything, ListKeys
    <3> QED BY <2>2, <3>1, ReadAgain
  <2> QED BY <2>1, <2>2 DEF Elsewhere, ToastLeaves, AddFile, Progresses, Completes, UploadEnds, UploadFails, CancelUpload, RetryUpload
<1>4. Calm
  BY <1>2, <1>3 DEF Calm, Deleting
<1>5. ListsComing' /\ ListsTrue' /\ LoadsTrue'
  BY <1>4, TruthKept
<1>6. SelectionTrue'
  <2>1. selected' \subseteq selected \cup In("library")
    OBVIOUS
  <2> QED BY <1>4, <2>1, SelectionKept
<1>7. IsSole' /\ BoxStands' /\ DeleteStands' /\ EmptyStands'
  BY <1>2, <1>3, <1>4, DialogsKept
<1>8. UndoesItsDelete'
  BY <1>1 DEF DeleteInv, UndoesItsDelete
<1> QED BY <1>5, <1>6, <1>7, <1>8 DEF DeleteInv

LEMMA DeleteStep ==
  ASSUME {"alone", "history", "there", "quiet", "answers"} \subseteq KeptLibrary, LibraryTypes, UploadsInv, PublishInv, DeleteInv, LibraryNext
  PROVE  DeleteInv'
<1> USE DEF looks, stored
<1>0. /\ "alone" \in KeptLibrary /\ "history" \in KeptLibrary /\ "there" \in KeptLibrary
      /\ "quiet" \in KeptLibrary /\ "answers" \in KeptLibrary
  OBVIOUS
<1>1. CASE LibGo
  BY <1>0, <1>1, GoKeeps
<1>2. CASE Toggle \/ Unselect \/ CloseBox
  BY <1>0, <1>2, SelectKeeps
<1>3. CASE OpenBox
  BY <1>0, <1>3, OpenKeeps
<1>4. CASE ConfirmBox
  BY <1>0, <1>4, ConfirmKeeps
<1>5. CASE Unpublish \/ RestoreOne \/ Undo
  <2>1. box = Nothing /\ UNCHANGED <<shelf, looks, selected, box>> /\ toasts' \subseteq toasts
    BY <1>5 DEF Unpublish, RestoreOne, Undo
  <2>2. PICK op \in {"unpublish", "restore"}, ids \in SUBSET Everything : Sends(op, ids)
    <3>1. CASE Unpublish
      BY <3>1 DEF Unpublish, LibraryTypes
    <3>2. CASE RestoreOne
      <4>1. Shown("trash") \subseteq Everything
        BY DEF LibraryTypes, ListAnswers, Shown, ListKeys
      <4> QED BY <3>2, <4>1 DEF RestoreOne
    <3>3. CASE Undo
      BY <3>3 DEF Undo, LibraryTypes, Toasts
    <3> QED BY <1>5, <3>1, <3>2, <3>3
  <2> QED BY <2>1, <2>2, OtherSent
<1>6. ASSUME NEW k \in ListKeys, ListRead(k) \/ ListArrives(k) PROVE DeleteInv'
  BY <1>6, ReadKeeps, ArriveKeeps
<1>7. ASSUME NEW r \in requests, LibServe(r) \/ LibSettle(r) \/ LibLost(r) PROVE DeleteInv'
  BY <1>0, <1>7, ServeKeeps, SettleKeeps, LostKeeps
<1>8. ASSUME \/ Elsewhere \/ ToastLeaves
             \/ \E f \in Files : \/ AddFile(f) \/ Progresses(f) \/ Completes(f) \/ UploadEnds(f)
                                 \/ UploadFails(f) \/ CancelUpload(f) \/ RetryUpload(f)
      PROVE  DeleteInv'
  <2>1. UNCHANGED <<at, lists, selected, box, requests>>
    BY <1>8 DEF Elsewhere, ToastLeaves, AddFile, Progresses, Completes, UploadEnds, UploadFails, CancelUpload, RetryUpload
  <2> QED BY <1>0, <1>8, <2>1, BackgroundKeeps
<1> QED BY <1>1, <1>2, <1>3, <1>4, <1>5, <1>6, <1>7, <1>8 DEF LibraryNext

LEMMA DeletesMean ==
  ASSUME LibraryTypes, DeleteInv
  PROVE  LibraryTypeOK /\ EmptiesWhatIsShown /\ UndoesItsDelete
<1>1. EmptiesWhatIsShown /\ UndoesItsDelete
  BY DEF DeleteInv, EmptyStands, EmptiesWhatIsShown
<1> QED BY <1>1 DEF LibraryTypes, LibraryTypeOK, LibPlaces, ListAnswers
-----------------------------------------------------------------------------
Pages == Lists \cup {"away"} \cup Projects
Texts == {"start", "elsewhere", "blank"} \cup Typed
Row == [Fields -> Texts]
Names == Records \cup {New}
Cells == [Fields -> [of : Names, by : Texts]]
Meanings == [Fields -> Typed \cup {Nothing}]
Homes == Projects \cup {Nothing}
Forms == [of : Names, live : BOOLEAN, from : Row, values : Cells, meant : Meanings, busy : BOOLEAN, project : Homes, held : Homes]
Saves == [op : {"save", "copy", "delete"}, of : Names, values : Cells \cup {Untouched}, meant : Meanings, project : Homes,
          clear : BOOLEAN, resolved : BOOLEAN, made : Names, from : Pages, mine : BOOLEAN, answer : {Nothing, "ok", "refused"}]

ShelfTypes ==
    /\ there \subseteq Records /\ raced \subseteq Characters
    /\ texts \in [Records -> Row] /\ member \in [Characters -> Homes] /\ page \in Pages
    /\ kept \in [Records -> Row \cup {Nothing}] /\ keptMember \in [Characters -> Homes]
    /\ form \in Forms \cup {Nothing} /\ landing \in BOOLEAN
    /\ saves \subseteq Saves /\ IsFiniteSet(saves) /\ Cardinality(saves) <= MaxSaves

(* A form is about a record of the page it is on, and its fields are of    *)
(* that record; the panel shows a preset that is there.                    *)
FormIsHere ==
    form # Nothing => /\ form.of \in {New} \cup KindOf(page)
                      /\ page \in Projects => form.of = page
                      /\ page = "presets" => form.live /\ (form.of # New => kept[form.of] # Nothing)
                      /\ form.project # Nothing => page = "characters"
                      /\ \A f \in Fields : form.values[f].of = form.of
SaveIsOf(s) == /\ s.of \in {New} \cup KindOf(s.from)
               /\ s.op = "delete" => s.of # New
               /\ s.project # Nothing => s.from = "characters"
               /\ s.op # "delete" => s.values \in Cells /\ \A f \in Fields : s.values[f].of = s.of
               /\ s.op = "copy" => s.of \in System
               /\ s.op # "delete" /\ s.answer = "ok" => s.made \in KindOf(s.from)
SaveIsHere(s) == s.mine => page = s.from \/ {page, s.from} \subseteq Projects
ShelfPlaces == /\ FormIsHere /\ (landing => page = "characters")
               /\ \A s \in saves : SaveIsOf(s) /\ SaveIsHere(s)
ShelfInv == ShelfTypes /\ ShelfPlaces

(* What was typed is still in its field; and who has sent a form waits.    *)
FormMeans == form # Nothing => \A f \in Fields : form.meant[f] # Nothing => form.values[f].by = form.meant[f]
Awaited(s) ==
    form # Nothing => /\ ~s.mine => form.meant = Untouched
                      /\ s.mine /\ s.op # "delete" /\ s.from = "presets" => \A f \in Fields : form.meant[f] \in {Nothing, s.meant[f]}
TypedInv == FormMeans /\ SendsWhatWasTyped /\ \A s \in saves : Awaited(s)

LEMMA Placed == /\ \A place \in Pages : \A r \in KindOf(place) : r \in Characters => place = "characters"
                /\ New \notin Records /\ KindOf("away") = {} /\ \A place \in Pages : KindOf(place) \subseteq Records
                /\ \A place \in Projects : KindOf(place) = Projects
                /\ KindOf("presets") = Presets /\ KindOf("characters") = Characters /\ KindOf("projects") = Projects
  BY ShelfAssumption DEF KindOf, Pages, Lists, Records

(* What the fields of a form are filled from is a record that was read.    *)
LEMMA FormTyped ==
  ASSUME ShelfTypes, NEW r \in Names, NEW live \in BOOLEAN, NEW rows \in [Records -> Row \cup {Nothing}],
         r # New => rows[r] # Nothing, NEW meant \in Meanings
  PROVE  /\ Form(r, live, rows, meant) \in Forms
         /\ Form(r, live, rows, meant).of = r /\ Form(r, live, rows, meant).live = live
         /\ Form(r, live, rows, meant).meant = meant
         /\ Form(r, live, rows, meant).project # Nothing => r \in Characters
         /\ \A f \in Fields : Form(r, live, rows, meant).values[f].of = r
<1>1. RowOf(r, rows) \in Row
  BY DEF RowOf, Row, Texts, Names
<1>2. Filled(r, rows) \in Cells /\ \A f \in Fields : Filled(r, rows)[f].of = r
  BY <1>1 DEF Filled, Cells, Row
<1>3. (IF r \in Characters THEN keptMember[r] ELSE Nothing) \in Homes
  BY DEF ShelfTypes, Homes
<1> QED BY <1>1, <1>2, <1>3 DEF Form, Forms

LEMMA RefilledTyped ==
  ASSUME NEW f \in Forms, NEW rows \in [Records -> Row \cup {Nothing}], f.of # New, rows[f.of] # Nothing
  PROVE  /\ Refilled(f, rows) \in Forms /\ Refilled(f, rows).of = f.of /\ Refilled(f, rows).live = f.live
         /\ Refilled(f, rows).meant = f.meant /\ Refilled(f, rows).project = f.project
         /\ \A x \in Fields : Refilled(f, rows).values[x].of = f.of
<1>1. f.of \in Records /\ rows[f.of] \in Row
  BY DEF Forms, Names
<1>2. Filled(f.of, rows) \in Cells /\ \A x \in Fields : Filled(f.of, rows)[x].of = f.of
  BY <1>1 DEF Filled, Cells, Row, RowOf, Names
<1>3. /\ Refilled(f, rows) \in Forms /\ Refilled(f, rows).of = f.of /\ Refilled(f, rows).live = f.live
      /\ Refilled(f, rows).meant = f.meant /\ Refilled(f, rows).project = f.project /\ Refilled(f, rows).values = Filled(f.of, rows)
  BY <1>1, <1>2 DEF Refilled, Forms
<1> QED BY <1>2, <1>3

LEMMA FollowTyped ==
  ASSUME NEW f \in Forms \cup {Nothing}, NEW rows \in [Records -> Row \cup {Nothing}]
  PROVE  /\ Follow(f, rows) \in Forms \cup {Nothing}
         /\ Follow(f, rows) # Nothing => /\ f # Nothing /\ Follow(f, rows).of = f.of /\ Follow(f, rows).live = f.live
                                         /\ Follow(f, rows).meant = f.meant /\ Follow(f, rows).project = f.project
                                         /\ f.live /\ f.of \in Presets => rows[f.of] # Nothing
                                         /\ (\A x \in Fields : f.values[x].of = f.of) => \A x \in Fields : Follow(f, rows).values[x].of = f.of
         /\ ~Disturbs(f, rows) \/ f.meant = Untouched => Follow(f, rows) = f \/ Follow(f, rows) = Nothing \/ f.meant = Untouched
<1>1. CASE f = Nothing \/ Follow(f, rows) = Nothing
  BY <1>1 DEF Follow
<1>2. CASE f # Nothing /\ Follow(f, rows) = f
  BY <1>2, ShelfAssumption DEF Follow, Records
<1>3. CASE f # Nothing /\ Follow(f, rows) # f /\ Follow(f, rows) # Nothing
  <2>1. f.of # New /\ f.live /\ rows[f.of] # Nothing /\ Differs(f, rows) /\ Follow(f, rows) = Refilled(f, rows)
    BY <1>3 DEF Follow
  <2> DEFINE g == Refilled(f, rows)
  <2>2. f \in Forms
    BY <1>3
  <2>3. g.of = f.of /\ g.live = f.live /\ g.meant = f.meant /\ g.project = f.project /\ g \in Forms
        /\ \A x \in Fields : g.values[x].of = f.of
    BY <2>1, <2>2, RefilledTyped
  <2>4. Follow(f, rows) = g
    BY <2>1
  <2>5. ~Disturbs(f, rows) => f.meant = Untouched
    BY <1>3, <2>1 DEF Disturbs, Differs
  <2> HIDE DEF g
  <2> QED BY <1>3, <2>1, <2>3, <2>4, <2>5
<1> QED BY <1>1, <1>2, <1>3

LEMMA ReadTyped ==
  ASSUME ShelfTypes, NEW kind
  PROVE  Read(kind) \in [Records -> Row \cup {Nothing}] /\ ReadMembers(kind) \in [Characters -> Homes]
  BY DEF ShelfTypes, Read, ReadMembers

LEMMA ShelfTypesInit == ShelfInit => ShelfInv
<1> SUFFICES ASSUME ShelfInit PROVE ShelfInv
  OBVIOUS
<1>1. IsFiniteSet(saves) /\ Cardinality(saves) <= MaxSaves
  BY FS_EmptySet, ShelfAssumption DEF ShelfInit
<1>2. there \subseteq Records
  BY ShelfAssumption DEF ShelfInit
<1>3. ShelfTypes
  BY <1>1, <1>2 DEF ShelfInit, ShelfTypes, Row, Texts, Homes, Pages
<1> QED BY <1>3 DEF ShelfInit, ShelfInv, ShelfPlaces, FormIsHere

(* A step of the page that sends nothing.                                  *)
LEMMA FormStepKeeps ==
  ASSUME ShelfInv, UNCHANGED <<there, raced, texts, member, page, saves>>,
         kept' \in [Records -> Row \cup {Nothing}], keptMember' \in [Characters -> Homes],
         form' \in Forms \cup {Nothing}, FormIsHere', landing' \in BOOLEAN, landing' => page = "characters"
  PROVE  ShelfInv'
<1>1. ShelfTypes'
  BY DEF ShelfInv, ShelfTypes
<1>2. \A s \in saves' : SaveIsOf(s)' /\ SaveIsHere(s)'
  BY DEF ShelfInv, ShelfPlaces, SaveIsOf, SaveIsHere
<1> QED BY <1>1, <1>2 DEF ShelfInv, ShelfPlaces

LEMMA FollowKeeps ==
  ASSUME ShelfInv, NEW rows \in [Records -> Row \cup {Nothing}], kept' = rows, form' = Follow(form, rows), page' = page
  PROVE  form' \in Forms \cup {Nothing} /\ FormIsHere'
<1>1. form \in Forms \cup {Nothing} /\ page \in Pages
  BY DEF ShelfInv, ShelfTypes
<1>2. form' \in Forms \cup {Nothing}
  BY <1>1, FollowTyped
<1>3. ASSUME form' # Nothing
      PROVE  /\ form # Nothing /\ form'.of = form.of /\ form'.live = form.live /\ form'.project = form.project
             /\ form.live /\ form.of \in Presets => rows[form.of] # Nothing
             /\ (\A x \in Fields : form.values[x].of = form.of) => \A x \in Fields : form'.values[x].of = form.of
  BY <1>1, <1>3, FollowTyped
<1>4. FormIsHere
  BY DEF ShelfInv, ShelfPlaces
<1> QED BY <1>2, <1>3, <1>4, Placed DEF FormIsHere

LEMMA ReloadKeeps ==
  ASSUME ShelfInv, NEW kind, Reload(kind)
  PROVE  ShelfInv'
<1>1. Read(kind) \in [Records -> Row \cup {Nothing}] /\ ReadMembers(kind) \in [Characters -> Homes]
  BY ReadTyped DEF ShelfInv
<1>2. /\ kept' = Read(kind) /\ keptMember' = ReadMembers(kind) /\ form' = Follow(form, Read(kind))
      /\ UNCHANGED <<there, raced, texts, member, page, saves, landing>>
  BY DEF Reload, database
<1>3. form' \in Forms \cup {Nothing} /\ FormIsHere'
  BY <1>1, <1>2, FollowKeeps
<1>4. landing' \in BOOLEAN /\ (landing' => page = "characters")
  BY <1>2 DEF ShelfInv, ShelfTypes, ShelfPlaces
<1> QED BY <1>1, <1>2, <1>3, <1>4, FormStepKeeps

LEMMA OpenKeepsForm ==
  ASSUME ShelfInv, OpenForm
  PROVE  ShelfInv'
<1>1. ShelfTypes /\ page \in Pages /\ kept \in [Records -> Row \cup {Nothing}] /\ FormIsHere
  BY DEF ShelfInv, ShelfTypes, ShelfPlaces
<1> DEFINE live == page \in Projects \cup {"presets"}
           busy == form # Nothing /\ form.busy
<1>2. PICK r \in {New} \cup KindOf(page) :
         /\ r # New => kept[r] # Nothing
         /\ page \in Projects => r = page
         /\ form' = [Form(r, live, kept, Untouched) EXCEPT !.busy = busy]
  BY DEF OpenForm
<1>3. r \in Names /\ live \in BOOLEAN /\ busy \in BOOLEAN /\ Untouched \in Meanings
  <2>1. form # Nothing => form.busy \in BOOLEAN
    BY <1>1 DEF ShelfTypes, Forms
  <2> QED BY <1>1, <1>2, <2>1, Placed DEF Names, Untouched, Meanings
<1> DEFINE f == Form(r, live, kept, Untouched)
<1>3a. page = "presets" => live
  OBVIOUS
<1> HIDE DEF live, busy
<1>4. f \in Forms /\ f.of = r /\ f.live = live /\ (f.project # Nothing => r \in Characters) /\ \A x \in Fields : f.values[x].of = r
  BY <1>1, <1>2, <1>3, FormTyped
<1>5. form' = [f EXCEPT !.busy = busy]
  BY <1>2
<1> HIDE DEF f
<1>6. form' \in Forms /\ form'.of = r /\ form'.live = live /\ form'.project = f.project /\ \A x \in Fields : form'.values[x].of = r
  BY <1>3, <1>4, <1>5 DEF Forms
<1>7. UNCHANGED <<there, raced, texts, member, page, kept, keptMember, saves, landing>>
  BY DEF OpenForm, database, cached
<1>8. FormIsHere'
  <2>1. r \in Characters => page = "characters"
    BY <1>1, <1>2, Placed DEF Records
  <2> QED BY <1>2, <1>3a, <1>4, <1>6, <1>7, <2>1 DEF FormIsHere
<1> QED BY <1>6, <1>7, <1>8, FormStepKeeps DEF ShelfInv, ShelfTypes, ShelfPlaces

LEMMA FormHandledKeeps ==
  ASSUME ShelfInv, CloseForm \/ TypeIn \/ PickProject \/ SwitchCategory \/ UploadFirst \/ Landed
  PROVE  ShelfInv'
<1>1. ShelfTypes /\ page \in Pages /\ form \in Forms \cup {Nothing} /\ FormIsHere /\ (landing => page = "characters")
  BY DEF ShelfInv, ShelfTypes, ShelfPlaces
<1>2. UNCHANGED <<there, raced, texts, member, page, kept, keptMember, saves>>
  BY DEF CloseForm, TypeIn, PickProject, SwitchCategory, UploadFirst, Landed, database, cached
<1>3. landing' \in BOOLEAN /\ (landing' => page = "characters")
  <2>1. landing \in BOOLEAN
    BY <1>1 DEF ShelfTypes
  <2>2. \/ landing' = landing
        \/ landing' = TRUE /\ page = "characters"
        \/ landing' = FALSE
    BY DEF CloseForm, TypeIn, PickProject, SwitchCategory, UploadFirst, Landed
  <2>3. CASE landing' = landing
    <3>1. landing' \in BOOLEAN
      BY <2>1, <2>3
    <3>2. ASSUME landing' PROVE page = "characters"
      BY <1>1, <2>3, <3>2
    <3> QED BY <3>1, <3>2
  <2>4. CASE landing' = TRUE /\ page = "characters"
    BY <2>4
  <2>5. CASE landing' = FALSE
    BY <2>5
  <2> QED BY <2>2, <2>3, <2>4, <2>5
<1>4. CASE form' = form \/ form' = Nothing
  BY <1>1, <1>2, <1>3, <1>4, FormStepKeeps DEF FormIsHere, ShelfTypes
<1>5. CASE TypeIn
  <2>1. PICK f \in Fields, v \in Typed : form' = [form EXCEPT !.values[f] = [of |-> form.of, by |-> v], !.meant[f] = v]
    BY <1>5 DEF TypeIn
  <2>2. form \in Forms /\ form # Nothing
    BY <1>1, <1>5 DEF TypeIn
  <2>3. form' \in Forms
    BY <2>1, <2>2 DEF Forms, Cells, Texts, Meanings
  <2>4. form'.of = form.of /\ form'.live = form.live /\ form'.project = form.project /\ \A x \in Fields : form.values[x].of = form.of => form'.values[x].of = form.of
    BY <2>1, <2>2 DEF Forms, Cells
  <2>5. FormIsHere'
    BY <1>1, <1>2, <2>2, <2>4 DEF FormIsHere
  <2> QED BY <1>1, <1>2, <1>3, <2>3, <2>5, FormStepKeeps DEF ShelfTypes
<1>6. CASE PickProject
  <2>1. PICK p \in Homes : form' = [form EXCEPT !.project = p]
    BY <1>6 DEF PickProject, Homes
  <2>2. form \in Forms /\ form # Nothing
    BY <1>1, <1>6 DEF PickProject
  <2>3. form' \in Forms /\ form'.of = form.of /\ form'.live = form.live /\ form'.values = form.values
    BY <2>1, <2>2 DEF Forms
  <2>5. FormIsHere'
    BY <1>1, <1>2, <1>6, <2>2, <2>3 DEF FormIsHere, PickProject
  <2> QED BY <1>1, <1>2, <1>3, <2>3, <2>5, FormStepKeeps DEF ShelfTypes
<1>7. CASE SwitchCategory
  <2>1. /\ form # Nothing /\ page = "presets"
        /\ form' = [form EXCEPT !.from = RowOf(form.of, kept), !.values = Filled(form.of, kept)]
    BY <1>7 DEF SwitchCategory
  <2>2. form \in Forms /\ form.of \in Names /\ (form.of # New => kept[form.of] \in Row)
    BY <1>1, <2>1 DEF FormIsHere, Forms, ShelfTypes, Names
  <2>3. RowOf(form.of, kept) \in Row /\ Filled(form.of, kept) \in Cells /\ \A x \in Fields : Filled(form.of, kept)[x].of = form.of
    BY <2>2 DEF RowOf, Row, Texts, Filled, Cells
  <2>4. form' \in Forms /\ form'.of = form.of /\ form'.live = form.live /\ form'.project = form.project /\ form'.values = Filled(form.of, kept)
    BY <2>1, <2>2, <2>3 DEF Forms
  <2>5. FormIsHere'
    BY <1>1, <1>2, <2>1, <2>3, <2>4 DEF FormIsHere
  <2> QED BY <1>1, <1>2, <1>3, <2>4, <2>5, FormStepKeeps DEF ShelfTypes
<1>8. CASE Landed /\ form' # form
  <2>1. page = "characters" /\ page \notin Projects
    BY <1>1, <1>8, ShelfAssumption DEF Landed, Records
  <2>2. PICK meant \in Meanings : form' = Form(New, FALSE, kept, meant)
    <3>1. Untouched \in Meanings /\ (form # Nothing => form.meant \in Meanings)
      BY <1>1 DEF Untouched, Meanings, Forms
    <3> QED BY <1>8, <3>1 DEF Landed
  <2> DEFINE no == FALSE
  <2> HIDE DEF no
  <2>3. Form(New, no, kept, meant) \in Forms /\ Form(New, no, kept, meant).of = New
        /\ \A x \in Fields : Form(New, no, kept, meant).values[x].of = New
    <3>1. no \in BOOLEAN /\ New \in Names /\ kept \in [Records -> Row \cup {Nothing}]
      BY <1>1 DEF no, Names, ShelfTypes
    <3> QED BY <1>1, <3>1, FormTyped
  <2>4. form' \in Forms /\ form'.of = New /\ \A x \in Fields : form'.values[x].of = New
    BY <2>2, <2>3 DEF no
  <2>5. FormIsHere'
    BY <1>2, <2>1, <2>4 DEF FormIsHere
  <2> QED BY <1>1, <1>2, <1>3, <2>4, <2>5, FormStepKeeps DEF ShelfTypes
<1> QED BY <1>4, <1>5, <1>6, <1>7, <1>8 DEF CloseForm, UploadFirst, Landed

(* What was deleted, and what was moved.                                   *)
LEMMA DeletedTyped ==
  ASSUME ShelfTypes, NEW r \in Records, Deleted(r)
  PROVE  /\ there' \subseteq Records /\ raced' \subseteq Characters /\ texts' \in [Records -> Row] /\ member' \in [Characters -> Homes]
  BY DEF ShelfTypes, Deleted, Detached, Homes

LEMMA TabKeeps ==
  ASSUME ShelfInv, AnotherTab
  PROVE  ShelfInv'
<1>1. UNCHANGED <<page, kept, keptMember, form, landing, saves>>
  BY DEF AnotherTab, cached
<1>2. ShelfTypes /\ ShelfPlaces
  BY DEF ShelfInv
<1>3. /\ there' \subseteq Records /\ raced' \subseteq Characters /\ texts' \in [Records -> Row] /\ member' \in [Characters -> Homes]
  <2>1. ASSUME NEW r \in there, NEW f \in Fields, texts' = [texts EXCEPT ![r][f] = "elsewhere"]
        PROVE  texts' \in [Records -> Row]
    <3>1. texts[r] \in Row
      BY <1>2 DEF ShelfTypes
    <3>2. [texts[r] EXCEPT ![f] = "elsewhere"] \in Row
      BY <3>1 DEF Row, Texts
    <3> QED BY <1>2, <2>1, <3>2 DEF ShelfTypes
  <2>2. ASSUME NEW c \in Characters, NEW p \in Homes, member' = [member EXCEPT ![c] = p]
        PROVE  member' \in [Characters -> Homes]
    BY <1>2, <2>2 DEF ShelfTypes
  <2>3. ASSUME NEW r \in there \ System, Deleted(r)
        PROVE  /\ there' \subseteq Records /\ raced' \subseteq Characters /\ texts' \in [Records -> Row] /\ member' \in [Characters -> Homes]
    BY <1>2, <2>3, DeletedTyped DEF ShelfTypes
  <2>4. CASE \E r \in there \ System, f \in Fields :
            texts' = [texts EXCEPT ![r][f] = "elsewhere"] /\ UNCHANGED <<there, member, raced>>
    BY <1>2, <2>1, <2>4 DEF ShelfTypes
  <2>5. CASE \E c \in Characters \cap there, p \in (Projects \cap there) \cup {Nothing} :
            p # member[c] /\ member' = [member EXCEPT ![c] = p] /\ UNCHANGED <<there, texts, raced>>
    BY <1>2, <2>2, <2>5 DEF ShelfTypes, Homes
  <2> QED BY <2>3, <2>4, <2>5 DEF AnotherTab
<1>4. ShelfTypes'
  BY <1>1, <1>2, <1>3 DEF ShelfTypes
<1>5. ShelfPlaces'
  BY <1>1, <1>2 DEF ShelfPlaces, FormIsHere, SaveIsOf, SaveIsHere
<1> QED BY <1>4, <1>5 DEF ShelfInv

(* The calls of a page that was left.                                      *)
LEMMA DisownedTyped ==
  ASSUME NEW some, some \subseteq Saves, IsFiniteSet(some), Cardinality(some) <= MaxSaves
  PROVE  /\ Disowned(some) \subseteq Saves /\ IsFiniteSet(Disowned(some)) /\ Cardinality(Disowned(some)) <= MaxSaves
         /\ \A d \in Disowned(some) : \E s \in some :
              /\ d.op = s.op /\ d.of = s.of /\ d.values = s.values /\ d.meant = s.meant /\ d.from = s.from /\ d.made = s.made /\ d.project = s.project
              /\ d.answer = s.answer /\ d.mine = FALSE
<1> DEFINE D == Disowned(some)
           F == [s \in some |-> [s EXCEPT !.mine = FALSE]]
<1>1. F \in [some -> D] /\ \A d \in D : \E s \in some : F[s] = d
  BY DEF Disowned
<1>2. D \subseteq Saves
  BY DEF Disowned, Saves
<1>3. \A d \in D : \E s \in some :
              /\ d.op = s.op /\ d.of = s.of /\ d.values = s.values /\ d.meant = s.meant /\ d.from = s.from /\ d.made = s.made /\ d.project = s.project
              /\ d.answer = s.answer /\ d.mine = FALSE
  BY DEF Disowned, Saves
<1>4. MaxSaves \in Nat
  BY ShelfAssumption
<1> HIDE DEF D, F
<1>5. IsFiniteSet(D) /\ Cardinality(D) <= MaxSaves
  BY <1>1, <1>4, Images
<1> QED BY <1>2, <1>3, <1>5 DEF D

(* A step to another page.                                                 *)
LEMMA MoveKeeps ==
  ASSUME ShelfInv, NEW rest, rest \subseteq saves, IsFiniteSet(rest), Cardinality(rest) <= MaxSaves,
         saves' = Disowned(rest), form' = Nothing, landing' = FALSE, page' \in Pages,
         kept' \in [Records -> Row \cup {Nothing}], keptMember' \in [Characters -> Homes],
         UNCHANGED <<there, raced, texts, member>>
  PROVE  ShelfInv'
<1>1. ShelfTypes /\ ShelfPlaces /\ rest \subseteq Saves
  BY DEF ShelfInv, ShelfTypes
<1>2. /\ saves' \subseteq Saves /\ IsFiniteSet(saves') /\ Cardinality(saves') <= MaxSaves
      /\ \A d \in saves' : \E s \in rest :
              /\ d.op = s.op /\ d.of = s.of /\ d.values = s.values /\ d.meant = s.meant /\ d.from = s.from /\ d.made = s.made /\ d.project = s.project
              /\ d.answer = s.answer /\ d.mine = FALSE
  BY <1>1, DisownedTyped
<1>3. ShelfTypes'
  BY <1>1, <1>2 DEF ShelfTypes
<1>4. ASSUME NEW d \in saves' PROVE SaveIsOf(d)' /\ SaveIsHere(d)'
  <2>1. PICK s \in rest : /\ d.op = s.op /\ d.of = s.of /\ d.values = s.values /\ d.meant = s.meant /\ d.from = s.from /\ d.made = s.made /\ d.project = s.project
                          /\ d.answer = s.answer /\ d.mine = FALSE
    BY <1>2
  <2>2. SaveIsOf(s)
    BY <1>1 DEF ShelfPlaces
  <2> QED BY <2>1, <2>2 DEF SaveIsOf, SaveIsHere
<1>5. ShelfPlaces'
  BY <1>4 DEF ShelfPlaces, FormIsHere
<1> QED BY <1>3, <1>5 DEF ShelfInv

LEMMA GoToKeeps ==
  ASSUME ShelfInv, GoTo
  PROVE  ShelfInv'
<1>1. ShelfTypes /\ ShelfPlaces
  BY DEF ShelfInv
<1>2. PICK place \in Lists \cup {"away"} \cup Projects :
         /\ place \in Projects => kept[place] # Nothing
         /\ page' = place /\ form' = Turned(place)
         /\ saves' = IF page \in Projects /\ place \in Projects THEN saves ELSE Disowned(saves)
  BY DEF GoTo
<1>3. landing' = FALSE /\ UNCHANGED <<there, raced, texts, member, kept, keptMember>>
  BY DEF GoTo, database, cached
<1>4. CASE page \in Projects /\ place \in Projects
  <2>1. saves' = saves /\ page' \in Pages
    BY <1>2, <1>4 DEF Pages
  <2>2. form' \in Forms \cup {Nothing} /\ (form' # Nothing => form'.of = place /\ form'.project = Nothing /\ \A f \in Fields : form'.values[f].of = place)
    <3> DEFINE yes == TRUE
    <3>1. yes \in BOOLEAN
      OBVIOUS
    <3> HIDE DEF yes
    <3>2. place \in Names /\ kept \in [Records -> Row \cup {Nothing}] /\ kept[place] # Nothing /\ Untouched \in Meanings
      BY <1>1, <1>2, <1>4 DEF Names, Records, ShelfTypes, Untouched, Meanings
    <3>3. Form(place, yes, kept, Untouched) \in Forms /\ Form(place, yes, kept, Untouched).of = place
          /\ Form(place, yes, kept, Untouched).project = Nothing
          /\ \A f \in Fields : Form(place, yes, kept, Untouched).values[f].of = place
      BY <1>1, <1>4, <3>1, <3>2, FormTyped, ShelfAssumption
    <3>4. form' = Form(place, yes, kept, Untouched) \/ form' = Nothing
      BY <1>2 DEF Turned, yes
    <3> QED BY <3>3, <3>4
  <2>3. ShelfTypes'
    BY <1>1, <1>3, <2>1, <2>2 DEF ShelfTypes
  <2>4. FormIsHere'
    <3>1. place # "presets" /\ place \in KindOf(place)
      BY <1>4, ShelfAssumption, Placed DEF Records
    <3> QED BY <1>2, <2>2, <3>1 DEF FormIsHere
  <2>5. ASSUME NEW s \in saves' PROVE SaveIsOf(s)' /\ SaveIsHere(s)'
    <3>1. SaveIsOf(s) /\ SaveIsHere(s)
      BY <1>1, <2>1 DEF ShelfPlaces
    <3> QED BY <1>2, <1>4, <3>1 DEF SaveIsOf, SaveIsHere
  <2> QED BY <1>3, <2>3, <2>4, <2>5 DEF ShelfInv, ShelfPlaces
<1>5. CASE ~(page \in Projects /\ place \in Projects)
  <2>1. saves' = Disowned(saves) /\ form' = Nothing /\ page' \in Pages
    BY <1>2, <1>5 DEF Turned, Pages
  <2>2. IsFiniteSet(saves) /\ Cardinality(saves) <= MaxSaves
        /\ kept' \in [Records -> Row \cup {Nothing}] /\ keptMember' \in [Characters -> Homes]
    BY <1>1, <1>3 DEF ShelfTypes
  <2> QED BY <1>3, <2>1, <2>2, MoveKeeps
<1> QED BY <1>4, <1>5

(* A call is sent, gets on or ends, on the page it was sent from.          *)
LEMMA CallsKeep ==
  ASSUME ShelfInv, saves' \subseteq Saves, IsFiniteSet(saves'), Cardinality(saves') <= MaxSaves,
         \A s \in saves' : SaveIsOf(s) /\ SaveIsHere(s),
         form' \in Forms \cup {Nothing}, FormIsHere', landing' = landing, page' = page,
         kept' \in [Records -> Row \cup {Nothing}], keptMember' \in [Characters -> Homes],
         there' \subseteq Records, raced' \subseteq Characters, texts' \in [Records -> Row], member' \in [Characters -> Homes]
  PROVE  ShelfInv'
<1>1. ShelfTypes /\ ShelfPlaces
  BY DEF ShelfInv
<1>2. ShelfTypes'
  BY <1>1 DEF ShelfTypes
<1>3. \A s \in saves' : SaveIsOf(s)' /\ SaveIsHere(s)'
  BY DEF SaveIsOf, SaveIsHere
<1> QED BY <1>1, <1>2, <1>3 DEF ShelfInv, ShelfPlaces

LEMMA SubmitKeeps ==
  ASSUME ShelfInv, Submit
  PROVE  ShelfInv'
<1>1. ShelfTypes /\ ShelfPlaces /\ FormIsHere
  BY DEF ShelfInv, ShelfPlaces
<1> DEFINE clear == form.project = Nothing /\ form.held # Nothing
           asks == [Sent(SaveOrCopy, SavedRecord) EXCEPT
                      !.values = form.values, !.meant = form.meant, !.project = form.project, !.clear = clear]
<1>2. /\ form # Nothing /\ saves' = saves \cup {asks} /\ form' = [form EXCEPT !.busy = TRUE] /\ Room
      /\ UNCHANGED <<there, raced, texts, member, page, kept, keptMember, landing>>
  BY DEF Submit, database, cached
<1>3. form \in Forms
  BY <1>1, <1>2 DEF ShelfTypes
<1>4. SavedRecord = form.of /\ form.of \in Names
  BY <1>1, <1>2, <1>3 DEF FormIsHere, SavedRecord, Forms
<1>5. clear \in BOOLEAN /\ SaveOrCopy \in {"save", "copy"} /\ (SaveOrCopy = "copy" => form.of \in System) /\ page \in Pages
  BY <1>1 DEF SaveOrCopy, ShelfTypes
<1> HIDE DEF clear
<1>6. /\ asks \in Saves /\ asks.of = form.of /\ asks.op = SaveOrCopy /\ asks.values = form.values /\ asks.from = page
      /\ asks.answer = Nothing /\ asks.meant = form.meant /\ asks.mine = TRUE /\ asks.project = form.project
  <2>1. Sent(SaveOrCopy, form.of) \in Saves
    BY <1>4, <1>5 DEF Sent, Saves, Meanings, Untouched, Homes
  <2>2. asks \in Saves
    BY <1>3, <1>4, <1>5, <2>1 DEF Saves, Forms
  <2> QED BY <1>4, <2>2 DEF Sent
<1> HIDE DEF asks
<1>7. saves' \subseteq Saves /\ IsFiniteSet(saves') /\ Cardinality(saves') <= MaxSaves
  <2>1. IsFiniteSet(saves) /\ Cardinality(saves) < MaxSaves /\ MaxSaves \in Nat
    BY <1>1, <1>2, ShelfAssumption DEF ShelfTypes, Room
  <2>2. IsFiniteSet(saves \cup {asks}) /\ Cardinality(saves \cup {asks}) <= MaxSaves
    BY <2>1, Joins
  <2> QED BY <1>1, <1>2, <1>6, <2>2 DEF ShelfTypes
<1>8. form' \in Forms /\ form'.of = form.of /\ form'.live = form.live /\ form'.values = form.values /\ form'.project = form.project /\ form'.meant = form.meant
  BY <1>2, <1>3 DEF Forms
<1>9. FormIsHere'
  BY <1>1, <1>2, <1>8 DEF FormIsHere
<1>10. SaveIsOf(asks) /\ SaveIsHere(asks)
  <2>1. form.values \in Cells
    BY <1>3 DEF Forms
  <2> QED BY <1>1, <1>2, <1>5, <1>6, <2>1, ShelfAssumption DEF SaveIsOf, SaveIsHere, FormIsHere
<1>11. \A s \in saves' : SaveIsOf(s) /\ SaveIsHere(s)
  BY <1>1, <1>2, <1>10 DEF ShelfPlaces
<1> QED BY <1>1, <1>2, <1>7, <1>8, <1>9, <1>11, CallsKeep DEF ShelfTypes

LEMMA RemoveKeeps ==
  ASSUME ShelfInv, Remove
  PROVE  ShelfInv'
<1>1. ShelfTypes /\ ShelfPlaces /\ page \in Pages
  BY DEF ShelfInv, ShelfTypes
<1>2. /\ Room /\ UNCHANGED <<there, raced, texts, member, page, kept, keptMember, form, landing>>
  BY DEF Remove, database, cached
<1>3. PICK r \in KindOf(page) \ System : saves' = saves \cup {Sent("delete", r)}
  BY DEF Remove
<1> DEFINE asks == Sent("delete", r)
<1>4. asks \in Saves /\ asks.of = r /\ asks.op = "delete" /\ asks.from = page /\ asks.answer = Nothing /\ asks.project = Nothing
  <2>1. r \in Names
    BY <1>1, <1>3, Placed DEF Names
  <2> QED BY <1>1, <2>1 DEF Sent, Saves, Meanings, Untouched, Homes
<1>5. saves' = saves \cup {asks}
  BY <1>3
<1> HIDE DEF asks
<1>6. saves' \subseteq Saves /\ IsFiniteSet(saves') /\ Cardinality(saves') <= MaxSaves
  <2>1. IsFiniteSet(saves) /\ Cardinality(saves) < MaxSaves /\ MaxSaves \in Nat
    BY <1>1, <1>2, ShelfAssumption DEF ShelfTypes, Room
  <2>2. IsFiniteSet(saves \cup {asks}) /\ Cardinality(saves \cup {asks}) <= MaxSaves
    BY <2>1, Joins
  <2> QED BY <1>1, <1>4, <1>5, <2>2 DEF ShelfTypes
<1>7. FormIsHere'
  BY <1>1, <1>2 DEF FormIsHere, ShelfPlaces
<1>8. \A s \in saves' : SaveIsOf(s) /\ SaveIsHere(s)
  BY <1>1, <1>3, <1>4, <1>5, Placed DEF ShelfPlaces, SaveIsOf, SaveIsHere
<1> QED BY <1>1, <1>2, <1>6, <1>7, <1>8, CallsKeep DEF ShelfTypes

(* The server gets on with a call.                                         *)
LEMMA ReplacedSave ==
  ASSUME ShelfInv, NEW s \in saves, NEW answered \in Saves,
         answered.of = s.of, answered.from = s.from, answered.op = s.op, answered.values = s.values, answered.mine = s.mine, answered.project = s.project,
         answered.op # "delete" /\ answered.answer = "ok" => answered.made \in KindOf(answered.from),
         saves' = (saves \ {s}) \cup {answered}, UNCHANGED <<page, kept, keptMember, form, landing>>,
         there' \subseteq Records, raced' \subseteq Characters, texts' \in [Records -> Row], member' \in [Characters -> Homes]
  PROVE  ShelfInv'
<1>1. ShelfTypes /\ ShelfPlaces /\ page \in Pages
  BY DEF ShelfInv, ShelfTypes
<1>2. saves' \subseteq Saves /\ IsFiniteSet(saves') /\ Cardinality(saves') <= MaxSaves
  <2>1. IsFiniteSet(saves) /\ Cardinality(saves) <= MaxSaves /\ MaxSaves \in Nat
    BY <1>1, ShelfAssumption DEF ShelfTypes
  <2>2. IsFiniteSet((saves \ {s}) \cup {answered}) /\ Cardinality((saves \ {s}) \cup {answered}) <= MaxSaves
    BY <2>1, Replaced
  <2> QED BY <1>1, <2>2 DEF ShelfTypes
<1>3. SaveIsOf(answered) /\ SaveIsHere(answered)
  BY <1>1 DEF ShelfPlaces, SaveIsOf, SaveIsHere
<1>4. \A q \in saves' : SaveIsOf(q) /\ SaveIsHere(q)
  BY <1>1, <1>3 DEF ShelfPlaces
<1>5. FormIsHere'
  BY <1>1 DEF ShelfPlaces, FormIsHere
<1> QED BY <1>1, <1>2, <1>4, <1>5, CallsKeep DEF ShelfTypes

LEMMA LookUpKeeps ==
  ASSUME ShelfInv, NEW s \in saves, LookUp(s)
  PROVE  ShelfInv'
<1>1. ShelfTypes /\ s \in Saves
  BY DEF ShelfInv, ShelfTypes
<1>2. UNCHANGED <<there, raced, texts, member, page, kept, keptMember, form, landing>> /\ s.answer = Nothing
  BY DEF LookUp, database, cached
<1>3. CASE s.project \in there
  <2> DEFINE found == [s EXCEPT !.resolved = TRUE]
  <2>1. found \in Saves /\ found.of = s.of /\ found.from = s.from /\ found.op = s.op /\ found.values = s.values
        /\ found.mine = s.mine /\ found.project = s.project /\ found.answer = Nothing
    BY <1>1, <1>2 DEF Saves
  <2>2. saves' = (saves \ {s}) \cup {found}
    BY <1>3 DEF LookUp
  <2> HIDE DEF found
  <2>3. found.answer # "ok"
    BY <2>1, ShelfAssumption
  <2> QED BY <1>1, <1>2, <2>1, <2>2, <2>3, ReplacedSave DEF ShelfTypes
<1>4. CASE s.project \notin there
  <2> DEFINE refused == [s EXCEPT !.answer = "refused"]
  <2>1. refused \in Saves /\ refused.of = s.of /\ refused.from = s.from /\ refused.op = s.op /\ refused.values = s.values
        /\ refused.mine = s.mine /\ refused.project = s.project /\ refused.answer = "refused"
    BY <1>1 DEF Saves
  <2>2. saves' = (saves \ {s}) \cup {refused}
    BY <1>4 DEF LookUp, Replied
  <2> HIDE DEF refused
  <2>3. refused.answer # "ok"
    BY <2>1
  <2> QED BY <1>1, <1>2, <2>1, <2>2, <2>3, ReplacedSave DEF ShelfTypes
<1> QED BY <1>3, <1>4

LEMMA WriteTyped ==
  ASSUME ShelfTypes, NEW s \in Saves, s.values \in Cells, NEW r \in Records, WriteRow(s, r)
  PROVE  there' \subseteq Records /\ raced' \subseteq Characters \cup {r} /\ texts' \in [Records -> Row] /\ member' \in [Characters -> Homes]
<1>1. Written(s, r) \in Row
  BY DEF Written, Row, Cells
<1>2. r \in Characters => MemberAfter(s, r) \in Homes
  BY DEF MemberAfter, ShelfTypes, Saves, Homes
<1> QED BY <1>1, <1>2 DEF WriteRow, ShelfTypes

(* Only a character has a project.                                         *)
LEMMA ServeKeepsSave ==
  ASSUME ShelfInv, NEW s \in saves, ServeSave(s)
  PROVE  ShelfInv'
<1>1. ShelfTypes /\ s \in Saves /\ SaveIsOf(s)
  BY DEF ShelfInv, ShelfTypes, ShelfPlaces
<1>2. UNCHANGED <<page, kept, keptMember, form, landing>> /\ s.answer = Nothing
  BY DEF ServeSave, cached
<1>3. ASSUME NEW answer \in {"ok", "refused"}, Replied(s, answer), answer = "ok" => s.op = "delete",
             there' \subseteq Records, raced' \subseteq Characters, texts' \in [Records -> Row], member' \in [Characters -> Homes]
      PROVE  ShelfInv'
  <2> DEFINE replied == [s EXCEPT !.answer = answer]
  <2>1. replied \in Saves /\ replied.of = s.of /\ replied.from = s.from /\ replied.op = s.op /\ replied.values = s.values
        /\ replied.mine = s.mine /\ replied.project = s.project /\ replied.answer = answer
    BY <1>1 DEF Saves
  <2>2. saves' = (saves \ {s}) \cup {replied}
    BY <1>3 DEF Replied
  <2> HIDE DEF replied
  <2> QED BY <1>2, <1>3, <2>1, <2>2, ReplacedSave
<1>4. CASE s.op = "delete" /\ s.of \in there /\ Deleted(s.of) /\ Replied(s, "ok")
  BY <1>1, <1>3, <1>4, DeletedTyped DEF ShelfTypes
<1>5. CASE Replied(s, "refused") /\ UNCHANGED <<there, texts, member, raced>>
  BY <1>1, <1>3, <1>5 DEF ShelfTypes
<1>6. ASSUME NEW r \in KindOf(s.from), s.op # "delete", WriteRow(s, r) PROVE ShelfInv'
  <2> DEFINE written == [s EXCEPT !.answer = "ok", !.made = r]
  <2>1. r \in Records /\ s.values \in Cells
    BY <1>1, <1>6, Placed DEF Saves, SaveIsOf
  <2>2. written \in Saves /\ written.of = s.of /\ written.from = s.from /\ written.op = s.op /\ written.values = s.values
        /\ written.mine = s.mine /\ written.project = s.project /\ written.made = r
    BY <1>1, <2>1 DEF Saves, Names
  <2>3. saves' = (saves \ {s}) \cup {written}
    BY <1>6 DEF WriteRow
  <2> HIDE DEF written
  <2>4. there' \subseteq Records /\ texts' \in [Records -> Row] /\ member' \in [Characters -> Homes]
    BY <1>1, <1>6, <2>1, WriteTyped
  <2>5. raced' \subseteq Characters
    <3>1. s.project # Nothing => KindOf(s.from) = Characters
      BY <1>1, Placed DEF SaveIsOf
    <3> QED BY <1>1, <1>6, <3>1 DEF WriteRow, ShelfTypes
  <2> QED BY <1>2, <1>6, <2>2, <2>3, <2>4, <2>5, ReplacedSave
<1>7. CASE s.op = "save" /\ s.of # New /\ s.of \in there /\ WriteRow(s, s.of)
  <2>1. s.of \in KindOf(s.from)
    BY <1>1, <1>7 DEF SaveIsOf
  <2> QED BY <1>6, <1>7, <2>1
<1>8. CASE /\ s.op = "copy" \/ s.of = New
           /\ \E r \in KindOf(s.from) \ (there \cup System) : WriteRow(s, r)
  <2>1. s.op # "delete"
    BY <1>1, <1>8 DEF SaveIsOf
  <2> QED BY <1>6, <1>8, <2>1
<1> QED BY <1>4, <1>5, <1>7, <1>8 DEF ServeSave

LEMMA UnbusyKeeps ==
  ASSUME ShelfInv, NEW s, form' = Unbusy(s), page' = page, kept' = kept
  PROVE  form' \in Forms \cup {Nothing} /\ FormIsHere'
<1>1. form \in Forms \cup {Nothing} /\ FormIsHere
  BY DEF ShelfInv, ShelfTypes, ShelfPlaces
<1>2. CASE form' = form
  BY <1>1, <1>2 DEF FormIsHere
<1>3. CASE form # Nothing /\ form' = [form EXCEPT !.busy = FALSE]
  <2>1. form' \in Forms /\ form'.of = form.of /\ form'.live = form.live /\ form'.values = form.values /\ form'.project = form.project
    BY <1>1, <1>3 DEF Forms
  <2> QED BY <1>1, <1>3, <2>1 DEF FormIsHere
<1> QED BY <1>2, <1>3 DEF Unbusy

LEMMA FewerSaves ==
  ASSUME ShelfInv, NEW s \in saves
  PROVE  /\ saves \ {s} \subseteq Saves /\ IsFiniteSet(saves \ {s}) /\ Cardinality(saves \ {s}) <= MaxSaves
         /\ \A q \in saves \ {s} : SaveIsOf(q) /\ SaveIsHere(q)
<1>1. IsFiniteSet(saves) /\ Cardinality(saves) <= MaxSaves /\ MaxSaves \in Nat /\ saves \subseteq Saves
  BY ShelfAssumption DEF ShelfInv, ShelfTypes
<1>2. IsFiniteSet(saves \ {s}) /\ Cardinality(saves \ {s}) <= MaxSaves
  BY <1>1, Leaves
<1> QED BY <1>1, <1>2 DEF ShelfInv, ShelfPlaces

LEMMA LostKeepsSave ==
  ASSUME ShelfInv, NEW s \in saves, saves' = saves \ {s}, form' = Unbusy(s),
         UNCHANGED <<there, raced, texts, member, page, kept, keptMember, landing>>
  PROVE  ShelfInv'
<1>1. form' \in Forms \cup {Nothing} /\ FormIsHere'
  BY UnbusyKeeps
<1>2. /\ saves' \subseteq Saves /\ IsFiniteSet(saves') /\ Cardinality(saves') <= MaxSaves
      /\ \A q \in saves' : SaveIsOf(q) /\ SaveIsHere(q)
  BY FewerSaves
<1>3. ShelfTypes
  BY DEF ShelfInv
<1> QED BY <1>1, <1>2, <1>3, CallsKeep DEF ShelfTypes

(* What the panel shows after a save.                                      *)
Panel(s, rows) == IF form # Nothing /\ form.of = s.made
                  THEN [Follow(form, rows) EXCEPT !.busy = FALSE, !.meant = Outstanding(s)]
                  ELSE Form(s.made, TRUE, rows, Outstanding(s))

LEMMA AfterIs ==
  ASSUME ShelfInv, NEW s \in saves, s.answer = "ok", NEW rows
  PROVE  \/ FormAfter(s, rows) = Nothing
         \/ /\ FormAfter(s, rows) = Follow(form, rows) /\ ~GoesToList(s)
            /\ ~s.mine \/ (s.op = "delete" /\ (form # Nothing => form.of # s.of))
         \/ /\ FormAfter(s, rows) = Panel(s, rows) /\ s.mine /\ s.op # "delete" /\ s.from = "presets" /\ ~GoesToList(s)
            /\ page = "presets" /\ s.made \in Presets /\ rows[s.made] # Nothing
<1>1. SaveIsOf(s) /\ SaveIsHere(s)
  BY DEF ShelfInv, ShelfPlaces
<1>2. "presets" \notin Projects
  BY ShelfAssumption DEF Records
<1> QED BY <1>1, <1>2, Placed DEF FormAfter, Panel, SaveIsOf, SaveIsHere, GoesToList

LEMMA PanelTyped ==
  ASSUME ShelfInv, NEW s \in saves, s.made \in Presets, page = "presets", NEW rows \in [Records -> Row \cup {Nothing}],
         rows[s.made] # Nothing
  PROVE  /\ Panel(s, rows) \in Forms /\ Panel(s, rows).of = s.made /\ Panel(s, rows).live
         /\ Panel(s, rows).meant = Outstanding(s) /\ Panel(s, rows).project = Nothing
         /\ \A f \in Fields : Panel(s, rows).values[f].of = s.made
<1>1. form \in Forms \cup {Nothing} /\ FormIsHere /\ s.made \in Names /\ s.made # New /\ s.made \notin Characters /\ s.made \in Records
  BY ShelfAssumption DEF ShelfInv, ShelfTypes, ShelfPlaces, Names, Records
<1> DEFINE left == Outstanding(s)
<1>2. left \in Meanings
  BY <1>1 DEF Outstanding, Meanings, Forms
<1> HIDE DEF left
<1>3. CASE form # Nothing /\ form.of = s.made
  <2> DEFINE f == Follow(form, rows)
  <2>1. form \in Forms /\ form.live /\ form.project = Nothing
    BY <1>1, <1>3, ShelfAssumption DEF FormIsHere
  <2>2. f \in Forms /\ f.of = s.made /\ f.live /\ f.project = Nothing /\ \A x \in Fields : f.values[x].of = s.made
    <3>1. f = form \/ f = Refilled(form, rows)
      BY <1>3, <2>1 DEF Follow
    <3> QED BY <1>1, <1>3, <2>1, <3>1, RefilledTyped DEF FormIsHere
  <2> HIDE DEF f
  <2> DEFINE p == [f EXCEPT !.busy = FALSE, !.meant = left]
  <2>3. p \in Forms /\ p.of = s.made /\ p.live /\ p.meant = left /\ p.project = Nothing /\ p.values = f.values
    BY <1>2, <2>2 DEF Forms
  <2>4. Panel(s, rows) = p
    BY <1>3 DEF Panel, f, left
  <2> HIDE DEF p
  <2> QED BY <2>2, <2>3, <2>4 DEF left
<1>4. CASE ~(form # Nothing /\ form.of = s.made)
  <2> DEFINE yes == TRUE
  <2>1. yes \in BOOLEAN /\ ShelfTypes
    BY DEF ShelfInv
  <2> HIDE DEF yes
  <2> DEFINE p == Form(s.made, yes, rows, left)
  <2>2. p \in Forms /\ p.of = s.made /\ p.live = yes /\ p.meant = left /\ (p.project # Nothing => s.made \in Characters)
        /\ \A x \in Fields : p.values[x].of = s.made
    BY <1>1, <1>2, <2>1, FormTyped
  <2>3. Panel(s, rows) = p
    BY <1>4 DEF Panel, yes, left
  <2> HIDE DEF p
  <2> QED BY <1>1, <2>2, <2>3 DEF left, yes
<1> QED BY <1>3, <1>4

LEMMA SettleKeepsSave ==
  ASSUME ShelfInv, NEW s \in saves, SettleSave(s)
  PROVE  ShelfInv'
<1>1. ShelfTypes /\ page \in Pages /\ (landing => page = "characters")
  BY DEF ShelfInv, ShelfTypes, ShelfPlaces
<1>2. UNCHANGED <<there, raced, texts, member>>
  BY DEF SettleSave, database
<1>3. CASE s.answer # "ok"
  BY <1>2, <1>3, LostKeepsSave DEF SettleSave, cached
<1>4. CASE s.answer = "ok"
  <2> DEFINE rows == Read(KindOf(s.from))
  <2>1. /\ kept' = rows /\ keptMember' = ReadMembers(KindOf(s.from)) /\ form' = FormAfter(s, rows)
        /\ page' = IF GoesToList(s) THEN "projects" ELSE page
        /\ saves' = IF GoesToList(s) THEN Disowned(saves \ {s}) ELSE saves \ {s}
        /\ landing' = (landing /\ ~GoesToList(s))
    BY <1>4 DEF SettleSave
  <2>2. rows \in [Records -> Row \cup {Nothing}] /\ keptMember' \in [Characters -> Homes]
    BY <1>1, <2>1, ReadTyped
  <2> HIDE DEF rows
  <2>3. CASE GoesToList(s)
    <3>1. form' = Nothing /\ landing' = FALSE /\ saves' = Disowned(saves \ {s}) /\ page' \in Pages
      BY <2>1, <2>3 DEF FormAfter, Pages, Lists
    <3>2. saves \ {s} \subseteq saves /\ IsFiniteSet(saves \ {s}) /\ Cardinality(saves \ {s}) <= MaxSaves
      BY FewerSaves
    <3> QED BY <1>2, <2>1, <2>2, <3>1, <3>2, MoveKeeps
  <2>4. CASE ~GoesToList(s)
    <3>1. saves' = saves \ {s} /\ page' = page
      BY <2>1, <2>4
    <3>2. landing' = landing
      BY <1>1, <2>1, <2>4 DEF ShelfTypes
    <3>3. form' \in Forms \cup {Nothing} /\ FormIsHere'
      <4>1. CASE form' = Nothing
        BY <4>1 DEF FormIsHere
      <4>2. CASE form' = Follow(form, rows)
        BY <2>1, <2>2, <3>1, <4>2, FollowKeeps
      <4>3. CASE /\ form' = Panel(s, rows) /\ page = "presets" /\ s.made \in Presets /\ rows[s.made] # Nothing
        <5>1. /\ form' \in Forms /\ form'.of = s.made /\ form'.live /\ form'.project = Nothing
              /\ \A f \in Fields : form'.values[f].of = s.made
          BY <2>2, <4>3, PanelTyped
        <5>2. "presets" \notin Projects
          BY ShelfAssumption DEF Records
        <5> QED BY <2>1, <3>1, <4>3, <5>1, <5>2, Placed DEF FormIsHere
      <4> QED BY <1>4, <2>1, <4>1, <4>2, <4>3, AfterIs
    <3>4. /\ saves' \subseteq Saves /\ IsFiniteSet(saves') /\ Cardinality(saves') <= MaxSaves
          /\ \A q \in saves' : SaveIsOf(q) /\ SaveIsHere(q)
      BY <3>1, FewerSaves
    <3> QED BY <1>1, <1>2, <2>1, <2>2, <3>1, <3>2, <3>3, <3>4, CallsKeep DEF ShelfTypes
  <2> QED BY <2>3, <2>4
<1> QED BY <1>3, <1>4

LEMMA ShelfStep == ShelfInv /\ [ShelfNext]_shelfVars => ShelfInv'
<1> SUFFICES ASSUME ShelfInv, [ShelfNext]_shelfVars PROVE ShelfInv'
  OBVIOUS
<1>1. CASE AnotherTab \/ GoTo \/ OpenForm
  BY <1>1, TabKeeps, GoToKeeps, OpenKeepsForm
<1>2. CASE CloseForm \/ TypeIn \/ PickProject \/ SwitchCategory \/ UploadFirst \/ Landed
  BY <1>2, FormHandledKeeps
<1>3. CASE Submit \/ Remove
  BY <1>3, SubmitKeeps, RemoveKeeps
<1>4. ASSUME NEW kind \in Kinds, Reload(kind) PROVE ShelfInv'
  BY <1>4, ReloadKeeps
<1>5. ASSUME NEW s \in saves, LookUp(s) \/ ServeSave(s) \/ SettleSave(s) PROVE ShelfInv'
  BY <1>5, LookUpKeeps, ServeKeepsSave, SettleKeepsSave
<1>6. ASSUME NEW s \in saves, LostSave(s) PROVE ShelfInv'
  BY <1>6, LostKeepsSave DEF LostSave, database, cached
<1>7. CASE UNCHANGED shelfVars
  BY <1>7 DEF shelfVars, database, cached, ShelfInv, ShelfTypes, ShelfPlaces, FormIsHere, SaveIsOf, SaveIsHere
<1> QED BY <1>1, <1>2, <1>3, <1>4, <1>5, <1>6, <1>7 DEF ShelfNext

LEMMA ShelfMeans == ShelfInv => ShelfTypeOK /\ SavesIntoItsOwn
<1> SUFFICES ASSUME ShelfInv PROVE ShelfTypeOK /\ SavesIntoItsOwn
  OBVIOUS
<1>1. SavesIntoItsOwn
  BY DEF ShelfInv, ShelfPlaces, SaveIsOf, SavesIntoItsOwn
<1>2. form # Nothing => form.of \in Records \cup {New}
  BY DEF ShelfInv, ShelfTypes, Forms, Names
<1> QED BY <1>1, <1>2 DEF ShelfInv, ShelfTypes, ShelfTypeOK, Row, Texts, Homes, Pages

(* A deleted project is in no character; a character that is written is    *)
(* in a project that is there, or the write was overtaken.                 *)
LEMMA DeletedDetaches ==
  ASSUME ShelfTypes, DetachedUnlessRacing, NEW r \in Records, Deleted(r)
  PROVE  DetachedUnlessRacing'
<1>1. /\ there' = there \ {r} /\ raced' = raced
      /\ member' = IF r \in Projects THEN [c \in Characters |-> IF member[c] = r THEN Nothing ELSE member[c]] ELSE member
  BY DEF Deleted, Detached
<1>2. ASSUME NEW c \in Characters, c \in there', member'[c] # Nothing, member'[c] \notin there' PROVE c \in raced'
  <2>1. member'[c] = member[c] /\ member[c] # Nothing /\ c \in there /\ member[c] \in Projects
    BY <1>1, <1>2 DEF ShelfTypes, Homes
  <2>2. member[c] \notin there
    BY <1>1, <1>2, <2>1
  <2> QED BY <1>1, <2>1, <2>2 DEF DetachedUnlessRacing
<1> QED BY <1>2 DEF DetachedUnlessRacing

LEMMA WriteDetaches ==
  ASSUME ShelfTypes, DetachedUnlessRacing, NEW s \in Saves, NEW r \in Records, WriteRow(s, r), r \in Characters /\ s.of # New => r \in there
  PROVE  DetachedUnlessRacing'
<1>1. /\ there' = there \cup {r}
      /\ member' = IF r \in Characters THEN [member EXCEPT ![r] = MemberAfter(s, r)] ELSE member
      /\ raced' = IF s.project # Nothing /\ s.project \notin there THEN raced \cup {r} ELSE raced
  BY DEF WriteRow
<1>2. ASSUME NEW c \in Characters, c \in there', member'[c] # Nothing, member'[c] \notin there' PROVE c \in raced'
  <2>1. CASE c # r \/ s.project = Nothing
    <3>1. member'[c] = member[c] /\ c \in there /\ member[c] \notin there
      BY <1>1, <1>2, <2>1 DEF ShelfTypes, MemberAfter
    <3> QED BY <1>1, <1>2, <3>1 DEF DetachedUnlessRacing
  <2>2. CASE c = r /\ s.project # Nothing
    BY <1>1, <1>2, <2>2 DEF ShelfTypes, MemberAfter
  <2> QED BY <2>1, <2>2
<1> QED BY <1>2 DEF DetachedUnlessRacing

LEMMA DetachedStep == ShelfInv /\ DetachedUnlessRacing /\ [ShelfNext]_shelfVars => DetachedUnlessRacing'
<1> SUFFICES ASSUME ShelfInv, DetachedUnlessRacing, [ShelfNext]_shelfVars PROVE DetachedUnlessRacing'
  OBVIOUS
<1>1. ShelfTypes
  BY DEF ShelfInv
<1>2. CASE UNCHANGED <<there, member, raced>>
  BY <1>2 DEF DetachedUnlessRacing
<1>3. CASE AnotherTab
  <2>1. ASSUME NEW r \in there, Deleted(r) PROVE DetachedUnlessRacing'
    BY <1>1, <2>1, DeletedDetaches DEF ShelfTypes
  <2>2. ASSUME NEW c \in Characters, NEW p \in (Projects \cap there) \cup {Nothing}, member' = [member EXCEPT ![c] = p],
               UNCHANGED <<there, raced>>
        PROVE  DetachedUnlessRacing'
    BY <1>1, <2>2 DEF DetachedUnlessRacing, ShelfTypes
  <2> QED BY <1>2, <1>3, <2>1, <2>2 DEF AnotherTab
<1>4. ASSUME NEW s \in saves, ServeSave(s) PROVE DetachedUnlessRacing'
  <2>1. s \in Saves /\ SaveIsOf(s)
    BY DEF ShelfInv, ShelfTypes, ShelfPlaces
  <2>2. CASE s.of \in there /\ Deleted(s.of)
    BY <1>1, <2>2, DeletedDetaches DEF ShelfTypes
  <2>3. CASE s.of \in there /\ WriteRow(s, s.of)
    BY <1>1, <2>1, <2>3, WriteDetaches DEF ShelfTypes
  <2>4. ASSUME s.op = "copy" \/ s.of = New, NEW r \in KindOf(s.from), WriteRow(s, r) PROVE DetachedUnlessRacing'
    <3>1. r \in Records
      BY <2>1, <2>4, Placed DEF Saves
    <3>2. ASSUME r \in Characters, s.of # New PROVE FALSE
      <4>1. s.from = "characters" /\ KindOf(s.from) = Characters
        BY <2>1, <2>4, <3>2, Placed DEF Saves
      <4>2. s.of \in System
        BY <2>1, <2>4, <3>2 DEF SaveIsOf
      <4> QED BY <2>1, <3>2, <4>1, <4>2, ShelfAssumption DEF SaveIsOf
    <3> QED BY <1>1, <2>1, <2>4, <3>1, <3>2, WriteDetaches
  <2> QED BY <1>2, <1>4, <2>2, <2>3, <2>4 DEF ServeSave
<1>5. ASSUME NEW kind \in Kinds, Reload(kind) PROVE UNCHANGED <<there, member, raced>>
  BY <1>5 DEF Reload, database
<1>6. ASSUME NEW s \in saves, LookUp(s) \/ SettleSave(s) \/ LostSave(s) PROVE UNCHANGED <<there, member, raced>>
  BY <1>6 DEF LookUp, SettleSave, LostSave, database
<1>7. ASSUME GoTo \/ OpenForm \/ CloseForm \/ TypeIn \/ PickProject \/ SwitchCategory \/ UploadFirst \/ Landed \/ Submit \/ Remove
      PROVE  UNCHANGED <<there, member, raced>>
  BY <1>7 DEF GoTo, OpenForm, CloseForm, TypeIn, PickProject, SwitchCategory, UploadFirst, Landed, Submit, Remove, database
<1> QED BY <1>2, <1>3, <1>4, <1>5, <1>6, <1>7 DEF ShelfNext, shelfVars, database

LEMMA DetachedInit == ShelfInit => DetachedUnlessRacing
  BY DEF ShelfInit, DetachedUnlessRacing

(* What was typed.                                                         *)
LEMMA TypedInit == ShelfInit => TypedInv
  BY DEF ShelfInit, TypedInv, FormMeans, SendsWhatWasTyped

LEMMA SameMeaning ==
  ASSUME TypedInv, saves' \subseteq saves, form' = Nothing \/ (form # Nothing /\ form'.meant = form.meant /\ form'.values = form.values)
  PROVE  TypedInv'
  BY DEF TypedInv, FormMeans, SendsWhatWasTyped, Awaited

(* A form on which nothing is typed.                                       *)
LEMMA NothingTyped ==
  ASSUME TypedInv, saves' \subseteq saves, form' # Nothing => form'.meant = Untouched
  PROVE  TypedInv'
<1>1. \A f \in Fields : Untouched[f] = Nothing
  BY DEF Untouched
<1>2. FormMeans' /\ \A s \in saves' : Awaited(s)'
  BY <1>1 DEF FormMeans, Awaited
<1>3. SendsWhatWasTyped'
  BY DEF TypedInv, SendsWhatWasTyped
<1> QED BY <1>2, <1>3 DEF TypedInv

(* A form that follows what is read loses nothing that was typed, unless   *)
(* what is read is another record.                                         *)
LEMMA FollowMeans ==
  ASSUME ShelfInv, TypedInv, NEW rows \in [Records -> Row \cup {Nothing}], form' = Follow(form, rows), saves' \subseteq saves,
         Disturbs(form, rows) => form.meant = Untouched
  PROVE  TypedInv'
<1>1. form \in Forms \cup {Nothing}
  BY DEF ShelfInv, ShelfTypes
<1>2. CASE form' = Nothing \/ form' = form
  BY <1>2, SameMeaning
<1>3. CASE form' # Nothing /\ form' # form
  <2>1. form'.meant = form.meant /\ form.meant = Untouched
    BY <1>1, <1>3, FollowTyped
  <2> QED BY <2>1, NothingTyped
<1> QED BY <1>2, <1>3

LEMMA SettleMeans ==
  ASSUME "quiet" \in KeptShelf, ShelfInv, TypedInv, NEW s \in saves, SettleSave(s), s.answer = "ok", ~GoesToList(s)
  PROVE  TypedInv'
<1> DEFINE rows == Read(KindOf(s.from))
<1>1. /\ form' = FormAfter(s, rows) /\ saves' = saves \ {s}
      /\ Disturbs(form, rows) => form.of = s.of
  BY DEF SettleSave
<1>2. rows \in [Records -> Row \cup {Nothing}]
  BY ReadTyped DEF ShelfInv
<1> HIDE DEF rows
<1>3. CASE form' = Nothing
  BY <1>1, <1>3, NothingTyped
<1>4. CASE /\ form' = Follow(form, rows)
           /\ ~s.mine \/ (s.op = "delete" /\ (form # Nothing => form.of # s.of))
  <2>1. ASSUME Disturbs(form, rows) PROVE form.meant = Untouched
    BY <1>1, <1>4, <2>1 DEF Disturbs, TypedInv, Awaited
  <2> QED BY <1>1, <1>2, <1>4, <2>1, FollowMeans
<1>5. CASE /\ form' = Panel(s, rows) /\ s.mine /\ s.op # "delete" /\ s.from = "presets"
           /\ page = "presets" /\ s.made \in Presets /\ rows[s.made] # Nothing
  <2>1. form'.meant = Outstanding(s)
    BY <1>2, <1>5, PanelTyped
  <2>2. \A f \in Fields : form # Nothing => form.meant[f] = Nothing \/ form.meant[f] = s.values[f].by
    BY <1>5 DEF TypedInv, Awaited, SendsWhatWasTyped
  <2>3. Outstanding(s) = Untouched
    BY <2>2 DEF Outstanding, Untouched
  <2> QED BY <1>1, <2>1, <2>3, NothingTyped
<1> QED BY <1>1, <1>3, <1>4, <1>5, AfterIs

(* The page is left: no form is open.                                      *)
LEMMA MoveMeans ==
  ASSUME ShelfInv, TypedInv, NEW rest, rest \subseteq saves, IsFiniteSet(rest), Cardinality(rest) <= MaxSaves,
         saves' = Disowned(rest), form' = Nothing
  PROVE  TypedInv'
<1>1. rest \subseteq Saves
  BY DEF ShelfInv, ShelfTypes
<1>2. \A d \in saves' : \E s \in rest : d.values = s.values /\ d.meant = s.meant
  BY <1>1, DisownedTyped
<1>3. SendsWhatWasTyped'
  BY <1>2 DEF TypedInv, SendsWhatWasTyped
<1> QED BY <1>3 DEF TypedInv, FormMeans, Awaited

LEMMA UnbusyMeans ==
  ASSUME ShelfInv, TypedInv, NEW s, form' = Unbusy(s), saves' \subseteq saves
  PROVE  TypedInv'
<1>1. CASE form = Nothing
  BY <1>1, SameMeaning DEF Unbusy
<1>2. CASE form # Nothing
  <2>1. form \in Forms
    BY <1>2 DEF ShelfInv, ShelfTypes
  <2>2. form'.meant = form.meant /\ form'.values = form.values
    BY <1>2, <2>1 DEF Unbusy, Forms
  <2> QED BY <1>2, <2>2, SameMeaning
<1> QED BY <1>1, <1>2

(* A call is sent, or the server gets on with one, under the same form.    *)
LEMMA CallMeans ==
  ASSUME ShelfInv, TypedInv, form' = form \/ (form # Nothing /\ form'.meant = form.meant /\ form'.values = form.values),
         NEW q, saves' \subseteq saves \cup {q}, \A f \in Fields : q.meant[f] # Nothing => q.values[f].by = q.meant[f], Awaited(q)
  PROVE  TypedInv'
<1>1. SendsWhatWasTyped'
  BY DEF TypedInv, SendsWhatWasTyped
<1>2. FormMeans'
  BY DEF TypedInv, FormMeans
<1>3. \A s \in saves' : Awaited(s)'
  BY DEF TypedInv, Awaited
<1> QED BY <1>1, <1>2, <1>3 DEF TypedInv

LEMMA AnswerMeans ==
  ASSUME ShelfInv, TypedInv, UNCHANGED form, NEW s \in saves, NEW q, saves' = (saves \ {s}) \cup {q},
         q.meant = s.meant, q.values = s.values, q.mine = s.mine, q.op = s.op, q.from = s.from
  PROVE  TypedInv'
<1>1. Awaited(q) /\ \A f \in Fields : q.meant[f] # Nothing => q.values[f].by = q.meant[f]
  BY DEF TypedInv, Awaited, SendsWhatWasTyped
<1> QED BY <1>1, CallMeans

LEMMA TypedStep ==
  ASSUME {"quiet", "uploads", "waits", "tabs"} \subseteq KeptShelf, ShelfInv, TypedInv, [ShelfNext]_shelfVars
  PROVE  TypedInv'
<1>0. form \in Forms \cup {Nothing} /\ saves \subseteq Saves /\ FormIsHere
  BY DEF ShelfInv, ShelfTypes, ShelfPlaces
<1>1. CASE UNCHANGED <<form, saves>>
  BY <1>1, SameMeaning
<1>2. CASE AnotherTab \/ UploadFirst
  BY <1>1, <1>2 DEF AnotherTab, UploadFirst
<1>3. CASE GoTo
  <2>1. PICK place \in Lists \cup {"away"} \cup Projects :
           /\ form' = Turned(place)
           /\ saves' = IF page \in Projects /\ place \in Projects THEN saves ELSE Disowned(saves)
    BY <1>3 DEF GoTo
  <2>2. CASE page \in Projects /\ place \in Projects
    BY <2>1, <2>2, NothingTyped DEF Turned, Form
  <2>3. CASE ~(page \in Projects /\ place \in Projects)
    <3>1. saves' = Disowned(saves) /\ form' = Nothing
      BY <2>1, <2>3 DEF Turned
    <3>2. IsFiniteSet(saves) /\ Cardinality(saves) <= MaxSaves
      BY DEF ShelfInv, ShelfTypes
    <3> QED BY <3>1, <3>2, MoveMeans
  <2> QED BY <2>2, <2>3
<1>4. CASE OpenForm
  <2>1. form'.meant = Untouched /\ saves' = saves
    BY <1>4 DEF OpenForm, Form
  <2> QED BY <2>1, NothingTyped
<1>5. CASE CloseForm
  BY <1>5, NothingTyped DEF CloseForm
<1>6. CASE TypeIn
  <2>1. PICK f \in Fields, v \in Typed : form' = [form EXCEPT !.values[f] = [of |-> form.of, by |-> v], !.meant[f] = v]
    BY <1>6 DEF TypeIn
  <2>2. form \in Forms /\ form # Nothing /\ saves = {} /\ saves' = {}
    BY <1>0, <1>6 DEF TypeIn, Patient
  <2>3. \A x \in Fields : form.meant[x] # Nothing => form.values[x].by = form.meant[x]
    BY <2>2 DEF TypedInv, FormMeans
  <2>4. \A x \in Fields : form'.meant[x] = (IF x = f THEN v ELSE form.meant[x]) /\ (x # f => form'.values[x] = form.values[x])
                          /\ form'.values[f] = [of |-> form.of, by |-> v]
    BY <2>1, <2>2 DEF Forms, Cells, Meanings
  <2>5. FormMeans'
    BY <2>3, <2>4 DEF FormMeans
  <2> QED BY <2>2, <2>5 DEF TypedInv, SendsWhatWasTyped
<1>7. CASE PickProject
  <2>1. PICK p : form' = [form EXCEPT !.project = p]
    BY <1>7 DEF PickProject
  <2>2. form \in Forms /\ form # Nothing /\ saves' = saves
    BY <1>0, <1>7 DEF PickProject
  <2>3. form'.meant = form.meant /\ form'.values = form.values
    BY <2>1, <2>2 DEF Forms
  <2> QED BY <2>2, <2>3, SameMeaning
<1>8. CASE SwitchCategory
  <2>1. form \in Forms /\ form # Nothing /\ form.meant = Untouched /\ saves' = saves
    BY <1>0, <1>8 DEF SwitchCategory
  <2>2. form'.meant = form.meant
    BY <1>8, <2>1 DEF SwitchCategory, Forms
  <2> QED BY <2>1, <2>2, NothingTyped
<1>9. CASE Landed
  <2>1. saves' = saves /\ (form' = Nothing \/ form' = Form(New, FALSE, kept, Untouched))
    BY <1>9 DEF Landed
  <2> QED BY <2>1, NothingTyped DEF Form
<1>10. CASE Submit
  <2>1. form # Nothing /\ form \in Forms
    BY <1>0, <1>10 DEF Submit
  <2>2. form'.meant = form.meant /\ form'.values = form.values
    BY <1>10, <2>1 DEF Submit, Forms
  <2>3. PICK clear : saves' = saves \cup {[Sent(SaveOrCopy, SavedRecord) EXCEPT
                        !.values = form.values, !.meant = form.meant, !.project = form.project, !.clear = clear]}
    BY <1>10 DEF Submit
  <2> DEFINE q == [Sent(SaveOrCopy, SavedRecord) EXCEPT
                        !.values = form.values, !.meant = form.meant, !.project = form.project, !.clear = clear]
  <2>4. q.meant = form.meant /\ q.values = form.values /\ q.mine = TRUE
    BY DEF Sent
  <2>5. saves' = saves \cup {q}
    BY <2>3
  <2> HIDE DEF q
  <2>6. Awaited(q) /\ \A f \in Fields : q.meant[f] # Nothing => q.values[f].by = q.meant[f]
    BY <2>1, <2>4 DEF Awaited, TypedInv, FormMeans
  <2> QED BY <2>1, <2>2, <2>5, <2>6, CallMeans
<1>11. CASE Remove
  <2>1. PICK r : saves' = saves \cup {Sent("delete", r)}
    BY <1>11 DEF Remove
  <2> DEFINE q == Sent("delete", r)
  <2>2. q.meant = Untouched /\ q.op = "delete" /\ q.mine = TRUE
    BY DEF Sent
  <2>3. saves' = saves \cup {q} /\ form' = form
    BY <1>11, <2>1 DEF Remove
  <2> HIDE DEF q
  <2>4. Awaited(q) /\ \A f \in Fields : q.meant[f] # Nothing => q.values[f].by = q.meant[f]
    BY <2>2 DEF Awaited, Untouched
  <2> QED BY <2>3, <2>4, CallMeans
<1>12. ASSUME NEW kind \in Kinds, Reload(kind) PROVE TypedInv'
  <2>1. Read(kind) \in [Records -> Row \cup {Nothing}]
    BY ReadTyped DEF ShelfInv
  <2>2. form' = Follow(form, Read(kind)) /\ saves' = saves /\ ~Disturbs(form, Read(kind))
    BY <1>12 DEF Reload
  <2> QED BY <2>1, <2>2, FollowMeans
<1>13. ASSUME NEW s \in saves, LookUp(s) \/ ServeSave(s) PROVE TypedInv'
  <2>1. s \in Saves /\ form' = form
    BY <1>0, <1>13 DEF LookUp, ServeSave
  <2>2. ASSUME NEW q, saves' = (saves \ {s}) \cup {q},
               q.meant = s.meant, q.values = s.values, q.mine = s.mine, q.op = s.op, q.from = s.from
        PROVE  TypedInv'
    BY <2>1, <2>2, AnswerMeans
  <2>3. CASE saves' = (saves \ {s}) \cup {[s EXCEPT !.resolved = TRUE]}
    <3> DEFINE q == [s EXCEPT !.resolved = TRUE]
    <3>1. q.meant = s.meant /\ q.values = s.values /\ q.mine = s.mine /\ q.op = s.op /\ q.from = s.from
      BY <2>1 DEF Saves
    <3> HIDE DEF q
    <3>2. saves' = (saves \ {s}) \cup {q}
      BY <2>3 DEF q
    <3> QED BY <2>2, <3>1, <3>2
  <2>4. ASSUME NEW a, Replied(s, a) PROVE TypedInv'
    <3> DEFINE q == [s EXCEPT !.answer = a]
    <3>1. q.meant = s.meant /\ q.values = s.values /\ q.mine = s.mine /\ q.op = s.op /\ q.from = s.from
      BY <2>1 DEF Saves
    <3>2. saves' = (saves \ {s}) \cup {q}
      BY <2>4 DEF Replied
    <3> HIDE DEF q
    <3> QED BY <2>2, <3>1, <3>2
  <2>5. ASSUME NEW r, WriteRow(s, r) PROVE TypedInv'
    <3> DEFINE q == [s EXCEPT !.answer = "ok", !.made = r]
    <3>1. q.meant = s.meant /\ q.values = s.values /\ q.mine = s.mine /\ q.op = s.op /\ q.from = s.from
      BY <2>1 DEF Saves
    <3>2. saves' = (saves \ {s}) \cup {q}
      BY <2>5 DEF WriteRow
    <3> HIDE DEF q
    <3> QED BY <2>2, <3>1, <3>2
  <2> QED BY <1>13, <2>3, <2>4, <2>5 DEF LookUp, ServeSave
<1>14. ASSUME NEW s \in saves, SettleSave(s) PROVE TypedInv'
  <2>1. CASE s.answer # "ok"
    <3>1. saves' \subseteq saves /\ form' = Unbusy(s)
      BY <1>14, <2>1 DEF SettleSave
    <3> QED BY <3>1, UnbusyMeans
  <2>2. CASE s.answer = "ok" /\ GoesToList(s)
    <3>1. form' = Nothing /\ saves' = Disowned(saves \ {s})
      BY <1>14, <2>2 DEF SettleSave, FormAfter
    <3> QED BY <3>1, FewerSaves, MoveMeans
  <2>3. CASE s.answer = "ok" /\ ~GoesToList(s)
    BY <1>14, <2>3, SettleMeans
  <2> QED BY <2>1, <2>2, <2>3
<1>15. ASSUME NEW s \in saves, LostSave(s) PROVE TypedInv'
  BY <1>15, UnbusyMeans DEF LostSave
<1> QED BY <1>1, <1>2, <1>3, <1>4, <1>5, <1>6, <1>7, <1>8, <1>9, <1>10, <1>11, <1>12, <1>13, <1>14, <1>15 DEF ShelfNext, shelfVars
-----------------------------------------------------------------------------
FeedRows == [work : Works, liked : BOOLEAN]
FeedAnswers == [rows : SUBSET FeedRows]
FeedLoads == [shape : {"pages"}, answer : FeedAnswers \cup {Nothing}]
HeartCalls == [kind : {"like", "unpublish"}, n : Nat, work : Works, to : BOOLEAN, answer : {Nothing, "ok", "refused"}]

GalleryInv ==
    /\ exhibited \subseteq Works /\ hearted \subseteq Works
    /\ feedTab \in Feeds \cup {"away"} /\ viewed \in Works \cup {Nothing}
    /\ feeds \in [Feeds -> FeedAnswers \cup {Nothing}]
    /\ feeding \in [Feeds -> FeedLoads \cup {Nothing}]
    /\ wanted \in [Works -> BOOLEAN \cup {Nothing}]
    /\ hearts \subseteq HeartCalls /\ IsFiniteSet(hearts) /\ Cardinality(hearts) <= MaxHearts
    /\ taps \in Nat

LEMMA FeedsWatched ==
  ASSUME GalleryInv, NEW t
  PROVE  Watched(feeding, [f \in Feeds \cap {t} |-> "pages"]) \in [Feeds -> FeedLoads \cup {Nothing}]
  BY DEF GalleryInv, Watched, Load, FeedLoads

LEMMA GalleryInit == CommunityInit => GalleryInv
<1> SUFFICES ASSUME CommunityInit PROVE GalleryInv
  OBVIOUS
<1>1. feeds \in [Feeds -> FeedAnswers \cup {Nothing}] /\ feeding \in [Feeds -> FeedLoads \cup {Nothing}]
  BY DEF CommunityInit, Watched, Load, FeedLoads, FeedWatch
<1>2. wanted \in [Works -> BOOLEAN \cup {Nothing}]
  BY DEF CommunityInit
<1>3. hearts = {} /\ IsFiniteSet({}) /\ Cardinality({}) = 0
  BY FS_EmptySet DEF CommunityInit
<1> QED BY <1>1, <1>2, <1>3, CommunityAssumption DEF CommunityInit, GalleryInv, Feeds

LEMMA GalleryStep == GalleryInv /\ [CommunityNext]_communityVars => GalleryInv'
<1> SUFFICES ASSUME GalleryInv, [CommunityNext]_communityVars PROVE GalleryInv'
  OBVIOUS
<1> USE DEF GalleryInv, gallery, stand
<1>1. CASE TakenDown
  BY <1>1, SMT DEF TakenDown, Tap
<1>2. CASE Stroll
  <2>1. PICK t \in (Feeds \cup {"away"}) \ {feedTab} :
           feedTab' = t /\ feeding' = Watched(feeding, [f \in Feeds \cap {t} |-> "pages"])
    BY <1>2 DEF Stroll
  <2>2. feeding' \in [Feeds -> FeedLoads \cup {Nothing}]
    BY <2>1, FeedsWatched
  <2>3. viewed' \in Works \cup {Nothing} /\ taps' \in Nat
    BY <1>2 DEF Stroll, Tap
  <2> QED BY <1>2, <2>1, <2>2, <2>3 DEF Stroll
<1>3. CASE FeedRefocus
  <2>1. feeding' \in [Feeds -> FeedLoads \cup {Nothing}]
    BY <1>3, FeedsWatched DEF FeedRefocus, FeedWatch
  <2> QED BY <1>3, <2>1 DEF FeedRefocus
<1>4. CASE ViewWork
  <2>1. viewed' \in Works
    BY <1>4 DEF ViewWork, RowsShown, FeedAnswers, FeedRows
  <2> QED BY <1>4, <2>1 DEF ViewWork
<1>5. CASE CloseViewer
  BY <1>5 DEF CloseViewer
<1>6. ASSUME NEW kind \in {"like", "unpublish"}, NEW w \in Works, NEW to \in BOOLEAN, Tapped(kind, w, to)
      PROVE  hearts' \subseteq HeartCalls /\ IsFiniteSet(hearts') /\ Cardinality(hearts') <= MaxHearts /\ taps' \in Nat
  <2> DEFINE c == [kind |-> kind, n |-> taps, work |-> w, to |-> to, answer |-> Nothing]
  <2>1. hearts' = hearts \cup {c} /\ Cardinality(hearts) < MaxHearts /\ taps' \in Nat
    BY <1>6 DEF Tapped, Tap
  <2>2. c \in HeartCalls
    BY DEF HeartCalls
  <2> HIDE DEF c
  <2>3. IsFiniteSet(hearts \cup {c}) /\ Cardinality(hearts \cup {c}) <= MaxHearts
    BY <2>1, Joins, CommunityAssumption
  <2> QED BY <2>1, <2>2, <2>3
<1>7. CASE PressHeart
  <2>1. PICK r \in RowsShown : r.work = viewed /\ Tapped("like", viewed, ~r.liked)
                               /\ wanted' = [wanted EXCEPT ![viewed] = ~r.liked]
    BY <1>7 DEF PressHeart
  <2>2. r.work \in Works /\ r.liked \in BOOLEAN
    BY <2>1 DEF RowsShown, FeedAnswers, FeedRows
  <2>3. wanted' \in [Works -> BOOLEAN \cup {Nothing}]
    BY <2>1, <2>2
  <2>4. (~r.liked) \in BOOLEAN
    OBVIOUS
  <2>5. hearts' \subseteq HeartCalls /\ IsFiniteSet(hearts') /\ Cardinality(hearts') <= MaxHearts /\ taps' \in Nat
    BY <1>6, <2>1, <2>2, <2>4
  <2> QED BY <1>7, <2>3, <2>5 DEF PressHeart
<1>8. CASE PressUnpublish
  <2>1. Tapped("unpublish", viewed, FALSE) /\ viewed \in Works
    BY <1>8, CommunityAssumption DEF PressUnpublish
  <2> DEFINE no == FALSE
  <2>2. no \in BOOLEAN /\ Tapped("unpublish", viewed, no)
    BY <2>1
  <2> HIDE DEF no
  <2>3. hearts' \subseteq HeartCalls /\ IsFiniteSet(hearts') /\ Cardinality(hearts') <= MaxHearts /\ taps' \in Nat
    BY <1>6, <2>1, <2>2
  <2> QED BY <1>8, <2>3 DEF PressUnpublish
<1>9. ASSUME NEW f \in Feeds, FeedRead(f) PROVE GalleryInv'
  <2>1. FeedAnswer(f) \in FeedAnswers
    <3>1. ASSUME NEW w \in InFeed(f) PROVE [work |-> w, liked |-> w \in hearted] \in FeedRows
      <4>1. w \in Works
        BY DEF InFeed
      <4>2. (w \in hearted) \in BOOLEAN
        OBVIOUS
      <4> QED BY <4>1, <4>2, Zenon DEF FeedRows
    <3>2. {[work |-> w, liked |-> w \in hearted] : w \in InFeed(f)} \in SUBSET FeedRows
      BY <3>1, Zenon
    <3> QED BY <3>2, Zenon DEF FeedAnswer, FeedAnswers
  <2>2. feeding' \in [Feeds -> FeedLoads \cup {Nothing}]
    BY <1>9, <2>1 DEF FeedRead, FeedLoads
  <2> QED BY <1>9, <2>2 DEF FeedRead
<1>10. ASSUME NEW f \in Feeds, FeedArrives(f) PROVE GalleryInv'
  <2>1. feeds' \in [Feeds -> FeedAnswers \cup {Nothing}]
    BY <1>10 DEF FeedArrives, FeedLoads
  <2>2. feeding' \in [Feeds -> FeedLoads \cup {Nothing}]
    BY <1>10 DEF FeedArrives
  <2> QED BY <1>10, <2>1, <2>2 DEF FeedArrives
<1>11. ASSUME NEW c \in hearts, NEW answer \in {"ok", "refused"}, Responds(c, answer)
       PROVE  hearts' \subseteq HeartCalls /\ IsFiniteSet(hearts') /\ Cardinality(hearts') <= MaxHearts
  <2>1. hearts' = (hearts \ {c}) \cup {[c EXCEPT !.answer = answer]} /\ [c EXCEPT !.answer = answer] \in HeartCalls
    BY <1>11 DEF Responds, HeartCalls
  <2> QED BY <2>1, Replaced, CommunityAssumption
<1>12. ASSUME NEW c \in hearts, ServeLike(c) \/ ServeUnlike(c) \/ ServeUnpublish(c) PROVE GalleryInv'
  <2>1. Responds(c, "ok") \/ Responds(c, "refused")
    BY <1>12 DEF ServeLike, ServeUnlike, ServeUnpublish
  <2>2. c.work \in Works
    BY DEF HeartCalls
  <2>3. exhibited' \subseteq Works /\ hearted' \subseteq Works
    BY <1>12, <2>2 DEF ServeLike, ServeUnlike, ServeUnpublish
  <2> QED BY <1>11, <1>12, <2>1, <2>3 DEF ServeLike, ServeUnlike, ServeUnpublish
<1>13. ASSUME NEW c \in hearts, hearts' = hearts \ {c}
       PROVE  hearts' \subseteq HeartCalls /\ IsFiniteSet(hearts') /\ Cardinality(hearts') <= MaxHearts
  BY <1>13, Leaves, CommunityAssumption
<1>14. ASSUME NEW c \in hearts, HeartSettles(c) PROVE GalleryInv'
  <2>1. c.to \in BOOLEAN
    BY DEF HeartCalls
  <2>2. ASSUME NEW rows \in SUBSET FeedRows PROVE Patched(c, rows) \in SUBSET FeedRows
    BY <2>1 DEF Patched, FeedRows
  <2>3. feeds' \in [Feeds -> FeedAnswers \cup {Nothing}]
    BY <1>14, <2>2 DEF HeartSettles, FeedAnswers
  <2> QED BY <1>13, <1>14, <2>3 DEF HeartSettles
<1>15. ASSUME NEW c \in hearts, HeartFails(c) PROVE GalleryInv'
  <2>1. wanted' \in [Works -> BOOLEAN \cup {Nothing}]
    BY <1>15 DEF HeartFails
  <2> QED BY <1>13, <1>15, <2>1 DEF HeartFails
<1>16. CASE UNCHANGED communityVars
  BY <1>16 DEF communityVars
<1> QED BY <1>1, <1>2, <1>3, <1>4, <1>5, <1>7, <1>8, <1>9, <1>10, <1>12, <1>14, <1>15, <1>16 DEF CommunityNext
-----------------------------------------------------------------------------
Like(c) == c.kind = "like"
(* A press on a heart that is under way is the last one on its work, the   *)
(* feeds are loaded while nothing is pressed, and what is loaded is what   *)
(* the server has by now.                                                  *)
OneHeart == \A c, d \in hearts : Like(c) /\ Like(d) /\ c.work = d.work => c = d
HeartIsWanted == \A c \in hearts : Like(c) => wanted[c.work] = c.to
HeartIsServed == \A c \in hearts : Like(c) /\ c.answer = "ok" => (c.to <=> c.work \in hearted)
LoadsApart == hearts # {} => \A f \in Feeds : feeding[f] = Nothing
LoadsAgree == \A f \in Feeds : feeding[f] # Nothing /\ feeding[f].answer # Nothing =>
                 \A r \in feeding[f].answer.rows : r.liked <=> r.work \in hearted
(* LikesAsPressed, of one work. *)
AsPressed(w) == wanted[w] # Nothing /\ ~UnderWay("like", w) =>
                   /\ wanted[w] <=> (w \in hearted)
                   /\ \A f \in Feeds : feeds[f] # Nothing => \A r \in feeds[f].rows : r.work = w => (r.liked <=> wanted[w])
HeartInv == OneHeart /\ HeartIsWanted /\ HeartIsServed /\ LoadsApart /\ LoadsAgree /\ \A w \in Works : AsPressed(w)

LEMMA HeartInit == CommunityInit => HeartInv
<1> SUFFICES ASSUME CommunityInit PROVE HeartInv
  OBVIOUS
<1>1. hearts = {} /\ wanted = [w \in Works |-> Nothing] /\ feeding = Watched(feeds, FeedWatch)
      /\ feeds = [f \in Feeds |-> Nothing]
  BY DEF CommunityInit
<1>2. LoadsAgree
  BY <1>1 DEF LoadsAgree, Watched, Load
<1> QED BY <1>1, <1>2 DEF HeartInv, OneHeart, HeartIsWanted, HeartIsServed, LoadsApart, AsPressed

(* What does not touch the hearts: the pages, and other authors. *)
FeedsAgree == \A f \in Feeds : \/ feeds'[f] = feeds[f]
                               \/ hearts = {} /\ \A r \in feeds'[f].rows : r.liked <=> r.work \in hearted
LEMMA HeartsRest ==
  ASSUME GalleryInv, HeartInv, UNCHANGED <<hearted, hearts, wanted>>, LoadsApart', LoadsAgree', FeedsAgree
  PROVE  HeartInv'
<1>1. OneHeart' /\ HeartIsWanted' /\ HeartIsServed' /\ LoadsApart' /\ LoadsAgree'
  BY DEF HeartInv, OneHeart, HeartIsWanted, HeartIsServed, LoadsApart
<1>2. ASSUME NEW w \in Works PROVE AsPressed(w)'
  BY DEF HeartInv, AsPressed, UnderWay, FeedsAgree
<1> QED BY <1>1, <1>2 DEF HeartInv

(* Loads that are asked for have no answer yet. *)
LEMMA LoadsBegin ==
  ASSUME GalleryInv, HeartInv, NEW t, feeding' = Watched(feeding, [f \in Feeds \cap {t} |-> "pages"]), UNCHANGED hearted
  PROVE  LoadsAgree'
  BY DEF HeartInv, LoadsAgree, Watched, Load, GalleryInv

LEMMA HeartStep ==
  ASSUME "quiet" \in KeptCommunity, "presses" \in KeptCommunity,
         GalleryInv, HeartInv, [CommunityNext]_communityVars
  PROVE  HeartInv'
<1> USE DEF gallery, stand
<1>0. /\ LoadsApart /\ LoadsAgree /\ OneHeart /\ HeartIsWanted /\ HeartIsServed
      /\ \A w \in Works : AsPressed(w)
      /\ hearts \subseteq HeartCalls /\ Nothing \notin {"ok", "refused"}
  BY CommunityAssumption DEF HeartInv, GalleryInv
<1>1. CASE TakenDown \/ ViewWork \/ CloseViewer \/ UNCHANGED communityVars
  <2>1. UNCHANGED <<hearted, hearts, wanted, feeding, feeds>>
    BY <1>1 DEF TakenDown, ViewWork, CloseViewer, communityVars
  <2>2. LoadsApart' /\ LoadsAgree' /\ FeedsAgree
    BY <1>0, <2>1 DEF LoadsApart, LoadsAgree, FeedsAgree
  <2> QED BY <2>1, <2>2, HeartsRest
<1>2. CASE Stroll
  <2>1. PICK t : feeding' = Watched(feeding, [f \in Feeds \cap {t} |-> "pages"])
    BY <1>2 DEF Stroll
  <2>2. hearts = {} /\ UNCHANGED <<hearted, hearts, wanted, feeds>>
    BY <1>2 DEF Stroll, Unhurried
  <2>3. LoadsAgree'
    BY <2>1, <2>2, LoadsBegin
  <2>4. LoadsApart' /\ FeedsAgree
    BY <2>2 DEF LoadsApart, FeedsAgree
  <2> QED BY <2>2, <2>3, <2>4, HeartsRest
<1>3. CASE FeedRefocus
  <2>1. feeding' = Watched(feeding, [f \in Feeds \cap {feedTab} |-> "pages"])
    BY <1>3 DEF FeedRefocus, FeedWatch
  <2>2. hearts = {} /\ UNCHANGED <<hearted, hearts, wanted, feeds>>
    BY <1>3 DEF FeedRefocus, Unhurried
  <2>3. LoadsAgree'
    BY <2>1, <2>2, LoadsBegin
  <2>4. LoadsApart' /\ FeedsAgree
    BY <2>2 DEF LoadsApart, FeedsAgree
  <2> QED BY <2>2, <2>3, <2>4, HeartsRest
<1>4. ASSUME NEW f \in Feeds, FeedRead(f) PROVE HeartInv'
  <2>1. hearts = {} /\ UNCHANGED <<hearted, hearts, wanted, feeds>>
    BY <1>0, <1>4 DEF FeedRead, LoadsApart
  <2>2. /\ feeding' = [feeding EXCEPT ![f].answer = FeedAnswer(f)] /\ feeding[f] \in FeedLoads
        /\ feeding \in [Feeds -> FeedLoads \cup {Nothing}]
    BY <1>4 DEF FeedRead, GalleryInv
  <2>3. \A r \in FeedAnswer(f).rows : r.liked <=> r.work \in hearted
    <3>1. FeedAnswer(f).rows = {[work |-> w, liked |-> w \in hearted] : w \in InFeed(f)}
      BY DEF FeedAnswer
    <3>2. \A w \in InFeed(f) : LET r == [work |-> w, liked |-> w \in hearted] IN r.liked <=> r.work \in hearted
      OBVIOUS
    <3> QED BY <3>1, <3>2
  <2>4. feeding'[f].answer = FeedAnswer(f) /\ \A g \in Feeds \ {f} : feeding'[g] = feeding[g]
    BY <2>2 DEF FeedLoads
  <2>5. LoadsAgree'
    BY <1>0, <2>1, <2>3, <2>4 DEF LoadsAgree
  <2>6. LoadsApart' /\ FeedsAgree
    BY <2>1 DEF LoadsApart, FeedsAgree
  <2> QED BY <2>1, <2>5, <2>6, HeartsRest
<1>5. ASSUME NEW f \in Feeds, FeedArrives(f) PROVE HeartInv'
  <2>1. hearts = {} /\ UNCHANGED <<hearted, hearts, wanted>>
    BY <1>0, <1>5 DEF FeedArrives, LoadsApart
  <2>2. /\ feeding \in [Feeds -> FeedLoads \cup {Nothing}] /\ feeds \in [Feeds -> FeedAnswers \cup {Nothing}]
        /\ feeds' = [feeds EXCEPT ![f] = feeding[f].answer] /\ feeding' = [feeding EXCEPT ![f] = Nothing]
        /\ \A r \in feeding[f].answer.rows : r.liked <=> r.work \in hearted
    BY <1>0, <1>5 DEF FeedArrives, GalleryInv, LoadsAgree
  <2>3. LoadsAgree'
    BY <1>0, <2>1, <2>2 DEF LoadsAgree
  <2>4. LoadsApart' /\ FeedsAgree
    BY <2>1, <2>2 DEF LoadsApart, FeedsAgree
  <2> QED BY <2>1, <2>3, <2>4, HeartsRest
<1>6. CASE PressHeart
  <2>1. PICK r \in RowsShown : /\ r.work = viewed /\ ~UnderWay("like", viewed) /\ Tapped("like", viewed, ~r.liked)
                               /\ wanted' = [wanted EXCEPT ![viewed] = ~r.liked]
    BY <1>6 DEF PressHeart
  <2> DEFINE c == [kind |-> "like", n |-> taps, work |-> viewed, to |-> ~r.liked, answer |-> Nothing]
  <2>2. hearts' = hearts \cup {c} /\ UNCHANGED <<hearted, feeds, feeding>> /\ \A f \in Feeds : feeding[f] = Nothing
    BY <1>6, <2>1 DEF Tapped, Undisturbed, PressHeart
  <2>3. c.kind = "like" /\ c.work = viewed /\ c.to = ~r.liked /\ c.answer # "ok" /\ wanted \in [Works -> BOOLEAN \cup {Nothing}]
        /\ viewed \in Works
    BY <1>0, <2>1 DEF GalleryInv, RowsShown, FeedAnswers, FeedRows
  <2> HIDE DEF c
  <2>4. \A d \in hearts : Like(d) => d.work # viewed
    BY <2>1 DEF UnderWay, Like
  <2>5. OneHeart' /\ HeartIsServed' /\ LoadsApart' /\ LoadsAgree'
    BY <1>0, <2>2, <2>3, <2>4 DEF OneHeart, HeartIsServed, LoadsApart, LoadsAgree, Like
  <2>6. HeartIsWanted'
    BY <1>0, <2>1, <2>2, <2>3, <2>4 DEF HeartIsWanted, Like, HeartCalls
  <2>7. ASSUME NEW w \in Works PROVE AsPressed(w)'
    <3>1. CASE w = viewed
      BY <2>2, <2>3, <3>1 DEF AsPressed, UnderWay
    <3>2. CASE w # viewed
      <4>1. wanted'[w] = wanted[w] /\ AsPressed(w) /\ (UnderWay("like", w) => UnderWay("like", w)')
        BY <1>0, <2>1, <2>2, <2>3, <3>2 DEF UnderWay
      <4> QED BY <2>2, <4>1 DEF AsPressed
    <3> QED BY <3>1, <3>2
  <2> QED BY <2>5, <2>6, <2>7 DEF HeartInv
<1>7. CASE PressUnpublish
  <2> DEFINE c == [kind |-> "unpublish", n |-> taps, work |-> viewed, to |-> FALSE, answer |-> Nothing]
  <2>1. hearts' = hearts \cup {c} /\ c.kind = "unpublish"
    BY <1>7 DEF PressUnpublish, Tapped
  <2> HIDE DEF c
  <2>2. UNCHANGED <<hearted, feeds, feeding, wanted>> /\ \A f \in Feeds : feeding[f] = Nothing
    BY <1>7 DEF PressUnpublish, Tapped, Undisturbed
  <2>3. OneHeart' /\ HeartIsWanted' /\ HeartIsServed' /\ LoadsApart' /\ LoadsAgree'
    BY <1>0, <2>1, <2>2 DEF OneHeart, HeartIsWanted, HeartIsServed, LoadsApart, LoadsAgree, Like
  <2>4. ASSUME NEW w \in Works PROVE AsPressed(w)'
    BY <1>0, <2>1, <2>2 DEF AsPressed, UnderWay
  <2> QED BY <2>3, <2>4 DEF HeartInv
<1>8. ASSUME NEW c \in hearts, ServeLike(c) \/ ServeUnlike(c) \/ ServeUnpublish(c) PROVE HeartInv'
  <2>1. PICK answer \in {"ok", "refused"} :
           Responds(c, answer) /\ (Like(c) /\ answer = "ok" => (c.to <=> c.work \in hearted'))
    <3>1. CASE ServeLike(c) /\ c.work \in exhibited
      BY <3>1 DEF ServeLike
    <3>2. CASE ServeLike(c) /\ c.work \notin exhibited
      <4>1. Responds(c, "refused")
        BY <3>2 DEF ServeLike
      <4> QED BY <4>1
    <3>3. CASE ServeUnlike(c)
      BY <3>3 DEF ServeUnlike
    <3>4. CASE ServeUnpublish(c)
      BY <3>4 DEF ServeUnpublish, Like
    <3> QED BY <1>8, <3>1, <3>2, <3>3, <3>4
  <2> DEFINE d == [c EXCEPT !.answer = answer]
  <2>2. hearts' = (hearts \ {c}) \cup {d} /\ d.kind = c.kind /\ d.work = c.work /\ d.to = c.to /\ d.answer = answer
    BY <1>0, <2>1 DEF Responds, HeartCalls
  <2> HIDE DEF d
  <2>3. UNCHANGED <<feeds, feeding, wanted>> /\ \A f \in Feeds : feeding[f] = Nothing
    BY <1>0, <1>8 DEF ServeLike, ServeUnlike, ServeUnpublish, LoadsApart
  <2>4. OneHeart' /\ HeartIsWanted' /\ LoadsApart' /\ LoadsAgree'
    BY <1>0, <2>2, <2>3 DEF OneHeart, HeartIsWanted, LoadsApart, LoadsAgree, Like
  <2>5. \A w : UnderWay("like", w)' = UnderWay("like", w)
    BY <2>2 DEF UnderWay
  <2>6. \A w : (w = c.work /\ Like(c)) \/ (w \in hearted' <=> w \in hearted)
    BY <1>8 DEF ServeLike, ServeUnlike, ServeUnpublish, Like
  <2>7. Like(c) /\ answer = "ok" => (c.to <=> c.work \in hearted')
    BY <2>1
  <2>8. HeartIsServed'
    BY <1>0, <2>2, <2>6, <2>7 DEF HeartIsServed, OneHeart, Like
  <2>9. ASSUME NEW w \in Works PROVE AsPressed(w)'
    <3>1. CASE w = c.work /\ Like(c)
      BY <2>5, <3>1 DEF AsPressed, UnderWay, Like
    <3>2. CASE w \in hearted' <=> w \in hearted
      BY <1>0, <2>3, <2>5, <3>2 DEF AsPressed
    <3> QED BY <2>6, <3>1, <3>2
  <2> QED BY <2>4, <2>8, <2>9 DEF HeartInv
<1>9. ASSUME NEW c \in hearts, HeartSettles(c) PROVE HeartInv'
  <2>1. /\ hearts' = hearts \ {c} /\ c.answer = "ok" /\ UNCHANGED <<hearted, feeding, wanted>>
        /\ c \in HeartCalls /\ feeds \in [Feeds -> FeedAnswers \cup {Nothing}]
        /\ \A f \in Feeds : feeding[f] = Nothing
    BY <1>0, <1>9 DEF HeartSettles, GalleryInv, LoadsApart
  <2>2. OneHeart' /\ HeartIsWanted' /\ HeartIsServed' /\ LoadsApart' /\ LoadsAgree'
    BY <1>0, <2>1 DEF OneHeart, HeartIsWanted, HeartIsServed, LoadsApart, LoadsAgree, Like
  <2>3. \A f \in Feeds : /\ feeds[f] = Nothing => feeds'[f] = Nothing
                         /\ feeds[f] # Nothing => feeds'[f].rows = Patched(c, feeds[f].rows)
    BY <1>9 DEF HeartSettles, PatchedFeeds
  <2>4. ASSUME NEW f \in Feeds, feeds[f] # Nothing, NEW r \in feeds'[f].rows
        PROVE  IF Like(c) /\ r.work = c.work THEN r.liked = c.to ELSE r \in feeds[f].rows
    <3>1. feeds[f].rows \in SUBSET FeedRows /\ r \in Patched(c, feeds[f].rows)
      BY <2>1, <2>3, <2>4 DEF FeedAnswers
    <3>2. CASE ~Like(c)
      BY <2>1, <3>1, <3>2 DEF Patched, Like, HeartCalls
    <3>3. CASE Like(c)
      <4>1. PICK s \in feeds[f].rows : r = IF s.work = c.work THEN [s EXCEPT !.liked = c.to] ELSE s
        BY <3>1, <3>3 DEF Patched, Like
      <4>2. s \in FeedRows
        BY <3>1
      <4> QED BY <3>3, <4>1, <4>2 DEF FeedRows
    <3> QED BY <3>2, <3>3
  <2>5. ASSUME NEW w \in Works PROVE AsPressed(w)'
    <3>1. CASE w = c.work /\ Like(c)
      <4>1. wanted'[w] = c.to /\ (c.to <=> w \in hearted')
        BY <1>0, <2>1, <3>1 DEF HeartIsWanted, HeartIsServed
      <4>2. \A f \in Feeds : feeds'[f] # Nothing => \A r \in feeds'[f].rows : r.work = w => r.liked = c.to
        BY <2>3, <2>4, <3>1
      <4> QED BY <4>1, <4>2 DEF AsPressed
    <3>2. CASE ~(w = c.work /\ Like(c))
      <4>1. UnderWay("like", w)' = UnderWay("like", w) /\ AsPressed(w)
        BY <1>0, <2>1, <3>2 DEF UnderWay, Like
      <4>2. \A f \in Feeds : feeds'[f] # Nothing =>
               feeds[f] # Nothing /\ \A r \in feeds'[f].rows : r.work = w => r \in feeds[f].rows
        BY <2>3, <2>4, <3>2
      <4> QED BY <2>1, <4>1, <4>2 DEF AsPressed
    <3> QED BY <3>1, <3>2
  <2> QED BY <2>2, <2>5 DEF HeartInv
<1>10. ASSUME NEW c \in hearts, HeartFails(c) PROVE HeartInv'
  <2>1. /\ hearts' = hearts \ {c} /\ UNCHANGED <<hearted, feeds, feeding>> /\ c.work \in Works
        /\ wanted' = IF Like(c) THEN [wanted EXCEPT ![c.work] = Nothing] ELSE wanted
        /\ wanted \in [Works -> BOOLEAN \cup {Nothing}]
    BY <1>0, <1>10 DEF HeartFails, Like, GalleryInv, HeartCalls
  <2>2. OneHeart' /\ HeartIsServed' /\ LoadsApart' /\ LoadsAgree'
    BY <1>0, <2>1 DEF OneHeart, HeartIsServed, LoadsApart, LoadsAgree, Like
  <2>3. HeartIsWanted'
    BY <1>0, <2>1 DEF HeartIsWanted, OneHeart, Like, HeartCalls
  <2>4. ASSUME NEW w \in Works PROVE AsPressed(w)'
    <3>1. CASE w = c.work /\ Like(c)
      BY <2>1, <3>1 DEF AsPressed
    <3>2. CASE ~(w = c.work /\ Like(c))
      <4>1. UnderWay("like", w)' = UnderWay("like", w) /\ AsPressed(w) /\ wanted'[w] = wanted[w]
        BY <1>0, <2>1, <3>2 DEF UnderWay, Like
      <4> QED BY <2>1, <4>1 DEF AsPressed
    <3> QED BY <3>1, <3>2
  <2> QED BY <2>2, <2>3, <2>4 DEF HeartInv
<1> QED BY <1>1, <1>2, <1>3, <1>4, <1>5, <1>6, <1>7, <1>8, <1>9, <1>10 DEF CommunityNext

LEMMA HeartMeans == GalleryInv /\ HeartInv => LikesAsPressed
<1> SUFFICES ASSUME GalleryInv, HeartInv, NEW w \in Works, wanted[w] # Nothing, ~UnderWay("like", w)
             PROVE  /\ wanted[w] = (w \in hearted)
                    /\ \A f \in Feeds : feeds[f] # Nothing => [work |-> w, liked |-> ~wanted[w]] \notin feeds[f].rows
  BY DEF LikesAsPressed
<1>1. wanted[w] \in BOOLEAN /\ AsPressed(w)
  BY DEF GalleryInv, HeartInv
<1>2. wanted[w] <=> (w \in hearted)
  BY <1>1 DEF AsPressed
<1>3. wanted[w] = (w \in hearted)
  BY <1>1, <1>2
<1>4. ASSUME NEW f \in Feeds, feeds[f] # Nothing, [work |-> w, liked |-> ~wanted[w]] \in feeds[f].rows PROVE FALSE
  <2> DEFINE r == [work |-> w, liked |-> ~wanted[w]]
  <2>1. r \in feeds[f].rows /\ r.work = w /\ r.liked = ~wanted[w]
    BY <1>4
  <2> HIDE DEF r
  <2>2. r.liked <=> wanted[w]
    BY <1>1, <1>4, <2>1 DEF AsPressed
  <2> QED BY <1>1, <2>1, <2>2
<1> QED BY <1>3, <1>4
-----------------------------------------------------------------------------
(* Two jobs of one request were asked for under two keys, and a second key *)
(* is only asked for when an answer gave up the first: a double click, a   *)
(* lost answer and a retry send the same key again, and the handler finds  *)
(* the job by it (useSubmit.ts:36, jobsvc.go:193).                         *)
THEOREM OneJobPerRequest == Spec => []NoSecondJob
<1>1. ASSUME SubmissionInv, NEW j \in jobs, NEW k \in jobs, j.key < k.key, SameRequest(j.key, k.key)
      PROVE  asked[j.key].told
  <2>1. /\ j.key \in Nat /\ j.key \in 1..Len(asked) /\ k.key \in 1..Len(asked)
        /\ Len(asked) \in Nat /\ ToldOf(asked)
    <3>1. JobsMade /\ asked \in Seq(Entries) /\ ToldOf(asked)
      BY <1>1 DEF SubmissionInv, PageOK
    <3>2. j.key \in 1..Len(asked) /\ k.key \in 1..Len(asked)
      BY <1>1, <3>1 DEF JobsMade, Made
    <3> QED BY <3>1, <3>2
  <2>2. j.key \in 1..(k.key - 1)
    BY <1>1, <2>1
  <2> QED BY <1>1, <2>1, <2>2 DEF ToldOf, SameRequest
<1>2. SubmissionInv => NoSecondJob
  BY <1>1 DEF NoSecondJob
<1> QED BY <1>2, SubmissionInvariant, PTL

(* A job is charged the price that was shown when its own request was      *)
(* pressed, under the key it was pressed with (useSubmit.ts:37,            *)
(* jobs.go:50-55).                                                         *)
THEOREM ChargeWasShown == Spec => []ChargedAsQuoted
<1>1. ASSUME SubmissionInv, NEW j \in jobs
      PROVE  \E p \in asked[j.key].presses : p.quote = j.charged /\ p.body = j.body
  <2>1. [body |-> j.body, quote |-> j.charged] \in asked[j.key].presses
    BY <1>1 DEF SubmissionInv, JobsMade, Made
  <2> QED BY <2>1
<1>2. SubmissionInv => ChargedAsQuoted
  BY <1>1 DEF ChargedAsQuoted
<1> QED BY <1>2, SubmissionInvariant, PTL
-----------------------------------------------------------------------------
(* A part of the site goes a step of its own, or is left as it is.         *)
LEMMA PartsApart ==
  ASSUME [Next]_workVars
  PROVE  /\ CreateNext \/ UNCHANGED createVars
         /\ TaskNext \/ UNCHANGED taskVars
         /\ [LibraryNext]_libraryVars /\ [ShelfNext]_shelfVars /\ [CommunityNext]_communityVars
         /\ scene' = scene
<1>1. CASE UNCHANGED workVars
  BY <1>1 DEF workVars
<1>2. CASE InCreate
  BY <1>2 DEF InCreate
<1>3. CASE InTasks
  BY <1>3 DEF InTasks
<1>4. CASE InLibrary
  BY <1>4 DEF InLibrary
<1>5. CASE InShelf
  BY <1>5 DEF InShelf
<1>6. CASE InCommunity
  BY <1>6 DEF InCommunity
<1> QED BY <1>1, <1>2, <1>3, <1>4, <1>5, <1>6 DEF Next

(* The creation page and the task pages while another part is visited.     *)
LEMMA PageTypesLift == SubmissionInv /\ SubmissionInv' /\ PageTypes /\ [Next]_workVars => PageTypes'
<1> SUFFICES ASSUME SubmissionInv, SubmissionInv', PageTypes, [Next]_workVars PROVE PageTypes'
  OBVIOUS
<1>1. CASE CreateNext
  BY <1>1, PageTypesStep
<1>2. CASE UNCHANGED createVars
  BY <1>2 DEF createVars, submission, tab, server, pane, PageTypes, CallsKnown, KeysHeld, Keys
<1> QED BY <1>1, <1>2, PartsApart

LEMMA TaskTypesLift == TaskTypes /\ [Next]_workVars => TaskTypes'
<1> SUFFICES ASSUME TaskTypes, [Next]_workVars PROVE TaskTypes'
  OBVIOUS
<1>1. CASE TaskNext
  BY <1>1, TaskTypesStep
<1>2. CASE UNCHANGED taskVars
  BY <1>2 DEF taskVars, served, screen, TaskTypes
<1> QED BY <1>1, <1>2, PartsApart

LEMMA TaskTypesInvariant == Spec => []TaskTypes
<1>1. Init => TaskTypes
  BY TaskTypesInit DEF Init
<1> QED BY <1>1, TaskTypesLift, PTL DEF Spec

(* A call acts on the job its dialog was opened on: nobody leaves a job's  *)
(* page under its dialog, a row's dialog names its row, and what closes or *)
(* moves a page under a dialog closes the dialog                           *)
(* (TaskActions.tsx:15-50, TaskItem.tsx:156-164, JobDetailPage.tsx:214-236).*)
THEOREM ActsOnItsJob ==
  ASSUME "dialogs" \in KeptTasks
  PROVE  Spec => []ActsWhereOpened
<1>1. Init => DialogsInv
  BY DialogsInit DEF Init
<1>2. TaskTypes /\ DialogsInv /\ [Next]_workVars => DialogsInv'
  <2> SUFFICES ASSUME TaskTypes, DialogsInv, [Next]_workVars PROVE DialogsInv'
    OBVIOUS
  <2>1. CASE TaskNext
    BY <2>1, DialogsStep
  <2>2. CASE UNCHANGED taskVars
    BY <2>2 DEF taskVars, served, screen, DialogsInv, RowsAreTheirs, DialogsStay, ActsWhereOpened, OfItsJob
  <2> QED BY <2>1, <2>2, PartsApart
<1>3. DialogsInv => ActsWhereOpened
  BY DEF DialogsInv, DialogsStay
<1> QED BY <1>1, <1>2, <1>3, TaskTypesInvariant, PTL DEF Spec

(* When everything has been dealt with, the task center shows each job     *)
(* once: what changed on the server was announced, or a delete heard of,   *)
(* and both lists were asked for again since, in the shape the page reads  *)
(* (filters.ts:44-59, applyEvent.ts:9-13, TaskCenter.tsx:50-61).           *)
THEOREM TasksShownOnce ==
  ASSUME {"loads", "shapes", "answers"} \subseteq KeptTasks
  PROVE  Spec => []EachTaskOnce
<1>1. Init => FreshInv
  BY FreshInit DEF Init
<1>2. TaskTypes /\ FreshInv /\ [Next]_workVars => FreshInv'
  <2> SUFFICES ASSUME TaskTypes, FreshInv, [Next]_workVars PROVE FreshInv'
    OBVIOUS
  <2>1. CASE TaskNext
    BY <2>1, FreshStep
  <2>2. CASE UNCHANGED taskVars
    <3>1. SameScreen /\ state' = state /\ NewsStays
      BY <2>2 DEF taskVars, served, screen, SameScreen, NewsStays, Unheard
    <3> QED BY <3>1, ScreenStays
  <2> QED BY <2>1, <2>2, PartsApart
<1> QED BY <1>1, <1>2, ShownOnce, TaskTypesInvariant, PTL DEF Spec
-----------------------------------------------------------------------------
LEMMA LibraryTypesInvariant == Spec => []LibraryTypes
<1>1. Init => LibraryTypes
  BY LibTypesInit DEF Init
<1>2. LibraryTypes /\ [Next]_workVars => LibraryTypes'
  BY LibTypesStep, PartsApart
<1> QED BY <1>1, <1>2, PTL DEF Spec

LEMMA UploadsInvariant ==
  ASSUME "transfer" \in KeptLibrary
  PROVE  Spec => []UploadsInv
<1>1. Init => UploadsInv
  BY UploadsInit DEF Init
<1>2. LibraryTypes /\ UploadsInv /\ [Next]_workVars => UploadsInv'
  BY UploadsStep, PartsApart
<1> QED BY <1>1, <1>2, LibraryTypesInvariant, PTL DEF Spec

LEMMA PublishInvariant ==
  ASSUME "history" \in KeptLibrary
  PROVE  Spec => []PublishInv
<1>1. Init => PublishInv
  BY PublishInit DEF Init
<1>2. LibraryTypes /\ PublishInv /\ [Next]_workVars => PublishInv'
  BY PublishStep, PartsApart
<1> QED BY <1>1, <1>2, LibraryTypesInvariant, PTL DEF Spec

(* An upload that was cancelled before its transfer was over makes no      *)
(* asset: only the end of an upload makes one, and what is cancelled has   *)
(* left the queue (upload.ts:51-71, UploadDrawer.tsx:34-49).               *)
THEOREM CancelledStaysUnmade ==
  ASSUME "transfer" \in KeptLibrary
  PROVE  Spec => []CancelledMakesNoAsset
  BY UploadsInvariant, UploadsMean, PTL

(* What is public was agreed to on its own page, as long as nobody leaves  *)
(* a page under its open dialog (AssetDetailPage.tsx:66, 88-96, 316-325).  *)
THEOREM PublicWasAgreed ==
  ASSUME "history" \in KeptLibrary
  PROVE  Spec => []PublishedOnPurpose
<1>1. PublishInv => PublishedOnPurpose
  BY DEF PublishInv
<1> QED BY <1>1, PublishInvariant, PTL

LibraryKept == {"alone", "history", "there", "transfer", "quiet", "answers"} \subseteq KeptLibrary
LEMMA DeletesInvariant ==
  ASSUME LibraryKept
  PROVE  Spec => []DeleteInv
<1>1. Init => DeleteInv
  BY DeleteInit DEF Init
<1>2. LibraryTypes /\ UploadsInv /\ PublishInv /\ DeleteInv /\ [Next]_workVars => DeleteInv'
  <2> SUFFICES ASSUME LibraryTypes, UploadsInv, PublishInv, DeleteInv, [Next]_workVars PROVE DeleteInv'
    OBVIOUS
  <2>1. CASE LibraryNext
    BY <2>1, DeleteStep DEF LibraryKept
  <2>2. CASE UNCHANGED libraryVars
    BY <2>2 DEF libraryVars, stored, looks, DeleteInv, IsSole, BoxStands, DeleteStands, EmptyStands, ListsComing, ListsTrue,
                LoadsTrue, SelectionTrue, UndoesItsDelete, Deleting, In, Shown
  <2> QED BY <2>1, <2>2, PartsApart
<1>3. "transfer" \in KeptLibrary /\ "history" \in KeptLibrary
  BY DEF LibraryKept
<1> QED BY <1>1, <1>2, <1>3, LibraryTypesInvariant, UploadsInvariant, PublishInvariant, PTL DEF Spec

(* Emptying the trash purges nothing that its list did not show, though    *)
(* the server empties what is there by then: under the dialog nothing else *)
(* is put into the trash (TrashView.tsx:17, 40, 74-83).                    *)
THEOREM EmptiedWasShown ==
  ASSUME LibraryKept
  PROVE  Spec => []EmptiesWhatIsShown
<1>1. LibraryTypes /\ DeleteInv => EmptiesWhatIsShown
  BY DeletesMean
<1> QED BY <1>1, LibraryTypesInvariant, DeletesInvariant, PTL

(* An undo offers what its delete took, neither less nor more: what was    *)
(* selected is still in the library when the delete comes to be served     *)
(* (LibraryPage.tsx:93-102, AssetDetailPage.tsx:79-87).                    *)
THEOREM UndoneWasDeleted ==
  ASSUME LibraryKept
  PROVE  Spec => []UndoesItsDelete
<1>1. LibraryTypes /\ DeleteInv => UndoesItsDelete
  BY DeletesMean
<1> QED BY <1>1, LibraryTypesInvariant, DeletesInvariant, PTL
-----------------------------------------------------------------------------
LEMMA GalleryInvariant == Spec => []GalleryInv
<1>1. Init => GalleryInv
  BY GalleryInit DEF Init
<1>2. GalleryInv /\ [Next]_workVars => GalleryInv'
  BY GalleryStep, PartsApart
<1> QED BY <1>1, <1>2, PTL DEF Spec

(* After the answer the heart is as the last press on it said, and both    *)
(* feeds show it so: one press on a work is under way at a time, and the   *)
(* feeds are loaded while none is (CommunityPage.tsx:108-124,              *)
(* assets.go:332-369).                                                     *)
THEOREM HeartsAsPressed ==
  ASSUME {"quiet", "presses"} \subseteq KeptCommunity
  PROVE  Spec => []LikesAsPressed
<1>1. Init => HeartInv
  BY HeartInit DEF Init
<1>2. GalleryInv /\ HeartInv /\ [Next]_workVars => HeartInv'
  BY HeartStep, PartsApart
<1> QED BY <1>1, <1>2, HeartMeans, GalleryInvariant, PTL DEF Spec
-----------------------------------------------------------------------------
LEMMA ShelfInvariant == Spec => []ShelfInv
<1>1. Init => ShelfInv
  BY ShelfTypesInit DEF Init
<1>2. ShelfInv /\ [Next]_workVars => ShelfInv'
  BY ShelfStep, PartsApart
<1> QED BY <1>1, <1>2, PTL DEF Spec

(* A save writes into a record what was read from it or typed on it,       *)
(* whoever turns the page under the form and whenever its calls end        *)
(* (PresetDetail.tsx:44-50, CharacterDrawer.tsx:42-52,                     *)
(* ProjectDialogs.tsx:17-21).                                              *)
THEOREM SavedIntoItsOwn == Spec => []SavesIntoItsOwn
<1>1. ShelfInv => SavesIntoItsOwn
  BY ShelfMeans
<1> QED BY <1>1, ShelfInvariant, PTL

(* Deleting a project detaches its characters, and a character belongs to  *)
(* a project that is gone only when its save looked the project up before  *)
(* that (projects.go:192-206, characters.go:229-236).                      *)
THEOREM DetachedBeforeLookUp == Spec => []DetachedUnlessRacing
<1>1. Init => DetachedUnlessRacing
  BY DetachedInit DEF Init
<1>2. ShelfInv /\ DetachedUnlessRacing /\ [Next]_workVars => DetachedUnlessRacing'
  BY DetachedStep, PartsApart
<1> QED BY <1>1, <1>2, ShelfInvariant, PTL DEF Spec

(* What was typed last is what a save sends, and what is loaded, saved or  *)
(* uploaded meanwhile does not take it back (CharacterDrawer.tsx:42-52,    *)
(* PresetDetail.tsx:44-50).  With what needs no promise, forms save their  *)
(* own.                                                                    *)
THEOREM FormsKeepToThemselves ==
  ASSUME {"quiet", "uploads", "waits", "tabs"} \subseteq KeptShelf
  PROVE  Spec => []FormsSaveTheirOwn
<1>1. Init => TypedInv
  BY TypedInit DEF Init
<1>2. ShelfInv /\ TypedInv /\ [Next]_workVars => TypedInv'
  BY TypedStep, PartsApart
<1>3. TypedInv /\ SavesIntoItsOwn /\ DetachedUnlessRacing => FormsSaveTheirOwn
  BY DEF TypedInv, FormsSaveTheirOwn
<1> QED BY <1>1, <1>2, <1>3, ShelfInvariant, SavedIntoItsOwn, DetachedBeforeLookUp, PTL DEF Spec
-----------------------------------------------------------------------------
LEMMA PageTypesInvariant == Spec => []PageTypes
<1>1. Init => PageTypes
  BY PageTypesInit DEF Init
<1> QED BY <1>1, PageTypesLift, SubmissionInvariant, PTL DEF Spec

LEMMA SceneInvariant == Spec => [](scene \in Scenes)
<1>1. Init => scene \in Scenes
  BY DEF Init
<1>2. scene \in Scenes /\ [Next]_workVars => (scene \in Scenes)'
  BY PartsApart
<1> QED BY <1>1, <1>2, PTL DEF Spec

(* Every part's state stays of its type, without any promise: no more      *)
(* calls are under way than the pages allow, a key is one that was asked   *)
(* for, and what the pages show are rows of the server.                    *)
THEOREM SiteTypeOK == Spec => []TypeOK
<1>1. LibraryTypes => LibraryTypeOK
  BY DEF LibraryTypes, LibraryTypeOK, LibPlaces, ListAnswers
<1>2. GalleryInv => CommunityTypeOK
  BY DEF GalleryInv, CommunityTypeOK, FeedAnswers, FeedRows
<1>3. ShelfInv => ShelfTypeOK
  BY ShelfMeans
<1>4. /\ SubmissionInv /\ PageTypes /\ TaskTypes /\ LibraryTypes /\ GalleryInv /\ ShelfInv /\ scene \in Scenes
      => TypeOK
  BY <1>1, <1>2, <1>3, PageTypesMean, TaskTypesMean DEF TypeOK
<1> QED BY <1>4, SubmissionInvariant, PageTypesInvariant, TaskTypesInvariant, LibraryTypesInvariant, GalleryInvariant,
           ShelfInvariant, SceneInvariant, PTL

(* What happens to a job, an asset or a work is what its user asked for on *)
(* it (TaskActions.tsx:15-50, TrashView.tsx:17, LibraryPage.tsx:93-102,    *)
(* AssetDetailPage.tsx:88-96, upload.ts:51-71, CommunityPage.tsx:108-124). *)
THEOREM NothingIsUnasked ==
  ASSUME "dialogs" \in KeptTasks, LibraryKept, {"quiet", "presses"} \subseteq KeptCommunity
  PROVE  Spec => []NothingUnasked
<1>1. "transfer" \in KeptLibrary /\ "history" \in KeptLibrary
  BY DEF LibraryKept
<1>2. /\ TypeOK /\ ActsWhereOpened /\ EmptiesWhatIsShown /\ UndoesItsDelete /\ PublishedOnPurpose
      /\ CancelledMakesNoAsset /\ LikesAsPressed
      => NothingUnasked
  BY DEF NothingUnasked
<1> QED BY <1>1, <1>2, SiteTypeOK, ActsOnItsJob, EmptiedWasShown, UndoneWasDeleted, PublicWasAgreed, CancelledStaysUnmade,
           HeartsAsPressed, PTL
=============================================================================
