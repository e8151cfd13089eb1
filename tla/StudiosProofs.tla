--------------------------- MODULE StudiosProofs ----------------------------
(***************************************************************************)
(* Theorems about the forms of Studios, for any accounts, cards, jobs and  *)
(* prices, with their proofs.  The promises a theorem needs are among its  *)
(* assumptions.                                                            *)
(***************************************************************************)
EXTENDS Studios, FiniteSetTheorems, TLAPS
-----------------------------------------------------------------------------
(* The panel of a review.  While no quote is loading, the total on the     *)
(* screen is of the choices on the screen; a comic's total does not depend *)
(* on its texts.                                                           *)
TotalIsOfChoice ==
    shown # Nothing /\ quoting = Nothing /\ subject \notin Comics => shown.of = choice

(* A decision is a record; its fields are not restricted here. *)
IsDecision(d) == d \in [job : {d.job}, choice : {d.choice}, madeOn : {d.madeOn}, mine : {d.mine},
                        total : {d.total}, sameChoice : {d.sameChoice}, charged : {d.charged},
                        answer : {d.answer}]

SentAsShown == \A d \in decisions : /\ IsDecision(d)
                                    /\ d.job \in Reviews => d.sameChoice
                                    /\ d.charged # Nothing => d.charged = d.total

PanelInv == /\ choice = [s \in Shots |-> choice[s]] /\ rise \in Nat
            /\ TotalIsOfChoice /\ SentAsShown

(* What is not the default was chosen on this very page. *)
ChosenHere ==
    /\ chosenOn = [s \in Shots |-> chosenOn[s]]
    /\ subject # Nothing => \A s \in Shots : choice[s] # Default(subject) => chosenOn[s] = subject
-----------------------------------------------------------------------------
LEMMA TotalIsInt ==
  ASSUME NEW j, NEW c, NEW r \in Nat, c = [s \in Shots |-> c[s]]
  PROVE  Total(j, c, r) \in Int
<1>1. \A what : Picked(c, what) \in Nat
  <2>1. ASSUME NEW what PROVE Picked(c, what) \in Nat
    <3>1. {s \in DOMAIN c : c[s] = what} \subseteq Shots
      OBVIOUS
    <3> QED BY <3>1, ReviewAssumption, FS_Subset, FS_CardinalityType DEF Picked
  <2> QED BY <2>1
<1>2. Cardinality(Shots) \in Nat
  BY ReviewAssumption, FS_CardinalityType
<1> QED BY <1>1, <1>2 DEF Total

LEMMA QuoteIsSome ==
  ASSUME NEW x \in Int \cup {Nothing}
  PROVE  [answer |-> x] # Nothing
BY ReviewAssumption

(* A decision that is changed in one field. *)
LEMMA DecisionChanged ==
  ASSUME NEW d, IsDecision(d), NEW x
  PROVE  /\ LET e == [d EXCEPT !.mine = x]
            IN IsDecision(e) /\ e.job = d.job /\ e.madeOn = d.madeOn /\ e.sameChoice = d.sameChoice
               /\ e.charged = d.charged /\ e.total = d.total
         /\ LET e == [d EXCEPT !.answer = x]
            IN IsDecision(e) /\ e.job = d.job /\ e.madeOn = d.madeOn /\ e.sameChoice = d.sameChoice
               /\ e.charged = d.charged /\ e.total = d.total
         /\ LET e == [d EXCEPT !.answer = "done", !.charged = x]
            IN IsDecision(e) /\ e.job = d.job /\ e.madeOn = d.madeOn /\ e.sameChoice = d.sameChoice
               /\ e.charged = x /\ e.total = d.total
<1>1. LET e == [d EXCEPT !.mine = x]
      IN IsDecision(e) /\ e.job = d.job /\ e.madeOn = d.madeOn /\ e.sameChoice = d.sameChoice
         /\ e.charged = d.charged /\ e.total = d.total
  BY DEF IsDecision
<1>2. LET e == [d EXCEPT !.answer = x]
      IN IsDecision(e) /\ e.job = d.job /\ e.madeOn = d.madeOn /\ e.sameChoice = d.sameChoice
         /\ e.charged = d.charged /\ e.total = d.total
  BY DEF IsDecision
<1>3. LET e == [d EXCEPT !.answer = "done", !.charged = x]
      IN IsDecision(e) /\ e.job = d.job /\ e.madeOn = d.madeOn /\ e.sameChoice = d.sameChoice
         /\ e.charged = x /\ e.total = d.total
  BY DEF IsDecision
<1> QED BY <1>1, <1>2, <1>3

(* A step keeps of the decisions what it does not charge; one it charges   *)
(* has the total that was sent.                                            *)
Follows(e) == \E d \in decisions : /\ e.job = d.job /\ e.madeOn = d.madeOn /\ e.sameChoice = d.sameChoice
                                   /\ e.charged \in {d.charged, e.total} /\ e.total = d.total

LEMMA Following ==
  ASSUME SentAsShown, \A e \in decisions' : IsDecision(e) /\ Follows(e)
  PROVE  SentAsShown' /\ (ChoicesOfThisJob => ChoicesOfThisJob')
<1>1. ASSUME NEW e \in decisions'
      PROVE  /\ IsDecision(e) /\ (e.job \in Reviews => e.sameChoice)
             /\ e.charged # Nothing => e.charged = e.total
             /\ ChoicesOfThisJob => e.madeOn \subseteq {e.job}
  <2>1. PICK d \in decisions : /\ e.job = d.job /\ e.madeOn = d.madeOn /\ e.sameChoice = d.sameChoice
                               /\ e.charged \in {d.charged, e.total} /\ e.total = d.total
    BY DEF Follows
  <2>2. /\ d.job \in Reviews => d.sameChoice
        /\ d.charged # Nothing => d.charged = d.total
        /\ ChoicesOfThisJob => d.madeOn \subseteq {d.job}
    BY DEF SentAsShown, ChoicesOfThisJob
  <2> QED BY <2>1, <2>2
<1> QED BY <1>1 DEF SentAsShown, ChoicesOfThisJob

LEMMA DisownedFollow ==
  ASSUME SentAsShown, NEW D \in SUBSET decisions
  PROVE  \A e \in {[d EXCEPT !.mine = FALSE] : d \in D} : IsDecision(e) /\ Follows(e)
<1>1. ASSUME NEW d \in decisions, NEW e, e = [d EXCEPT !.mine = FALSE]
      PROVE  IsDecision(e) /\ Follows(e)
  <2>1. /\ IsDecision(e) /\ e.job = d.job /\ e.madeOn = d.madeOn /\ e.sameChoice = d.sameChoice
        /\ e.charged = d.charged /\ e.total = d.total
    <3>1. IsDecision(d)
      BY DEF SentAsShown
    <3> DEFINE b == [d EXCEPT !.mine = FALSE]
    <3>3. /\ IsDecision(b) /\ b.job = d.job /\ b.madeOn = d.madeOn /\ b.sameChoice = d.sameChoice
          /\ b.charged = d.charged /\ b.total = d.total
      BY <3>1, DecisionChanged
    <3> HIDE DEF b
    <3>4. e = b
      BY <1>1 DEF b
    <3> QED BY <3>3, <3>4
  <2> QED BY <2>1 DEF Follows
<1> QED BY <1>1

LEMMA KeptFollow ==
  ASSUME SentAsShown
  PROVE  \A e \in decisions : IsDecision(e) /\ Follows(e)
BY DEF SentAsShown, Follows

(* All steps but Decide. *)
LEMMA DecisionsFollow ==
  ASSUME SentAsShown, ReviewNext, ~Decide
  PROVE  \A e \in decisions' : IsDecision(e) /\ Follows(e)
<1>1. CASE Visit \/ LeavePanel \/ History \/ Closed
  <2>1. decisions' = Disowned \/ decisions' = decisions
    BY <1>1 DEF Visit, LeavePanel, History, Closed, Up
  <2> QED BY <2>1, KeptFollow, DisownedFollow DEF Disowned
<1>2. CASE PickChoice \/ QuoteRead \/ QuoteComes \/ QuoteFails \/ Requote \/ PricesChange \/ GateExpires
  BY <1>2, KeptFollow DEF PickChoice, QuoteRead, QuoteComes, QuoteFails, Requote, PricesChange, GateExpires
<1>3. CASE Resume
  <2>1. PICK d \in decisions :
          LET now == Total(d.job, d.choice, rise)
          IN \/ \E answer : Answered(d, answer)
             \/ /\ now = d.total
                /\ decisions' = (decisions \ {d}) \cup {[d EXCEPT !.answer = "done", !.charged = now]}
    BY <1>3 DEF Resume, TotalDiffers
  <2>2. IsDecision(d)
    BY DEF SentAsShown
  <2>3. ASSUME NEW answer, Answered(d, answer)
        PROVE  \A e \in decisions' : IsDecision(e) /\ Follows(e)
    <3> DEFINE told == [d EXCEPT !.answer = answer]
    <3>1. /\ IsDecision(told) /\ told.job = d.job /\ told.madeOn = d.madeOn
          /\ told.sameChoice = d.sameChoice /\ told.charged = d.charged /\ told.total = d.total
      BY <2>2, DecisionChanged
    <3>2. decisions' = (decisions \ {d}) \cup {told}
      BY <2>3 DEF Answered
    <3> HIDE DEF told
    <3>3. Follows(told)
      BY <3>1 DEF Follows
    <3> QED BY <3>1, <3>2, <3>3, KeptFollow
  <2>4. ASSUME decisions' = (decisions \ {d}) \cup {[d EXCEPT !.answer = "done", !.charged = d.total]}
        PROVE  \A e \in decisions' : IsDecision(e) /\ Follows(e)
    <3> DEFINE paid == [d EXCEPT !.answer = "done", !.charged = d.total]
    <3>1. /\ IsDecision(paid) /\ paid.job = d.job /\ paid.madeOn = d.madeOn
          /\ paid.sameChoice = d.sameChoice /\ paid.charged = d.total /\ paid.total = d.total
      BY <2>2, DecisionChanged
    <3>2. decisions' = (decisions \ {d}) \cup {paid}
      BY <2>4
    <3> HIDE DEF paid
    <3>3. Follows(paid)
      BY <3>1 DEF Follows
    <3> QED BY <3>1, <3>2, <3>3, KeptFollow
  <2> QED BY <2>1, <2>3, <2>4
<1>4. CASE Decided
  <2>1. PICK d \in decisions : \/ decisions' = decisions \ {d}
                               \/ decisions' = {[e EXCEPT !.mine = FALSE] : e \in decisions \ {d}}
    BY <1>4 DEF Decided
  <2> QED BY <2>1, KeptFollow, DisownedFollow
<1>5. CASE DecisionLost
  BY <1>5, KeptFollow DEF DecisionLost
<1> QED BY <1>1, <1>2, <1>3, <1>4, <1>5 DEF ReviewNext

-----------------------------------------------------------------------------
LEMMA DecideFollows ==
  ASSUME PanelInv, Decide
  PROVE  SentAsShown' /\ (ChosenHere /\ ChoicesOfThisJob => ChoicesOfThisJob')
<1> DEFINE d == [job |-> subject, choice |-> choice,
                 madeOn |-> {chosenOn[s] : s \in {t \in Shots : choice[t] # Default(subject)}},
                 mine |-> TRUE, total |-> shown.total, sameChoice |-> shown.of = choice,
                 charged |-> Nothing, answer |-> Nothing]
<1>1. decisions' = decisions \cup {d} /\ subject # Nothing /\ shown # Nothing /\ quoting = Nothing
  BY DEF Decide, Offered
<1>2. /\ d.job = subject /\ d.charged = Nothing /\ d.sameChoice = (shown.of = choice)
      /\ d.madeOn = {chosenOn[s] : s \in {t \in Shots : choice[t] # Default(subject)}}
  OBVIOUS
<1>3. IsDecision(d)
  BY DEF IsDecision
<1> HIDE DEF d
<1>4. d.job \in Reviews => d.sameChoice
  BY <1>1, <1>2, ReviewAssumption DEF PanelInv, TotalIsOfChoice
<1>5. ChosenHere => d.madeOn \subseteq {d.job}
  BY <1>1, <1>2 DEF ChosenHere
<1> QED BY <1>1, <1>2, <1>3, <1>4, <1>5 DEF PanelInv, SentAsShown, ChoicesOfThisJob

(* The panel's steps: those that change what it shows load a quote or take *)
(* it down.                                                                *)
LEMMA PanelStep ==
  ASSUME PanelInv, ReviewNext
  PROVE  choice' = [s \in Shots |-> choice'[s]] /\ rise' \in Nat /\ TotalIsOfChoice'
<1>0. choice = [s \in Shots |-> choice[s]] /\ rise \in Nat /\ TotalIsOfChoice /\ Quoting # Nothing
  BY QuoteIsSome DEF PanelInv, Quoting
<1>1. CASE Visit \/ LeavePanel \/ Closed
  BY <1>0, <1>1 DEF Visit, LeavePanel, Closed, Up, Down, Unchosen, Unmade, TotalIsOfChoice
<1>2. CASE History
  BY <1>0, <1>2 DEF History, Up, Unchosen, TotalIsOfChoice
<1>3. CASE PickChoice
  <2>1. /\ subject' = subject /\ shown' = shown /\ rise' = rise
        /\ quoting' = IF subject \in Comics THEN quoting ELSE Quoting
        /\ \E s \in Shots : \E what : choice' = [choice EXCEPT ![s] = what]
    BY <1>3 DEF PickChoice
  <2>2. choice' = [s \in Shots |-> choice'[s]]
    BY <1>0, <2>1
  <2>3. TotalIsOfChoice'
    BY <1>0, <2>1 DEF TotalIsOfChoice
  <2> QED BY <1>0, <2>1, <2>2, <2>3
<1>4. CASE QuoteRead
  <2>1. [answer |-> Total(subject, choice, rise)] # Nothing
    BY <1>0, TotalIsInt, QuoteIsSome
  <2> QED BY <1>0, <1>4, <2>1 DEF QuoteRead, TotalIsOfChoice
<1>5. CASE QuoteComes \/ QuoteFails
  BY <1>0, <1>5 DEF QuoteComes, QuoteFails, QuoteOf, TotalIsOfChoice
<1>6. CASE Requote
  BY <1>0, <1>6 DEF Requote, TotalIsOfChoice
<1>7. CASE Decided
  <2>1. /\ rise' = rise
        /\ Down \/ (UNCHANGED <<subject, choice, shown>> /\ quoting' \in {Quoting, quoting})
    <3>1. rise' = rise
      BY <1>7 DEF Decided
    <3>2. PICK d \in decisions :
            \/ quoting' = Quoting /\ UNCHANGED <<subject, choice, chosenOn, shown>>
            \/ Down
            \/ UNCHANGED <<subject, choice, chosenOn, shown, quoting>>
      BY <1>7 DEF Decided
    <3> QED BY <3>1, <3>2
  <2>2. CASE Down
    BY <1>0, <2>1, <2>2 DEF Down, Unmade, TotalIsOfChoice
  <2>3. CASE UNCHANGED <<subject, choice, shown>> /\ quoting' \in {Quoting, quoting}
    BY <1>0, <2>1, <2>3 DEF TotalIsOfChoice
  <2> QED BY <2>1, <2>2, <2>3
<1>8. CASE Decide \/ Resume \/ DecisionLost \/ PricesChange \/ GateExpires
  <2>1. UNCHANGED panel
    BY <1>8 DEF Decide, Resume, DecisionLost, PricesChange, GateExpires
  <2>2. rise' \in {rise, rise + 1}
    BY <1>8 DEF Decide, Resume, DecisionLost, PricesChange, GateExpires
  <2> QED BY <1>0, <2>1, <2>2 DEF panel, TotalIsOfChoice
<1> QED BY <1>1, <1>2, <1>3, <1>4, <1>5, <1>6, <1>7, <1>8 DEF ReviewNext

LEMMA ReviewStep ==
  ASSUME PanelInv, [ReviewNext]_reviewVars
  PROVE  PanelInv' /\ (ChosenHere /\ ChoicesOfThisJob => ChoicesOfThisJob')
<1>1. CASE ReviewNext
  <2>1. SentAsShown' /\ (ChosenHere /\ ChoicesOfThisJob => ChoicesOfThisJob')
    BY <1>1, DecideFollows, DecisionsFollow, Following DEF PanelInv
  <2> QED BY <1>1, <2>1, PanelStep DEF PanelInv
<1>2. CASE UNCHANGED reviewVars
  BY <1>2 DEF reviewVars, panel, PanelInv, TotalIsOfChoice, SentAsShown, ChoicesOfThisJob
<1> QED BY <1>1, <1>2

(* Without a way straight to a page that was visited before, choices never *)
(* reach another job.                                                      *)
LEMMA ChosenStep ==
  ASSUME KeptReviews, PanelInv, ChosenHere, [ReviewNext]_reviewVars
  PROVE  ChosenHere'
<1>1. CASE Visit \/ LeavePanel \/ Closed
  BY <1>1 DEF Visit, LeavePanel, Closed, Up, Down, Unchosen, Unmade, ChosenHere
<1>2. CASE History
  <2>1. PICK j \in Priced : Up(j)
    BY <1>2 DEF History, Survives
  <2> QED BY <2>1 DEF Up, Unchosen, Unmade, ChosenHere
<1>3. CASE PickChoice
  BY <1>3 DEF PickChoice, ChosenHere, PanelInv
<1>4. CASE Decided
  BY <1>4 DEF Decided, Down, Unmade, ChosenHere
<1>5. CASE \/ QuoteRead \/ QuoteComes \/ QuoteFails \/ Requote \/ Decide \/ Resume \/ DecisionLost
           \/ PricesChange \/ GateExpires \/ UNCHANGED reviewVars
  BY <1>5 DEF QuoteRead, QuoteComes, QuoteFails, Requote, Decide, Resume, DecisionLost,
              PricesChange, GateExpires, reviewVars, panel, ChosenHere
<1> QED BY <1>1, <1>2, <1>3, <1>4, <1>5 DEF ReviewNext

LEMMA ReviewStart == ReviewInit => PanelInv /\ ChosenHere /\ ChoicesOfThisJob
BY DEF ReviewInit, Unmade, PanelInv, TotalIsOfChoice, SentAsShown, ChosenHere, ChoicesOfThisJob

(* Each form's steps leave the others' state alone. *)
LEMMA FormSteps ==
  ASSUME [Next]_studioVars
  PROVE  [DraftNext]_draftVars /\ [ShotNext]_shotVars /\ [ReviewNext]_reviewVars
BY DEF Next, InDraft, InStoryboard, InReview, studioVars

(* What is reserved for a decision is the total that was shown for it,     *)
(* wherever the user has gone meanwhile (ReviewPanel.tsx, PanelRetry.tsx). *)
THEOREM ChargeIsShown == Spec => []ChargedAsShown
<1>1. Init => PanelInv
  BY ReviewStart DEF Init
<1>2. PanelInv /\ [Next]_studioVars => PanelInv'
  BY ReviewStep, FormSteps
<1>3. PanelInv => ChargedAsShown
  BY DEF PanelInv, SentAsShown, ChargedAsShown
<1> QED BY <1>1, <1>2, <1>3, PTL DEF Spec

(* And nothing is decided on a job that was chosen on another's page, if   *)
(* the user does not go straight back to a page visited before.            *)
THEOREM DecisionIsAsShown ==
  ASSUME KeptReviews
  PROVE  Spec => []DecidesAsShown
<1> DEFINE Inv == PanelInv /\ ChosenHere /\ ChoicesOfThisJob
<1>1. Init => Inv
  BY ReviewStart DEF Init
<1>2. Inv /\ [Next]_studioVars => Inv'
  BY ReviewStep, ChosenStep, FormSteps
<1>3. Inv => DecidesAsShown
  BY DEF PanelInv, SentAsShown, ChargedAsShown, DecidesAsShown
<1> HIDE DEF Inv
<1> QED BY <1>1, <1>2, <1>3, PTL DEF Spec
-----------------------------------------------------------------------------
(* The cards of a sequence.  While a request is under way its cards are    *)
(* those of the draft, since none is edited, or dragged, meanwhile.        *)
CardsStay == /\ ShownWhereMade
             /\ sending # Nothing => sending.ids = SentIds /\ armed = Nothing

LEMMA SameCards ==
  ASSUME shots' = shots
  PROVE  SentIds' = SentIds
BY DEF SentIds

LEMMA RequestOfCards == ShotRequest.ids = SentIds
BY DEF ShotRequest, SentIds

LEMMA CardStep ==
  ASSUME "drags" \in KeptDrags, CardsStay, [ShotNext]_shotVars
  PROVE  CardsStay'
<1> USE DEF CardsStay, ShownWhereMade, job, storyboard, SetShots
<1>1. CASE Edit \/ Pick \/ Add \/ Duplicate \/ RemoveShot
  <2>1. sending = Nothing /\ UNCHANGED <<sending, lastIds, made>>
    BY <1>1 DEF Edit, Pick, Add, Duplicate, RemoveShot, Editable
  <2> QED BY <2>1
<1>2. CASE Move \/ Drop
  <2>1. sending = Nothing /\ UNCHANGED <<sending, lastIds, made>>
    BY <1>2 DEF Move, Drop, Dragging, Editable, MoveTo
  <2> QED BY <2>1
<1>3. CASE Arm \/ Prefill
  BY <1>3 DEF Arm, Prefill, Editable
<1>4. CASE DragEnd \/ Dismiss \/ SwitchPicking \/ UNCHANGED shotVars
  <2>1. UNCHANGED <<shots, sending, lastIds, made>> /\ armed' \in {armed, Nothing}
    BY <1>4 DEF DragEnd, Dismiss, SwitchPicking, shotVars
  <2> QED BY <2>1, SameCards
<1>5. CASE Generate
  <2>1. UNCHANGED <<shots, lastIds, made, armed>> /\ armed = Nothing /\ sending' = ShotRequest
    BY <1>5 DEF Generate
  <2> QED BY <2>1, SameCards, RequestOfCards
<1>6. CASE Created
  BY <1>6 DEF Created
<1>7. CASE NotCreated
  BY <1>7 DEF NotCreated
<1> QED BY <1>1, <1>2, <1>3, <1>4, <1>5, <1>6, <1>7 DEF ShotNext

(* The pictures of a job are shown at the cards they were asked for, if a  *)
(* handle is pressed only to drag (shotResults.ts, SequenceStudio.tsx).    *)
THEOREM PicturesKeepTheirCards ==
  ASSUME "drags" \in KeptDrags
  PROVE  Spec => []ShownWhereMade
<1>1. Init => CardsStay
  BY DEF Init, ShotInit, CardsStay, ShownWhereMade
<1>2. CardsStay /\ [Next]_studioVars => CardsStay'
  BY CardStep, FormSteps
<1>3. CardsStay => ShownWhereMade
  BY DEF CardsStay
<1> QED BY <1>1, <1>2, <1>3, PTL DEF Spec
-----------------------------------------------------------------------------
(* The k-th position of a set: its positions in order, none left out. *)
LEMMA Ranks ==
  ASSUME NEW n \in Nat, NEW P \in SUBSET (1..n)
  PROVE  /\ Cardinality(P) \in 0..n
         /\ \A k \in 1..Cardinality(P) : Nth(P, k) \in P
         /\ \A k, l \in 1..Cardinality(P) : k < l => Nth(P, k) < Nth(P, l)
         /\ \A i \in P : \E k \in 1..Cardinality(P) : Nth(P, k) = i
<1> DEFINE UpTo(i) == {j \in P : j <= i}
           rank == [i \in P |-> Cardinality(UpTo(i))]
           N == Cardinality(P)
<1>1. IsFiniteSet(P) /\ N \in 0..n
  <2>1. IsFiniteSet(1..n) /\ Cardinality(1..n) = n
    <3>1. 1 \in Int /\ n \in Int
      OBVIOUS
    <3>2. IsFiniteSet(1..n) /\ Cardinality(1..n) = IF 1 > n THEN 0 ELSE n - 1 + 1
      BY <3>1, FS_Interval
    <3> QED BY <3>2
  <2>2. IsFiniteSet(P) /\ N <= n
    BY <2>1, FS_Subset
  <2>3. N \in Nat
    BY <2>2, FS_CardinalityType
  <2> QED BY <2>2, <2>3
<1>2. ASSUME NEW i \in P PROVE IsFiniteSet(UpTo(i)) /\ Cardinality(UpTo(i)) \in 1..N
  <2>1. UpTo(i) \in SUBSET P /\ i \in UpTo(i)
    OBVIOUS
  <2>2. IsFiniteSet(UpTo(i)) /\ Cardinality(UpTo(i)) <= N
    BY <1>1, <2>1, FS_Subset
  <2>3. Cardinality(UpTo(i)) \in Nat /\ Cardinality(UpTo(i)) # 0
    BY <2>1, <2>2, FS_CardinalityType, FS_EmptySet
  <2> QED BY <2>2, <2>3, <1>1
<1>3. ASSUME NEW i \in P, NEW j \in P, i < j PROVE Cardinality(UpTo(i)) < Cardinality(UpTo(j))
  <2> i \in Nat /\ j \in Nat
    OBVIOUS
  <2>1. UpTo(i) \in SUBSET UpTo(j) /\ j \in UpTo(j) /\ j \notin UpTo(i)
    <3>1. ASSUME NEW m \in UpTo(i) PROVE m \in UpTo(j)
      <4>1. m \in P /\ m \in Nat /\ m <= i
        OBVIOUS
      <4> QED BY <4>1, <1>3
    <3>2. j \in UpTo(j) /\ ~(j <= i)
      BY <1>3
    <3> QED BY <3>1, <3>2
  <2>2. Cardinality(UpTo(i)) <= Cardinality(UpTo(j)) /\ Cardinality(UpTo(i)) # Cardinality(UpTo(j))
    <3>1. UpTo(i) # UpTo(j)
      BY <2>1
    <3> HIDE DEF UpTo
    <3> QED BY <1>2, <2>1, <3>1, FS_Subset
  <2> QED BY <1>2, <2>2
<1>4. rank \in Injection(P, 1..N)
  <2>1. rank \in [P -> 1..N]
    BY <1>2
  <2>2. ASSUME NEW i \in P, NEW j \in P, i # j PROVE rank[i] # rank[j]
    <3>1. i < j \/ j < i
      BY <2>2
    <3> QED BY <3>1, <1>2, <1>3
  <2> QED BY <2>1, <2>2 DEF Injection, IsInjective
<1>5. rank \in Surjection(P, 1..N)
  <2>1. IsFiniteSet(1..N) /\ Cardinality(1..N) = N
    BY <1>1, FS_Interval
  <2> QED BY <1>4, <2>1, FS_Injection
<1>6. ASSUME NEW k \in 1..N PROVE Nth(P, k) \in P /\ Cardinality(UpTo(Nth(P, k))) = k
  <2>1. \E i \in P : rank[i] = k
    BY <1>5 DEF Surjection
  <2> QED BY <2>1 DEF Nth
<1>7. ASSUME NEW k \in 1..N, NEW l \in 1..N, k < l PROVE Nth(P, k) < Nth(P, l)
  <2> DEFINE a == Nth(P, k)
             b == Nth(P, l)
  <2>1. a \in 1..n /\ b \in 1..n /\ a \in P /\ b \in P
    BY <1>6
  <2>0. Cardinality(UpTo(a)) = k /\ Cardinality(UpTo(b)) = l /\ k \in Int /\ l \in Int
    BY <1>6
  <2> HIDE DEF UpTo, a, b
  <2>2. ~(b < a)
    <3>1. b < a => Cardinality(UpTo(b)) < Cardinality(UpTo(a))
      BY <2>1, <1>3
    <3> QED BY <3>1, <2>0, <1>7
  <2>3. b # a
    BY <2>0, <1>7
  <2>4. a < b
    BY <2>1, <2>2, <2>3
  <2> QED BY <2>4 DEF a, b
<1>8. ASSUME NEW i \in P PROVE \E k \in 1..N : Nth(P, k) = i
  <2> DEFINE k == Cardinality(UpTo(i))
  <2>1. k \in 1..N
    BY <1>2
  <2>2. Nth(P, k) \in P /\ Cardinality(UpTo(Nth(P, k))) = k
    BY <2>1, <1>6
  <2>3. rank[Nth(P, k)] = rank[i]
    BY <2>2
  <2>4. Nth(P, k) = i
    BY <2>2, <2>3, <1>4 DEF Injection, IsInjective
  <2> QED BY <2>1, <2>4
<1> QED BY <1>1, <1>6, <1>7, <1>8

-----------------------------------------------------------------------------
Card == [id : Ids, text : Texts, ref : Ids \cup {Nothing}]
OneEach(s) == \A i, j \in DOMAIN s : s[i].id = s[j].id => i = j
Sound(s) == s \in Seq(Card) /\ OneEach(s) /\ \A i \in DOMAIN s : Valid(s, i)

LEMMA AtIs ==
  ASSUME NEW s, OneEach(s), NEW i \in DOMAIN s
  PROVE  At(s, s[i].id) = i
BY DEF OneEach, At

LEMMA ValidMeans ==
  ASSUME NEW s, OneEach(s), NEW i \in DOMAIN s
  PROVE  Valid(s, i) <=> s[i].ref = Nothing \/ \E j \in DOMAIN s : j < i /\ s[j].id = s[i].ref
BY AtIs DEF Valid, IdsOf

LEMMA FilteredIs ==
  ASSUME NEW S, NEW s \in Seq(S), NEW P \in SUBSET DOMAIN s
  PROVE  /\ Filtered(s, P) \in Seq(S)
         /\ Len(Filtered(s, P)) = Cardinality(P) /\ Cardinality(P) \in 0..Len(s)
         /\ \A k \in DOMAIN Filtered(s, P) : Nth(P, k) \in P /\ Filtered(s, P)[k] = s[Nth(P, k)]
         /\ \A k, l \in DOMAIN Filtered(s, P) : /\ k < l <=> Nth(P, k) < Nth(P, l)
                                                /\ Nth(P, k) = Nth(P, l) => k = l
         /\ \A i \in P : \E k \in DOMAIN Filtered(s, P) : Nth(P, k) = i
<1> DEFINE N == Cardinality(P)
<1>1. /\ N \in 0..Len(s)
      /\ \A k \in 1..N : Nth(P, k) \in P
      /\ \A k, l \in 1..N : k < l => Nth(P, k) < Nth(P, l)
      /\ \A i \in P : \E k \in 1..N : Nth(P, k) = i
  <2>1. P \in SUBSET (1..Len(s)) /\ Len(s) \in Nat
    OBVIOUS
  <2> QED BY <2>1, Ranks
<1> HIDE DEF N
<1>2. Filtered(s, P) = [k \in 1..N |-> s[Nth(P, k)]]
  BY DEF Filtered, N
<1>3. \A k \in 1..N : s[Nth(P, k)] \in S
  BY <1>1
<1>4. Filtered(s, P) \in Seq(S) /\ Len(Filtered(s, P)) = N /\ DOMAIN Filtered(s, P) = 1..N
  BY <1>1, <1>2, <1>3
<1>5. ASSUME NEW k \in 1..N, NEW l \in 1..N
      PROVE  (k < l <=> Nth(P, k) < Nth(P, l)) /\ (Nth(P, k) = Nth(P, l) => k = l)
  <2> DEFINE a == Nth(P, k)
             b == Nth(P, l)
  <2>1. a \in Nat /\ b \in Nat /\ (l < k => b < a) /\ (k < l => a < b) /\ (l = k => a = b)
    BY <1>1
  <2>2. k \in Int /\ l \in Int
    OBVIOUS
  <2> HIDE DEF a, b
  <2>3. (k < l <=> a < b) /\ (a = b => k = l)
    BY <2>1, <2>2
  <2> QED BY <2>3 DEF a, b
<1> QED BY <1>1, <1>2, <1>4, <1>5 DEF N

(* A card that is left has its id still. *)
LEMMA FilteredOneEach ==
  ASSUME NEW s \in Seq(Card), OneEach(s), NEW P \in SUBSET DOMAIN s
  PROVE  OneEach(Filtered(s, P))
BY FilteredIs DEF OneEach

(* A request keeps the cards with a description and their references. *)
IsRequest(r) ==
    /\ DOMAIN r.spec.texts = DOMAIN r.ids /\ DOMAIN r.spec.refs = DOMAIN r.ids
    /\ r.ids \in Seq(Ids) /\ Len(r.ids) \in 1..MaxShots
    /\ r.spec.texts \in Seq(Texts)
    /\ \A i \in DOMAIN r.ids : r.spec.refs[i] \in Nat /\ r.spec.refs[i] < i

LEMMA PositionsMeanCards ==
  ASSUME NEW s, Sound(s)
  PROVE  LET kept == KeptShots(s)
         IN  /\ kept \in Seq(Card) /\ Len(kept) <= Len(s)
             /\ \A i \in DOMAIN kept :
                  /\ RefOf(kept, i) \in Nat /\ RefOf(kept, i) < i
                  /\ RefOf(kept, i) > 0 =>
                       /\ RefOf(kept, i) \in DOMAIN kept
                       /\ s[At(s, kept[i].id)].ref = kept[RefOf(kept, i)].id
<1> DEFINE P == {i \in DOMAIN s : s[i].text # Empty}
           kept == KeptShots(s)
<1>1. kept = Filtered(s, P)
  BY DEF KeptShots
<1> s \in Seq(Card) /\ OneEach(s) /\ \A i \in DOMAIN s : Valid(s, i)
  BY DEF Sound
<1>2. /\ kept \in Seq(Card) /\ OneEach(kept) /\ Len(kept) <= Len(s)
      /\ \A k \in DOMAIN kept : Nth(P, k) \in P /\ kept[k] = s[Nth(P, k)]
      /\ \A k, l \in DOMAIN kept : k < l <=> Nth(P, k) < Nth(P, l)
  <2>1. P \in SUBSET DOMAIN s
    OBVIOUS
  <2> HIDE DEF P
  <2>2. Len(s) \in Nat
    OBVIOUS
  <2>3. Len(kept) = Cardinality(P) /\ Cardinality(P) \in 0..Len(s)
    BY <1>1, <2>1, FilteredIs
  <2> QED BY <1>1, <2>1, <2>2, <2>3, FilteredIs, FilteredOneEach
<1> HIDE DEF kept
<1>3. ASSUME NEW i \in DOMAIN kept
      PROVE  /\ RefOf(kept, i) \in Nat /\ RefOf(kept, i) < i
             /\ RefOf(kept, i) > 0 =>
                   /\ RefOf(kept, i) \in DOMAIN kept
                   /\ s[At(s, kept[i].id)].ref = kept[RefOf(kept, i)].id
  <2>1. i \in Nat /\ i > 0
    BY <1>2
  <2>2. CASE kept[i].ref \notin IdsOf(kept)
    BY <2>1, <2>2 DEF RefOf
  <2>3. CASE kept[i].ref \in IdsOf(kept)
    <3>1. PICK j \in DOMAIN kept : kept[j].id = kept[i].ref
      BY <2>3 DEF IdsOf
    <3>2. RefOf(kept, i) = j
      BY <1>2, <2>3, <3>1, AtIs DEF RefOf
    <3>3. Nth(P, i) \in DOMAIN s /\ Nth(P, j) \in DOMAIN s
      BY <1>2
    <3>4. s[Nth(P, i)] = kept[i] /\ s[Nth(P, j)] = kept[j]
      BY <1>2
    <3>5. kept[i].ref # Nothing
      <4>1. kept[j].id \in Ids
        <5>1. kept[j] \in Card
          BY <1>2
        <5> QED BY <5>1 DEF Card
      <4> QED BY <4>1, <3>1, ShotAssumption
    <3>6. PICK q \in DOMAIN s : q < Nth(P, i) /\ s[q].id = s[Nth(P, i)].ref
      BY <3>3, <3>4, <3>5, ValidMeans
    <3>7. q = Nth(P, j)
      BY <3>1, <3>3, <3>4, <3>6 DEF OneEach
    <3>8. j < i
      BY <1>2, <3>6, <3>7
    <3>9. j \in Nat
      BY <1>2
    <3>10. At(s, kept[i].id) = Nth(P, i)
      BY <3>3, <3>4, AtIs
    <3> QED BY <3>1, <3>2, <3>4, <3>8, <3>9, <3>10
  <2> QED BY <2>2, <2>3
<1> QED BY <1>2, <1>3 DEF kept

(* Steps that keep the cards at their places. *)
LEMMA Restored ==
  ASSUME NEW s \in Seq(Card), OneEach(s), NEW t \in Seq(Card), Len(t) = Len(s),
         \A i \in DOMAIN s : /\ t[i].id = s[i].id
                             /\ t[i].ref = Nothing \/ \E j \in DOMAIN s : j < i /\ s[j].id = t[i].ref
  PROVE  Sound(t)
<1>1. DOMAIN t = DOMAIN s
  OBVIOUS
<1>2. OneEach(t)
  BY <1>1 DEF OneEach
<1>3. ASSUME NEW i \in DOMAIN t PROVE Valid(t, i)
  BY <1>1, <1>2, ValidMeans
<1> QED BY <1>2, <1>3 DEF Sound

LEMMA Cards ==
  ASSUME NEW s \in Seq(Card), NEW i \in DOMAIN s
  PROVE  /\ s[i] \in Card /\ s[i].id \in Ids /\ s[i].text \in Texts /\ s[i].ref \in Ids \cup {Nothing}
         /\ \A x \in Ids : [s[i] EXCEPT !.id = x] \in Card /\ [s[i] EXCEPT !.id = x].id = x
                         /\ [s[i] EXCEPT !.id = x].ref = s[i].ref
         /\ \A x \in Texts : [s[i] EXCEPT !.text = x] \in Card /\ [s[i] EXCEPT !.text = x].id = s[i].id
                         /\ [s[i] EXCEPT !.text = x].ref = s[i].ref
         /\ \A x \in Ids \cup {Nothing} : [s[i] EXCEPT !.ref = x] \in Card /\ [s[i] EXCEPT !.ref = x].id = s[i].id
                         /\ [s[i] EXCEPT !.ref = x].ref = x
<1>1. s[i] \in Card
  OBVIOUS
<1> QED BY <1>1 DEF Card

LEMMA NewCard ==
  ASSUME NEW id \in Ids, NEW text \in Texts
  PROVE  NewShot(id, text) \in Card /\ NewShot(id, text).id = id /\ NewShot(id, text).ref = Nothing
BY DEF NewShot, Card

LEMMA ClearedIsSound ==
  ASSUME NEW s \in Seq(Card), OneEach(s)
  PROVE  Sound(ClearInvalid(s)) /\ Len(ClearInvalid(s)) = Len(s)
<1> DEFINE t == ClearInvalid(s)
<1>1. ASSUME NEW i \in DOMAIN s
      PROVE  /\ Cleared(s, i) \in Card /\ Cleared(s, i).id = s[i].id
             /\ Cleared(s, i).ref = Nothing \/ \E j \in DOMAIN s : j < i /\ s[j].id = Cleared(s, i).ref
  <2>1. CASE Valid(s, i)
    BY <2>1, Cards, ValidMeans DEF Cleared
  <2>2. CASE ~Valid(s, i)
    BY <2>2, Cards DEF Cleared
  <2> QED BY <2>1, <2>2
<1>2. t = [i \in 1..Len(s) |-> Cleared(s, i)] /\ Len(s) \in Nat
  BY DEF ClearInvalid
<1>3. t \in Seq(Card) /\ Len(t) = Len(s) /\ \A i \in DOMAIN s : t[i] = Cleared(s, i)
  BY <1>1, <1>2
<1> QED BY <1>1, <1>3, Restored

LEMMA EditIsSound ==
  ASSUME NEW s, Sound(s), NEW i \in DOMAIN s, NEW x \in Texts
  PROVE  Sound([s EXCEPT ![i].text = x]) /\ Len([s EXCEPT ![i].text = x]) = Len(s)
<1> DEFINE t == [s EXCEPT ![i].text = x]
<1> s \in Seq(Card) /\ OneEach(s)
  BY DEF Sound
<1>1. t = [s EXCEPT ![i] = [s[i] EXCEPT !.text = x]]
  OBVIOUS
<1>2. t \in Seq(Card) /\ Len(t) = Len(s)
  BY <1>1, Cards
<1>3. ASSUME NEW k \in DOMAIN s PROVE t[k].id = s[k].id /\ t[k].ref = s[k].ref
  <2>1. t[k] = IF k = i THEN [s[i] EXCEPT !.text = x] ELSE s[k]
    BY <1>1
  <2> QED BY <2>1, Cards
<1>4. ASSUME NEW k \in DOMAIN s PROVE s[k].ref = Nothing \/ \E j \in DOMAIN s : j < k /\ s[j].id = s[k].ref
  BY ValidMeans DEF Sound
<1> HIDE DEF t
<1>5. Sound(t)
  BY <1>2, <1>3, <1>4, Restored
<1> QED BY <1>2, <1>5 DEF t

LEMMA PickIsSound ==
  ASSUME NEW s, Sound(s), NEW i \in DOMAIN s, NEW r \in IdsOf(SubSeq(s, 1, i - 1)) \cup {Nothing}
  PROVE  Sound([s EXCEPT ![i].ref = r]) /\ Len([s EXCEPT ![i].ref = r]) = Len(s)
<1> DEFINE t == [s EXCEPT ![i].ref = r]
<1> s \in Seq(Card) /\ OneEach(s)
  BY DEF Sound
<1>0. r = Nothing \/ \E j \in DOMAIN s : j < i /\ s[j].id = r
  <2>1. SUFFICES ASSUME r # Nothing PROVE \E j \in DOMAIN s : j < i /\ s[j].id = r
    OBVIOUS
  <2>2. PICK j \in DOMAIN SubSeq(s, 1, i - 1) : SubSeq(s, 1, i - 1)[j].id = r
    BY <2>1 DEF IdsOf
  <2>3. DOMAIN SubSeq(s, 1, i - 1) = 1..(i - 1) /\ SubSeq(s, 1, i - 1)[j] = s[j]
    BY <2>2
  <2> QED BY <2>2, <2>3
<1>1. r \in Ids \cup {Nothing}
  BY <1>0, Cards
<1>2. t = [s EXCEPT ![i] = [s[i] EXCEPT !.ref = r]]
  OBVIOUS
<1>3. t \in Seq(Card) /\ Len(t) = Len(s)
  BY <1>1, <1>2, Cards
<1>4. ASSUME NEW k \in DOMAIN s PROVE t[k].id = s[k].id /\ t[k].ref = IF k = i THEN r ELSE s[k].ref
  <2>1. t[k] = IF k = i THEN [s[i] EXCEPT !.ref = r] ELSE s[k]
    BY <1>2
  <2> QED BY <1>1, <2>1, Cards
<1>5. ASSUME NEW k \in DOMAIN s PROVE s[k].ref = Nothing \/ \E j \in DOMAIN s : j < k /\ s[j].id = s[k].ref
  BY ValidMeans DEF Sound
<1> HIDE DEF t
<1>6. ASSUME NEW k \in DOMAIN s PROVE t[k].ref = Nothing \/ \E j \in DOMAIN s : j < k /\ s[j].id = t[k].ref
  BY <1>0, <1>4, <1>5
<1>7. Sound(t)
  BY <1>3, <1>4, <1>6, Restored
<1> QED BY <1>3, <1>7 DEF t

(* The cards t are the cards s with the card e put in at place i. *)
PutIn(t, s, i, e) ==
  /\ t \in Seq(Card) /\ Len(t) = Len(s) + 1
  /\ \A k \in 1..(Len(s) + 1) : t[k] = IF k < i THEN s[k] ELSE IF k = i THEN e ELSE s[k - 1]

LEMMA Inserted ==
  ASSUME NEW s \in Seq(Card), NEW e \in Card, NEW i \in Nat, 1 <= i, i <= Len(s) + 1
  PROVE  PutIn(InsertAt(s, i, e), s, i, e)
<1> DEFINE a == SubSeq(s, 1, i - 1)
           b == SubSeq(s, i, Len(s))
<1>1. /\ a \in Seq(Card) /\ Len(a) = i - 1 /\ \A k \in 1..(i - 1) : a[k] = s[k]
      /\ b \in Seq(Card) /\ Len(b) = Len(s) - i + 1 /\ \A k \in 1..(Len(s) - i + 1) : b[k] = s[i + k - 1]
  OBVIOUS
<1> HIDE DEF a, b
<1>2. <<e>> \in Seq(Card) /\ Len(<<e>>) = 1 /\ <<e>>[1] = e
  OBVIOUS
<1> DEFINE c == a \o <<e>>
<1>3. c \in Seq(Card) /\ Len(c) = i /\ c[i] = e /\ \A k \in 1..(i - 1) : c[k] = s[k]
  <2>1. a \in Seq(Card) /\ Len(a) = i - 1
    BY <1>1
  <2>2. c = Append(a, e)
    BY <2>1
  <2>3. c \in Seq(Card) /\ Len(c) = Len(a) + 1 /\ c[Len(a) + 1] = e /\ \A k \in 1..Len(a) : c[k] = a[k]
    BY <2>1, <2>2
  <2> HIDE DEF c
  <2>4. Len(a) + 1 = i /\ \A k \in 1..(i - 1) : a[k] = s[k]
    BY <1>1
  <2> QED BY <2>1, <2>3, <2>4
<1> HIDE DEF c
<1> DEFINE d == c \o b
<1>4. /\ d \in Seq(Card) /\ Len(d) = Len(s) + 1 /\ \A k \in 1..i : d[k] = c[k]
      /\ \A k \in (i + 1)..(Len(s) + 1) : d[k] = b[k - i]
  BY <1>1, <1>3
<1>5. InsertAt(s, i, e) = d
  BY DEF InsertAt, a, b, c, d
<1> HIDE DEF d
<1>6. ASSUME NEW k \in 1..(Len(s) + 1)
      PROVE  d[k] = IF k < i THEN s[k] ELSE IF k = i THEN e ELSE s[k - 1]
  <2>1. CASE k <= i
    BY <2>1, <1>3, <1>4
  <2>2. CASE k > i
    <3>1. k - i \in 1..(Len(s) - i + 1) /\ d[k] = b[k - i]
      BY <2>2, <1>4
    <3> QED BY <3>1, <2>2, <1>1
  <2> QED BY <2>1, <2>2
<1> QED BY <1>4, <1>5, <1>6 DEF PutIn

LEMMA Removed ==
  ASSUME NEW s \in Seq(Card), NEW i \in 1..Len(s)
  PROVE  /\ RemoveAt(s, i) \in Seq(Card) /\ Len(RemoveAt(s, i)) = Len(s) - 1
         /\ \A k \in 1..(Len(s) - 1) : RemoveAt(s, i)[k] = IF k < i THEN s[k] ELSE s[k + 1]
<1> DEFINE a == SubSeq(s, 1, i - 1)
           b == SubSeq(s, i + 1, Len(s))
<1>1. /\ a \in Seq(Card) /\ Len(a) = i - 1 /\ \A k \in 1..(i - 1) : a[k] = s[k]
      /\ b \in Seq(Card) /\ Len(b) = Len(s) - i /\ \A k \in 1..(Len(s) - i) : b[k] = s[i + k]
  OBVIOUS
<1> HIDE DEF a, b
<1> DEFINE d == a \o b
<1>2. /\ d \in Seq(Card) /\ Len(d) = Len(s) - 1 /\ \A k \in 1..(i - 1) : d[k] = a[k]
      /\ \A k \in i..(Len(s) - 1) : d[k] = b[k - (i - 1)]
  <2>1. /\ d \in Seq(Card) /\ Len(d) = Len(a) + Len(b)
        /\ \A k \in 1..Len(a) : d[k] = a[k]
        /\ \A k \in (Len(a) + 1)..(Len(a) + Len(b)) : d[k] = b[k - Len(a)]
    <3>1. a \in Seq(Card) /\ b \in Seq(Card)
      BY <1>1
    <3> QED BY <3>1
  <2>2. Len(a) = i - 1 /\ Len(a) + 1 = i /\ Len(a) + Len(b) = Len(s) - 1
    BY <1>1
  <2> QED BY <2>1, <2>2
<1>3. RemoveAt(s, i) = d
  BY DEF RemoveAt, a, b, d
<1> HIDE DEF d
<1>4. ASSUME NEW k \in 1..(Len(s) - 1) PROVE d[k] = IF k < i THEN s[k] ELSE s[k + 1]
  <2>1. CASE k < i
    <3>1. k \in 1..(i - 1)
      BY <2>1
    <3> QED BY <3>1, <2>1, <1>1, <1>2
  <2>2. CASE k >= i
    <3>1. k - (i - 1) \in 1..(Len(s) - i) /\ k \in i..(Len(s) - 1)
      BY <2>2
    <3>2. d[k] = s[i + (k - (i - 1))]
      BY <3>1, <1>1, <1>2
    <3>3. i + (k - (i - 1)) = k + 1
      OBVIOUS
    <3> QED BY <3>2, <3>3, <2>2
  <2> QED BY <2>1, <2>2
<1> QED BY <1>2, <1>3, <1>4

LEMMA MovedIs ==
  ASSUME NEW s \in Seq(Card), OneEach(s), NEW from \in DOMAIN s, NEW to \in DOMAIN s
  PROVE  /\ Moved(s, from, to) \in Seq(Card) /\ OneEach(Moved(s, from, to)) /\ Len(Moved(s, from, to)) = Len(s)
         /\ \A k \in DOMAIN Moved(s, from, to) : \E j \in DOMAIN s : Moved(s, from, to)[k] = s[j]
<1> DEFINE r == RemoveAt(s, from)
           t == Moved(s, from, to)
           Source(k) == IF k = to THEN from
                        ELSE IF k < to THEN IF k < from THEN k ELSE k + 1
                        ELSE IF k - 1 < from THEN k - 1 ELSE k
<1>1. /\ r \in Seq(Card) /\ Len(r) = Len(s) - 1
      /\ \A k \in 1..(Len(s) - 1) : r[k] = IF k < from THEN s[k] ELSE s[k + 1]
  <2>1. from \in 1..Len(s)
    OBVIOUS
  <2>2. /\ RemoveAt(s, from) \in Seq(Card) /\ Len(RemoveAt(s, from)) = Len(s) - 1
        /\ \A k \in 1..(Len(s) - 1) : RemoveAt(s, from)[k] = IF k < from THEN s[k] ELSE s[k + 1]
    BY <2>1, Removed
  <2> QED BY <2>2
<1> HIDE DEF r
<1>2. s[from] \in Card /\ to \in 1..(Len(r) + 1) /\ Len(r) + 1 = Len(s)
  BY <1>1
<1>3. /\ t \in Seq(Card) /\ Len(t) = Len(s)
      /\ \A k \in 1..Len(s) : t[k] = IF k < to THEN r[k] ELSE IF k = to THEN s[from] ELSE r[k - 1]
  <2>1. t = InsertAt(r, to, s[from])
    BY DEF Moved, r
  <2>2. /\ t \in Seq(Card) /\ Len(t) = Len(r) + 1
        /\ \A k \in 1..(Len(r) + 1) : t[k] = IF k < to THEN r[k] ELSE IF k = to THEN s[from] ELSE r[k - 1]
    <3> DEFINE e == s[from]
    <3>1. r \in Seq(Card) /\ e \in Card /\ to \in Nat /\ 1 <= to /\ to <= Len(r) + 1
      BY <1>1, <1>2
    <3> HIDE DEF e
    <3>2. PutIn(InsertAt(r, to, e), r, to, e)
      BY <3>1, Inserted
    <3> HIDE DEF t
    <3> QED BY <2>1, <3>2 DEF e, PutIn
  <2> QED BY <1>2, <2>2
<1> HIDE DEF t
<1>4. ASSUME NEW k \in 1..Len(s) PROVE Source(k) \in 1..Len(s) /\ t[k] = s[Source(k)]
  <2>1. CASE k < to
    <3>1. k \in 1..(Len(s) - 1) /\ t[k] = r[k]
      BY <2>1, <1>3
    <3> QED BY <3>1, <2>1, <1>1
  <2>2. CASE k = to
    BY <2>2, <1>3
  <2>3. CASE k > to
    <3>1. k - 1 \in 1..(Len(s) - 1) /\ t[k] = r[k - 1]
      BY <2>3, <1>3
    <3> QED BY <3>1, <2>3, <1>1
  <2> QED BY <2>1, <2>2, <2>3
<1>5. \A k, l \in 1..Len(s) : Source(k) = Source(l) => k = l
  OBVIOUS
<1> HIDE DEF Source
<1>6. OneEach(t)
  <2>1. DOMAIN t = 1..Len(s) /\ DOMAIN s = 1..Len(s)
    BY <1>3
  <2>2. ASSUME NEW k \in 1..Len(s), NEW l \in 1..Len(s), t[k].id = t[l].id PROVE k = l
    <3>1. Source(k) = Source(l)
      BY <1>4, <2>1, <2>2 DEF OneEach
    <3> QED BY <3>1, <1>5
  <2> QED BY <2>1, <2>2 DEF OneEach
<1>7. \A k \in DOMAIN t : \E j \in DOMAIN s : t[k] = s[j]
  <2>1. DOMAIN t = 1..Len(s) /\ DOMAIN s = 1..Len(s)
    BY <1>3
  <2> QED BY <1>4, <2>1
<1> QED BY <1>3, <1>6, <1>7 DEF t

(* A removed card is gone, and so are the references to it. *)
LEMMA RemovedIsSound ==
  ASSUME NEW s, Sound(s), NEW i \in DOMAIN s, Len(s) > 1
  PROVE  LET rest == Without(s, s[i].id)
             t == Unlinked(rest, s[i].id)
         IN  Sound(t) /\ Len(t) = Len(rest) /\ Len(t) \in 1..Len(s)
<1> DEFINE id == s[i].id
           P == {k \in DOMAIN s : s[k].id # id}
           rest == Without(s, id)
           t == Unlinked(rest, id)
<1> s \in Seq(Card) /\ OneEach(s)
  BY DEF Sound
<1>1. rest = Filtered(s, P) /\ P \in SUBSET DOMAIN s
  BY DEF Without
<1>2. \A k \in DOMAIN s : k \in P <=> k # i
  BY DEF OneEach
<1> HIDE DEF P
<1>3. /\ rest \in Seq(Card) /\ OneEach(rest)
      /\ Len(rest) = Cardinality(P) /\ Cardinality(P) \in 0..Len(s)
      /\ \A k \in DOMAIN rest : Nth(P, k) \in P /\ rest[k] = s[Nth(P, k)]
      /\ \A k, l \in DOMAIN rest : k < l <=> Nth(P, k) < Nth(P, l)
      /\ \A q \in P : \E k \in DOMAIN rest : Nth(P, k) = q
  BY <1>1, FilteredIs, FilteredOneEach
<1> HIDE DEF rest
<1>4. Len(rest) \in 1..Len(s)
  <2>1. PICK q \in DOMAIN s : q # i
    <3>1. 1 \in DOMAIN s /\ 2 \in DOMAIN s
      OBVIOUS
    <3> QED BY <3>1
  <2>2. q \in P
    BY <1>2, <2>1
  <2>3. PICK k \in DOMAIN rest : Nth(P, k) = q
    BY <1>3, <2>2
  <2>4. Len(rest) # 0
    BY <1>3, <2>3
  <2> QED BY <1>3, <2>4
<1>5. t = [k \in 1..Len(rest) |-> IF rest[k].ref = id THEN [rest[k] EXCEPT !.ref = Nothing] ELSE rest[k]]
  BY <1>3 DEF Unlinked
<1>6. /\ t \in Seq(Card) /\ Len(t) = Len(rest)
      /\ \A k \in DOMAIN rest : /\ t[k].id = rest[k].id
                               /\ t[k].ref = IF rest[k].ref = id THEN Nothing ELSE rest[k].ref
  <2>1. ASSUME NEW k \in DOMAIN rest
        PROVE  /\ [rest[k] EXCEPT !.ref = Nothing] \in Card /\ [rest[k] EXCEPT !.ref = Nothing].id = rest[k].id
               /\ [rest[k] EXCEPT !.ref = Nothing].ref = Nothing /\ rest[k] \in Card
    <3>1. rest[k] \in Card
      BY <1>3
    <3> QED BY <3>1 DEF Card
  <2>2. DOMAIN rest = 1..Len(rest) /\ Len(rest) \in Nat
    BY <1>3
  <2>3. ASSUME NEW k \in DOMAIN rest
        PROVE  t[k] = IF rest[k].ref = id THEN [rest[k] EXCEPT !.ref = Nothing] ELSE rest[k]
    BY <1>5, <2>2
  <2>4. t \in Seq(Card) /\ Len(t) = Len(rest)
    BY <1>5, <2>1, <2>2
  <2> QED BY <2>1, <2>3, <2>4
<1> HIDE DEF t
<1>7. ASSUME NEW k \in DOMAIN rest, t[k].ref # Nothing
      PROVE  \E l \in DOMAIN rest : l < k /\ rest[l].id = t[k].ref
  <2>1. t[k].ref = rest[k].ref /\ rest[k].ref # id
    BY <1>6, <1>7
  <2>2. Nth(P, k) \in DOMAIN s /\ rest[k] = s[Nth(P, k)]
    BY <1>1, <1>3
  <2>3. Valid(s, Nth(P, k))
    BY <2>2 DEF Sound
  <2>4. PICK q \in DOMAIN s : q < Nth(P, k) /\ s[q].id = rest[k].ref
    BY <1>7, <2>1, <2>2, <2>3, ValidMeans
  <2>5. q \in P
    BY <1>2, <2>1, <2>4
  <2>6. PICK l \in DOMAIN rest : Nth(P, l) = q
    BY <1>3, <2>5
  <2>7. l < k /\ rest[l] = s[q]
    BY <1>3, <2>4, <2>6
  <2> QED BY <2>1, <2>4, <2>7
<1>8. Sound(t)
  BY <1>3, <1>6, <1>7, Restored
<1> QED BY <1>4, <1>6, <1>8 DEF rest, t

LEMMA AddedIsSound ==
  ASSUME NEW s, Sound(s), NEW id \in Ids, id \notin IdsOf(s)
  PROVE  Sound(Append(s, NewShot(id, Empty))) /\ Len(Append(s, NewShot(id, Empty))) = Len(s) + 1
<1> DEFINE e == NewShot(id, Empty)
           t == Append(s, e)
<1> s \in Seq(Card) /\ OneEach(s)
  BY DEF Sound
<1>1. e \in Card /\ e.id = id /\ e.ref = Nothing
  BY NewCard, ShotAssumption
<1> HIDE DEF e
<1>2. /\ t \in Seq(Card) /\ Len(t) = Len(s) + 1 /\ DOMAIN t = 1..(Len(s) + 1)
      /\ t[Len(s) + 1] = e /\ \A k \in DOMAIN s : k \in DOMAIN t /\ t[k] = s[k]
      /\ \A k \in DOMAIN t : k \in DOMAIN s \/ k = Len(s) + 1
  BY <1>1
<1> HIDE DEF t
<1>3. \A k \in DOMAIN s : s[k].id # id
  BY DEF IdsOf
<1>4. OneEach(t)
  BY <1>1, <1>2, <1>3 DEF OneEach
<1>5. ASSUME NEW k \in DOMAIN t PROVE Valid(t, k)
  <2>1. CASE k \in DOMAIN s
    <3>1. s[k].ref = Nothing \/ \E j \in DOMAIN s : j < k /\ s[j].id = s[k].ref
      BY <2>1, ValidMeans DEF Sound
    <3>2. t[k].ref = Nothing \/ \E j \in DOMAIN t : j < k /\ t[j].id = t[k].ref
      BY <2>1, <3>1, <1>2
    <3> QED BY <3>2, <1>4, ValidMeans
  <2>2. CASE k = Len(s) + 1
    BY <2>2, <1>1, <1>2 DEF Valid
  <2> QED BY <2>1, <2>2, <1>2
<1> QED BY <1>2, <1>4, <1>5 DEF Sound, t, e

LEMMA CopyIsSound ==
  ASSUME NEW s, Sound(s), NEW i \in DOMAIN s, NEW id \in Ids, id \notin IdsOf(s)
  PROVE  /\ Sound(Copy(s, i, id)) /\ Len(Copy(s, i, id)) = Len(s) + 1
         /\ \A k \in DOMAIN s : \E j \in DOMAIN Copy(s, i, id) : Copy(s, i, id)[j] = s[k]
<1> DEFINE e == [s[i] EXCEPT !.id = id]
           t == Copy(s, i, id)
           Place(k) == IF k <= i THEN k ELSE k + 1
<1> s \in Seq(Card) /\ OneEach(s) /\ i \in 1..Len(s) /\ Len(s) \in Nat
  BY DEF Sound
<1>1. e \in Card /\ e.id = id /\ e.ref = s[i].ref
  BY Cards
<1> HIDE DEF e
<1>2. /\ t \in Seq(Card) /\ Len(t) = Len(s) + 1
      /\ \A k \in 1..(Len(s) + 1) : t[k] = IF k < i + 1 THEN s[k] ELSE IF k = i + 1 THEN e ELSE s[k - 1]
  <2> DEFINE n == i + 1
  <2>1. n \in Nat /\ 1 <= n /\ n <= Len(s) + 1
    OBVIOUS
  <2>2. t = InsertAt(s, n, e)
    BY DEF Copy, e
  <2> HIDE DEF t, n, Place
  <2>3. PutIn(InsertAt(s, n, e), s, n, e)
    BY <1>1, <2>1, Inserted
  <2> QED BY <2>2, <2>3 DEF n, PutIn
<1> HIDE DEF t
<1>3. /\ \A k \in DOMAIN s : Place(k) \in DOMAIN t /\ t[Place(k)] = s[k]
      /\ \A k, l \in DOMAIN s : k < l => Place(k) < Place(l)
      /\ i + 1 \in DOMAIN t /\ t[i + 1] = e
      /\ \A k \in DOMAIN t : k = i + 1 \/ \E l \in DOMAIN s : k = Place(l)
  <2>1. DOMAIN t = 1..(Len(s) + 1) /\ DOMAIN s = 1..Len(s)
    BY <1>2
  <2>2. \A k \in DOMAIN s : Place(k) \in DOMAIN t /\ t[Place(k)] = s[k]
    BY <1>2, <2>1
  <2>3. \A k, l \in DOMAIN s : k < l => Place(k) < Place(l)
    OBVIOUS
  <2>4. i + 1 \in DOMAIN t /\ t[i + 1] = e
    BY <1>2, <2>1
  <2>5. ASSUME NEW k \in DOMAIN t, k # i + 1 PROVE \E l \in DOMAIN s : k = Place(l)
    <3>1. CASE k <= i
      BY <3>1, <2>1
    <3>2. CASE k > i
      <4>1. k - 1 \in DOMAIN s /\ k = Place(k - 1)
        BY <3>2, <2>1, <2>5
      <4> QED BY <4>1
    <3> QED BY <3>1, <3>2, <2>1
  <2> QED BY <2>2, <2>3, <2>4, <2>5
<1>4. \A k \in DOMAIN s : s[k].id # id
  BY DEF IdsOf
<1>5. Place(i) < i + 1
  OBVIOUS
<1> HIDE DEF Place
<1>6. OneEach(t)
  BY <1>1, <1>3, <1>4 DEF OneEach
<1>7. ASSUME NEW k \in DOMAIN t PROVE Valid(t, k)
  <2>1. ASSUME NEW l \in DOMAIN s PROVE s[l].ref = Nothing \/ \E j \in DOMAIN s : j < l /\ s[j].id = s[l].ref
    BY ValidMeans DEF Sound
  <2>2. CASE k = i + 1
    <3>1. SUFFICES ASSUME t[k].ref # Nothing PROVE \E j \in DOMAIN t : j < k /\ t[j].id = t[k].ref
      BY <1>6, ValidMeans
    <3>2. PICK j \in DOMAIN s : j < i /\ s[j].id = s[i].ref
      BY <1>1, <1>3, <2>1, <2>2, <3>1
    <3>3. Place(j) \in DOMAIN t /\ t[Place(j)] = s[j] /\ Place(j) < Place(i)
      BY <1>3, <3>2
    <3>4. Place(i) \in Int /\ Place(j) \in Int
      BY <1>2, <1>3
    <3> QED BY <3>2, <3>3, <3>4, <1>1, <1>3, <1>5, <2>2
  <2>3. CASE \E l \in DOMAIN s : k = Place(l)
    <3>1. PICK l \in DOMAIN s : k = Place(l)
      BY <2>3
    <3>2. SUFFICES ASSUME t[k].ref # Nothing PROVE \E j \in DOMAIN t : j < k /\ t[j].id = t[k].ref
      BY <1>6, ValidMeans
    <3>3. PICK j \in DOMAIN s : j < l /\ s[j].id = s[l].ref
      BY <1>3, <2>1, <3>1, <3>2
    <3> QED BY <1>3, <3>1, <3>3
  <2> QED BY <1>3, <2>2, <2>3
<1>8. \A k \in DOMAIN s : \E j \in DOMAIN t : t[j] = s[k]
  BY <1>3
<1> QED BY <1>2, <1>6, <1>7, <1>8 DEF Sound, t

LEMMA PrefilledIsSound ==
  ASSUME NEW r, IsRequest(r), NEW ids \in [1..Len(r.spec.texts) -> Ids], IsInjective(ids)
  PROVE  LET t == Prefilled(r.spec, ids) IN Sound(t) /\ Len(t) \in 1..MaxShots
<1> DEFINE n == Len(r.spec.texts)
           t == Prefilled(r.spec, ids)
           Ref(i) == IF studio = "image" THEN r.spec.refs[i] ELSE 0
           Back(i) == IF Ref(i) > 0 /\ Ref(i) < i THEN ids[Ref(i)] ELSE Nothing
<1>1. /\ n \in 1..MaxShots /\ DOMAIN r.spec.texts = 1..n
      /\ \A i \in 1..n : r.spec.texts[i] \in Texts /\ Ref(i) \in Nat
  BY ShotAssumption DEF IsRequest
<1> HIDE DEF n
<1>2. t = [i \in 1..n |-> [NewShot(ids[i], r.spec.texts[i]) EXCEPT !.ref = Back(i)]]
  BY <1>1 DEF Prefilled
<1>3. ASSUME NEW i \in 1..n
      PROVE  Back(i) = Nothing \/ \E j \in 1..n : j < i /\ Back(i) = ids[j]
  <2>1. CASE Ref(i) > 0 /\ Ref(i) < i
    <3>1. Ref(i) \in 1..n
      BY <1>1, <2>1
    <3> QED BY <2>1, <3>1
  <2> QED BY <2>1
<1> HIDE DEF Back
<1>4. ASSUME NEW i \in 1..n
      PROVE  t[i] \in Card /\ t[i].id = ids[i] /\ t[i].ref = Back(i)
  <2>1. ids[i] \in Ids /\ Back(i) \in Ids \cup {Nothing}
    BY <1>3 DEF n
  <2> QED BY <1>1, <1>2, <2>1 DEF NewShot, Card
<1> HIDE DEF t
<1>5. t \in Seq(Card) /\ Len(t) = n /\ DOMAIN t = 1..n
  <2>1. n \in Nat
    BY <1>1, ShotAssumption
  <2>2. t = [i \in 1..n |-> t[i]]
    BY <1>2
  <2> QED BY <1>4, <2>1, <2>2
<1>6. OneEach(t)
  <2>1. \A i, j \in 1..n : ids[i] = ids[j] => i = j
    BY DEF IsInjective, n
  <2> QED BY <1>4, <1>5, <2>1 DEF OneEach
<1>7. ASSUME NEW i \in DOMAIN t PROVE Valid(t, i)
  BY <1>3, <1>4, <1>5, <1>6, ValidMeans
<1> QED BY <1>1, <1>5, <1>6, <1>7 DEF Sound, t

LEMMA RequestIsSound ==
  ASSUME Sound(shots), KeptShots(shots) # <<>>, Len(shots) <= MaxShots
  PROVE  /\ IsRequest(ShotRequest) /\ SentIds \in Seq(Ids) /\ ShotRequest.ids = SentIds
         /\ \A i \in DOMAIN ShotRequest.ids : ShotRequest.spec.refs[i] > 0 =>
              /\ ShotRequest.spec.refs[i] \in DOMAIN ShotRequest.ids
              /\ shots[At(shots, ShotRequest.ids[i])].ref = ShotRequest.ids[ShotRequest.spec.refs[i]]
<1> DEFINE kept == KeptShots(shots)
           r == ShotRequest
<1>1. /\ kept \in Seq(Card) /\ Len(kept) <= Len(shots)
      /\ \A i \in DOMAIN kept :
           /\ RefOf(kept, i) \in Nat /\ RefOf(kept, i) < i
           /\ RefOf(kept, i) > 0 =>
                /\ RefOf(kept, i) \in DOMAIN kept
                /\ shots[At(shots, kept[i].id)].ref = kept[RefOf(kept, i)].id
  BY PositionsMeanCards
<1>2. kept # <<>>
  OBVIOUS
<1>3. /\ r.ids = [i \in DOMAIN kept |-> kept[i].id]
      /\ r.spec.texts = [i \in DOMAIN kept |-> kept[i].text]
      /\ DOMAIN r.spec.refs = DOMAIN kept
      /\ \A i \in DOMAIN kept : r.spec.refs[i] \in {0, RefOf(kept, i)}
      /\ SentIds = r.ids
  BY DEF ShotRequest, SequenceSpec, NoRefs, RefsOf, SentIds
<1> HIDE DEF kept, r
<1>4. Len(kept) \in 1..MaxShots /\ DOMAIN kept = 1..Len(kept)
  <2>1. Len(shots) \in Nat
    BY DEF Sound
  <2> QED BY <1>1, <1>2, <2>1, ShotAssumption
<1>5. \A i \in DOMAIN kept : kept[i].id \in Ids /\ kept[i].text \in Texts
  BY <1>1, Cards
<1>6. /\ r.ids \in Seq(Ids) /\ Len(r.ids) = Len(kept) /\ r.spec.texts \in Seq(Texts)
      /\ DOMAIN r.ids = DOMAIN kept /\ DOMAIN r.spec.texts = DOMAIN kept
  BY <1>3, <1>4, <1>5
<1>7. IsRequest(r)
  BY <1>1, <1>3, <1>4, <1>6 DEF IsRequest
<1>8. ASSUME NEW i \in DOMAIN r.ids, r.spec.refs[i] > 0
      PROVE  r.spec.refs[i] \in DOMAIN r.ids /\ shots[At(shots, r.ids[i])].ref = r.ids[r.spec.refs[i]]
  <2>1. r.spec.refs[i] = RefOf(kept, i) /\ i \in DOMAIN kept
    BY <1>3, <1>6, <1>8
  <2>2. RefOf(kept, i) > 0 /\ r.ids[i] = kept[i].id
    BY <2>1, <1>8, <1>3
  <2> QED BY <1>1, <1>3, <2>1, <2>2
<1> QED BY <1>3, <1>6, <1>7, <1>8 DEF r

LEMMA SentIdsAreIds ==
  ASSUME Sound(shots)
  PROVE  SentIds \in Seq(Ids)
<1> DEFINE kept == KeptShots(shots)
<1>1. kept \in Seq(Card)
  BY PositionsMeanCards
<1>2. SentIds = [i \in 1..Len(kept) |-> kept[i].id]
  BY <1>1 DEF SentIds
<1> HIDE DEF kept
<1> QED BY <1>1, <1>2, Cards

(* The storyboard, the requests made of it and what was reported.          *)
CardsInv == /\ Sound(shots) /\ Len(shots) \in 1..MaxShots
            /\ manual \in BOOLEAN /\ lastIds \in Seq(Ids)
            /\ \A r \in resets : r.shot \in DOMAIN shots
            /\ \A r \in Requests : IsRequest(r)

LEMMA MoveToStep ==
  ASSUME CardsInv, NEW from, NEW to \in DOMAIN shots, MoveTo(from, to)
  PROVE  Sound(shots') /\ Len(shots') = Len(shots) /\ \A r \in resets' : r.shot \in DOMAIN shots'
<1> shots \in Seq(Card) /\ OneEach(shots) /\ Len(shots) \in Nat
  BY DEF CardsInv, Sound
<1>1. CASE shots' = shots /\ resets' = {}
  BY <1>1 DEF CardsInv
<1>2. CASE /\ from \in DOMAIN shots /\ shots' = ClearInvalid(Moved(shots, from, to))
           /\ resets' = Later(Moved(shots, from, to))
  <2> DEFINE s == Moved(shots, from, to)
  <2>1. s \in Seq(Card) /\ OneEach(s) /\ Len(s) = Len(shots)
    BY <1>2, MovedIs
  <2> HIDE DEF s
  <2>2. Sound(shots') /\ Len(shots') = Len(s)
    BY <1>2, <2>1, ClearedIsSound DEF s
  <2>3. \A r \in resets' : r.shot \in DOMAIN s
    BY <1>2 DEF Later, s
  <2>4. DOMAIN shots' = DOMAIN s
    BY <2>1, <2>2 DEF Sound
  <2> QED BY <2>1, <2>2, <2>3, <2>4
<1> QED BY <1>1, <1>2 DEF MoveTo, SetShots

(* A step of the storyboard alone, outside a request. *)
LEMMA EditingStep ==
  ASSUME CardsInv, Edit \/ Pick \/ Add \/ Duplicate \/ RemoveShot \/ Move \/ Drop
  PROVE  Sound(shots') /\ Len(shots') \in 1..MaxShots /\ \A r \in resets' : r.shot \in DOMAIN shots'
<1> Sound(shots) /\ Len(shots) \in 1..MaxShots /\ Len(shots) \in Nat /\ MaxShots \in Nat
  BY ShotAssumption DEF CardsInv
<1> USE DEF SetShots
<1>1. CASE Edit
  <2>1. PICK i \in DOMAIN shots, t \in Texts : shots' = [shots EXCEPT ![i].text = t] /\ resets' = {}
    BY <1>1 DEF Edit
  <2>2. Sound([shots EXCEPT ![i].text = t]) /\ Len([shots EXCEPT ![i].text = t]) = Len(shots)
    BY EditIsSound
  <2>3. Sound(shots') /\ Len(shots') = Len(shots)
    BY <2>1, <2>2, Zenon
  <2> QED BY <2>1, <2>3
<1>2. CASE Pick
  <2>1. PICK i \in DOMAIN shots :
          \E r \in IdsOf(SubSeq(shots, 1, i - 1)) \cup {Nothing} :
             shots' = [shots EXCEPT ![i].ref = r] /\ resets' = {}
    BY <1>2, Zenon DEF Pick, SetShots
  <2> PICK r \in IdsOf(SubSeq(shots, 1, i - 1)) \cup {Nothing} :
          shots' = [shots EXCEPT ![i].ref = r] /\ resets' = {}
    BY <2>1
  <2>2. Sound([shots EXCEPT ![i].ref = r]) /\ Len([shots EXCEPT ![i].ref = r]) = Len(shots)
    BY PickIsSound
  <2>3. Sound(shots') /\ Len(shots') = Len(shots)
    BY <2>2, Zenon
  <2> QED BY <2>3
<1>3. ASSUME NEW id \in Fresh PROVE id \in Ids /\ id \notin IdsOf(shots)
  BY DEF Fresh
<1>4. CASE Add
  <2>1. PICK id \in Fresh : shots' = Append(shots, NewShot(id, Empty)) /\ resets' = {} /\ Len(shots) < MaxShots
    BY <1>4 DEF Add
  <2>2. Sound(shots') /\ Len(shots') = Len(shots) + 1
    BY <1>3, <2>1, AddedIsSound
  <2> QED BY <2>1, <2>2
<1>5. CASE Duplicate
  <2>1. PICK i \in DOMAIN shots, id \in Fresh :
          shots' = Copy(shots, i, id) /\ resets' = {} /\ Len(shots) < MaxShots
    BY <1>5 DEF Duplicate
  <2>2. Sound(shots') /\ Len(shots') = Len(shots) + 1
    BY <1>3, <2>1, CopyIsSound
  <2> QED BY <2>1, <2>2
<1>6. CASE RemoveShot
  <2>1. PICK i \in DOMAIN shots :
          /\ shots' = Unlinked(Without(shots, shots[i].id), shots[i].id)
          /\ resets' = Orphans(Without(shots, shots[i].id), shots[i].id, i)
          /\ Len(shots) > 1
    BY <1>6 DEF RemoveShot
  <2> DEFINE rest == Without(shots, shots[i].id)
  <2>2. Sound(shots') /\ Len(shots') = Len(rest) /\ Len(shots') \in 1..Len(shots)
    BY <2>1, RemovedIsSound
  <2>3. \A r \in resets' : r.shot \in DOMAIN rest
    BY <2>1 DEF Orphans
  <2>4. DOMAIN shots' = DOMAIN rest
    BY <2>1 DEF Unlinked
  <2> QED BY <2>2, <2>3, <2>4
<1>7. CASE Move
  BY <1>7, MoveToStep DEF Move
<1>8. CASE Drop
  BY <1>8, MoveToStep DEF Drop
<1> QED BY <1>1, <1>2, <1>4, <1>5, <1>6, <1>7, <1>8

LEMMA StoryboardStep ==
  ASSUME CardsInv, [ShotNext]_shotVars
  PROVE  CardsInv'
<1>1. CASE Edit \/ Pick \/ Add \/ Duplicate \/ RemoveShot \/ Move \/ Drop
  <2>1. UNCHANGED <<manual, lastIds, sending, made>>
    BY <1>1 DEF Edit, Pick, Add, Duplicate, RemoveShot, Move, Drop, MoveTo, SetShots, job
  <2>2. Sound(shots') /\ Len(shots') \in 1..MaxShots /\ \A r \in resets' : r.shot \in DOMAIN shots'
    BY <1>1, EditingStep
  <2> QED BY <2>1, <2>2 DEF CardsInv, Requests, IsRequest, Sound, Valid, At, IdsOf, OneEach
<1>2. CASE Prefill
  <2>1. /\ made \in Requests /\ resets' = {} /\ UNCHANGED <<manual, lastIds, sending, made>>
        /\ \E ids \in [1..Len(made.spec.texts) -> Fresh] : IsInjective(ids) /\ shots' = Prefilled(made.spec, ids)
    BY <1>2 DEF Prefill, Requests, job
  <2>2. PICK ids \in [1..Len(made.spec.texts) -> Ids] : IsInjective(ids) /\ shots' = Prefilled(made.spec, ids)
    BY <2>1 DEF Fresh
  <2>3. Sound(shots') /\ Len(shots') \in 1..MaxShots
    BY <2>1, <2>2, PrefilledIsSound DEF CardsInv
  <2> QED BY <2>1, <2>3 DEF CardsInv, Requests
<1>3. CASE Generate
  <2>1. shots' = shots /\ UNCHANGED <<manual, lastIds, made, resets>> /\ sending' = ShotRequest
    BY <1>3 DEF Generate, storyboard, job
  <2>2. IsRequest(ShotRequest)
    BY <1>3, RequestIsSound, ShotAssumption DEF Generate, CardsInv
  <2>3. \A r \in Requests' : r \in Requests \/ r = ShotRequest
    BY <2>1 DEF Requests
  <2> QED BY <2>1, <2>2, <2>3 DEF CardsInv
<1>4. CASE Created
  <2>1. UNCHANGED <<shots, manual, resets>> /\ lastIds' = SentIds /\ Requests' \subseteq Requests
    BY <1>4 DEF Created, storyboard, Requests
  <2> QED BY <2>1, SentIdsAreIds DEF CardsInv
<1>5. CASE Arm \/ DragEnd \/ Dismiss \/ SwitchPicking \/ NotCreated \/ UNCHANGED shotVars
  <2>1. /\ UNCHANGED <<shots, lastIds>> /\ manual' \in {manual, ~manual}
        /\ resets' \in {resets, {}} /\ Requests' \subseteq Requests
    BY <1>5 DEF Arm, DragEnd, Dismiss, SwitchPicking, NotCreated, shotVars, storyboard, job, Requests
  <2> QED BY <2>1 DEF CardsInv
<1> QED BY <1>1, <1>2, <1>3, <1>4, <1>5 DEF ShotNext

LEMMA StoryboardStart == ShotInit => CardsInv
<1> SUFFICES ASSUME ShotInit PROVE CardsInv
  OBVIOUS
<1>1. PICK a \in Ids, b \in Ids : a # b /\ shots = <<NewShot(a, Empty), NewShot(b, Empty)>>
  BY DEF ShotInit
<1>2. shots \in Seq(Card) /\ Len(shots) = 2 /\ DOMAIN shots = {1, 2}
  <2>1. NewShot(a, Empty) \in Card /\ NewShot(b, Empty) \in Card
    BY NewCard, ShotAssumption
  <2> QED BY <1>1, <2>1
<1>3. \A i \in DOMAIN shots : shots[i].id = (IF i = 1 THEN a ELSE b) /\ shots[i].ref = Nothing
  BY <1>1, <1>2, NewCard, ShotAssumption
<1>4. Sound(shots)
  BY <1>1, <1>2, <1>3 DEF Sound, OneEach, Valid
<1>5. Requests = {} /\ lastIds = <<>> /\ resets = {} /\ manual \in BOOLEAN
  BY DEF ShotInit, Requests
<1> QED BY <1>2, <1>4, <1>5, ShotAssumption DEF CardsInv

LEMMA CardsInvMeans == CardsInv => ShotTypeOK /\ RefsPointBack
<1> SUFFICES ASSUME CardsInv PROVE ShotTypeOK /\ RefsPointBack
  OBVIOUS
<1>1. shots \in Seq(Card) /\ OneEach(shots) /\ Len(shots) \in 1..MaxShots /\ DOMAIN shots = 1..Len(shots)
  BY DEF CardsInv, Sound
<1>2. \A i \in DOMAIN shots : shots[i] \in [id : Ids, text : Texts, ref : Ids \cup {Nothing}]
  <2>1. \A i \in DOMAIN shots : shots[i] \in Card
    BY <1>1
  <2> QED BY <2>1 DEF Card
<1>3. IsInjective([i \in DOMAIN shots |-> shots[i].id])
  BY <1>1 DEF IsInjective, OneEach
<1>4. shots # <<>> /\ Len(shots) <= MaxShots
  BY <1>1, ShotAssumption
<1>5. ShotTypeOK
  BY <1>2, <1>3, <1>4 DEF ShotTypeOK, CardsInv
<1>6. RefsPointBack
  BY DEF RefsPointBack, CardsInv, Sound, IsRequest
<1> QED BY <1>5, <1>6

-----------------------------------------------------------------------------
(* Steps that lose a reference. *)
LEMMA SameCardStays ==
  ASSUME OneEach(shots'), NEW i \in DOMAIN shots, NEW j \in DOMAIN shots', shots'[j].id = shots[i].id
  PROVE  At(shots', shots[i].id) = j
BY AtIs

LEMMA KeepsRefs ==
  ASSUME CardsInv, CardsInv', NEW i \in DOMAIN shots, LosesRef(i),
         \E j \in DOMAIN shots' : shots'[j].id = shots[i].id /\ shots'[j].ref = shots[i].ref
  PROVE  FALSE
BY SameCardStays DEF LosesRef, CardsInv, Sound

LEMMA MoveToReports ==
  ASSUME CardsInv, CardsInv', NEW from, NEW to \in DOMAIN shots, MoveTo(from, to),
         NEW i \in DOMAIN shots, LosesRef(i)
  PROVE  Reported(i)
<1> shots \in Seq(Card) /\ OneEach(shots) /\ OneEach(shots')
  BY DEF CardsInv, Sound
<1>1. CASE shots' = shots
  BY <1>1, KeepsRefs
<1>2. CASE /\ from \in DOMAIN shots /\ shots' = ClearInvalid(Moved(shots, from, to))
           /\ resets' = Later(Moved(shots, from, to))
  <2> DEFINE s == Moved(shots, from, to)
  <2>1. s \in Seq(Card) /\ \A k \in DOMAIN s : \E j \in DOMAIN shots : s[k] = shots[j]
    BY <1>2, MovedIs
  <2>2. shots' = [k \in DOMAIN s |-> Cleared(s, k)] /\ DOMAIN shots' = DOMAIN s
    BY <1>2 DEF ClearInvalid
  <2>3. resets' = Later(s)
    BY <1>2
  <2> HIDE DEF s
  <2>4. PICK k \in DOMAIN s : shots'[k].id = shots[i].id /\ At(shots', shots[i].id) = k
    <3>1. PICK k \in DOMAIN shots' : shots'[k].id = shots[i].id
      BY DEF LosesRef, IdsOf
    <3> QED BY <3>1, <2>2, SameCardStays
  <2>5. shots'[k].ref = Nothing /\ shots[i].ref # Nothing
    BY <2>4 DEF LosesRef
  <2>6. s[k].id = shots[i].id
    BY <2>1, <2>2, <2>4, Cards DEF Cleared
  <2>7. s[k] = shots[i]
    BY <2>1, <2>6 DEF OneEach
  <2>8. ~Valid(s, k)
    BY <2>2, <2>5, <2>7 DEF Cleared
  <2>9. \E r \in Later(s) : r.shot = k
    <3> DEFINE r == [shot |-> k, ref |-> At(s, s[k].ref), reason |-> "order"]
    <3>1. r \in Later(s)
      BY <2>8 DEF Later
    <3>2. r.shot = k
      OBVIOUS
    <3> HIDE DEF r
    <3> QED BY <3>1, <3>2
  <2> QED BY <2>3, <2>4, <2>9 DEF Reported
<1> QED BY <1>1, <1>2 DEF MoveTo, SetShots

LEMMA RefsAreReported ==
  ASSUME CardsInv, CardsInv', [ShotNext]_shotVars, NEW i \in DOMAIN shots, LosesRef(i)
  PROVE  PickedAt(i) \/ Reported(i)
<1> shots \in Seq(Card) /\ OneEach(shots) /\ Sound(shots) /\ OneEach(shots')
  BY DEF CardsInv, Sound
<1> USE DEF SetShots
<1>1. CASE Edit
  <2>1. PICK j \in DOMAIN shots, x \in Texts : shots' = [shots EXCEPT ![j].text = x]
    BY <1>1 DEF Edit
  <2>2. shots' = [shots EXCEPT ![j] = [shots[j] EXCEPT !.text = x]]
    BY <2>1
  <2>3. i \in DOMAIN shots' /\ shots'[i] = IF i = j THEN [shots[j] EXCEPT !.text = x] ELSE shots[i]
    BY <2>2
  <2>4. shots'[i].id = shots[i].id /\ shots'[i].ref = shots[i].ref
    <3>1. shots[i] \in Card
      OBVIOUS
    <3> QED BY <2>3, <3>1 DEF Card
  <2> QED BY <2>3, <2>4, KeepsRefs
<1>2. CASE Pick
  <2>1. PICK j \in DOMAIN shots : \E r : shots' = [shots EXCEPT ![j].ref = r]
    BY <1>2, Zenon DEF Pick, SetShots
  <2>2. PICK r : shots' = [shots EXCEPT ![j].ref = r]
    BY <2>1
  <2>3. CASE i # j
    <3>1. i \in DOMAIN shots' /\ shots'[i] = shots[i]
      BY <2>2, <2>3
    <3> QED BY <3>1, KeepsRefs
  <2>4. CASE i = j
    <3>1. i \in DOMAIN shots' /\ shots'[i] = [shots[i] EXCEPT !.ref = r]
      BY <2>2, <2>4
    <3>2. shots'[i].id = shots[i].id /\ shots'[i].ref = r
      <4>1. shots[i] \in Card
        OBVIOUS
      <4> QED BY <3>1, <4>1 DEF Card
    <3>3. r = Nothing
      BY <3>1, <3>2, SameCardStays DEF LosesRef
    <3> QED BY <2>2, <2>4, <3>3 DEF PickedAt
  <2> QED BY <2>3, <2>4
<1>3. CASE Add
  <2>1. PICK id \in Fresh : shots' = Append(shots, NewShot(id, Empty))
    BY <1>3 DEF Add
  <2>2. i \in DOMAIN shots' /\ shots'[i] = shots[i]
    BY <2>1
  <2> QED BY <2>2, KeepsRefs
<1>4. CASE Duplicate
  <2>1. PICK j \in DOMAIN shots, id \in Fresh : shots' = Copy(shots, j, id)
    BY <1>4 DEF Duplicate
  <2>2. id \in Ids /\ id \notin IdsOf(shots)
    BY DEF Fresh
  <2>3. \E k \in DOMAIN shots' : shots'[k] = shots[i]
    BY <2>1, <2>2, CopyIsSound
  <2> QED BY <2>3, KeepsRefs
<1>5. CASE RemoveShot
  <2>1. PICK q \in DOMAIN shots :
          /\ shots' = Unlinked(Without(shots, shots[q].id), shots[q].id)
          /\ resets' = Orphans(Without(shots, shots[q].id), shots[q].id, q)
    BY <1>5 DEF RemoveShot
  <2> DEFINE id == shots[q].id
             P == {j \in DOMAIN shots : shots[j].id # id}
             rest == Without(shots, id)
  <2>2. rest = Filtered(shots, P) /\ P \in SUBSET DOMAIN shots
    BY DEF Without
  <2> HIDE DEF P
  <2>3. rest \in Seq(Card) /\ \A k \in DOMAIN rest : \E j \in DOMAIN shots : rest[k] = shots[j]
    BY <2>2, FilteredIs
  <2>4. shots' = Unlinked(rest, id) /\ resets' = Orphans(rest, id, q)
    BY <2>1
  <2> HIDE DEF rest
  <2>5. /\ DOMAIN shots' = DOMAIN rest
        /\ \A k \in DOMAIN rest : shots'[k] = IF rest[k].ref = id THEN [rest[k] EXCEPT !.ref = Nothing] ELSE rest[k]
    BY <2>4 DEF Unlinked
  <2>6. PICK k \in DOMAIN rest : shots'[k].id = shots[i].id /\ At(shots', shots[i].id) = k
    <3>1. PICK k \in DOMAIN shots' : shots'[k].id = shots[i].id
      BY DEF LosesRef, IdsOf
    <3> QED BY <3>1, <2>5, SameCardStays
  <2>7. rest[k].id = shots[i].id
    <3>1. rest[k] \in Card
      BY <2>3
    <3> QED BY <3>1, <2>5, <2>6 DEF Card
  <2>8. rest[k] = shots[i]
    BY <2>3, <2>7 DEF OneEach
  <2>9. shots'[k].ref = Nothing /\ shots[i].ref # Nothing
    BY <2>6 DEF LosesRef
  <2>10. rest[k].ref = id
    BY <2>5, <2>8, <2>9
  <2>11. \E r \in Orphans(rest, id, q) : r.shot = k
    <3> DEFINE r == [shot |-> k, ref |-> q, reason |-> "removed"]
    <3>1. r \in Orphans(rest, id, q)
      BY <2>10 DEF Orphans
    <3>2. r.shot = k
      OBVIOUS
    <3> HIDE DEF r
    <3> QED BY <3>1, <3>2
  <2> QED BY <2>4, <2>6, <2>11 DEF Reported
<1>6. CASE Move \/ Drop
  BY <1>6, MoveToReports DEF Move, Drop
<1>7. CASE Prefill
  <2>1. PICK ids \in [1..Len(made.spec.texts) -> Fresh] : shots' = Prefilled(made.spec, ids)
    BY <1>7 DEF Prefill
  <2>2. made \in Requests
    BY <1>7 DEF Prefill, Requests
  <2>3. DOMAIN made.spec.texts = 1..Len(made.spec.texts)
    BY <2>2 DEF CardsInv, IsRequest
  <2>4. ASSUME NEW k \in DOMAIN shots' PROVE shots'[k].id \in Fresh
    BY <2>1, <2>3 DEF Prefilled, NewShot
  <2> QED BY <2>4 DEF LosesRef, IdsOf, Fresh
<1>8. CASE shots' = shots
  BY <1>8, KeepsRefs
<1>9. Arm \/ DragEnd \/ Dismiss \/ SwitchPicking \/ Generate \/ Created \/ NotCreated \/ UNCHANGED shotVars => shots' = shots
  BY DEF Arm, DragEnd, Dismiss, SwitchPicking, Generate, Created, NotCreated, shotVars, storyboard
<1> QED BY <1>1, <1>2, <1>3, <1>4, <1>5, <1>6, <1>7, <1>8, <1>9 DEF ShotNext

-----------------------------------------------------------------------------
(* Creating again.  A request has descriptions only, and an image sequence *)
(* sends every reference.                                                  *)
IsWritten(r) == /\ \A i \in DOMAIN r.spec.texts : r.spec.texts[i] # Empty
                /\ r.spec = [texts |-> r.spec.texts, refs |-> [i \in DOMAIN r.ids |-> r.spec.refs[i]]]
WrittenInv == /\ studio = "image" => manual
              /\ \A r \in Requests : IsWritten(r)

LEMMA KeptAreWritten ==
  ASSUME NEW s, Sound(s), NEW k \in DOMAIN KeptShots(s)
  PROVE  KeptShots(s)[k].text # Empty
<1> DEFINE P == {i \in DOMAIN s : s[i].text # Empty}
<1>1. KeptShots(s) = Filtered(s, P) /\ P \in SUBSET DOMAIN s /\ \A i \in P : s[i].text # Empty
  BY DEF KeptShots
<1> HIDE DEF P
<1>2. Nth(P, k) \in P /\ KeptShots(s)[k] = s[Nth(P, k)]
  BY <1>1, FilteredIs DEF Sound
<1> QED BY <1>1, <1>2

LEMMA WrittenStep ==
  ASSUME CardsInv, WrittenInv, [ShotNext]_shotVars
  PROVE  WrittenInv'
<1>1. /\ studio' = studio /\ (studio = "image" => manual' = manual)
      /\ sending' \in {sending, Nothing} \/ Generate
      /\ made' \in {made, sending}
  BY DEF ShotNext, Edit, Pick, Add, Duplicate, RemoveShot, Move, Arm, Drop, DragEnd, Dismiss, SwitchPicking,
         Prefill, Generate, Created, NotCreated, MoveTo, SetShots, shotVars, storyboard, job
<1>2. Generate => sending' = ShotRequest
  BY DEF Generate
<1>3. IsWritten(ShotRequest)
  <2> DEFINE kept == KeptShots(shots)
             r == ShotRequest
  <2>1. /\ r.ids = [i \in DOMAIN kept |-> kept[i].id]
        /\ r.spec.texts = [i \in DOMAIN kept |-> kept[i].text]
        /\ r.spec.refs = [i \in DOMAIN kept |-> r.spec.refs[i]]
        /\ r.spec = [texts |-> r.spec.texts, refs |-> r.spec.refs]
    BY DEF ShotRequest, SequenceSpec, NoRefs, RefsOf
  <2>2. \A k \in DOMAIN kept : kept[k].text # Empty
    BY KeptAreWritten DEF CardsInv
  <2> HIDE DEF kept, r
  <2>3. IsWritten(r)
    BY <2>1, <2>2 DEF IsWritten
  <2> QED BY <2>3 DEF r
<1>4. \A r \in Requests' : r \in Requests \/ r = ShotRequest
  BY <1>1, <1>2 DEF Requests
<1> QED BY <1>1, <1>3, <1>4 DEF WrittenInv, IsWritten

LEMMA AllKept ==
  ASSUME NEW s \in Seq(Card), \A i \in DOMAIN s : s[i].text # Empty
  PROVE  KeptShots(s) = s
<1> DEFINE n == Len(s)
<1>1. n \in Nat /\ {i \in DOMAIN s : s[i].text # Empty} = 1..n
  OBVIOUS
<1>2. ASSUME NEW k \in 0..n PROVE Cardinality(1..k) = k
  <2>1. k \in Int /\ 1 \in Int
    OBVIOUS
  <2>2. Cardinality(1..k) = IF 1 > k THEN 0 ELSE k - 1 + 1
    BY <2>1, FS_Interval
  <2> QED BY <2>2
<1>3. ASSUME NEW i \in 1..n PROVE Cardinality({j \in 1..n : j <= i}) = i
  <2>1. {j \in 1..n : j <= i} = 1..i
    OBVIOUS
  <2>2. i \in 0..n
    OBVIOUS
  <2>3. Cardinality(1..i) = i
    BY <2>2, <1>2
  <2> QED BY <2>1, <2>3
<1>4. ASSUME NEW k \in 1..n PROVE Nth(1..n, k) = k
  BY <1>3 DEF Nth
<1>5. KeptShots(s) = [k \in 1..n |-> s[Nth(1..n, k)]]
  <2>1. n \in 0..n
    BY <1>1
  <2>2. Cardinality(1..n) = n
    BY <2>1, <1>2
  <2>3. KeptShots(s) = Filtered(s, 1..n)
    BY <1>1 DEF KeptShots
  <2> HIDE DEF n
  <2> QED BY <2>2, <2>3 DEF Filtered
<1> QED BY <1>4, <1>5

LEMMA PrefilledAsMade ==
  ASSUME NEW r, IsRequest(r), IsWritten(r), NEW ids \in [1..Len(r.spec.texts) -> Ids], IsInjective(ids)
  PROVE  LET t == Prefilled(r.spec, ids)
         IN  /\ KeptShots(t) = t
             /\ SequenceSpec(t).texts = r.spec.texts
             /\ studio = "image" => SequenceSpec(t) = r.spec
<1> DEFINE n == Len(r.spec.texts)
           t == Prefilled(r.spec, ids)
           Ref(i) == IF studio = "image" THEN r.spec.refs[i] ELSE 0
           Back(i) == IF Ref(i) > 0 /\ Ref(i) < i THEN ids[Ref(i)] ELSE Nothing
<1>1. /\ n \in Nat /\ DOMAIN r.spec.texts = 1..n /\ DOMAIN r.spec.refs = 1..n /\ DOMAIN r.ids = 1..n
      /\ \A i \in 1..n : r.spec.texts[i] \in Texts /\ r.spec.refs[i] \in Nat /\ r.spec.refs[i] < i
  BY DEF IsRequest
<1>2. Sound(t) /\ t \in Seq(Card) /\ OneEach(t)
  BY PrefilledIsSound DEF Sound
<1> HIDE DEF n
<1>3. t = [i \in 1..n |-> [NewShot(ids[i], r.spec.texts[i]) EXCEPT !.ref = Back(i)]]
  BY <1>1 DEF Prefilled
<1> HIDE DEF Back
<1>4. DOMAIN t = 1..n /\ \A i \in 1..n : t[i].id = ids[i] /\ t[i].text = r.spec.texts[i] /\ t[i].ref = Back(i)
  BY <1>3 DEF NewShot
<1> HIDE DEF t
<1>5. KeptShots(t) = t
  <2>1. \A i \in DOMAIN t : t[i].text # Empty
    BY <1>1, <1>4 DEF IsWritten
  <2> QED BY <1>2, <2>1, AllKept
<1>6. SequenceSpec(t) = [texts |-> [i \in 1..n |-> r.spec.texts[i]], refs |-> [i \in 1..n |-> RefOf(t, i)]]
  BY <1>4 DEF SequenceSpec, RefsOf
<1>7. r.spec.texts = [i \in 1..n |-> r.spec.texts[i]]
  BY <1>1 DEF IsRequest
<1>8. ASSUME studio = "image", NEW i \in 1..n PROVE RefOf(t, i) = r.spec.refs[i]
  <2>1. Ref(i) = r.spec.refs[i] /\ Ref(i) \in Nat /\ Ref(i) < i
    BY <1>1, <1>8
  <2>2. CASE Ref(i) = 0
    <3>1. t[i].ref = Nothing
      BY <2>2, <1>4 DEF Back
    <3>2. Nothing \notin IdsOf(t)
      BY <1>2, Cards, ShotAssumption DEF IdsOf
    <3> QED BY <2>1, <2>2, <3>1, <3>2 DEF RefOf
  <2>3. CASE Ref(i) > 0
    <3>1. Ref(i) \in 1..n
      <4>1. i \in Nat /\ i <= n
        BY <1>1
      <4> QED BY <4>1, <2>1, <2>3, <1>1
    <3>2. t[i].ref = t[Ref(i)].id
      BY <2>1, <2>3, <3>1, <1>4 DEF Back
    <3>3. At(t, t[i].ref) = Ref(i) /\ t[i].ref \in IdsOf(t)
      BY <3>1, <3>2, <1>2, <1>4, AtIs DEF IdsOf
    <3> QED BY <2>1, <3>3 DEF RefOf
  <2> QED BY <2>1, <2>2, <2>3
<1>9. studio = "image" => SequenceSpec(t) = r.spec
  BY <1>1, <1>6, <1>7, <1>8 DEF IsWritten
<1> QED BY <1>5, <1>6, <1>7, <1>9 DEF t

LEMMA PrefillRecreates ==
  ASSUME CardsInv, WrittenInv, Prefill
  PROVE  /\ ShotRequest'.spec.texts = made.spec.texts
         /\ studio = "image" => ShotRequest'.spec = made.spec
<1>1. made \in Requests /\ manual' = manual
  BY DEF Prefill, Requests
<1>2. IsRequest(made) /\ IsWritten(made)
  BY <1>1 DEF CardsInv, WrittenInv
<1>3. PICK ids \in [1..Len(made.spec.texts) -> Ids] : IsInjective(ids) /\ shots' = Prefilled(made.spec, ids)
  BY DEF Prefill, Fresh
<1>4. /\ KeptShots(shots') = shots'
      /\ SequenceSpec(shots').texts = made.spec.texts
      /\ studio = "image" => SequenceSpec(shots') = made.spec
  BY <1>2, <1>3, PrefilledAsMade
<1>5. ShotRequest'.spec = IF manual' THEN SequenceSpec(KeptShots(shots')) ELSE NoRefs(SequenceSpec(KeptShots(shots')))
  BY DEF ShotRequest
<1>6. NoRefs(SequenceSpec(shots')).texts = SequenceSpec(shots').texts
  BY DEF NoRefs, SequenceSpec
<1> QED BY <1>1, <1>4, <1>5, <1>6 DEF WrittenInv

(* While a request is under way, the cards are those it was made of. *)
SendingInv ==
    /\ sending # Nothing => armed = Nothing
    /\ RefsKeepMeaning

LEMMA SendingStep ==
  ASSUME "drags" \in KeptDrags, CardsInv, SendingInv, [ShotNext]_shotVars
  PROVE  SendingInv'
<1>1. CASE sending' = Nothing
  BY <1>1 DEF SendingInv, RefsKeepMeaning
<1>2. CASE Generate
  <2>1. /\ shots' = shots /\ sending' = ShotRequest /\ armed' = Nothing
        /\ KeptShots(shots) # <<>>
    BY <1>2 DEF Generate, storyboard
  <2>2. \A i \in DOMAIN ShotRequest.ids : ShotRequest.spec.refs[i] > 0 =>
          /\ ShotRequest.spec.refs[i] \in DOMAIN ShotRequest.ids
          /\ shots[At(shots, ShotRequest.ids[i])].ref = ShotRequest.ids[ShotRequest.spec.refs[i]]
    BY <2>1, RequestIsSound, ShotAssumption DEF CardsInv
  <2> QED BY <2>1, <2>2 DEF SendingInv, RefsKeepMeaning
<1>3. CASE sending' # Nothing /\ ~Generate
  <2>1. /\ Edit \/ Pick \/ Add \/ Duplicate \/ RemoveShot \/ Move \/ Arm \/ Drop \/ Prefill => sending' = Nothing
    BY DEF Edit, Pick, Add, Duplicate, RemoveShot, Move, Arm, Drop, Prefill, Dragging, Editable, SendingInv,
           MoveTo, SetShots
  <2>2. DragEnd \/ Dismiss \/ SwitchPicking \/ UNCHANGED shotVars =>
          UNCHANGED <<shots, sending>> /\ armed' \in {armed, Nothing}
    BY DEF DragEnd, Dismiss, SwitchPicking, shotVars, storyboard
  <2>3. Created \/ NotCreated => sending' = Nothing
    BY DEF Created, NotCreated
  <2>4. UNCHANGED <<shots, sending>> /\ armed' \in {armed, Nothing}
    BY <1>3, <2>1, <2>2, <2>3 DEF ShotNext
  <2> QED BY <2>4 DEF SendingInv, RefsKeepMeaning
<1> QED BY <1>1, <1>2, <1>3

(* Every card builds on an earlier one, and so does every request, whatever *)
(* is moved, copied, removed or dropped (sequence.ts, image_sequence.go).   *)
THEOREM CardsPointBack == Spec => [](ShotTypeOK /\ RefsPointBack)
<1>1. Init => CardsInv
  BY StoryboardStart DEF Init
<1>2. CardsInv /\ [Next]_studioVars => CardsInv'
  BY StoryboardStep, FormSteps
<1> QED BY <1>1, <1>2, CardsInvMeans, PTL DEF Spec

(* The position that is sent for a reference is that of the card it was     *)
(* picked for, if a handle is pressed only to drag (sequence.ts:79-87).     *)
THEOREM RefsMeanTheirCards ==
  ASSUME "drags" \in KeptDrags
  PROVE  Spec => []RefsMeanCards
<1> DEFINE Inv == CardsInv /\ SendingInv
<1>1. Init => Inv
  BY StoryboardStart DEF Init, ShotInit, SendingInv, RefsKeepMeaning
<1>2. Inv /\ [Next]_studioVars => Inv'
  BY StoryboardStep, SendingStep, FormSteps
<1>3. Inv => RefsMeanCards
  BY CardsInvMeans DEF SendingInv, RefsMeanCards
<1> HIDE DEF Inv
<1> QED BY <1>1, <1>2, <1>3, PTL DEF Spec

(* A reference that a change clears is reported at the card's new place     *)
(* (sequence.ts:39-61).                                                     *)
LostIsReported == \A i \in DOMAIN shots : LosesRef(i) => PickedAt(i) \/ Reported(i)

THEOREM LostRefsAreReported == Spec => NoRefLostSilently
<1>1. Init => CardsInv
  BY StoryboardStart DEF Init
<1>2. CardsInv /\ [Next]_studioVars => CardsInv'
  BY StoryboardStep, FormSteps
<1>3. CardsInv /\ [Next]_studioVars => [LostIsReported]_shotVars
  <2> SUFFICES ASSUME CardsInv, [Next]_studioVars PROVE LostIsReported
    OBVIOUS
  <2>1. CardsInv' /\ [ShotNext]_shotVars
    BY <1>2, FormSteps
  <2> QED BY <2>1, RefsAreReported DEF LostIsReported
<1> QED BY <1>1, <1>2, <1>3, PTL DEF Spec, NoRefLostSilently, LostIsReported

-----------------------------------------------------------------------------
(* Drafts.  A draft is a record of seven fields, two of them functions.    *)
IsDraft(d) == /\ d \in [mode : {d.mode}, media : {d.media}, bound : {d.bound}, presets : {d.presets},
                        by : {d.by}, setting : {d.setting}, text : {d.text}]
              /\ d.media = [s \in Slots |-> d.media[s]]

(* A page that is closed has nothing open or under way. *)
Quiet == uploads = {} /\ picking = Nothing /\ leaving = Nothing /\ rewriting = Nothing /\ suggestion = Nothing

OwnInv == /\ who \in Accounts /\ IsDraft(draft) /\ draft.by \in {Nothing, who}
          /\ stored = [a \in Accounts |-> stored[a]]
          /\ \A a \in Accounts : IsDraft(stored[a]) /\ stored[a].by \in {Nothing, a}
          /\ ~open => draft.by = Nothing /\ Quiet

LEMMA DraftSigned ==
  ASSUME NEW d, IsDraft(d), NEW a
  PROVE  LET e == [d EXCEPT !.by = a]
         IN IsDraft(e) /\ e.by = a /\ e.mode = d.mode /\ e.media = d.media
BY DEF IsDraft

LEMMA DraftWritten ==
  ASSUME NEW d, IsDraft(d), NEW x, NEW f
  PROVE  /\ LET e == [d EXCEPT !.text[f] = x]
            IN IsDraft(e) /\ e.mode = d.mode /\ e.media = d.media
         /\ LET e == [d EXCEPT !.setting = x]
            IN IsDraft(e) /\ e.mode = d.mode /\ e.media = d.media
         /\ LET e == [d EXCEPT !.bound = x]
            IN IsDraft(e) /\ e.mode = d.mode /\ e.media = d.media
         /\ LET e == [d EXCEPT !.presets = x]
            IN IsDraft(e) /\ e.mode = d.mode /\ e.media = d.media
<1>1. LET e == [d EXCEPT !.text[f] = x] IN IsDraft(e) /\ e.mode = d.mode /\ e.media = d.media
  BY DEF IsDraft
<1>2. LET e == [d EXCEPT !.setting = x] IN IsDraft(e) /\ e.mode = d.mode /\ e.media = d.media
  BY DEF IsDraft
<1>3. LET e == [d EXCEPT !.bound = x] IN IsDraft(e) /\ e.mode = d.mode /\ e.media = d.media
  BY DEF IsDraft
<1>4. LET e == [d EXCEPT !.presets = x] IN IsDraft(e) /\ e.mode = d.mode /\ e.media = d.media
  BY DEF IsDraft
<1> QED BY <1>1, <1>2, <1>3, <1>4

LEMMA DraftAttached ==
  ASSUME NEW d, IsDraft(d), NEW slot, NEW ids
  PROVE  LET e == [d EXCEPT !.media[slot] = ids]
         IN IsDraft(e) /\ e.mode = d.mode /\ e.media = [d.media EXCEPT ![slot] = ids]
BY DEF IsDraft

LEMMA DraftSwitched ==
  ASSUME NEW d, IsDraft(d), NEW mode, NEW media, media = [s \in Slots |-> media[s]]
  PROVE  LET e == [d EXCEPT !.mode = mode, !.media = media]
         IN IsDraft(e) /\ e.mode = mode /\ e.media = media
BY DEF IsDraft

LEMMA DraftBlank == IsDraft(Blank) /\ Blank.by = Nothing
BY DEF Blank, IsDraft

LEMMA DraftUpdated ==
  ASSUME NEW d, IsDraft(d), Update(d)
  PROVE  IsDraft(draft') /\ draft'.by = who /\ draft'.mode = d.mode /\ draft'.media = d.media
BY DraftSigned DEF Update

(* What a user, an upload or a rewrite writes into a page that is open.    *)
Signed == IsDraft(draft') /\ draft'.by = who

LEMMA Written ==
  ASSUME OwnInv,
         \/ Type \/ Set \/ Switch \/ ConfirmSwitch \/ Bind \/ Style
         \/ UploadLands \/ ClosePicker \/ Detach \/ AnswerRewrite
  PROVE  open /\ UNCHANGED <<who, open, stored>> /\ (draft' = draft \/ Signed)
<1>0. IsDraft(draft)
  BY DEF OwnInv
<1>1. ASSUME NEW d, IsDraft(d), Update(d) PROVE Signed
  BY <1>1, DraftUpdated DEF Signed
<1>2. ASSUME NEW mode, SwitchTo(mode) PROVE Signed
  <2>1. MediaFor(draft, mode) = [s \in Slots |-> MediaFor(draft, mode)[s]]
    BY DEF MediaFor
  <2>2. IsDraft([draft EXCEPT !.mode = mode, !.media = MediaFor(draft, mode)])
    BY <1>0, <2>1, DraftSwitched
  <2> QED BY <1>1, <1>2, <2>2 DEF SwitchTo
<1>3. ASSUME NEW slot, NEW ids, Attach(slot, ids) PROVE Signed
  BY <1>0, <1>1, <1>3, DraftAttached DEF Attach
<1>4. CASE Type \/ Set \/ Bind \/ Style
  <2>1. open /\ UNCHANGED <<who, open, stored>>
    BY <1>4 DEF Type, Set, Bind, Style, Free
  <2>2. \/ \E f, w : Update([draft EXCEPT !.text[f] = w])
        \/ \E w : Update([draft EXCEPT !.setting = w])
        \/ \E w : Update([draft EXCEPT !.bound = w])
        \/ \E w : Update([draft EXCEPT !.presets = w])
    BY <1>4 DEF Type, Set, Bind, Style
  <2> QED BY <1>0, <1>1, <2>1, <2>2, DraftWritten
<1>5. CASE AnswerRewrite
  <2>1. open /\ UNCHANGED <<who, open, stored>>
    BY <1>5 DEF AnswerRewrite, OwnInv, Quiet
  <2>2. draft' = draft \/ \E f, w : Update([draft EXCEPT !.text[f] = w])
    BY <1>5 DEF AnswerRewrite
  <2> QED BY <1>0, <1>1, <2>1, <2>2, DraftWritten
<1>6. CASE Switch \/ ConfirmSwitch
  <2>1. open /\ UNCHANGED <<who, open, stored>>
    BY <1>6 DEF Switch, ConfirmSwitch, Free, OwnInv, Quiet
  <2>2. draft' = draft \/ \E mode : SwitchTo(mode)
    BY <1>6 DEF Switch, ConfirmSwitch
  <2> QED BY <1>2, <2>1, <2>2
<1>7. CASE UploadLands
  <2>1. open /\ UNCHANGED <<who, open, stored>>
    BY <1>7 DEF UploadLands, OwnInv, Quiet
  <2>2. draft' = draft \/ \E slot, ids : Attach(slot, ids)
    BY <1>7 DEF UploadLands, Landed
  <2> QED BY <1>3, <2>1, <2>2
<1>8. CASE ClosePicker
  <2>1. open /\ UNCHANGED <<who, open, stored>>
    BY <1>8 DEF ClosePicker, OwnInv, Quiet
  <2>2. draft' = draft \/ \E slot, ids : Attach(slot, ids)
    BY <1>8 DEF ClosePicker
  <2> QED BY <1>3, <2>1, <2>2
<1>9. CASE Detach
  <2>1. open /\ UNCHANGED <<who, open, stored>>
    BY <1>9 DEF Detach, Free
  <2>2. \E slot, ids : Attach(slot, ids)
    BY <1>9 DEF Detach
  <2> QED BY <1>3, <2>1, <2>2
<1> QED BY <1>4, <1>5, <1>6, <1>7, <1>8, <1>9

(* What a page is opened with: the stored draft, or one that is seeded.    *)
LEMMA Shows ==
  ASSUME OwnInv, Open \/ Again \/ OpenWithCharacter \/ OpenWithPreset \/ OpenWithImage
  PROVE  ~open /\ open' /\ UNCHANGED <<who, stored>> /\ (draft' = stored[who] \/ Signed)
<1>0. IsDraft(stored[who])
  BY DEF OwnInv
<1>1. ASSUME NEW d, Shown(d)
      PROVE  ~open /\ open' /\ UNCHANGED <<who, stored>> /\ draft' = d
  BY <1>1 DEF Shown
<1>2. CASE Open
  BY <1>1, <1>2 DEF Open
<1>3. CASE Again
  <2>1. PICK r \in Asked : Shown(Seeded(stored[who], r))
    BY <1>3 DEF Again
  <2>2. IsDraft(Seeded(stored[who], r)) /\ Seeded(stored[who], r).by = who
    BY DEF Seeded, IsDraft
  <2> QED BY <1>1, <2>1, <2>2 DEF Signed
<1>4. CASE OpenWithCharacter
  <2>1. PICK b, m : Shown([stored[who] EXCEPT !.bound = b, !.by = who, !.mode = m])
    BY <1>4 DEF OpenWithCharacter
  <2> DEFINE d == [stored[who] EXCEPT !.bound = b, !.by = who, !.mode = m]
  <2>2. IsDraft(d) /\ d.by = who
    BY <1>0 DEF IsDraft
  <2>3. ~open /\ open' /\ UNCHANGED <<who, stored>> /\ draft' = d
    BY <1>1, <2>1
  <2> HIDE DEF d
  <2> QED BY <2>2, <2>3 DEF Signed
<1>5. CASE OpenWithPreset
  <2>1. PICK p, m : Shown([stored[who] EXCEPT !.presets = p, !.by = who, !.mode = m])
    BY <1>5 DEF OpenWithPreset
  <2> DEFINE d == [stored[who] EXCEPT !.presets = p, !.by = who, !.mode = m]
  <2>2. IsDraft(d) /\ d.by = who
    BY <1>0 DEF IsDraft
  <2>3. ~open /\ open' /\ UNCHANGED <<who, stored>> /\ draft' = d
    BY <1>1, <2>1
  <2> HIDE DEF d
  <2> QED BY <2>2, <2>3 DEF Signed
<1>6. CASE OpenWithImage
  <2>1. PICK a : \/ Shown([stored[who] EXCEPT !.media["reference"] = <<a>>, !.by = who])
                 \/ Shown([stored[who] EXCEPT !.mode = "frames", !.by = who,
                             !.media = [s \in Slots |-> IF s = "first" THEN <<a>> ELSE <<>>]])
    BY <1>6 DEF OpenWithImage
  <2> DEFINE c == [stored[who] EXCEPT !.media["reference"] = <<a>>, !.by = who]
             d == [stored[who] EXCEPT !.mode = "frames", !.by = who,
                     !.media = [s \in Slots |-> IF s = "first" THEN <<a>> ELSE <<>>]]
  <2>2. IsDraft(c) /\ c.by = who
    BY <1>0 DEF IsDraft
  <2>3. IsDraft(d) /\ d.by = who
    BY <1>0 DEF IsDraft
  <2>4. ~open /\ open' /\ UNCHANGED <<who, stored>> /\ draft' \in {c, d}
    BY <1>1, <2>1
  <2> HIDE DEF c, d
  <2> QED BY <2>2, <2>3, <2>4 DEF Signed
<1> QED BY <1>2, <1>3, <1>4, <1>5, <1>6

LEMMA OwnStep ==
  ASSUME OwnInv, [DraftNext]_draftVars
  PROVE  OwnInv'
<1> USE DEF OwnInv
<1>1. CASE \/ Type \/ Set \/ Switch \/ ConfirmSwitch \/ Bind \/ Style
           \/ UploadLands \/ ClosePicker \/ Detach \/ AnswerRewrite
  BY <1>1, Written DEF Signed
<1>2. CASE Open \/ Again \/ OpenWithCharacter \/ OpenWithPreset \/ OpenWithImage
  BY <1>2, Shows DEF Signed
<1>3. CASE StartUpload \/ Browse \/ Choose \/ AskRewrite \/ RewriteArrives
  <2>1. open
    BY <1>3 DEF StartUpload, Browse, Choose, AskRewrite, RewriteArrives, Free, Quiet
  <2>2. UNCHANGED <<who, open, draft, stored>>
    BY <1>3 DEF StartUpload, Browse, Choose, AskRewrite, RewriteArrives
  <2> QED BY <2>1, <2>2
<1>4. CASE Resolve
  <2>1. who' \in Users /\ who' \in Accounts
    BY <1>4 DEF Resolve, Accounts
  <2> QED BY <1>4, <2>1 DEF Resolve, Reloaded, Quiet, dialogs, wording
<1>5. CASE SignOut
  BY <1>5 DEF SignOut, Accounts, Quiet, dialogs, wording
<1>6. CASE Save
  BY <1>6 DEF Save
<1>7. CASE Leave
  BY <1>7, DraftBlank DEF Leave, Quiet
<1>8. CASE UNCHANGED draftVars
  BY <1>8 DEF draftVars, dialogs, wording, Quiet
<1> QED BY <1>1, <1>2, <1>3, <1>4, <1>5, <1>6, <1>7, <1>8 DEF DraftNext

(* No account ever has what another wrote: a draft is read, written and     *)
(* stored for the account known at the time (drafts.ts:21-43).              *)
THEOREM DraftsAreOwn == Spec => []OwnDrafts
<1>1. Init => OwnInv
  BY DraftBlank DEF Init, DraftInit, OwnInv, Quiet, Accounts
<1>2. OwnInv /\ [Next]_studioVars => OwnInv'
  BY OwnStep, FormSteps
<1>3. OwnInv => OwnDrafts
  BY DEF OwnInv, OwnDrafts
<1> QED BY <1>1, <1>2, <1>3, PTL DEF Spec
-----------------------------------------------------------------------------
(* A video's draft has media of its mode only, if references and modes are  *)
(* left alone while an upload is under way: what an upload or a dialog      *)
(* brings belongs to the mode the draft still has.                          *)
Tidy(d) == /\ d.mode \in {"text", "frames", "refs"}
           /\ \A slot \in Slots \ Owned(d.mode) : d.media[slot] = <<>>

VideoInv ==
    /\ Tidy(draft) /\ \A a \in Accounts : Tidy(stored[a])
    /\ \A u \in uploads : u.slot \in Owned(draft.mode)
    /\ picking # Nothing => /\ picking \in [slot : {picking.slot}, chosen : {picking.chosen}]
                            /\ picking.slot \in Owned(draft.mode)
    /\ leaving # Nothing => leaving \in Modes /\ uploads = {} /\ picking = Nothing
    /\ who = Guest => uploads = {} /\ picking = Nothing /\ leaving = Nothing

LEMMA VideoModes == page = "video" => Modes = {"text", "frames", "refs"}
BY DEF Modes

LEMMA OwnedSlots ==
  \A mode \in {"text", "frames", "refs"} :
    Owned(mode) = IF mode = "frames" THEN {"first"} ELSE IF mode = "refs" THEN {"images"} ELSE {}
BY DEF Owned

LEMMA SamePage == DraftNext => page' = page
BY DEF DraftNext, Resolve, SignOut, Save, Leave, Open, Again, OpenWithCharacter, OpenWithPreset,
       OpenWithImage, Shown, Type, Set, Switch, ConfirmSwitch, Bind, Style, StartUpload, UploadLands,
       Browse, Choose, ClosePicker, Detach, AskRewrite, RewriteArrives, AnswerRewrite, scene

LEMMA SwitchIsTidy ==
  ASSUME page = "video", OwnInv, NEW mode \in Modes, SwitchTo(mode)
  PROVE  Tidy(draft')
<1> DEFINE media == MediaFor(draft, mode)
           d == [draft EXCEPT !.mode = mode, !.media = media]
<1>1. media = [s \in Slots |-> IF s \in Owned(mode) THEN draft.media[s] ELSE <<>>]
  BY DEF MediaFor
<1>2. IsDraft(d) /\ d.mode = mode /\ d.media = media
  <2>1. media = [s \in Slots |-> media[s]] /\ IsDraft(draft)
    BY <1>1 DEF OwnInv
  <2> HIDE DEF media
  <2> QED BY <2>1 DEF IsDraft
<1>3. Update(d)
  BY DEF SwitchTo
<1> HIDE DEF d
<1>4. draft'.mode = mode /\ draft'.media = media
  BY <1>2, <1>3, DraftUpdated
<1> HIDE DEF media
<1> QED BY <1>1, <1>4, VideoModes DEF Tidy

LEMMA AttachIsTidy ==
  ASSUME OwnInv, Tidy(draft), NEW slot \in Owned(draft.mode), NEW ids, Attach(slot, ids)
  PROVE  Tidy(draft') /\ draft'.mode = draft.mode
<1> DEFINE media == [draft.media EXCEPT ![slot] = Capped(slot, ids)]
           d == [draft EXCEPT !.media[slot] = Capped(slot, ids)]
<1>0. Update(d) /\ IsDraft(draft)
  BY DEF OwnInv, Attach
<1>1. IsDraft(d) /\ d.mode = draft.mode /\ d.media = media
  BY <1>0, DraftAttached
<1> HIDE DEF d
<1>3. draft'.mode = draft.mode /\ draft'.media = media
  BY <1>0, <1>1, DraftUpdated
<1>2. \A s \in Slots : s # slot => media[s] = draft.media[s]
  BY DEF OwnInv, IsDraft
<1> HIDE DEF media
<1> QED BY <1>2, <1>3 DEF Tidy

LEMMA TextIsTidy ==
  ASSUME OwnInv, Tidy(draft), NEW f, NEW w,
         \/ Update([draft EXCEPT !.text[f] = w]) \/ Update([draft EXCEPT !.setting = w])
         \/ Update([draft EXCEPT !.bound = w]) \/ Update([draft EXCEPT !.presets = w])
  PROVE  Tidy(draft') /\ draft'.mode = draft.mode
<1>1. \E d : Update(d) /\ IsDraft(d) /\ d.mode = draft.mode /\ d.media = draft.media
  <2>1. IsDraft(draft)
    BY DEF OwnInv
  <2>2. ASSUME NEW d, d \in {[draft EXCEPT !.text[f] = w], [draft EXCEPT !.setting = w],
                             [draft EXCEPT !.bound = w], [draft EXCEPT !.presets = w]}
        PROVE  IsDraft(d) /\ d.mode = draft.mode /\ d.media = draft.media
    <3>1. CASE d = [draft EXCEPT !.text[f] = w]
      BY <2>1, <3>1 DEF IsDraft
    <3>2. CASE d = [draft EXCEPT !.setting = w]
      BY <2>1, <3>2 DEF IsDraft
    <3>3. CASE d = [draft EXCEPT !.bound = w]
      BY <2>1, <3>3 DEF IsDraft
    <3>4. CASE d = [draft EXCEPT !.presets = w]
      BY <2>1, <3>4 DEF IsDraft
    <3> QED BY <2>2, <3>1, <3>2, <3>3, <3>4
  <2> QED BY <2>2
<1>2. draft'.mode = draft.mode /\ draft'.media = draft.media
  BY <1>1, DraftUpdated
<1> QED BY <1>2 DEF Tidy

(* Creating again: the media of the request say its mode.                    *)
LEMMA SeededIsTidy ==
  ASSUME page = "video", OwnInv, VideoInv, NEW r \in Asked
  PROVE  Tidy(Seeded(stored[who], r))
<1>1. \A s \in Slots : Seeded(stored[who], r).media[s] = IF Has(r, s) THEN r.media[s] ELSE <<>>
  BY DEF Seeded, Emptied, ReadBack
<1>2. Seeded(stored[who], r).mode = ModeOf(r)
  BY DEF Seeded
<1>3. \E mode \in {"text", "frames", "refs"} : DOMAIN r.media = Owned(mode)
  <2>1. CASE \E a \in Accounts : r = Request(stored[a]) /\ r # Nothing
    <3>1. PICK a \in Accounts : r = Request(stored[a]) /\ r # Nothing
      BY <2>1
    <3>2. r.media = [s \in Owned(stored[a].mode) |-> stored[a].media[s]]
      BY <3>1 DEF Request, Sent
    <3> QED BY <3>2 DEF VideoInv, Tidy
  <2>2. CASE r.media = [s \in Owned(FirstMode) |-> <<>>]
    BY <2>2 DEF FirstMode
  <2> QED BY <2>1, <2>2 DEF Asked, Brought
<1>4. /\ Has(r, "first") => \A s \in Slots \ {"first"} : ~Has(r, s)
      /\ Has(r, "images") => \A s \in Slots \ {"images"} : ~Has(r, s)
      /\ \A s \in Slots \ {"first", "images"} : ~Has(r, s)
  BY <1>3, OwnedSlots DEF Has
<1>5. ModeOf(r) = IF Has(r, "first") THEN "frames" ELSE IF Has(r, "images") THEN "refs" ELSE "text"
  BY <1>4 DEF ModeOf, Slots
<1> QED BY <1>1, <1>2, <1>4, <1>5, OwnedSlots DEF Tidy

(* The ways to open a page. *)
LEMMA ShowsTidy ==
  ASSUME page = "video", OwnInv, VideoInv,
         Open \/ Again \/ OpenWithCharacter \/ OpenWithPreset \/ OpenWithImage
  PROVE  Tidy(draft') /\ ~open /\ UNCHANGED <<who, stored, uploads, dialogs>>
<1>0. IsDraft(stored[who]) /\ Tidy(stored[who])
  BY DEF OwnInv, VideoInv
<1>1. ASSUME NEW d, Shown(d), Tidy(d)
      PROVE  Tidy(draft') /\ ~open /\ UNCHANGED <<who, stored, uploads, dialogs>>
  BY <1>1 DEF Shown
<1>2. CASE Open
  BY <1>0, <1>1, <1>2 DEF Open
<1>3. CASE Again
  BY <1>1, <1>3, SeededIsTidy DEF Again
<1>4. CASE OpenWithCharacter
  <2>1. PICK b : Shown([stored[who] EXCEPT !.bound = b, !.by = who, !.mode = stored[who].mode])
    BY <1>0, <1>4 DEF OpenWithCharacter, IsDraft
  <2> DEFINE d == [stored[who] EXCEPT !.bound = b, !.by = who, !.mode = stored[who].mode]
  <2>2. d.mode = stored[who].mode /\ d.media = stored[who].media
    BY <1>0 DEF IsDraft
  <2>3. Shown(d)
    BY <2>1
  <2> HIDE DEF d
  <2> QED BY <1>0, <1>1, <2>2, <2>3 DEF Tidy
<1>5. CASE OpenWithPreset
  BY <1>5 DEF OpenWithPreset
<1>6. CASE OpenWithImage
  <2>1. PICK a : Shown([stored[who] EXCEPT !.mode = "frames", !.by = who,
                          !.media = [s \in Slots |-> IF s = "first" THEN <<a>> ELSE <<>>]])
    BY <1>6 DEF OpenWithImage
  <2> DEFINE d == [stored[who] EXCEPT !.mode = "frames", !.by = who,
                     !.media = [s \in Slots |-> IF s = "first" THEN <<a>> ELSE <<>>]]
  <2>2. d.mode = "frames" /\ d.media = [s \in Slots |-> IF s = "first" THEN <<a>> ELSE <<>>]
    BY <1>0 DEF IsDraft
  <2>3. Shown(d)
    BY <2>1
  <2> HIDE DEF d
  <2>4. Tidy(d)
    BY <2>2, OwnedSlots DEF Tidy
  <2> QED BY <1>1, <2>3, <2>4
<1> QED BY <1>2, <1>3, <1>4, <1>5, <1>6

LEMMA VideoStep ==
  ASSUME "uploads" \in Kept, page = "video", OwnInv, VideoInv, DraftNext
  PROVE  VideoInv'
<1>0. /\ Tidy(draft) /\ \A a \in Accounts : Tidy(stored[a])
      /\ ~open => Quiet
      /\ who # Guest \/ (uploads = {} /\ picking = Nothing /\ leaving = Nothing)
      /\ who \in Accounts /\ stored = [a \in Accounts |-> stored[a]]
  BY DEF VideoInv, OwnInv
<1>1. CASE Type \/ Set \/ Bind \/ Style \/ AnswerRewrite
  <2>1. UNCHANGED <<who, stored, uploads, dialogs>>
    BY <1>1 DEF Type, Set, Bind, Style, AnswerRewrite
  <2>2. draft' = draft \/ \E f, w : \/ Update([draft EXCEPT !.text[f] = w]) \/ Update([draft EXCEPT !.setting = w])
                                  \/ Update([draft EXCEPT !.bound = w]) \/ Update([draft EXCEPT !.presets = w])
    BY <1>1 DEF Type, Set, Bind, Style, AnswerRewrite
  <2>3. Tidy(draft') /\ draft'.mode = draft.mode
    BY <1>0, <2>2, TextIsTidy
  <2> QED BY <1>0, <2>1, <2>3, SamePage DEF VideoInv, dialogs, Modes
<1>2. CASE Switch
  <2>1. UNCHANGED <<who, stored, uploads, picking>> /\ uploads = {} /\ who # Guest /\ picking = Nothing
        /\ leaving = Nothing
    BY <1>2 DEF Switch, Free, Settled
  <2>2. PICK mode \in Modes : (leaving' = mode /\ draft' = draft) \/ (SwitchTo(mode) /\ leaving' = leaving)
    BY <1>2 DEF Switch
  <2>3. Tidy(draft') /\ leaving' \in Modes \cup {Nothing}
    BY <1>0, <2>1, <2>2, SwitchIsTidy
  <2> QED BY <1>0, <2>1, <2>3, SamePage DEF VideoInv, Modes
<1>3. CASE ConfirmSwitch
  <2>1. UNCHANGED <<who, stored, uploads, picking>> /\ leaving' = Nothing
        /\ uploads = {} /\ picking = Nothing /\ leaving \in Modes
        /\ (SwitchTo(leaving) \/ draft' = draft)
    BY <1>3 DEF ConfirmSwitch, VideoInv
  <2>2. Tidy(draft')
    BY <1>0, <2>1, SwitchIsTidy
  <2> QED BY <1>0, <2>1, <2>2 DEF VideoInv
<1>4. CASE UploadLands
  <2>1. UNCHANGED <<who, stored, dialogs>> /\ uploads' \subseteq uploads /\ uploads # {}
    BY <1>4 DEF UploadLands
  <2>2. \/ draft' = draft
        \/ \E slot \in Owned(draft.mode) : \E ids : Attach(slot, ids)
    BY <1>4 DEF UploadLands, Landed, VideoInv
  <2>3. Tidy(draft') /\ draft'.mode = draft.mode
    BY <1>0, <2>2, AttachIsTidy
  <2> QED BY <1>0, <2>1, <2>3, SamePage DEF VideoInv, dialogs, Modes
<1>5. CASE ClosePicker
  <2>1. UNCHANGED <<who, stored, uploads, leaving>> /\ picking' = Nothing /\ picking # Nothing
    BY <1>5 DEF ClosePicker
  <2>2. \/ draft' = draft
        \/ \E slot \in Owned(draft.mode) : \E ids : Attach(slot, ids)
    BY <1>5 DEF ClosePicker, VideoInv
  <2>3. Tidy(draft') /\ draft'.mode = draft.mode
    BY <1>0, <2>2, AttachIsTidy
  <2> QED BY <1>0, <2>1, <2>3, SamePage DEF VideoInv, Modes
<1>6. CASE Detach
  <2>1. UNCHANGED <<who, stored, uploads, dialogs>>
        /\ \E slot \in Owned(draft.mode) : \E ids : Attach(slot, ids)
    BY <1>6 DEF Detach
  <2>2. Tidy(draft') /\ draft'.mode = draft.mode
    BY <1>0, <2>1, AttachIsTidy
  <2> QED BY <1>0, <2>1, <2>2, SamePage DEF VideoInv, dialogs, Modes
<1>7. CASE StartUpload
  <2>1. UNCHANGED <<who, stored, draft, dialogs>> /\ who # Guest /\ leaving = Nothing
        /\ \E slot \in Owned(draft.mode) :
             uploads' = uploads \cup {[slot |-> slot, value |-> draft.media[slot]]}
    BY <1>7 DEF StartUpload, Free, Settled
  <2> QED BY <1>0, <2>1, SamePage DEF VideoInv, dialogs, Modes
<1>8. CASE Browse
  <2>1. UNCHANGED <<who, stored, draft, uploads, leaving>> /\ who # Guest /\ leaving = Nothing
        /\ \E slot \in Owned(draft.mode) : picking' = [slot |-> slot, chosen |-> <<>>]
    BY <1>8 DEF Browse, Free, Settled
  <2> QED BY <1>0, <2>1, SamePage DEF VideoInv, Modes
<1>9. CASE Choose
  <2>1. UNCHANGED <<who, stored, draft, uploads, leaving>> /\ picking # Nothing
        /\ \E c : picking' = [picking EXCEPT !.chosen = c]
    BY <1>9 DEF Choose
  <2>2. picking \in [slot : {picking.slot}, chosen : {picking.chosen}] /\ picking.slot \in Owned(draft.mode)
        /\ who # Guest /\ leaving = Nothing
    BY <2>1 DEF VideoInv
  <2>3. picking' \in [slot : {picking'.slot}, chosen : {picking'.chosen}] /\ picking'.slot = picking.slot
    BY <2>1, <2>2
  <2> QED BY <1>0, <2>1, <2>2, <2>3, SamePage DEF VideoInv, Modes
<1>10. CASE Open \/ Again \/ OpenWithCharacter \/ OpenWithPreset \/ OpenWithImage
  <2>1. Tidy(draft') /\ ~open /\ UNCHANGED <<who, stored, uploads, dialogs>>
    BY <1>10, ShowsTidy
  <2> QED BY <1>0, <2>1 DEF VideoInv, dialogs, Quiet
<1>11. CASE Resolve
  <2>1. UNCHANGED <<stored, uploads, dialogs>> /\ draft' \in {draft, stored[who']} /\ who' \in Accounts
        /\ uploads = {} /\ picking = Nothing /\ leaving = Nothing
    BY <1>0, <1>11 DEF Resolve, Reloaded, Accounts
  <2> QED BY <1>0, <2>1 DEF VideoInv, dialogs
<1>12. CASE SignOut
  <2>1. UNCHANGED <<stored, draft, uploads, dialogs>> /\ Quiet
    BY <1>0, <1>12 DEF SignOut
  <2> QED BY <1>0, <2>1 DEF VideoInv, dialogs, Quiet
<1>13. CASE Save
  <2>1. UNCHANGED <<who, draft, uploads, dialogs>> /\ stored' = [stored EXCEPT ![who] = draft]
    BY <1>13 DEF Save
  <2> QED BY <1>0, <2>1, SamePage DEF VideoInv, dialogs, Modes
<1>14. CASE Leave
  <2>1. draft' = Blank /\ uploads' = {} /\ picking' = Nothing /\ leaving' = Nothing /\ stored' = stored
    BY <1>14 DEF Leave
  <2>2. Tidy(Blank)
    BY OwnedSlots DEF Tidy, Blank, FirstMode
  <2> QED BY <1>0, <2>1, <2>2 DEF VideoInv
<1>15. CASE AskRewrite \/ RewriteArrives
  <2>1. UNCHANGED <<who, stored, draft, uploads, dialogs>>
    BY <1>15 DEF AskRewrite, RewriteArrives
  <2> QED BY <1>0, <2>1, SamePage DEF VideoInv, dialogs, Modes
<1> QED BY <1>1, <1>2, <1>3, <1>4, <1>5, <1>6, <1>7, <1>8, <1>9, <1>10, <1>11, <1>12, <1>13,
           <1>14, <1>15 DEF DraftNext

(* A video keeps no media of a mode it has left (video.ts:1-3), under the   *)
(* promise named above.                                                     *)
THEOREM VideoHasOneMode ==
  ASSUME "uploads" \in Kept
  PROVE  Spec => []OneModeOnly
<1> DEFINE Inv == OwnInv /\ (page = "video" => VideoInv)
<1>1. Init => Inv
  <2>1. Init => OwnInv
    BY DraftBlank DEF Init, DraftInit, OwnInv, Quiet, Accounts
  <2>2. Init /\ page = "video" => VideoInv
    BY OwnedSlots DEF Init, DraftInit, VideoInv, Tidy, Blank, FirstMode
  <2> QED BY <2>1, <2>2
<1>2. Inv /\ [Next]_studioVars => Inv'
  <2> SUFFICES ASSUME Inv, [DraftNext]_draftVars PROVE Inv'
    BY FormSteps
  <2>1. CASE DraftNext
    BY <2>1, OwnStep, VideoStep, SamePage
  <2>2. CASE UNCHANGED draftVars
    <3>1. UNCHANGED <<page, who, draft, stored, uploads, picking, leaving>>
      BY <2>2 DEF draftVars, scene, dialogs
    <3>2. page = "video" => VideoInv'
      BY <3>1 DEF VideoInv, Tidy, Modes
    <3> QED BY <2>2, <3>1, <3>2, OwnStep
  <2> QED BY <2>1, <2>2
<1>3. Inv => OneModeOnly
  BY DEF VideoInv, Tidy, OneModeOnly
<1> HIDE DEF Inv
<1> QED BY <1>1, <1>2, <1>3, PTL DEF Spec
-----------------------------------------------------------------------------
(* Sequences of references and of characters. *)
LEMMA DroppingIs ==
  ASSUME NEW S, NEW s \in Seq(S), NEW x
  PROVE  /\ Dropping(s, x) \in Seq(S) /\ Len(Dropping(s, x)) <= Len(s)
         /\ Range(Dropping(s, x)) = Range(s) \ {x}
         /\ IsInjective(s) => IsInjective(Dropping(s, x))
<1> DEFINE P == {i \in DOMAIN s : s[i] # x}
           t == Dropping(s, x)
<1>1. t = Filtered(s, P) /\ P \in SUBSET DOMAIN s
  BY DEF Dropping
<1>2. \A i \in DOMAIN s : i \in P <=> s[i] # x
  OBVIOUS
<1> HIDE DEF P, t
<1>3. /\ t \in Seq(S) /\ Len(t) \in 0..Len(s)
      /\ \A k \in DOMAIN t : Nth(P, k) \in P /\ t[k] = s[Nth(P, k)]
      /\ \A k, l \in DOMAIN t : Nth(P, k) = Nth(P, l) => k = l
      /\ \A i \in P : \E k \in DOMAIN t : Nth(P, k) = i
  BY <1>1, FilteredIs
<1>4. Range(t) = Range(s) \ {x}
  BY <1>1, <1>2, <1>3 DEF Range
<1>5. IsInjective(s) => IsInjective(t)
  BY <1>1, <1>3 DEF IsInjective
<1>6. Len(t) <= Len(s)
  BY <1>3
<1> QED BY <1>3, <1>4, <1>5, <1>6 DEF t

LEMMA Joined ==
  ASSUME NEW S, NEW s \in Seq(S), NEW t \in Seq(S)
  PROVE  /\ s \o t \in Seq(S) /\ Len(s \o t) = Len(s) + Len(t)
         /\ Range(s) \subseteq Range(s \o t)
         /\ IsInjective(s) /\ IsInjective(t) /\ Range(s) \cap Range(t) = {} => IsInjective(s \o t)
<1> DEFINE u == s \o t
<1>1. /\ u \in Seq(S) /\ Len(u) = Len(s) + Len(t) /\ Len(s) \in Nat /\ Len(t) \in Nat
      /\ DOMAIN s = 1..Len(s) /\ DOMAIN t = 1..Len(t) /\ DOMAIN u = 1..Len(u)
      /\ \A i \in 1..Len(s) : u[i] = s[i]
      /\ \A i \in (Len(s) + 1)..Len(u) : u[i] = t[i - Len(s)]
  OBVIOUS
<1> HIDE DEF u
<1>2. Range(s) \subseteq Range(u)
  <2> SUFFICES ASSUME NEW i \in DOMAIN s PROVE s[i] \in Range(u)
    BY DEF Range
  <2>1. i \in DOMAIN u /\ u[i] = s[i]
    BY <1>1
  <2> QED BY <2>1 DEF Range
<1>3. ASSUME IsInjective(s), IsInjective(t), Range(s) \cap Range(t) = {},
             NEW i \in DOMAIN u, NEW j \in DOMAIN u, u[i] = u[j]
      PROVE  i = j
  <2>1. \A k \in DOMAIN u : \/ k \in DOMAIN s /\ u[k] = s[k]
                            \/ k - Len(s) \in DOMAIN t /\ u[k] = t[k - Len(s)]
    BY <1>1
  <2>2. \A k \in DOMAIN s, l \in DOMAIN t : s[k] # t[l]
    BY <1>3 DEF Range
  <2>3. CASE i \in DOMAIN s /\ u[i] = s[i] /\ j \in DOMAIN s /\ u[j] = s[j]
    BY <1>3, <2>3 DEF IsInjective
  <2>4. CASE /\ i - Len(s) \in DOMAIN t /\ u[i] = t[i - Len(s)]
             /\ j - Len(s) \in DOMAIN t /\ u[j] = t[j - Len(s)]
    <3>1. i - Len(s) = j - Len(s)
      BY <1>3, <2>4 DEF IsInjective
    <3> QED BY <3>1, <1>1
  <2> QED BY <1>3, <2>1, <2>2, <2>3, <2>4
<1> QED BY <1>1, <1>2, <1>3 DEF u, IsInjective

LEMMA OneItem ==
  ASSUME NEW S, NEW x \in S
  PROVE  <<x>> \in Seq(S) /\ Len(<<x>>) = 1 /\ IsInjective(<<x>>) /\ Range(<<x>>) = {x}
<1>1. <<x>> \in Seq(S) /\ Len(<<x>>) = 1 /\ DOMAIN <<x>> = {1} /\ <<x>>[1] = x
  OBVIOUS
<1> DEFINE s == <<x>>
<1> HIDE DEF s
<1>2. DOMAIN s = {1} /\ s[1] = x => IsInjective(s) /\ Range(s) = {x}
  BY DEF IsInjective, Range
<1> QED BY <1>1, <1>2 DEF s

LEMMA NoItem ==
  \A S : <<>> \in Seq(S) /\ Len(<<>>) = 0 /\ IsInjective(<<>>) /\ Range(<<>>) = {}
BY DEF IsInjective, Range

LEMMA Appended ==
  ASSUME NEW S, NEW s \in Seq(S), NEW x \in S
  PROVE  /\ Append(s, x) \in Seq(S) /\ Len(Append(s, x)) = Len(s) + 1
         /\ Range(Append(s, x)) = Range(s) \cup {x}
         /\ IsInjective(s) /\ x \notin Range(s) => IsInjective(Append(s, x))
<1> DEFINE u == Append(s, x)
<1>1. /\ u \in Seq(S) /\ Len(u) = Len(s) + 1 /\ Len(s) \in Nat
      /\ DOMAIN s = 1..Len(s) /\ DOMAIN u = 1..(Len(s) + 1)
      /\ \A i \in 1..Len(s) : u[i] = s[i]
      /\ u[Len(s) + 1] = x
  OBVIOUS
<1> HIDE DEF u
<1>2. Len(s) + 1 \in DOMAIN u /\ DOMAIN s \subseteq DOMAIN u
      /\ \A i \in DOMAIN u : i \in DOMAIN s \/ i = Len(s) + 1
  BY <1>1
<1>3. Range(u) = Range(s) \cup {x}
  BY <1>1, <1>2 DEF Range
<1>4. IsInjective(s) /\ x \notin Range(s) => IsInjective(u)
  BY <1>1, <1>2 DEF IsInjective, Range
<1> QED BY <1>1, <1>3, <1>4 DEF u

LEMMA TrimmedIs ==
  ASSUME NEW S, NEW s \in Seq(S)
  PROVE  /\ Trimmed(s) \in Seq(S) /\ Len(Trimmed(s)) <= MaxBound
         /\ IsInjective(s) => IsInjective(Trimmed(s))
<1> DEFINE m == IF Len(s) > MaxBound THEN Len(s) - MaxBound + 1 ELSE 1
           t == Trimmed(s)
<1>1. MaxBound \in Nat \ {0} /\ Len(s) \in Nat /\ m \in 1..(Len(s) + 1) /\ t = SubSeq(s, m, Len(s))
  BY DraftAssumption DEF Trimmed
<1>2. Len(s) - m + 1 <= MaxBound
  BY <1>1
<1> HIDE DEF m, t
<1>3. /\ t \in Seq(S) /\ Len(t) = Len(s) - m + 1
      /\ DOMAIN t = 1..Len(t) /\ DOMAIN s = 1..Len(s)
      /\ \A i \in 1..Len(t) : t[i] = s[i + m - 1]
  BY <1>1
<1>4. \A i \in DOMAIN t : i \in Nat /\ i + m - 1 \in DOMAIN s /\ t[i] = s[i + m - 1]
  BY <1>1, <1>3
<1>5. ASSUME IsInjective(s), NEW i \in DOMAIN t, NEW j \in DOMAIN t, t[i] = t[j] PROVE i = j
  <2>1. i + m - 1 = j + m - 1
    BY <1>4, <1>5 DEF IsInjective
  <2> QED BY <1>1, <1>4, <2>1
<1> QED BY <1>2, <1>3, <1>5 DEF t, IsInjective
-----------------------------------------------------------------------------
(* What a draft may be, and what it may hold. *)
Assets == Library \cup Files
Draft == [mode : Modes, media : [Slots -> Seq(Assets)], bound : Seq(People), presets : SUBSET Presets,
          by : Accounts \cup {Nothing}, setting : Settings, text : [Fields -> Words]]
BoundOnce(s) == Len(s) <= MaxBound /\ IsInjective(s)
Good(d) == d \in Draft /\ BoundOnce(d.bound)
GoodInv ==
    /\ page \in {"image", "gpt", "classic", "video"}
    /\ who \in Accounts /\ open \in BOOLEAN
    /\ Good(draft) /\ stored = [a \in Accounts |-> stored[a]] /\ \A a \in Accounts : Good(stored[a])
    /\ uploads \subseteq [slot : Slots, value : Seq(Assets)]
    /\ picking \in [slot : Slots, chosen : Seq(Library)] \cup {Nothing}
    /\ leaving \in Modes \cup {Nothing}
    /\ rewriting \in Fields \cup {Nothing}
    /\ suggestion \in [field : Fields] \cup {Nothing}

LEMMA OwnedAreSlots == \A mode : mode \in Modes /\ page \in {"image", "gpt", "classic", "video"}
                                   => Owned(mode) \subseteq Slots /\ FieldOf(mode) \in Fields
BY DEF Modes, Owned, Slots, FieldOf, Fields

LEMMA FirstIsMode == page \in {"image", "gpt", "classic", "video"} => FirstMode \in Modes
BY DEF FirstMode, Modes

LEMMA CappedIs ==
  ASSUME NEW slot, NEW S, NEW ids \in Seq(S)
  PROVE  Capped(slot, ids) \in Seq(S)
<1>1. CASE ids # <<>>
  <2>1. Len(ids) \in DOMAIN ids
    BY <1>1
  <2>2. Last(ids) \in S
    BY <2>1 DEF Last
  <2> QED BY <2>2 DEF Capped
<1>2. CASE ids = <<>>
  BY <1>2 DEF Capped
<1> QED BY <1>1, <1>2

LEMMA GoodWritten ==
  ASSUME NEW d, Good(d)
  PROVE  /\ \A f \in Fields, x \in Words : Good([d EXCEPT !.text[f] = x])
         /\ \A x \in Settings : Good([d EXCEPT !.setting = x])
         /\ \A x \in Seq(People) : BoundOnce(x) => Good([d EXCEPT !.bound = x])
         /\ \A x \in SUBSET Presets : Good([d EXCEPT !.presets = x])
         /\ \A slot \in Slots, x \in Seq(Assets) : Good([d EXCEPT !.media[slot] = x])
         /\ \A mode \in Modes, x \in [Slots -> Seq(Assets)] : Good([d EXCEPT !.mode = mode, !.media = x])
         /\ \A a \in Accounts : Good([d EXCEPT !.by = a])
<1>1. \A f \in Fields, x \in Words : Good([d EXCEPT !.text[f] = x])
  BY DEF Good, Draft
<1>2. \A x \in Settings : Good([d EXCEPT !.setting = x])
  BY DEF Good, Draft
<1>3. \A x \in Seq(People) : BoundOnce(x) => Good([d EXCEPT !.bound = x])
  BY DEF Good, Draft
<1>4. \A x \in SUBSET Presets : Good([d EXCEPT !.presets = x])
  BY DEF Good, Draft
<1>5. \A slot \in Slots, x \in Seq(Assets) : Good([d EXCEPT !.media[slot] = x])
  BY DEF Good, Draft
<1>6. \A mode \in Modes, x \in [Slots -> Seq(Assets)] : Good([d EXCEPT !.mode = mode, !.media = x])
  BY DEF Good, Draft
<1>7. \A a \in Accounts : Good([d EXCEPT !.by = a])
  BY DEF Good, Draft
<1> QED BY <1>1, <1>2, <1>3, <1>4, <1>5, <1>6, <1>7

LEMMA GoodBlank == page \in {"image", "gpt", "classic", "video"} => Good(Blank)
BY FirstIsMode, NoItem, DraftAssumption DEF Good, Draft, BoundOnce, Blank, Settings, Fields, Words

LEMMA GoodUpdate ==
  ASSUME GoodInv, NEW d, Good(d), Update(d)
  PROVE  Good(draft')
BY GoodWritten DEF Update, GoodInv

LEMMA GoodAttach ==
  ASSUME GoodInv, NEW slot \in Slots, NEW ids \in Seq(Assets), Attach(slot, ids)
  PROVE  Good(draft')
<1>1. Good([draft EXCEPT !.media[slot] = Capped(slot, ids)])
  BY CappedIs, GoodWritten DEF GoodInv
<1> QED BY <1>1, GoodUpdate DEF Attach

LEMMA GoodSwitch ==
  ASSUME GoodInv, NEW mode \in Modes, SwitchTo(mode)
  PROVE  Good(draft')
<1>1. MediaFor(draft, mode) \in [Slots -> Seq(Assets)]
  BY DEF MediaFor, GoodInv, Good, Draft
<1>2. Good([draft EXCEPT !.mode = mode, !.media = MediaFor(draft, mode)])
  BY <1>1, GoodWritten DEF GoodInv
<1> QED BY <1>2, GoodUpdate DEF SwitchTo

(* A request that can be made again. *)
LEMMA AskedIs ==
  ASSUME GoodInv, NEW r \in Asked
  PROVE  /\ r.mode \in Modes /\ r.text \in Words \ {"empty"} /\ r.setting \in Settings
         /\ r.bound \in Seq(People) /\ BoundOnce(r.bound) /\ r.presets \in SUBSET Presets
         /\ r.media \in [Owned(r.mode) -> Seq(Assets)]
<1>1. CASE \E a \in Accounts : r = Request(stored[a]) /\ r # Nothing
  <2>1. PICK a \in Accounts : r = Request(stored[a]) /\ r # Nothing
    BY <1>1
  <2>2. Good(stored[a])
    BY DEF GoodInv
  <2> DEFINE d == stored[a]
  <2>3. ~Missing(d)
    BY <2>1 DEF Request
  <2>4. /\ r.mode = d.mode /\ r.text = d.text[FieldOf(d.mode)]
        /\ r.media = [s \in Owned(d.mode) |-> d.media[s]]
        /\ r.bound \in {<<>>, d.bound} /\ r.presets \in {{}, d.presets} /\ r.setting \in {"plain", d.setting}
    BY <2>1, <2>3 DEF Request, Sent
  <2>5. r.text # "empty"
    BY <2>3, <2>4 DEF Missing
  <2>6. BoundOnce(<<>>)
    BY NoItem, DraftAssumption DEF BoundOnce
  <2> HIDE DEF d
  <2>7. /\ d.mode \in Modes /\ d.text \in [Fields -> Words] /\ d.media \in [Slots -> Seq(Assets)]
        /\ d.bound \in Seq(People) /\ BoundOnce(d.bound) /\ d.presets \in SUBSET Presets /\ d.setting \in Settings
    BY <2>2 DEF d, Good, Draft
  <2>8. Owned(d.mode) \subseteq Slots /\ FieldOf(d.mode) \in Fields
    BY <2>7, OwnedAreSlots DEF GoodInv
  <2>9. r.media \in [Owned(r.mode) -> Seq(Assets)]
    BY <2>4, <2>7, <2>8
  <2>10. r.text \in Words
    BY <2>4, <2>7, <2>8
  <2>11. r.mode \in Modes /\ r.setting \in Settings /\ r.presets \in SUBSET Presets
    BY <2>4, <2>7 DEF Settings
  <2>12. r.bound \in Seq(People) /\ BoundOnce(r.bound)
    <3>1. CASE r.bound = <<>>
      BY <2>6, <3>1
    <3>2. CASE r.bound = d.bound
      BY <2>7, <3>2
    <3> QED BY <2>4, <3>1, <3>2
  <2> QED BY <2>5, <2>9, <2>10, <2>11, <2>12
<1>2. CASE r = [mode |-> FirstMode, text |-> "typed", bound |-> <<>>, presets |-> {}, setting |-> "plain",
                media |-> [s \in Owned(FirstMode) |-> <<>>]]
  <2>1. r.mode \in Modes
    BY <1>2, FirstIsMode DEF GoodInv
  <2> QED BY <1>2, <2>1, NoItem, DraftAssumption DEF BoundOnce, Words, Settings
<1> QED BY <1>1, <1>2 DEF Asked, Brought

LEMMA ModeOfIs ==
  ASSUME page \in {"image", "gpt", "classic", "video"}, NEW r, r.mode \in Modes
  PROVE  ModeOf(r) \in Modes
BY DEF ModeOf, Modes

LEMMA GoodSeeded ==
  ASSUME GoodInv, NEW r \in Asked
  PROVE  Good(Seeded(stored[who], r))
<1> DEFINE d == stored[who]
           e == Seeded(d, r)
<1>1. Good(d) /\ who \in Accounts
  BY DEF GoodInv
<1> HIDE DEF d
<1>2. /\ r.mode \in Modes /\ r.text \in Words /\ r.setting \in Settings
      /\ r.bound \in Seq(People) /\ BoundOnce(r.bound) /\ r.presets \in SUBSET Presets
      /\ r.media \in [Owned(r.mode) -> Seq(Assets)]
  BY AskedIs
<1>3. ModeOf(r) \in Modes
  BY <1>2, ModeOfIs DEF GoodInv
<1>4. e.mode = ModeOf(r) /\ e.bound = r.bound
  BY DEF Seeded
<1>5. SettingFrom(d, r) \in Settings
  BY <1>1, <1>2 DEF SettingFrom, Good, Draft, Settings
<1>6. [f \in Fields |-> IF f = FieldOf(ModeOf(r)) THEN r.text
                        ELSE IF page = "classic" THEN "empty" ELSE d.text[f]] \in [Fields -> Words]
  BY <1>1, <1>2 DEF Good, Draft, Words
<1>7. [s \in Slots |-> IF ReadBack(r, s) THEN r.media[s] ELSE Emptied(d, s)] \in [Slots -> Seq(Assets)]
  BY <1>1, <1>2 DEF Good, Draft, Has, ReadBack, Emptied
<1>8. e \in Draft
  BY <1>1, <1>2, <1>3, <1>5, <1>6, <1>7 DEF Seeded, Draft
<1> QED BY <1>2, <1>4, <1>8 DEF Good, d

LEMMA CharacterBound ==
  ASSUME NEW s \in Seq(People), BoundOnce(s), NEW c \in People
  PROVE  WithCharacter(s, c) \in Seq(People) /\ BoundOnce(WithCharacter(s, c))
<1> DEFINE t == Dropping(s, c)
           u == Append(t, c)
<1>1. t \in Seq(People) /\ IsInjective(t) /\ c \notin Range(t)
  BY DroppingIs DEF BoundOnce
<1> HIDE DEF t
<1>2. u \in Seq(People) /\ IsInjective(u)
  BY <1>1, Appended
<1> HIDE DEF u
<1>3. Trimmed(u) \in Seq(People) /\ BoundOnce(Trimmed(u))
  BY <1>2, TrimmedIs DEF BoundOnce
<1> QED BY <1>3 DEF WithCharacter, u, t

(* What a page is opened with. *)
LEMMA GoodShown ==
  ASSUME GoodInv, Open \/ Again \/ OpenWithCharacter \/ OpenWithPreset \/ OpenWithImage
  PROVE  Good(draft') /\ ~open /\ open' = TRUE /\ UNCHANGED <<scene, who, stored, uploads, dialogs, wording>>
<1>0. /\ Good(stored[who]) /\ who \in Accounts
      /\ stored[who] \in [mode : Modes, media : {stored[who].media}, bound : Seq(People),
                          presets : SUBSET Presets, by : {stored[who].by}, setting : {stored[who].setting},
                          text : {stored[who].text}]
  BY DEF GoodInv, Good, Draft
<1>1. ASSUME NEW d, Shown(d), Good(d)
      PROVE  Good(draft') /\ ~open /\ open' = TRUE /\ UNCHANGED <<scene, who, stored, uploads, dialogs, wording>>
  BY <1>1 DEF Shown
<1>2. CASE Open
  BY <1>0, <1>1, <1>2 DEF Open
<1>3. CASE Again
  BY <1>1, <1>3, GoodSeeded DEF Again
<1>4. page = "gpt" => "general" \in Modes
  BY DEF Modes
<1>5. CASE OpenWithCharacter
  <2>1. PICK c \in People :
          Shown([stored[who] EXCEPT !.bound = WithCharacter(@, c), !.by = who,
                                    !.mode = IF page = "gpt" THEN "general" ELSE @])
    BY <1>5 DEF OpenWithCharacter
  <2> DEFINE s == stored[who]
             b == WithCharacter(s.bound, c)
             m == IF page = "gpt" THEN "general" ELSE s.mode
             d == [s EXCEPT !.bound = b, !.by = who, !.mode = m]
  <2>2. b \in Seq(People) /\ BoundOnce(b) /\ m \in Modes
    BY <1>0, <1>4, CharacterBound DEF Good, Draft
  <2>3. Shown(d)
    BY <1>0, <2>1 DEF Good, Draft
  <2> HIDE DEF b, m
  <2>4. Good(d)
    BY <1>0, <2>2 DEF Good, Draft
  <2> HIDE DEF d
  <2> QED BY <1>1, <2>3, <2>4
<1>6. CASE OpenWithPreset
  <2>1. PICK p \in Presets :
          Shown([stored[who] EXCEPT !.presets = @ \cup {p}, !.by = who,
                                    !.mode = IF page = "gpt" THEN "general" ELSE @])
    BY <1>6 DEF OpenWithPreset
  <2> DEFINE s == stored[who]
             b == s.presets \cup {p}
             m == IF page = "gpt" THEN "general" ELSE s.mode
             d == [s EXCEPT !.presets = b, !.by = who, !.mode = m]
  <2>2. b \in SUBSET Presets /\ m \in Modes
    BY <1>0, <1>4 DEF Good, Draft
  <2>3. Shown(d)
    BY <1>0, <2>1 DEF Good, Draft
  <2> HIDE DEF b, m
  <2>4. Good(d)
    BY <1>0, <2>2 DEF Good, Draft
  <2> HIDE DEF d
  <2> QED BY <1>1, <2>3, <2>4
<1>7. CASE OpenWithImage
  <2>1. PICK a \in Library :
          \/ Shown([stored[who] EXCEPT !.media["reference"] = <<a>>, !.by = who])
          \/ page = "video" /\ Shown([stored[who] EXCEPT !.mode = "frames", !.by = who,
                 !.media = [s \in Slots |-> IF s = "first" THEN <<a>> ELSE <<>>]])
    BY <1>7 DEF OpenWithImage
  <2> DEFINE s == stored[who]
             b == <<a>>
             media == [x \in Slots |-> IF x = "first" THEN b ELSE <<>>]
             c == [s EXCEPT !.media["reference"] = b, !.by = who]
             d == [s EXCEPT !.mode = "frames", !.by = who, !.media = media]
  <2>2. b \in Seq(Assets)
    BY DEF Assets
  <2>3. Shown(c) \/ (page = "video" /\ Shown(d))
    BY <2>1
  <2> HIDE DEF b
  <2>4. media \in [Slots -> Seq(Assets)] /\ (page = "video" => "frames" \in Modes)
    BY <2>2, NoItem DEF Modes
  <2> HIDE DEF media
  <2>5. Good(c) /\ (page = "video" => Good(d))
    BY <1>0, <2>2, <2>4 DEF Good, Draft, Slots
  <2> HIDE DEF c, d
  <2> QED BY <1>1, <2>3, <2>5
<1> QED BY <1>2, <1>3, <1>5, <1>6, <1>7

(* What is written, switched, picked or attached. *)
LEMMA GoodEdited ==
  ASSUME GoodInv,
         \/ Type \/ Set \/ Switch \/ ConfirmSwitch \/ Bind \/ Style
         \/ UploadLands \/ ClosePicker \/ Detach \/ AnswerRewrite
  PROVE  Good(draft')
<1>0. /\ Good(draft) /\ draft.media \in [Slots -> Seq(Assets)] /\ draft.bound \in Seq(People)
      /\ BoundOnce(draft.bound) /\ draft.presets \in SUBSET Presets
      /\ Owned(draft.mode) \subseteq Slots /\ FieldOf(draft.mode) \in Fields
  BY OwnedAreSlots DEF GoodInv, Good, Draft
<1>1. CASE Type
  BY <1>0, <1>1, GoodWritten, GoodUpdate DEF Type, Words
<1>2. CASE Set
  BY <1>0, <1>2, GoodWritten, GoodUpdate DEF Set
<1>3. CASE Switch \/ ConfirmSwitch
  <2>1. draft' = draft \/ \E mode \in Modes : SwitchTo(mode)
    BY <1>3 DEF Switch, ConfirmSwitch, GoodInv
  <2> QED BY <1>0, <2>1, GoodSwitch
<1>4. CASE Bind
  <2>1. \/ \E c \in People \ Range(draft.bound) :
             Len(draft.bound) < MaxBound /\ Update([draft EXCEPT !.bound = Append(draft.bound, c)])
        \/ \E c : Update([draft EXCEPT !.bound = Dropping(draft.bound, c)])
    BY <1>4 DEF Bind
  <2>2. ASSUME NEW c \in People \ Range(draft.bound), Len(draft.bound) < MaxBound
        PROVE  Append(draft.bound, c) \in Seq(People) /\ BoundOnce(Append(draft.bound, c))
    BY <1>0, <2>2, Appended, DraftAssumption DEF BoundOnce
  <2>3. ASSUME NEW c
        PROVE  Dropping(draft.bound, c) \in Seq(People) /\ BoundOnce(Dropping(draft.bound, c))
    <3> DEFINE t == Dropping(draft.bound, c)
    <3>1. t \in Seq(People) /\ Len(t) <= Len(draft.bound) /\ IsInjective(t)
      BY <1>0, DroppingIs DEF BoundOnce
    <3> HIDE DEF t
    <3>2. Len(t) <= MaxBound
      BY <1>0, <3>1, DraftAssumption DEF BoundOnce
    <3> QED BY <3>1, <3>2 DEF BoundOnce, t
  <2> QED BY <1>0, <2>1, <2>2, <2>3, GoodWritten, GoodUpdate
<1>5. CASE Style
  <2>1. \E x \in SUBSET Presets : Update([draft EXCEPT !.presets = x])
    <3>1. \/ \E p \in Presets : Update([draft EXCEPT !.presets = Toggle(draft.presets, p)])
          \/ Update([draft EXCEPT !.presets = {}])
      BY <1>5 DEF Style
    <3>2. \A p \in Presets : Toggle(draft.presets, p) \in SUBSET Presets
      BY <1>0 DEF Toggle
    <3> QED BY <3>1, <3>2
  <2> QED BY <1>0, <2>1, GoodWritten, GoodUpdate
<1>6. CASE UploadLands
  <2>1. \/ draft' = draft
        \/ \E u \in uploads : \E f \in Files : Attach(u.slot, u.value \o <<f>>)
    BY <1>6 DEF UploadLands, Landed
  <2>2. ASSUME NEW u \in uploads, NEW f \in Files PROVE u.slot \in Slots /\ u.value \o <<f>> \in Seq(Assets)
    <3>1. u.slot \in Slots /\ u.value \in Seq(Assets) /\ f \in Assets
      BY DEF GoodInv, Assets
    <3> QED BY <3>1
  <2> QED BY <1>0, <2>1, <2>2, GoodAttach
<1>7. CASE ClosePicker
  <2>1. /\ picking \in [slot : Slots, chosen : Seq(Library)]
        /\ draft' = draft \/ Attach(picking.slot, draft.media[picking.slot] \o picking.chosen)
    BY <1>7 DEF ClosePicker, GoodInv
  <2>2. picking.slot \in Slots /\ picking.chosen \in Seq(Assets)
    BY <2>1 DEF Assets
  <2>3. draft.media[picking.slot] \o picking.chosen \in Seq(Assets)
    BY <1>0, <2>2
  <2> QED BY <1>0, <2>1, <2>2, <2>3, GoodAttach
<1>8. CASE Detach
  <2>1. PICK slot \in Slots : \E a : Attach(slot, Dropping(draft.media[slot], a))
    BY <1>0, <1>8 DEF Detach
  <2>2. \A a : Dropping(draft.media[slot], a) \in Seq(Assets)
    BY <1>0, DroppingIs
  <2> QED BY <2>1, <2>2, GoodAttach
<1>9. CASE AnswerRewrite
  <2>1. draft' = draft \/ Update([draft EXCEPT !.text[FieldOf(draft.mode)] = "suggested"])
    BY <1>9 DEF AnswerRewrite
  <2> QED BY <1>0, <2>1, GoodWritten, GoodUpdate DEF Words
<1> QED BY <1>1, <1>2, <1>3, <1>4, <1>5, <1>6, <1>7, <1>8, <1>9

LEMMA GoodStep ==
  ASSUME GoodInv, [DraftNext]_draftVars
  PROVE  GoodInv'
<1>0. /\ page' = page /\ page \in {"image", "gpt", "classic", "video"} /\ who \in Accounts
      /\ Good(draft) /\ stored = [a \in Accounts |-> stored[a]] /\ \A a \in Accounts : Good(stored[a])
  BY SamePage DEF GoodInv, draftVars, scene
<1>1. ASSUME Good(draft'), UNCHANGED <<who, open, stored, rewriting>>,
             leaving' \in Modes \cup {Nothing},
             uploads' \in SUBSET [slot : Slots, value : Seq(Assets)],
             picking' \in [slot : Slots, chosen : Seq(Library)] \cup {Nothing},
             suggestion' \in {suggestion, Nothing}
      PROVE  GoodInv'
  BY <1>0, <1>1 DEF GoodInv, Good, Draft, Modes
<1>2. CASE \/ Type \/ Set \/ Bind \/ Style \/ UploadLands \/ ClosePicker \/ Detach \/ AnswerRewrite
  <2>1. /\ UNCHANGED <<who, open, stored, rewriting, leaving>> /\ suggestion' \in {suggestion, Nothing}
        /\ uploads' \in SUBSET uploads /\ picking' \in {picking, Nothing}
    BY <1>2 DEF Type, Set, Bind, Style, UploadLands, ClosePicker, Detach, AnswerRewrite, dialogs, wording
  <2> QED BY <1>1, <1>2, <2>1, GoodEdited DEF GoodInv
<1>3. CASE Switch \/ ConfirmSwitch
  <2>1. /\ UNCHANGED <<who, open, stored, uploads, picking>> /\ leaving' \in Modes \cup {Nothing}
        /\ rewriting' \in {rewriting, Nothing} /\ suggestion' \in {suggestion, Nothing}
    BY <1>3 DEF Switch, ConfirmSwitch, SwitchTo, wording, GoodInv
  <2>2. Good(draft')
    BY <1>3, GoodEdited
  <2> QED BY <1>0, <2>1, <2>2 DEF GoodInv, Good, Draft, Modes
<1>4. CASE Open \/ Again \/ OpenWithCharacter \/ OpenWithPreset \/ OpenWithImage
  <2>1. Good(draft') /\ open' = TRUE /\ UNCHANGED <<scene, who, stored, uploads, dialogs, wording>>
    BY <1>4, GoodShown
  <2> QED BY <1>0, <2>1 DEF GoodInv, Good, Draft, Modes, dialogs, wording
<1>5. CASE StartUpload
  <2>1. /\ UNCHANGED <<who, open, draft, stored, dialogs, wording>>
        /\ \E slot \in Owned(draft.mode) : uploads' = uploads \cup {[slot |-> slot, value |-> draft.media[slot]]}
    BY <1>5 DEF StartUpload
  <2>2. draft.media \in [Slots -> Seq(Assets)] /\ Owned(draft.mode) \subseteq Slots
    BY <1>0, OwnedAreSlots DEF Good, Draft
  <2>3. uploads' \in SUBSET [slot : Slots, value : Seq(Assets)]
    BY <2>1, <2>2 DEF GoodInv
  <2> QED BY <1>0, <1>1, <2>1, <2>3 DEF GoodInv, dialogs, wording
<1>6. CASE Browse
  <2>1. /\ UNCHANGED <<who, open, draft, stored, uploads, leaving, wording>>
        /\ \E slot \in Owned(draft.mode) : picking' = [slot |-> slot, chosen |-> <<>>]
    BY <1>6 DEF Browse
  <2>2. Owned(draft.mode) \subseteq Slots
    BY <1>0, OwnedAreSlots DEF Good, Draft
  <2>3. picking' \in [slot : Slots, chosen : Seq(Library)]
    BY <2>1, <2>2, NoItem
  <2> QED BY <1>0, <1>1, <2>1, <2>3 DEF GoodInv, wording
<1>7. CASE Choose
  <2>1. /\ UNCHANGED <<who, open, draft, stored, uploads, leaving, wording>> /\ picking # Nothing
        /\ \E a \in Library : picking' = [picking EXCEPT !.chosen =
             IF a \in Range(@) THEN Dropping(@, a) ELSE Append(@, a)]
    BY <1>7 DEF Choose
  <2>2. picking \in [slot : Slots, chosen : Seq(Library)]
    BY <2>1 DEF GoodInv
  <2>3. \A a \in Library : Dropping(picking.chosen, a) \in Seq(Library) /\ Append(picking.chosen, a) \in Seq(Library)
    BY <2>2, DroppingIs
  <2>4. \E x \in Seq(Library) : picking' = [picking EXCEPT !.chosen = x]
    BY <2>1, <2>2, <2>3
  <2>5. picking' \in [slot : Slots, chosen : Seq(Library)]
    BY <2>2, <2>4
  <2> QED BY <1>0, <1>1, <2>1, <2>5 DEF GoodInv, wording
<1>8. CASE Resolve
  <2>1. /\ UNCHANGED <<open, stored, uploads, dialogs, wording>> /\ who' \in Accounts
        /\ draft' \in {draft, stored[who']}
    BY <1>8 DEF Resolve, Reloaded, Accounts
  <2> QED BY <1>0, <2>1 DEF GoodInv, Good, Draft, Modes, dialogs, wording
<1>9. CASE SignOut
  <2>1. UNCHANGED <<open, draft, stored, uploads, dialogs, wording>> /\ who' \in Accounts
    BY <1>9 DEF SignOut, Accounts
  <2> QED BY <1>0, <2>1 DEF GoodInv, Good, Draft, Modes, dialogs, wording
<1>10. CASE Save
  <2>1. UNCHANGED <<who, open, draft, uploads, dialogs, wording>> /\ stored' = [stored EXCEPT ![who] = draft]
    BY <1>10 DEF Save
  <2> QED BY <1>0, <2>1 DEF GoodInv, Good, Draft, Modes, dialogs, wording
<1>11. CASE Leave
  <2>1. Good(Blank)
    BY <1>0, GoodBlank
  <2> QED BY <1>0, <1>11, <2>1 DEF Leave, GoodInv, Good, Draft, Modes
<1>12. CASE AskRewrite \/ RewriteArrives
  <2>1. UNCHANGED <<who, open, draft, stored, uploads, dialogs>>
    BY <1>12 DEF AskRewrite, RewriteArrives
  <2>2. rewriting' \in Fields \cup {Nothing} /\ suggestion' \in [field : Fields] \cup {Nothing}
    <3>1. FieldOf(draft.mode) \in Fields
      BY <1>0, OwnedAreSlots DEF Good, Draft
    <3> QED BY <1>12, <3>1 DEF AskRewrite, RewriteArrives, GoodInv
  <2> QED BY <1>0, <2>1, <2>2 DEF GoodInv, Good, Draft, Modes, dialogs
<1>13. CASE UNCHANGED draftVars
  BY <1>0, <1>13 DEF draftVars, scene, GoodInv, Good, Draft, Modes, dialogs, wording
<1> QED BY <1>2, <1>3, <1>4, <1>5, <1>6, <1>7, <1>8, <1>9, <1>10, <1>11, <1>12, <1>13 DEF DraftNext

LEMMA GoodStart == DraftInit => GoodInv
<1> SUFFICES ASSUME DraftInit PROVE GoodInv
  OBVIOUS
<1>1. page \in {"image", "gpt", "classic", "video"} /\ Guest \in Accounts
  BY DraftAssumption DEF DraftInit, Accounts
<1>2. Good(Blank)
  BY <1>1, GoodBlank
<1> QED BY <1>1, <1>2 DEF DraftInit, GoodInv
-----------------------------------------------------------------------------
(* A description is rewritten for the field it was asked for: the mode that *)
(* decides the field does not change meanwhile, or the rewrite is dropped.  *)
Asking == rewriting # Nothing \/ suggestion # Nothing
RewriteInv ==
    /\ rewriting # Nothing => rewriting = FieldOf(draft.mode)
    /\ suggestion # Nothing => suggestion = [field |-> FieldOf(draft.mode)]
    /\ Asking => page # "classic" /\ (page = "gpt" => who # Guest)

LEMMA OneField ==
  ASSUME page \in {"image", "video"}, NEW mode \in Modes
  PROVE  FieldOf(mode) = "text"
BY DEF Modes, FieldOf

(* Most changes of a draft leave its mode and its references alone. *)
LEMMA TextUpdated ==
  ASSUME GoodInv, NEW f, NEW x,
         \/ Update([draft EXCEPT !.text[f] = x]) \/ Update([draft EXCEPT !.setting = x])
         \/ Update([draft EXCEPT !.bound = x]) \/ Update([draft EXCEPT !.presets = x])
  PROVE  draft'.mode = draft.mode /\ draft'.media = draft.media
<1>0. draft \in Draft
  BY DEF GoodInv, Good
<1>1. CASE Update([draft EXCEPT !.text[f] = x])
  BY <1>0, <1>1 DEF Update, Draft
<1>2. CASE Update([draft EXCEPT !.setting = x])
  BY <1>0, <1>2 DEF Update, Draft
<1>3. CASE Update([draft EXCEPT !.bound = x])
  BY <1>0, <1>3 DEF Update, Draft
<1>4. CASE Update([draft EXCEPT !.presets = x])
  BY <1>0, <1>4 DEF Update, Draft
<1> QED BY <1>1, <1>2, <1>3, <1>4

LEMMA Attached ==
  ASSUME GoodInv, NEW slot, NEW ids, Attach(slot, ids)
  PROVE  draft'.mode = draft.mode /\ draft'.media = [draft.media EXCEPT ![slot] = Capped(slot, ids)]
<1>1. draft \in Draft
  BY DEF GoodInv, Good
<1> QED BY <1>1 DEF Attach, Update, Draft

LEMMA TextKeepsMedia ==
  ASSUME GoodInv, Type \/ Set \/ Bind \/ Style \/ AnswerRewrite
  PROVE  draft'.mode = draft.mode /\ draft'.media = draft.media
<1>1. \/ draft' = draft
      \/ \E f, x : \/ Update([draft EXCEPT !.text[f] = x]) \/ Update([draft EXCEPT !.setting = x])
                   \/ Update([draft EXCEPT !.bound = x]) \/ Update([draft EXCEPT !.presets = x])
  BY DEF Type, Set, Bind, Style, AnswerRewrite
<1> QED BY <1>1, TextUpdated

LEMMA WritingKeepsMode ==
  ASSUME GoodInv, Type \/ Set \/ Bind \/ Style \/ AnswerRewrite \/ UploadLands \/ ClosePicker \/ Detach
  PROVE  draft'.mode = draft.mode
<1>1. CASE Type \/ Set \/ Bind \/ Style \/ AnswerRewrite
  BY <1>1, TextKeepsMedia
<1>2. CASE UploadLands \/ ClosePicker \/ Detach
  <2>1. draft' = draft \/ \E slot, ids : Attach(slot, ids)
    BY <1>2 DEF UploadLands, Landed, ClosePicker, Detach
  <2> QED BY <2>1, Attached
<1> QED BY <1>1, <1>2

LEMMA RewriteStep ==
  ASSUME OwnInv, GoodInv, RewriteInv, [DraftNext]_draftVars
  PROVE  RewriteInv'
<1>0. /\ page' = page /\ page \in {"image", "gpt", "classic", "video"}
      /\ draft.mode \in Modes /\ draft'.mode \in Modes /\ (~open => Quiet)
  <2>1. page' = page
    BY SamePage DEF draftVars, scene
  <2>2. draft'.mode \in Modes' /\ Modes' = Modes
    BY <2>1, GoodStep DEF GoodInv, Good, Draft, Modes
  <2>3. page \in {"image", "gpt", "classic", "video"} /\ draft.mode \in Modes /\ (~open => Quiet)
    BY DEF GoodInv, Good, Draft, OwnInv
  <2> QED BY <2>1, <2>2, <2>3
<1>1. ASSUME rewriting' = Nothing, suggestion' = Nothing PROVE RewriteInv'
  BY <1>1 DEF RewriteInv, Asking
<1>2. ASSUME UNCHANGED wording, who' = who, FieldOf(draft'.mode) = FieldOf(draft.mode)
      PROVE  RewriteInv'
  BY <1>0, <1>2 DEF RewriteInv, Asking, wording
<1>3. CASE Type \/ Set \/ Bind \/ Style \/ UploadLands \/ ClosePicker \/ Detach
  <2>1. UNCHANGED wording /\ who' = who
    BY <1>3 DEF Type, Set, Bind, Style, UploadLands, ClosePicker, Detach
  <2> QED BY <1>2, <1>3, <2>1, WritingKeepsMode
<1>4. CASE AnswerRewrite
  <2>1. suggestion' = Nothing /\ rewriting' = rewriting /\ who' = who /\ draft'.mode = draft.mode
    BY <1>4, WritingKeepsMode DEF AnswerRewrite
  <2> QED BY <1>0, <2>1 DEF RewriteInv, Asking
<1>5. CASE Switch \/ ConfirmSwitch
  <2>1. who' = who /\ ((UNCHANGED wording /\ draft' = draft) \/ \E mode \in Modes : SwitchTo(mode))
    BY <1>5 DEF Switch, ConfirmSwitch, GoodInv
  <2>2. CASE UNCHANGED wording /\ draft' = draft
    BY <1>2, <2>1, <2>2
  <2>3. CASE \E mode \in Modes : SwitchTo(mode)
    <3>1. CASE page = "gpt"
      BY <1>1, <2>3, <3>1 DEF SwitchTo, Remounts
    <3>2. CASE page # "gpt"
      <4>1. UNCHANGED wording
        BY <2>3, <3>2 DEF SwitchTo, Remounts
      <4>2. CASE page = "classic"
        BY <1>0, <4>1, <4>2 DEF RewriteInv, Asking, wording
      <4>3. CASE page \in {"image", "video"}
        BY <1>0, <1>2, <2>1, <4>1, <4>3, OneField
      <4> QED BY <1>0, <3>2, <4>2, <4>3
    <3> QED BY <3>1, <3>2
  <2> QED BY <2>1, <2>2, <2>3
<1>6. CASE Open \/ Again \/ OpenWithCharacter \/ OpenWithPreset \/ OpenWithImage
  <2>1. ~open /\ UNCHANGED wording
    BY <1>6 DEF Open, Again, OpenWithCharacter, OpenWithPreset, OpenWithImage, Shown
  <2> QED BY <1>0, <1>1, <2>1 DEF Quiet, wording
<1>7. CASE StartUpload \/ Browse \/ Choose \/ Save \/ UNCHANGED draftVars
  <2>1. UNCHANGED <<wording, who, draft>>
    BY <1>7 DEF StartUpload, Browse, Choose, Save, draftVars
  <2> QED BY <1>2, <2>1
<1>8. CASE SignOut
  <2>1. ~open /\ UNCHANGED wording
    BY <1>8 DEF SignOut
  <2> QED BY <1>0, <1>1, <2>1 DEF Quiet, wording
<1>9. CASE Leave
  BY <1>1, <1>9 DEF Leave
<1>10. CASE Resolve
  <2>1. UNCHANGED wording /\ who = Guest
    BY <1>10 DEF Resolve
  <2>2. CASE ~Asking
    BY <1>1, <2>1, <2>2 DEF Asking, wording
  <2>3. CASE Asking
    <3>1. page \in {"image", "video"}
      BY <1>0, <2>1, <2>3 DEF RewriteInv
    <3>2. FieldOf(draft'.mode) = FieldOf(draft.mode)
      BY <1>0, <3>1, OneField
    <3> QED BY <1>0, <2>1, <3>1, <3>2 DEF RewriteInv, Asking, wording
  <2> QED BY <2>2, <2>3
<1>11. CASE AskRewrite
  BY <1>0, <1>11 DEF AskRewrite, Free, RewriteInv, Asking
<1>12. CASE RewriteArrives
  <2>1. /\ rewriting # Nothing /\ rewriting' = Nothing /\ suggestion' \in {Nothing, [field |-> rewriting]}
        /\ UNCHANGED <<who, draft>>
    BY <1>12 DEF RewriteArrives
  <2> QED BY <1>0, <2>1 DEF RewriteInv, Asking
<1> QED BY <1>3, <1>4, <1>5, <1>6, <1>7, <1>8, <1>9, <1>10, <1>11, <1>12 DEF DraftNext

LEMMA AnswerRewritesItsField ==
  ASSUME GoodInv, RewriteInv, AnswerRewrite, NEW f \in Fields, draft'.text[f] # draft.text[f]
  PROVE  f = suggestion.field
<1> DEFINE F == FieldOf(draft.mode)
<1>1. Update([draft EXCEPT !.text[F] = "suggested"]) /\ suggestion = [field |-> F]
  BY DEF AnswerRewrite, RewriteInv
<1>2. draft \in Draft
  BY DEF GoodInv, Good
<1> HIDE DEF F
<1>3. f # F => draft'.text[f] = draft.text[f]
  BY <1>1, <1>2 DEF Update, Draft
<1> QED BY <1>1, <1>3
-----------------------------------------------------------------------------
(* An upload adds to the references it was drawn with, and the dialog to    *)
(* those it was opened with: if the user waits for an upload, those stay    *)
(* what they are until it lands, so there is room left for what it brings.  *)
Fits(slot, s) == Len(s) <= Limit(slot) /\ IsInjective(s)
Limited(d) == \A slot \in Slots : Fits(slot, d.media[slot])
HasRoom(p) == /\ Len(draft.media[p.slot]) + Len(p.chosen) <= Limit(p.slot) /\ IsInjective(p.chosen)
              /\ Range(draft.media[p.slot]) \cap Range(p.chosen) = {}
UploadInv ==
    /\ Limited(draft) /\ \A a \in Accounts : Limited(stored[a])
    /\ \A u, v \in uploads : u = v
    /\ \A u \in uploads : u.value = draft.media[u.slot] /\ Room(u.slot) > 0
    /\ uploads # {} => who # Guest /\ picking = Nothing /\ leaving = Nothing
    /\ picking # Nothing => who # Guest /\ leaving = Nothing /\ HasRoom(picking)

LEMMA Limits == \A slot : Limit(slot) \in Nat \ {0}
BY DraftAssumption DEF Limit

LEMMA NoneFits == \A slot : Fits(slot, <<>>)
BY NoItem, Limits DEF Fits

LEMMA CappedFits ==
  ASSUME NEW slot, NEW S, NEW ids \in Seq(S), Fits(slot, ids)
  PROVE  Fits(slot, Capped(slot, ids))
<1>1. CASE Limit(slot) = 1 /\ ids # <<>>
  <2>1. Capped(slot, ids) = <<Last(ids)>>
    BY <1>1 DEF Capped
  <2>2. Last(ids) \in {Last(ids)}
    OBVIOUS
  <2>3. Len(<<Last(ids)>>) = 1 /\ IsInjective(<<Last(ids)>>)
    BY <2>2, OneItem
  <2> QED BY <1>1, <2>1, <2>3 DEF Fits
<1>2. CASE ~(Limit(slot) = 1 /\ ids # <<>>)
  BY <1>2 DEF Capped
<1> QED BY <1>1, <1>2

LEMMA AttachFits ==
  ASSUME GoodInv, Limited(draft), NEW slot \in Slots, NEW ids \in Seq(Assets), Fits(slot, ids), Attach(slot, ids)
  PROVE  Limited(draft')
<1>1. draft.media \in [Slots -> Seq(Assets)]
  BY DEF GoodInv, Good, Draft
<1>2. draft'.media = [draft.media EXCEPT ![slot] = Capped(slot, ids)] /\ Fits(slot, Capped(slot, ids))
  BY Attached, CappedFits
<1>3. ASSUME NEW s \in Slots PROVE Fits(s, draft'.media[s])
  <2>1. CASE s = slot
    BY <1>1, <1>2, <2>1
  <2>2. CASE s # slot
    <3>1. draft'.media[s] = draft.media[s]
      BY <1>1, <1>2, <2>2
    <3> QED BY <3>1 DEF Limited
  <2> QED BY <2>1, <2>2
<1> QED BY <1>3 DEF Limited, Fits, Limit

LEMMA SwitchFits ==
  ASSUME GoodInv, Limited(draft), NEW mode, SwitchTo(mode)
  PROVE  Limited(draft')
<1> DEFINE media == MediaFor(draft, mode)
<1>1. draft \in Draft /\ Update([draft EXCEPT !.mode = mode, !.media = media])
  BY DEF GoodInv, Good, SwitchTo
<1>2. \A s \in Slots : media[s] \in {draft.media[s], <<>>}
  BY DEF MediaFor
<1> HIDE DEF media
<1>3. draft'.media = media
  BY <1>1 DEF Update, Draft
<1>4. ASSUME NEW s \in Slots PROVE Fits(s, draft'.media[s])
  <2>1. CASE media[s] = draft.media[s]
    BY <1>3, <2>1 DEF Limited
  <2>2. CASE media[s] = <<>>
    BY <1>3, <2>2, NoneFits
  <2> QED BY <1>2, <2>1, <2>2
<1> QED BY <1>4 DEF Limited, Fits, Limit

LEMMA AskedFits ==
  ASSUME GoodInv, UploadInv, NEW r \in Asked, NEW s \in Slots, Has(r, s)
  PROVE  Fits(s, r.media[s])
<1>1. CASE \E a \in Accounts : r = Request(stored[a]) /\ r # Nothing
  <2>1. PICK a \in Accounts : r = Request(stored[a]) /\ r # Nothing
    BY <1>1
  <2>2. r.media = [x \in Owned(stored[a].mode) |-> stored[a].media[x]]
    BY <2>1 DEF Request, Sent
  <2>3. r.media[s] = stored[a].media[s]
    BY <2>2 DEF Has
  <2> QED BY <2>3 DEF UploadInv, Limited
<1>2. CASE r.media = [x \in Owned(FirstMode) |-> <<>>]
  BY <1>2 DEF Has
<1> QED BY <1>1, <1>2 DEF Asked, Brought

LEMMA ShownFits ==
  ASSUME GoodInv, UploadInv, Open \/ Again \/ OpenWithCharacter \/ OpenWithPreset \/ OpenWithImage
  PROVE  Limited(draft')
<1> DEFINE s == stored[who]
<1>0. Limited(s) /\ s \in Draft
  BY DEF GoodInv, UploadInv, Good
<1> HIDE DEF s
<1>1. ASSUME NEW d, Shown(d), Limited(d) PROVE Limited(draft')
  BY <1>1 DEF Shown, Limited, Fits, Limit
<1>2. CASE Open
  BY <1>0, <1>1, <1>2 DEF Open, s
<1>3. CASE Again
  <2>1. PICK r \in Asked : Shown(Seeded(s, r))
    BY <1>3 DEF Again, s
  <2>2. ASSUME NEW x \in Slots PROVE Fits(x, Seeded(s, r).media[x])
    <3>1. Seeded(s, r).media[x] = IF ReadBack(r, x) THEN r.media[x] ELSE Emptied(s, x)
      BY DEF Seeded
    <3>2. Emptied(s, x) \in {s.media[x], <<>>}
      BY DEF Emptied
    <3>3. CASE ReadBack(r, x)
      BY <3>1, <3>3, AskedFits DEF ReadBack
    <3>4. CASE ~ReadBack(r, x) /\ Emptied(s, x) = s.media[x]
      BY <1>0, <3>1, <3>4 DEF Limited
    <3>5. CASE ~ReadBack(r, x) /\ Emptied(s, x) = <<>>
      BY <3>1, <3>5, NoneFits
    <3> QED BY <3>2, <3>3, <3>4, <3>5
  <2> QED BY <1>1, <2>1, <2>2 DEF Limited
<1>4. CASE OpenWithCharacter
  <2>1. PICK b, m : Shown([s EXCEPT !.bound = b, !.by = who, !.mode = m])
    BY <1>4 DEF OpenWithCharacter, s
  <2> DEFINE d == [s EXCEPT !.bound = b, !.by = who, !.mode = m]
  <2>2. d.media = s.media
    BY <1>0 DEF Draft
  <2> HIDE DEF d
  <2>3. Limited(d)
    BY <1>0, <2>2 DEF Limited
  <2> QED BY <1>1, <2>1, <2>3 DEF d
<1>5. CASE OpenWithPreset
  <2>1. PICK b, m : Shown([s EXCEPT !.presets = b, !.by = who, !.mode = m])
    BY <1>5 DEF OpenWithPreset, s
  <2> DEFINE d == [s EXCEPT !.presets = b, !.by = who, !.mode = m]
  <2>2. d.media = s.media
    BY <1>0 DEF Draft
  <2> HIDE DEF d
  <2>3. Limited(d)
    BY <1>0, <2>2 DEF Limited
  <2> QED BY <1>1, <2>1, <2>3 DEF d
<1>6. CASE OpenWithImage
  <2>1. PICK a \in Library :
          \/ Shown([s EXCEPT !.media["reference"] = <<a>>, !.by = who])
          \/ Shown([s EXCEPT !.mode = "frames", !.by = who,
                      !.media = [x \in Slots |-> IF x = "first" THEN <<a>> ELSE <<>>]])
    BY <1>6 DEF OpenWithImage, s
  <2> DEFINE b == <<a>>
             c == [s EXCEPT !.media["reference"] = b, !.by = who]
             d == [s EXCEPT !.mode = "frames", !.by = who,
                     !.media = [x \in Slots |-> IF x = "first" THEN b ELSE <<>>]]
  <2>2. \A x : Fits(x, b)
    BY OneItem, Limits DEF Fits
  <2>3. Shown(c) \/ Shown(d)
    BY <2>1
  <2> HIDE DEF b
  <2>4. \A x \in Slots : c.media[x] \in {b, s.media[x]} /\ d.media[x] \in {b, <<>>}
    BY <1>0 DEF Draft
  <2> HIDE DEF c, d
  <2>5. ASSUME NEW x \in Slots PROVE Fits(x, c.media[x]) /\ Fits(x, d.media[x])
    <3>1. Fits(x, b) /\ Fits(x, s.media[x]) /\ Fits(x, <<>>)
      BY <1>0, <2>2, NoneFits DEF Limited
    <3>2. Fits(x, c.media[x])
      BY <2>4, <3>1, Zenon
    <3>3. Fits(x, d.media[x])
      BY <2>4, <3>1, Zenon
    <3> QED BY <3>2, <3>3
  <2> QED BY <1>1, <2>3, <2>5 DEF Limited
<1> QED BY <1>2, <1>3, <1>4, <1>5, <1>6

(* What is chosen in the dialog is not attached yet, and fits with it. *)
LEMMA ChoiceFits ==
  ASSUME GoodInv, UploadInv, Choose
  PROVE  picking' # Nothing => HasRoom(picking)'
<1>1. picking \in [slot : Slots, chosen : Seq(Library)] /\ HasRoom(picking) /\ draft' = draft
  BY DEF Choose, GoodInv, UploadInv
<1>2. PICK a \in Library \ Range(draft.media[picking.slot]) :
        /\ picking' = [picking EXCEPT !.chosen = IF a \in Range(@) THEN Dropping(@, a) ELSE Append(@, a)]
        /\ a \in Range(picking.chosen) \/ ~Full(picking.slot, picking.chosen)
  BY DEF Choose
<1> DEFINE slot == picking.slot
           old == picking.chosen
           new == IF a \in Range(old) THEN Dropping(old, a) ELSE Append(old, a)
           media == draft.media[slot]
<1>3. /\ slot \in Slots /\ old \in Seq(Library) /\ IsInjective(old) /\ Len(media) + Len(old) <= Limit(slot)
      /\ Range(media) \cap Range(old) = {} /\ a \in Library \ Range(media)
      /\ a \in Range(old) \/ ~(Len(media) + Len(old) >= Limit(slot))
      /\ media \in Seq(Assets)
  BY <1>1, <1>2 DEF HasRoom, Full, GoodInv, Good, Draft
<1>4. picking'.slot = slot /\ picking'.chosen = new
  BY <1>1, <1>2
<1> HIDE DEF slot, old, media
<1>5. IsInjective(new) /\ Range(media) \cap Range(new) = {} /\ Len(media) + Len(new) <= Limit(slot)
  <2>1. CASE a \in Range(old)
    <3>1. IsInjective(new) /\ Range(new) = Range(old) \ {a} /\ Len(new) <= Len(old) /\ new \in Seq(Library)
      BY <1>3, <2>1, DroppingIs
    <3>2. Len(media) \in Nat /\ Len(old) \in Nat /\ Len(new) \in Nat /\ Limit(slot) \in Nat
      BY <1>3, <3>1, Limits
    <3>3. Len(media) + Len(new) <= Limit(slot)
      BY <1>3, <3>1, <3>2
    <3> QED BY <1>3, <3>1, <3>3
  <2>2. CASE a \notin Range(old)
    <3>1. IsInjective(new) /\ Range(new) = Range(old) \cup {a} /\ Len(new) = Len(old) + 1
      BY <1>3, <2>2, Appended
    <3>2. Len(media) \in Nat /\ Len(old) \in Nat /\ Limit(slot) \in Nat
      BY <1>3, Limits
    <3>3. Len(media) + Len(new) <= Limit(slot)
      BY <1>3, <2>2, <3>1, <3>2
    <3> QED BY <1>3, <3>1, <3>3
  <2> QED BY <2>1, <2>2
<1> HIDE DEF new
<1>6. draft'.media[picking'.slot] = media
  BY <1>1, <1>4 DEF media
<1> QED BY <1>4, <1>5, <1>6 DEF HasRoom, Limit

LEMMA LandedFits ==
  ASSUME GoodInv, UploadInv, UploadLands
  PROVE  /\ Limited(draft')
         /\ \A slot \in Slots : Limit(slot) > 1 => Range(draft.media[slot]) \subseteq Range(draft'.media[slot])
<1>1. CASE draft' = draft
  BY <1>1 DEF UploadInv, Limited, Fits, Limit
<1>2. CASE \E u \in uploads : \E f \in Files \ InUse : Landed(u, <<f>>)
  <2>1. PICK u \in uploads, f \in Files \ InUse : Landed(u, <<f>>)
    BY <1>2
  <2> DEFINE slot == u.slot
             media == draft.media[slot]
             ids == media \o <<f>>
  <2>2. /\ slot \in Slots /\ media \in Seq(Assets) /\ Attach(slot, ids) /\ f \in Assets
        /\ Len(media) < Limit(slot) /\ IsInjective(media) /\ f \notin Range(media)
    <3>1. u \in [slot : Slots, value : Seq(Assets)] /\ u.value = draft.media[u.slot] /\ Room(u.slot) > 0
      BY DEF GoodInv, UploadInv
    <3>2. slot \in Slots /\ media \in Seq(Assets) /\ Attach(slot, ids) /\ f \in Assets
      BY <2>1, <3>1 DEF Landed, GoodInv, Good, Draft, Assets
    <3>3. Fits(slot, media)
      BY <3>2 DEF UploadInv, Limited
    <3>4. Len(media) < Limit(slot)
      BY <3>1, <3>2, Limits DEF Room
    <3>5. Range(media) \subseteq InUse
      BY <3>2 DEF InUse
    <3> QED BY <3>2, <3>3, <3>4, <3>5 DEF Fits
  <2> HIDE DEF slot, media
  <2>3. /\ ids \in Seq(Assets) /\ Len(ids) = Len(media) + 1 /\ Range(media) \subseteq Range(ids) /\ IsInjective(ids)
    <3> DEFINE t == <<f>>
    <3>1. t \in Seq(Assets) /\ Len(t) = 1 /\ IsInjective(t) /\ Range(t) = {f}
      BY <2>2, OneItem
    <3> HIDE DEF t
    <3>2. Range(media) \cap Range(t) = {}
      BY <2>2, <3>1
    <3>3. /\ media \o t \in Seq(Assets) /\ Len(media \o t) = Len(media) + Len(t)
          /\ Range(media) \subseteq Range(media \o t)
          /\ IsInjective(media) /\ IsInjective(t) /\ Range(media) \cap Range(t) = {} => IsInjective(media \o t)
      BY <2>2, <3>1, Joined, Zenon
    <3> QED BY <2>2, <3>1, <3>2, <3>3 DEF t
  <2> HIDE DEF ids
  <2>4. Fits(slot, ids)
    BY <2>2, <2>3, Limits DEF Fits
  <2>5. Limited(draft')
    BY <2>2, <2>3, <2>4, AttachFits DEF UploadInv
  <2>6. draft'.media = [draft.media EXCEPT ![slot] = Capped(slot, ids)]
    BY <2>2, Attached
  <2>7. ASSUME NEW s \in Slots, Limit(s) > 1 PROVE Range(draft.media[s]) \subseteq Range(draft'.media[s])
    <3>1. draft.media \in [Slots -> Seq(Assets)]
      BY DEF GoodInv, Good, Draft
    <3>2. CASE s = slot
      <4>1. Capped(slot, ids) = ids
        BY <2>7, <3>2 DEF Capped
      <4> QED BY <2>3, <2>6, <3>1, <3>2, <4>1 DEF media
    <3>3. CASE s # slot
      BY <2>6, <3>1, <3>3
    <3> QED BY <3>2, <3>3
  <2> QED BY <2>5, <2>7
<1> QED BY <1>1, <1>2 DEF UploadLands

LEMMA PickedFits ==
  ASSUME GoodInv, UploadInv, ClosePicker \/ Detach
  PROVE  Limited(draft')
<1>0. Limited(draft) /\ draft.media \in [Slots -> Seq(Assets)] /\ Owned(draft.mode) \subseteq Slots
  BY OwnedAreSlots DEF UploadInv, GoodInv, Good, Draft
<1>1. CASE draft' = draft
  BY <1>0, <1>1 DEF Limited, Fits, Limit
<1>2. CASE picking # Nothing /\ Attach(picking.slot, draft.media[picking.slot] \o picking.chosen)
  <2> DEFINE slot == picking.slot
             s == draft.media[slot]
             t == picking.chosen
  <2>1. /\ slot \in Slots /\ s \in Seq(Assets) /\ t \in Seq(Assets) /\ Fits(slot, s)
        /\ Len(s) + Len(t) <= Limit(slot) /\ IsInjective(t) /\ Range(s) \cap Range(t) = {}
    <3>1. picking \in [slot : Slots, chosen : Seq(Library)] /\ HasRoom(picking)
      BY <1>2 DEF GoodInv, UploadInv
    <3>2. t \in Seq(Assets)
      BY <3>1 DEF Assets
    <3> QED BY <1>0, <3>1, <3>2 DEF HasRoom, Limited
  <2>2. Attach(slot, s \o t)
    BY <1>2
  <2> HIDE DEF slot, s, t
  <2>3. s \o t \in Seq(Assets) /\ Len(s \o t) = Len(s) + Len(t) /\ IsInjective(s \o t)
    BY <2>1, Joined DEF Fits
  <2>4. Fits(slot, s \o t)
    BY <2>1, <2>3 DEF Fits
  <2> QED BY <1>0, <2>1, <2>2, <2>3, <2>4, AttachFits
<1>3. CASE \E slot \in Slots : \E a : Attach(slot, Dropping(draft.media[slot], a))
  <2>0. PICK slot \in Slots : \E a : Attach(slot, Dropping(draft.media[slot], a))
    BY <1>3
  <2>1. PICK a : Attach(slot, Dropping(draft.media[slot], a))
    BY <2>0
  <2> DEFINE s == draft.media[slot]
             t == Dropping(s, a)
  <2>2. s \in Seq(Assets) /\ Fits(slot, s)
    BY <1>0 DEF Limited
  <2> HIDE DEF s
  <2>3. t \in Seq(Assets) /\ Len(t) <= Len(s) /\ IsInjective(t)
    BY <2>2, DroppingIs DEF Fits
  <2>4. Attach(slot, t)
    BY <2>1 DEF s
  <2> HIDE DEF t
  <2>5. Fits(slot, t)
    BY <2>2, <2>3, Limits DEF Fits
  <2> QED BY <1>0, <2>3, <2>4, <2>5, AttachFits
<1>4. \/ draft' = draft
      \/ picking # Nothing /\ Attach(picking.slot, draft.media[picking.slot] \o picking.chosen)
      \/ \E slot \in Slots : \E a : Attach(slot, Dropping(draft.media[slot], a))
  BY <1>0 DEF ClosePicker, Detach
<1> QED BY <1>1, <1>2, <1>3, <1>4

LEMMA UploadStep ==
  ASSUME "uploads" \in Kept, OwnInv, GoodInv, UploadInv, [DraftNext]_draftVars
  PROVE  UploadInv'
<1>0. /\ Limited(draft) /\ who \in Accounts /\ \A a \in Accounts : Limited(stored[a])
      /\ ~open => Quiet
      /\ stored = [a \in Accounts |-> stored[a]]
  BY DEF OwnInv, UploadInv
<1>1. ASSUME Limited(draft'), stored' = stored, uploads' = {}, picking' = Nothing PROVE UploadInv'
  BY <1>0, <1>1 DEF UploadInv, Limited, Fits, Limit
<1>2. ASSUME Limited(draft'), draft'.media = draft.media, UNCHANGED <<who, stored, dialogs>>,
             uploads' \in SUBSET uploads
      PROVE  UploadInv'
  BY <1>0, <1>2 DEF UploadInv, Limited, Fits, Limit, Room, HasRoom, dialogs
<1>3. CASE Type \/ Set \/ Bind \/ Style \/ AnswerRewrite
  <2>1. UNCHANGED <<who, stored, uploads, dialogs>>
    BY <1>3 DEF Type, Set, Bind, Style, AnswerRewrite
  <2>2. draft'.media = draft.media
    BY <1>3, TextKeepsMedia
  <2>3. Limited(draft')
    BY <1>0, <2>2 DEF Limited, Fits, Limit
  <2> QED BY <1>2, <2>1, <2>2, <2>3
<1>4. CASE Switch \/ ConfirmSwitch
  <2>1. uploads = {} /\ picking = Nothing /\ UNCHANGED <<stored, uploads, picking>>
        /\ (draft' = draft \/ \E mode : SwitchTo(mode))
    BY <1>4 DEF Switch, ConfirmSwitch, Free, Settled, UploadInv
  <2>2. Limited(draft')
    BY <1>0, <2>1, SwitchFits DEF Limited, Fits, Limit
  <2> QED BY <1>1, <2>1, <2>2
<1>5. CASE UploadLands
  <2>1. PICK u \in uploads : uploads' = uploads \ {u} /\ UNCHANGED <<who, stored, dialogs>>
    BY <1>5 DEF UploadLands
  <2>2. uploads' = {} /\ picking' = Nothing /\ stored' = stored
    BY <2>1 DEF UploadInv, dialogs
  <2> QED BY <1>1, <1>5, <2>2, LandedFits
<1>6. CASE ClosePicker \/ Detach
  <2>1. uploads = {} /\ uploads' = uploads /\ picking' = Nothing /\ stored' = stored
    BY <1>6 DEF ClosePicker, Detach, Free, Settled, UploadInv, dialogs
  <2> QED BY <1>1, <1>6, <2>1, PickedFits
<1>7. CASE StartUpload
  <2>1. /\ uploads = {} /\ who # Guest /\ picking = Nothing /\ leaving = Nothing
        /\ \E slot : Room(slot) > 0 /\ uploads' = uploads \cup {[slot |-> slot, value |-> draft.media[slot]]}
        /\ UNCHANGED <<who, stored, draft, dialogs>>
    BY <1>7 DEF StartUpload, Settled, Free
  <2>2. PICK slot : Room(slot) > 0 /\ uploads' = {[slot |-> slot, value |-> draft.media[slot]]}
    BY <2>1
  <2>3. Room(slot)' > 0 /\ (\A a \in Accounts : Limited(stored[a]))' /\ Limited(draft)'
    BY <1>0, <2>1, <2>2 DEF Room, Limit, Limited, Fits
  <2> QED BY <2>1, <2>2, <2>3 DEF UploadInv, dialogs, Room, Limit
<1>8. CASE Browse
  <2>1. /\ uploads = {} /\ who # Guest /\ leaving = Nothing
        /\ \E slot \in Owned(draft.mode) : Room(slot) > 0 /\ picking' = [slot |-> slot, chosen |-> <<>>]
        /\ UNCHANGED <<who, stored, draft, uploads, leaving>>
    BY <1>8 DEF Browse, Settled, Free
  <2>2. PICK slot \in Slots : Room(slot) > 0 /\ picking' = [slot |-> slot, chosen |-> <<>>]
    BY <2>1, OwnedAreSlots DEF GoodInv, Good, Draft
  <2>3. draft.media[slot] \in Seq(Assets)
    BY DEF GoodInv, Good, Draft
  <2>4. HasRoom(picking)'
    <3>1. picking'.slot = slot /\ picking'.chosen = <<>> /\ draft' = draft
      BY <2>1, <2>2
    <3>2. Len(draft.media[slot]) + 0 <= Limit(slot)
      BY <2>2, <2>3, Limits DEF Room
    <3> QED BY <3>1, <3>2, NoItem DEF HasRoom, Limit
  <2> QED BY <1>0, <2>1, <2>4 DEF UploadInv, Limited, Fits, Limit
<1>9. CASE Choose
  <2>1. UNCHANGED <<who, stored, draft, uploads, leaving>> /\ picking # Nothing /\ uploads = {}
    BY <1>9 DEF Choose, UploadInv
  <2>2. who # Guest /\ leaving = Nothing /\ (picking' # Nothing => HasRoom(picking)')
    BY <1>9, <2>1, ChoiceFits DEF UploadInv, HasRoom
  <2> QED BY <1>0, <2>1, <2>2 DEF UploadInv, Limited, Fits, Limit
<1>10. CASE Open \/ Again \/ OpenWithCharacter \/ OpenWithPreset \/ OpenWithImage
  <2>1. ~open /\ UNCHANGED <<stored, uploads, dialogs>>
    BY <1>10, GoodShown
  <2>2. uploads' = {} /\ picking' = Nothing
    BY <1>0, <2>1 DEF Quiet, dialogs
  <2> QED BY <1>1, <1>10, <2>1, <2>2, ShownFits
<1>11. CASE Resolve
  <2>1. who = Guest /\ draft' \in {draft, stored[who']} /\ who' \in Accounts /\ UNCHANGED <<stored, uploads, dialogs>>
    BY <1>11 DEF Resolve, Reloaded, Accounts
  <2>2. uploads = {} /\ picking = Nothing
    BY <2>1 DEF UploadInv
  <2>3. Limited(draft')
    BY <1>0, <2>1 DEF Limited, Fits, Limit
  <2> QED BY <1>1, <2>1, <2>2, <2>3 DEF dialogs
<1>12. CASE SignOut
  <2>1. Quiet /\ UNCHANGED <<stored, draft, uploads, dialogs>>
    BY <1>0, <1>12 DEF SignOut
  <2>2. Limited(draft')
    BY <1>0, <2>1 DEF Limited, Fits, Limit
  <2> QED BY <1>1, <2>1, <2>2 DEF dialogs, Quiet
<1>13. CASE Leave
  <2>1. uploads' = {} /\ picking' = Nothing /\ stored' = stored /\ draft' = Blank
    BY <1>13 DEF Leave
  <2>2. \A s \in Slots : draft'.media[s] = <<>>
    BY <2>1 DEF Blank
  <2>3. Limited(draft')
    BY <2>2, NoneFits DEF Limited
  <2> QED BY <1>1, <2>1, <2>3
<1>14. CASE Save
  <2>1. stored' = [stored EXCEPT ![who] = draft] /\ UNCHANGED <<who, draft, uploads, dialogs>>
    BY <1>14 DEF Save
  <2>2. Limited(draft)' /\ (\A a \in Accounts : Limited(stored[a]))'
    BY <1>0, <2>1 DEF Limited, Fits, Limit
  <2> QED BY <2>1, <2>2 DEF UploadInv, dialogs, Room, HasRoom, Limit
<1>15. CASE AskRewrite \/ RewriteArrives \/ UNCHANGED draftVars
  <2>1. UNCHANGED <<who, stored, draft, uploads, dialogs>>
    BY <1>15 DEF AskRewrite, RewriteArrives, draftVars
  <2> QED BY <1>0, <1>2, <2>1 DEF Limited, Fits, Limit
<1> QED BY <1>3, <1>4, <1>5, <1>6, <1>7, <1>8, <1>9, <1>10, <1>11, <1>12, <1>13, <1>14, <1>15 DEF DraftNext
-----------------------------------------------------------------------------
(* Creating again: a request tells the draft that makes it. *)
LEMMA AskedMeans ==
  ASSUME GoodInv, NEW r \in Asked
  PROVE  /\ r = [mode |-> r.mode, text |-> r.text, media |-> r.media, bound |-> r.bound,
                 presets |-> r.presets, setting |-> r.setting]
         /\ r.mode # "direct"
         /\ r.mode = "frames" => r.media["first"] # <<>>
         /\ r.mode = "refs" => r.media["images"] # <<>>
<1>1. CASE \E a \in Accounts : r = Request(stored[a]) /\ r # Nothing
  <2>1. PICK a \in Accounts : r = Request(stored[a]) /\ r # Nothing
    BY <1>1
  <2> DEFINE d == stored[a]
  <2>2. ~Missing(d)
    BY <2>1 DEF Request
  <2>3. /\ r = [mode |-> r.mode, text |-> r.text, media |-> r.media, bound |-> r.bound,
                presets |-> r.presets, setting |-> r.setting]
        /\ r.mode = d.mode /\ r.media = [s \in Owned(d.mode) |-> d.media[s]]
    BY <2>1, <2>2 DEF Request, Sent
  <2>4. /\ r.mode = "frames" => r.media["first"] # <<>>
        /\ r.mode = "refs" => r.media["images"] # <<>>
    BY <2>2, <2>3 DEF Missing, Owned
  <2> QED BY <2>3, <2>4 DEF Asked
<1>2. CASE /\ page \in {"image", "video"}
           /\ r = [mode |-> FirstMode, text |-> "typed", bound |-> <<>>, presets |-> {}, setting |-> "plain",
                   media |-> [s \in Owned(FirstMode) |-> <<>>]]
  <2>1. r.mode \in {"single", "text"}
    BY <1>2 DEF FirstMode
  <2> QED BY <1>2, <2>1 DEF Asked
<1> QED BY <1>1, <1>2 DEF Asked, Brought

LEMMA ModeIsTold ==
  ASSUME GoodInv, NEW r \in Asked
  PROVE  ModeOf(r) = r.mode
<1>1. r.mode \in Modes /\ r.media \in [Owned(r.mode) -> Seq(Assets)]
  BY AskedIs
<1>2. /\ r.mode = "frames" => r.media["first"] # <<>>
      /\ r.mode = "refs" => r.media["images"] # <<>>
  BY AskedMeans
<1>3. CASE page # "video"
  BY <1>3 DEF ModeOf
<1>4. CASE page = "video"
  <2>1. r.mode \in {"text", "frames", "refs"}
    BY <1>1, <1>4, VideoModes
  <2>2. /\ Has(r, "first") <=> r.mode = "frames"
        /\ Has(r, "images") <=> r.mode = "refs"
    BY <1>1, <1>2, <2>1, OwnedSlots DEF Has
  <2> QED BY <1>4, <2>1, <2>2 DEF ModeOf
<1> QED BY <1>3, <1>4

LEMMA AgainRecreates ==
  ASSUME GoodInv, page # "image", Again
  PROVE  \E r \in Asked : SameRequest(Request(draft'), r)
<1>1. PICK r \in Asked : draft' = Seeded(stored[who], r)
  BY DEF Again, Shown
<1> DEFINE d == stored[who]
           e == Seeded(d, r)
           m == r.mode
<1>2. /\ m \in Modes /\ r.text # "empty" /\ r.media \in [Owned(m) -> Seq(Assets)] /\ m # "direct"
      /\ r = [mode |-> m, text |-> r.text, media |-> r.media, bound |-> r.bound,
              presets |-> r.presets, setting |-> r.setting]
      /\ m = "frames" => r.media["first"] # <<>>
      /\ m = "refs" => r.media["images"] # <<>>
  BY AskedIs, AskedMeans
<1>3. Owned(m) \subseteq Slots /\ FieldOf(m) \in Fields
  BY <1>2, OwnedAreSlots DEF GoodInv
<1>4. /\ e.mode = m /\ e.bound = r.bound /\ e.presets = r.presets /\ e.setting = SettingFrom(d, r)
      /\ e.text[FieldOf(m)] = r.text
      /\ \A s \in Slots : e.media[s] = IF ReadBack(r, s) THEN r.media[s] ELSE Emptied(d, s)
  BY <1>3, ModeIsTold DEF Seeded
<1>0. page = "gpt" => m = "general"
  BY <1>2 DEF Modes, GoodInv
<1> HIDE DEF d, e, m
<1>5. ASSUME NEW s \in Owned(m)
      PROVE  e.media[s] = IF page = "gpt" THEN <<>> ELSE r.media[s]
  <2>1. s # "directReferences"
    BY <1>2, <1>5, <1>3 DEF Owned, Modes, GoodInv
  <2>2. Emptied(d, s) = <<>>
    BY <2>1 DEF Emptied
  <2>3. ReadBack(r, s) <=> r.media[s] # <<>> /\ page # "gpt"
    BY <1>2 DEF Has, ReadBack
  <2> QED BY <1>3, <1>4, <2>2, <2>3
<1>6. /\ page # "gpt" => Sent(e) = r.media
      /\ page = "gpt" => Sent(e) = [s \in {"reference"} |-> <<>>]
  BY <1>0, <1>2, <1>4, <1>5 DEF Sent, Owned
<1>7. ~Missing(e)
  <2>1. m = "frames" => e.media["first"] # <<>>
    BY <1>0, <1>2, <1>5 DEF Owned
  <2>2. m = "refs" => e.media["images"] # <<>>
    BY <1>0, <1>2, <1>5 DEF Owned
  <2> QED BY <1>2, <1>4, <2>1, <2>2 DEF Missing
<1> DEFINE q == Request(e)
<1>8. q = [mode |-> m, text |-> r.text, media |-> Sent(e), bound |-> r.bound,
           presets |-> r.presets, setting |-> SettingFrom(d, r)]
  BY <1>2, <1>4, <1>7 DEF Request
<1>9. q # Nothing
  <2>1. m \in {"single", "general", "direct", "panels", "story", "text", "frames", "refs"}
    BY <1>2 DEF Modes, GoodInv
  <2>2. Sent(e) \in UNION {[S -> Seq(Library \cup Files)] : S \in SUBSET Slots}
    <3>1. [Owned(m) -> Seq(Assets)] \in {[S -> Seq(Library \cup Files)] : S \in SUBSET Slots}
      BY <1>3 DEF Assets
    <3>2. CASE page # "gpt"
      BY <1>2, <1>6, <3>1, <3>2
    <3>3. CASE page = "gpt"
      <4>1. Owned(m) = {"reference"}
        BY <1>0, <3>3 DEF Owned
      <4>2. <<>> \in Seq(Assets)
        OBVIOUS
      <4>3. [s \in {"reference"} |-> <<>>] \in [{"reference"} -> Seq(Assets)]
        BY <4>2
      <4> QED BY <1>6, <3>1, <3>3, <4>1, <4>3
    <3> QED BY <3>2, <3>3
  <2>3. SettingFrom(d, r) \in Settings
    BY AskedIs DEF SettingFrom, GoodInv, Good, Draft, Settings, d
  <2>4. r.text \in Words /\ r.bound \in Seq(People) /\ r.presets \in SUBSET Presets
    BY AskedIs
  <2> QED BY <1>8, <2>1, <2>2, <2>3, <2>4, RequestAssumption
<1>10. page # "classic" => SettingFrom(d, r) = r.setting
  BY DEF SettingFrom
<1> HIDE DEF q
<1>11. SameRequest(q, r)
  BY <1>2, <1>6, <1>8, <1>9, <1>10 DEF SameRequest
<1>12. Request(draft') = q
  BY <1>1 DEF q, e, d
<1> QED BY <1>11, <1>12
-----------------------------------------------------------------------------
(* The panel of a review: its choices are of its job, and few decisions are *)
(* under way.                                                               *)
ReviewTypeInv == ReviewTypeOK /\ IsFiniteSet(decisions)

LEMMA FewerDecisions ==
  ASSUME IsFiniteSet(decisions), Cardinality(decisions) <= MaxDecisions, NEW D \in SUBSET decisions
  PROVE  /\ IsFiniteSet(D) /\ Cardinality(D) <= MaxDecisions
         /\ IsFiniteSet({[d EXCEPT !.mine = FALSE] : d \in D})
         /\ Cardinality({[d EXCEPT !.mine = FALSE] : d \in D}) <= MaxDecisions
         /\ D # decisions => Cardinality(D) + 1 <= MaxDecisions
<1> DEFINE f == [d \in D |-> [d EXCEPT !.mine = FALSE]]
           E == {[d EXCEPT !.mine = FALSE] : d \in D}
<1>1. IsFiniteSet(D) /\ Cardinality(D) <= Cardinality(decisions)
      /\ (Cardinality(D) = Cardinality(decisions) => D = decisions)
  BY FS_Subset
<1>2. f \in Surjection(D, E)
  BY DEF Surjection
<1>3. IsFiniteSet(E) /\ Cardinality(E) <= Cardinality(D)
  BY <1>1, <1>2, FS_Surjection
<1>4. Cardinality(D) \in Nat /\ Cardinality(E) \in Nat /\ Cardinality(decisions) \in Nat /\ MaxDecisions \in Nat
  BY <1>1, <1>3, FS_CardinalityType, ReviewAssumption
<1> HIDE DEF E, f
<1>5. Cardinality(E) <= MaxDecisions /\ Cardinality(D) <= MaxDecisions
  BY <1>1, <1>3, <1>4
<1>6. D # decisions => Cardinality(D) + 1 <= MaxDecisions
  BY <1>1, <1>4
<1> QED BY <1>1, <1>3, <1>5, <1>6 DEF E

LEMMA ReplacedDecision ==
  ASSUME IsFiniteSet(decisions), Cardinality(decisions) <= MaxDecisions, NEW d \in decisions, NEW e
  PROVE  /\ IsFiniteSet((decisions \ {d}) \cup {e})
         /\ Cardinality((decisions \ {d}) \cup {e}) <= MaxDecisions
<1> DEFINE D == decisions \ {d}
<1>1. IsFiniteSet(D) /\ Cardinality(D) + 1 <= MaxDecisions
  BY FewerDecisions
<1> HIDE DEF D
<1>2. /\ IsFiniteSet(D \cup {e})
      /\ Cardinality(D \cup {e}) = IF e \in D THEN Cardinality(D) ELSE Cardinality(D) + 1
  BY <1>1, FS_AddElement
<1>3. Cardinality(D) \in Nat /\ MaxDecisions \in Nat
  BY <1>1, FS_CardinalityType, ReviewAssumption
<1> QED BY <1>1, <1>2, <1>3 DEF D

LEMMA ReviewTypeStep ==
  ASSUME ReviewTypeInv, [ReviewNext]_reviewVars
  PROVE  ReviewTypeInv'
<1>0. /\ gate \in [Priced -> {"waiting", "over"}] /\ rise \in 0..MaxRise /\ picks \in 0..MaxPicks
      /\ subject \in Priced \cup {Nothing} /\ visited \subseteq Priced
      /\ subject # Nothing => choice \in [Shots -> ChoicesFor(subject)]
      /\ IsFiniteSet(decisions) /\ Cardinality(decisions) <= MaxDecisions
      /\ MaxRise \in Nat /\ MaxPicks \in Nat /\ MaxDecisions \in Nat
  BY ReviewAssumption DEF ReviewTypeInv, ReviewTypeOK
<1>1. /\ \A j : Unchosen(j) \in [Shots -> ChoicesFor(j)]
      /\ IsFiniteSet(Disowned) /\ Cardinality(Disowned) <= MaxDecisions
  <2>1. \A j : Default(j) \in ChoicesFor(j)
    BY DEF Default, ChoicesFor
  <2> QED BY <1>0, <2>1, FewerDecisions DEF Unchosen, Disowned
<1>2. CASE Visit \/ LeavePanel \/ Closed
  BY <1>0, <1>1, <1>2 DEF Visit, LeavePanel, Closed, Up, Down, ReviewTypeInv, ReviewTypeOK
<1>3. CASE History
  <2>1. PICK j \in Priced \ {subject} :
          /\ j \in Comics <=> subject \in Comics
          /\ \/ subject' = j /\ UNCHANGED <<choice, visited, decisions>>
             \/ Up(j)
    BY <1>3 DEF History
  <2>2. ChoicesFor(j) = ChoicesFor(subject) /\ subject # Nothing /\ UNCHANGED <<gate, rise, picks>>
    BY <1>3, <2>1 DEF History, ChoicesFor
  <2>3. CASE Up(j)
    BY <1>0, <1>1, <2>2, <2>3 DEF Up, ReviewTypeInv, ReviewTypeOK
  <2>4. CASE subject' = j /\ UNCHANGED <<choice, visited, decisions>>
    BY <1>0, <2>2, <2>4 DEF ReviewTypeInv, ReviewTypeOK
  <2> QED BY <2>1, <2>3, <2>4
<1>4. CASE PickChoice
  <2>1. /\ subject # Nothing /\ picks < MaxPicks /\ picks' = picks + 1
        /\ UNCHANGED <<gate, rise, subject, visited, decisions>>
        /\ \E s \in Shots, what \in ChoicesFor(subject) : choice' = [choice EXCEPT ![s] = what]
    BY <1>4 DEF PickChoice
  <2>2. choice' \in [Shots -> ChoicesFor(subject)] /\ picks' \in 0..MaxPicks
    BY <1>0, <2>1
  <2> QED BY <1>0, <2>1, <2>2 DEF ReviewTypeInv, ReviewTypeOK
<1>5. CASE QuoteRead \/ QuoteComes \/ QuoteFails \/ Requote
  BY <1>0, <1>5 DEF QuoteRead, QuoteComes, QuoteFails, Requote, ReviewTypeInv, ReviewTypeOK
<1>6. CASE Decide
  <2>1. /\ Cardinality(decisions) < MaxDecisions /\ \E d : decisions' = decisions \cup {d}
        /\ UNCHANGED <<gate, rise, picks, panel>>
    BY <1>6 DEF Decide
  <2>2. IsFiniteSet(decisions') /\ Cardinality(decisions') <= MaxDecisions
    <3>1. PICK d : decisions' = decisions \cup {d}
      BY <2>1
    <3>2. /\ IsFiniteSet(decisions')
          /\ Cardinality(decisions') = IF d \in decisions THEN Cardinality(decisions) ELSE Cardinality(decisions) + 1
      BY <1>0, <3>1, FS_AddElement
    <3>3. Cardinality(decisions) \in Nat
      BY <1>0, FS_CardinalityType
    <3> QED BY <1>0, <2>1, <3>2, <3>3
  <2> QED BY <1>0, <2>1, <2>2 DEF panel, ReviewTypeInv, ReviewTypeOK
<1>7. CASE Resume
  <2>1. PICK d \in decisions :
          /\ \E e : decisions' = (decisions \ {d}) \cup {e}
          /\ gate' = gate \/ gate' = [gate EXCEPT ![d.job] = IF d.job \in Comics THEN gate[d.job] ELSE "over"]
    BY <1>7 DEF Resume, Answered
  <2>2. gate' \in [Priced -> {"waiting", "over"}]
    BY <1>0, <2>1
  <2>3. IsFiniteSet(decisions') /\ Cardinality(decisions') <= MaxDecisions
    BY <1>0, <2>1, ReplacedDecision
  <2>4. UNCHANGED <<rise, picks, panel>>
    BY <1>7 DEF Resume
  <2> QED BY <1>0, <2>2, <2>3, <2>4 DEF panel, ReviewTypeInv, ReviewTypeOK
<1>8. CASE Decided
  <2>1. PICK d \in decisions :
          \/ decisions' = decisions \ {d} /\ UNCHANGED <<subject, choice>>
          \/ Down /\ decisions' = {[e EXCEPT !.mine = FALSE] : e \in decisions \ {d}}
    BY <1>8 DEF Decided
  <2>2. UNCHANGED <<gate, rise, picks, visited>>
    BY <1>8 DEF Decided
  <2>3. IsFiniteSet(decisions') /\ Cardinality(decisions') <= MaxDecisions
    BY <1>0, <2>1, FewerDecisions
  <2>4. UNCHANGED <<subject, choice>> \/ subject' = Nothing
    BY <2>1 DEF Down
  <2> QED BY <1>0, <2>2, <2>3, <2>4 DEF ReviewTypeInv, ReviewTypeOK
<1>9. CASE DecisionLost
  <2>1. PICK d \in decisions : decisions' = decisions \ {d} /\ UNCHANGED <<gate, rise, picks, panel>>
    BY <1>9 DEF DecisionLost
  <2>2. IsFiniteSet(decisions') /\ Cardinality(decisions') <= MaxDecisions
    BY <1>0, <2>1, FewerDecisions
  <2> QED BY <1>0, <2>1, <2>2 DEF panel, ReviewTypeInv, ReviewTypeOK
<1>10. CASE PricesChange
  BY <1>0, <1>10 DEF PricesChange, panel, ReviewTypeInv, ReviewTypeOK
<1>11. CASE GateExpires \/ UNCHANGED reviewVars
  <2>1. UNCHANGED <<rise, picks, panel, decisions>> /\ gate' \in [Priced -> {"waiting", "over"}]
    BY <1>0, <1>11 DEF GateExpires, reviewVars
  <2> QED BY <1>0, <2>1 DEF panel, ReviewTypeInv, ReviewTypeOK
<1> QED BY <1>2, <1>3, <1>4, <1>5, <1>6, <1>7, <1>8, <1>9, <1>10, <1>11 DEF ReviewNext

LEMMA ReviewTypeStart == ReviewInit => ReviewTypeInv
BY FS_EmptySet, ReviewAssumption DEF ReviewInit, ReviewTypeInv, ReviewTypeOK
-----------------------------------------------------------------------------
LEMMA OwnStart == DraftInit => OwnInv
BY DraftBlank DEF DraftInit, OwnInv, Quiet, Accounts

LEMMA UploadStart == DraftInit => UploadInv
<1> SUFFICES ASSUME DraftInit PROVE UploadInv
  OBVIOUS
<1>1. Limited(Blank)
  BY NoneFits DEF Limited, Blank
<1> QED BY <1>1 DEF DraftInit, UploadInv

LEMMA GoodMeans == GoodInv => DraftTypeOK
<1> SUFFICES ASSUME GoodInv PROVE DraftTypeOK
  OBVIOUS
<1>1. /\ draft.mode \in Modes /\ draft.by \in Accounts \cup {Nothing} /\ draft.text \in [Fields -> Words]
      /\ DOMAIN draft.media = Slots /\ BoundOnce(draft.bound) /\ draft.bound \in Seq(People)
      /\ draft.presets \subseteq Presets /\ draft.setting \in Settings
  BY DEF GoodInv, Good, Draft
<1>2. Range(draft.bound) \subseteq People
  BY <1>1 DEF Range
<1> QED BY <1>1, <1>2 DEF GoodInv, BoundOnce, DraftTypeOK

(* Drafts belong to one account and hold what their mode and slots allow,   *)
(* if references and modes are left alone while an upload is under way      *)
(* (drafts.ts, ReferencePicker.tsx, video.ts).                              *)
THEOREM DraftsStayInOrder ==
  ASSUME "uploads" \in Kept
  PROVE  Spec => []DraftsInOrder
<1> DEFINE Inv == form \in Forms /\ OwnInv /\ GoodInv /\ UploadInv /\ ReviewTypeInv
<1>1. Init => Inv
  BY OwnStart, GoodStart, UploadStart, ReviewTypeStart DEF Init
<1>2. Inv /\ [Next]_studioVars => Inv'
  <2> SUFFICES ASSUME Inv, [Next]_studioVars PROVE Inv'
    OBVIOUS
  <2>1. form' = form
    BY DEF Next, InDraft, InStoryboard, InReview, studioVars
  <2> QED BY <2>1, FormSteps, OwnStep, GoodStep, UploadStep, ReviewTypeStep
<1>3. Inv /\ ShotTypeOK /\ OwnDrafts /\ OneModeOnly => DraftsInOrder
  <2>1. UploadInv => WithinLimits
    BY DEF UploadInv, Limited, Fits, WithinLimits
  <2> QED BY <2>1, GoodMeans DEF ReviewTypeInv, DraftsInOrder, TypeOK
<1>4. Spec => [](ShotTypeOK /\ RefsPointBack)
  BY CardsPointBack
<1>5. Spec => []OwnDrafts
  BY DraftsAreOwn
<1>6. Spec => []OneModeOnly
  BY VideoHasOneMode
<1> HIDE DEF Inv
<1> QED BY <1>1, <1>2, <1>3, <1>4, <1>5, <1>6, PTL DEF Spec

(* No step takes back what the user wrote or picked: an upload that ends    *)
(* (under the same promise), a suggestion that is accepted, a card that     *)
(* moves (ReferencePicker.tsx:117, GptStudio.tsx:209-220).                  *)
THEOREM NothingIsLost ==
  ASSUME "uploads" \in Kept
  PROVE  Spec => NothingLost
<1> DEFINE Inv == OwnInv /\ GoodInv /\ UploadInv /\ RewriteInv
           Adds == \A slot \in Slots : UploadLands /\ Limit(slot) > 1
                     => Range(draft.media[slot]) \subseteq Range(draft'.media[slot])
           Rewrites == \A f \in Fields : AnswerRewrite /\ draft'.text[f] # draft.text[f] => f = suggestion.field
<1>1. Init => Inv
  <2>1. DraftInit => RewriteInv
    BY DEF DraftInit, RewriteInv, Asking
  <2> QED BY <2>1, OwnStart, GoodStart, UploadStart DEF Init
<1>2. Inv /\ [Next]_studioVars => Inv'
  BY FormSteps, OwnStep, GoodStep, UploadStep, RewriteStep
<1>3. Inv => Adds /\ Rewrites
  BY LandedFits, AnswerRewritesItsField
<1>4. Spec => NoRefLostSilently
  BY LostRefsAreReported
<1> HIDE DEF Inv, Adds, Rewrites
<1>5. Spec => [][Adds]_draftVars /\ [][Rewrites]_draftVars
  BY <1>1, <1>2, <1>3, PTL DEF Spec
<1>6. NothingLost <=> [][Adds]_draftVars /\ [][Rewrites]_draftVars /\ NoRefLostSilently
  BY DEF NothingLost, UploadsOnlyAdd, RewritesItsField, Adds, Rewrites
<1> QED BY <1>4, <1>5, <1>6, PTL

(* Creating again asks for what was made: the request a draft is seeded     *)
(* from, and the shots a storyboard is filled with (VideoStudio.tsx:94-116, *)
(* SequenceStudio.tsx:96-109).                                              *)
THEOREM JobsAreMadeAgain == Spec => Recreates
<1> DEFINE Inv == GoodInv /\ CardsInv /\ WrittenInv
           Request1 == page # "image" /\ Again => \E r \in Asked : SameRequest(Request(draft'), r)
           Shots1 == Prefill => /\ ShotRequest'.spec.texts = made.spec.texts
                                /\ studio = "image" => ShotRequest'.spec = made.spec
<1>1. Init => Inv
  <2>1. ShotInit => WrittenInv
    BY DEF ShotInit, WrittenInv, Requests
  <2> QED BY <2>1, GoodStart, StoryboardStart DEF Init
<1>2. Inv /\ [Next]_studioVars => Inv'
  BY FormSteps, GoodStep, StoryboardStep, WrittenStep
<1>3. Inv => Request1 /\ Shots1
  BY AgainRecreates, PrefillRecreates
<1> HIDE DEF Inv, Request1, Shots1
<1>4. Spec => [][Request1]_draftVars /\ [][Shots1]_shotVars
  BY <1>1, <1>2, <1>3, PTL DEF Spec
<1>5. Recreates <=> [][Request1]_draftVars /\ [][Shots1]_shotVars
  BY DEF Recreates, RecreatesTheRequest, RecreatesTheShots, Request1, Shots1
<1> QED BY <1>4, <1>5
=============================================================================
