---------------------------- MODULE ReviewPanel ----------------------------
(***************************************************************************)
(* The two panels of a job page that spend credits on an existing job: the *)
(* review of a video sequence, which keeps, redoes or upgrades each clip,  *)
(* and the dialog that redraws a classic comic's unfinished panels with    *)
(* edited texts.  Both show a quote of the server and send its total with  *)
(* the decision; prices change, gates expire, answers are lost, and the    *)
(* browser's history moves from one job's page to another's.               *)
(***************************************************************************)
EXTENDS Integers, FiniteSets, Null

CONSTANTS
    Reviews,       \* jobs whose clips wait for a review
    Comics,        \* failed comics that can be redrawn
    Shots,         \* clips, or unfinished panels, of a job
    MaxRise,       \* bound: changes of the price list
    MaxPicks,      \* bound: choices made
    MaxDecisions,  \* bound: decisions under way at once
    KeptReviews    \* the user does not go through the history straight from
                   \* one such page to another that was visited before

ASSUME ReviewAssumption == /\ Reviews \cap Comics = {} /\ IsFiniteSet(Shots)
                           /\ MaxRise \in Nat /\ MaxPicks \in Nat /\ MaxDecisions \in Nat \ {0}
                           /\ KeptReviews \in BOOLEAN
                           /\ Nothing \notin [answer : Int \cup {Nothing}]

VARIABLES
    gate,          \* the server's jobs: waiting, or over when answered or expired
    rise,          \* how often prices changed
    picks,         \* how often something was chosen
    subject,       \* the job whose panel is on the screen
    visited,       \* jobs whose detail is cached
    choice,        \* what is chosen or written for each shot
    chosenOn,      \* the job each choice was made on
    shown,         \* quote.data: a total and the choices it is for
    quoting,       \* the load of the quote
    decisions      \* decisions that were sent

panel == <<subject, visited, choice, chosenOn, shown, quoting>>
reviewVars == <<gate, rise, picks, panel, decisions>>

Priced == Reviews \cup Comics
Default(j) == IF j \in Comics THEN "asWas" ELSE "keep"
ChoicesFor(j) == IF j \in Comics THEN {"asWas", "edited"} ELSE {"keep", "redo", "upgrade"}
Picked(c, what) == Cardinality({s \in DOMAIN c : c[s] = what})

(* gateContext.quote; a comic's unfinished panels cost the same whatever   *)
(* their texts.                                                            *)
Total(j, c, r) == IF j \in Comics THEN Cardinality(Shots) * (r + 1)
                  ELSE Picked(c, "redo") + Picked(c, "upgrade") * (2 + r)

Unchosen(j) == [s \in Shots |-> Default(j)]
Unmade == [s \in Shots |-> Nothing]
Quoting == [answer |-> Nothing]

ReviewInit ==
    /\ gate = [j \in Priced |-> "waiting"] /\ rise = 0 /\ picks = 0
    /\ subject = Nothing /\ visited = {} /\ choice = Unmade /\ chosenOn = Unmade
    /\ shown = Nothing /\ quoting = Nothing
    /\ decisions = {}

Deciding == \E d \in decisions : d.mine

(* A panel that is taken down forgets its choices; its decision is still   *)
(* on its way.                                                             *)
Disowned == {[d EXCEPT !.mine = FALSE] : d \in decisions}
Down == /\ subject' = Nothing /\ choice' = Unmade /\ chosenOn' = Unmade
        /\ shown' = Nothing /\ quoting' = Nothing
Up(j) == /\ subject' = j /\ choice' = Unchosen(j) /\ chosenOn' = Unmade
         /\ shown' = Nothing /\ quoting' = Quoting /\ decisions' = Disowned
         /\ visited' = visited \cup {j}

Visit == /\ subject = Nothing /\ \E j \in Priced : gate[j] = "waiting" /\ Up(j)
         /\ UNCHANGED <<gate, rise, picks>>

LeavePanel == /\ subject # Nothing /\ Down /\ decisions' = Disowned
              /\ UNCHANGED <<gate, rise, picks, visited>>

(* The page of a job that is not cached shows a skeleton first; otherwise  *)
(* the panel stays up and is given the other job.                          *)
Survives(j) == j \in visited
History ==
    /\ subject # Nothing
    /\ \E j \in Priced \ {subject} :
         /\ gate[j] = "waiting" /\ (j \in Comics <=> subject \in Comics)
         /\ KeptReviews => j \notin visited
         /\ IF Survives(j)
            THEN /\ subject' = j /\ quoting' = Quoting
                 /\ UNCHANGED <<choice, chosenOn, shown, visited, decisions>>
            ELSE Up(j)
    /\ UNCHANGED <<gate, rise, picks>>

(* The detail that shows the gate is no longer waiting takes the panel     *)
(* down.                                                                   *)
Closed == /\ subject # Nothing /\ gate[subject] # "waiting"
          /\ Down /\ decisions' = Disowned
          /\ UNCHANGED <<gate, rise, picks, visited>>

(* Choices of clips key the quote, texts do not; the old quote is shown    *)
(* until the new one arrives.                                              *)
PickChoice == /\ subject # Nothing /\ ~Deciding /\ picks < MaxPicks /\ picks' = picks + 1
              /\ \E s \in Shots, what \in ChoicesFor(subject) :
                   /\ what # choice[s]
                   /\ choice' = [choice EXCEPT ![s] = what]
                   /\ chosenOn' = [chosenOn EXCEPT ![s] = IF what = Default(subject) THEN Nothing ELSE subject]
              /\ quoting' = IF subject \in Comics THEN quoting ELSE Quoting
              /\ UNCHANGED <<gate, rise, subject, visited, shown, decisions>>

QuoteOf(total) == [of |-> choice, total |-> total]
QuoteRead == /\ quoting = Quoting
             /\ quoting' = [answer |-> Total(subject, choice, rise)]
             /\ UNCHANGED <<gate, rise, picks, subject, visited, choice, chosenOn, shown, decisions>>
QuoteComes == /\ quoting # Nothing /\ quoting.answer # Nothing
              /\ shown' = QuoteOf(quoting.answer) /\ quoting' = Nothing
              /\ UNCHANGED <<gate, rise, picks, subject, visited, choice, chosenOn, decisions>>

(* A quote that fails leaves an earlier answer for these choices, if there *)
(* was one.                                                                *)
QuoteFails == /\ quoting # Nothing /\ quoting' = Nothing
              /\ shown' \in {Nothing} \cup {QuoteOf(Total(subject, choice, r)) : r \in 0..rise}
              /\ UNCHANGED <<gate, rise, picks, subject, visited, choice, chosenOn, decisions>>

(* An event of the job makes its queries stale, the quote among them.      *)
Requote == /\ subject # Nothing /\ quoting = Nothing /\ quoting' = Quoting
           /\ UNCHANGED <<gate, rise, picks, subject, visited, choice, chosenOn, shown, decisions>>

EvenWhileQuoting == shown # Nothing
Offered == shown # Nothing /\ quoting = Nothing
Decide ==
    /\ subject # Nothing /\ Offered /\ ~Deciding /\ Cardinality(decisions) < MaxDecisions
    /\ decisions' = decisions \cup {[job |-> subject, choice |-> choice, madeOn |-> {chosenOn[s] : s \in {t \in Shots : choice[t] # Default(subject)}}, mine |-> TRUE,
                                     total |-> shown.total, sameChoice |-> shown.of = choice, charged |-> Nothing, answer |-> Nothing]}
    /\ UNCHANGED <<gate, rise, picks, panel>>

(* The server: Resume compares the total with its own quote and reserves   *)
(* that; a redraw is a new job, and the comic can be redrawn again.        *)
Answered(d, answer) == decisions' = (decisions \ {d}) \cup {[d EXCEPT !.answer = answer]}
NoComparison(d, now) == FALSE                \* a faulty variant
TotalDiffers(d, now) == d.total # now
Resume ==
    /\ \E d \in decisions :
         LET now == Total(d.job, d.choice, rise)
         IN /\ d.answer = Nothing
            /\ \/ gate[d.job] # "waiting" /\ Answered(d, "refused") /\ UNCHANGED gate
               \/ gate[d.job] = "waiting" /\ TotalDiffers(d, now) /\ Answered(d, "price_changed") /\ UNCHANGED gate
               \/ /\ gate[d.job] = "waiting" /\ ~TotalDiffers(d, now)
                  /\ \/ now > 0 /\ Answered(d, "insufficient_credits") /\ UNCHANGED gate
                     \/ /\ decisions' = (decisions \ {d}) \cup {[d EXCEPT !.answer = "done", !.charged = now]}
                        /\ gate' = [gate EXCEPT ![d.job] = IF d.job \in Comics THEN @ ELSE "over"]
    /\ UNCHANGED <<rise, picks, panel>>

(* A changed price is quoted again; a redraw that is made opens the new    *)
(* job's page wherever the user is by now.                                 *)
Decided ==
    /\ \E d \in decisions :
         /\ d.answer # Nothing
         /\ \/ /\ d.answer = "price_changed" /\ d.mine /\ quoting' = Quoting /\ decisions' = decisions \ {d}
               /\ UNCHANGED <<subject, choice, chosenOn, shown>>
            \/ /\ d.answer = "done" /\ d.job \in Comics /\ Down
               /\ decisions' = {[e EXCEPT !.mine = FALSE] : e \in decisions \ {d}}
            \/ /\ ~(d.answer = "price_changed" /\ d.mine) /\ ~(d.answer = "done" /\ d.job \in Comics)
               /\ decisions' = decisions \ {d}
               /\ UNCHANGED <<subject, choice, chosenOn, shown, quoting>>
    /\ UNCHANGED <<gate, rise, picks, visited>>

(* The request or its answer is lost: the tab shows an error. *)
DecisionLost == /\ \E d \in decisions : decisions' = decisions \ {d}
                /\ UNCHANGED <<gate, rise, picks, panel>>

PricesChange == /\ rise < MaxRise /\ rise' = rise + 1
                /\ UNCHANGED <<gate, picks, panel, decisions>>
GateExpires == /\ \E j \in Reviews : gate[j] = "waiting" /\ gate' = [gate EXCEPT ![j] = "over"]
               /\ UNCHANGED <<rise, picks, panel, decisions>>

ReviewNext == \/ Visit \/ LeavePanel \/ History \/ Closed \/ PickChoice
              \/ QuoteRead \/ QuoteComes \/ QuoteFails \/ Requote
              \/ Decide \/ Resume \/ Decided \/ DecisionLost \/ PricesChange \/ GateExpires

-----------------------------------------------------------------------------
ReviewTypeOK == /\ gate \in [Priced -> {"waiting", "over"}]
                /\ rise \in 0..MaxRise /\ picks \in 0..MaxPicks
                /\ subject \in Priced \cup {Nothing} /\ visited \subseteq Priced
                /\ subject # Nothing => choice \in [Shots -> ChoicesFor(subject)]
                /\ Cardinality(decisions) <= MaxDecisions

(* What a decision reserves is the total the user was shown for those very *)
(* choices, whatever changed on the way: choices, prices, or both with     *)
(* totals that happen to agree (ReviewPanel.tsx:65-75, 210,                *)
(* PanelRetry.tsx:30, 76).                                                 *)
ChargedAsShown ==
    \A d \in decisions : d.charged # Nothing
        => d.charged = d.total /\ (d.job \in Reviews => d.sameChoice)

(* A decision holds only choices and texts made on that job's page, though *)
(* the panel's state is not kept by job (ReviewPanel.tsx:47-48, 314 of     *)
(* JobDetailPage.tsx, PanelRetry.tsx:20).                                  *)
ChoicesOfThisJob ==
    \A d \in decisions : d.madeOn \subseteq {d.job}

(* What is decided, and paid for, is what was chosen and shown.            *)
DecidesAsShown == ChargedAsShown /\ ChoicesOfThisJob
=============================================================================
