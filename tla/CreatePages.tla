---------------------------- MODULE CreatePages ----------------------------
(***************************************************************************)
(* A creation page around a Submission: the fields its request is made of, *)
(* which can be changed while a call is under way, the dialog that reviews *)
(* a GPT generation's cost before it is sent, and the job that is shown.   *)
(***************************************************************************)
EXTENDS Submission

CONSTANTS
    Bodies,        \* complete requests, as told apart by their JSON
    DialogPages    \* the pages that confirm the cost in a dialog are among
                   \* those modelled

ASSUME PageAssumption == /\ Nothing \notin Bodies /\ Nothing \notin [body : Bodies, key : Nat]
                         /\ DialogPages \subseteq BOOLEAN /\ DialogPages # {}

VARIABLES
    reviewing,     \* whether this page has the dialog
    body,          \* the request as it stands; Nothing while it is incomplete
    confirming,    \* the dialog is open
    lastJob        \* the key of the job that is shown; the draft's lastJob

pane == <<reviewing, body, confirming, lastJob>>
createVars == <<submission, pane>>

CreateInit == /\ SubmissionInit
              /\ reviewing \in DialogPages
              /\ body = Nothing /\ confirming = FALSE /\ lastJob = Nothing

(* The dialog covers the fields. *)
Edit == /\ ~confirming
        /\ \E b \in (Bodies \cup {Nothing}) \ {body} : body' = b
        /\ UNCHANGED <<submission, reviewing, confirming, lastJob>>

Review == /\ reviewing /\ ~confirming /\ CanSubmit(body) /\ confirming' = TRUE
          /\ UNCHANGED <<submission, reviewing, body, lastJob>>

(* A dialog is locked while its request is being sent. *)
Reconsider == /\ confirming /\ ~Submitting /\ confirming' = FALSE
              /\ UNCHANGED <<submission, reviewing, body, lastJob>>

Generate == /\ reviewing => confirming
            /\ Press(body)
            /\ UNCHANGED pane

Created == /\ \E c \in calls : Succeed(c) /\ lastJob' = c.key
           /\ confirming' = FALSE
           /\ UNCHANGED <<reviewing, body>>

(* The draft, and the job it last made, are there when the page is opened  *)
(* again.                                                                  *)
Leave == /\ Unmount /\ confirming' = FALSE
         /\ UNCHANGED <<reviewing, body, lastJob>>

Proceeds == Settle(body) \/ SubmissionStep
CreateNext == \/ Edit \/ Review \/ Reconsider \/ Generate \/ Created \/ Leave
              \/ Proceeds /\ UNCHANGED pane

(* Timers run and the server answers; a tab is looked at again, and a quote *)
(* is not refused for ever.                                                 *)
Lands == Created \/ ((Refused \/ Lost) /\ UNCHANGED pane)
CreateFairness == /\ WF_createVars(Settle(body) /\ UNCHANGED pane)
                  /\ WF_createVars(Refocus /\ UNCHANGED pane)
                  /\ SF_createVars(QuoteArrives /\ UNCHANGED pane)
                  /\ WF_createVars(Lands)

-----------------------------------------------------------------------------
CreateTypeOK == /\ body \in Bodies \cup {Nothing} /\ debounced \in Bodies \cup {Nothing}
                /\ quote \in Prices \cup {Nothing} /\ fetching \in BOOLEAN
                /\ idem = Nothing \/ idem \in [body : Bodies, key : Keys]
                /\ notice \in Notices /\ newest \in 0..MaxCalls
                /\ \A c \in calls : c.n \in 1..newest /\ c.answer \in Outcomes \cup {Nothing}
                /\ lastJob \in Keys \cup {Nothing}
                /\ confirming => reviewing

(* A page always comes back to offering its request at a current price,    *)
(* once the user leaves the request and the page be: no refused quote,     *)
(* changed price or lost answer leaves the button disabled for good        *)
(* (useSubmit.ts:20-32, 49-51, 72).                                        *)
Stands(b) == <>[](body = b) /\ <>[][~Leave]_createVars
PriceComesBack == \A b \in Bodies : Stands(b) => []<>CanSubmit(b)
=============================================================================
