------------------------------ MODULE Studios ------------------------------
(***************************************************************************)
(* The forms in which a job is written before it is paid for: the draft of *)
(* a creation page, the storyboard of an image or video sequence, and the  *)
(* panel that decides on a job under review.  A tab shows one of them at a *)
(* time, and each forgets or stores what it holds when it is left, so they *)
(* are followed one by one.                                                *)
(***************************************************************************)
EXTENDS StudioDraft, ShotStudio, ReviewPanel

VARIABLE form          \* the form that is looked at

studioVars == <<form, draftVars, shotVars, reviewVars>>
Forms == {"draft", "storyboard", "review"}

Init == /\ form \in Forms
        /\ DraftInit /\ ShotInit /\ ReviewInit
        /\ form # "draft" => page = (CHOOSE p \in Pages : TRUE) /\ input = CHOOSE i \in Inputs : TRUE
        /\ form # "storyboard" => studio = "image"

InDraft == form = "draft" /\ DraftNext /\ UNCHANGED <<form, shotVars, reviewVars>>
InStoryboard == form = "storyboard" /\ ShotNext /\ UNCHANGED <<form, draftVars, reviewVars>>
InReview == form = "review" /\ ReviewNext /\ UNCHANGED <<form, draftVars, shotVars>>
Next == InDraft \/ InStoryboard \/ InReview

Spec == Init /\ [][Next]_studioVars

TypeOK == /\ form \in Forms
          /\ DraftTypeOK /\ ShotTypeOK /\ ReviewTypeOK

(* Drafts belong to one account, and hold what their mode and slots allow, *)
(* on every path through seeds, uploads, switches and accounts.            *)
DraftsInOrder == TypeOK /\ OwnDrafts /\ WithinLimits /\ OneModeOnly

(* No step takes back what the user wrote or picked behind their back: an  *)
(* upload that ends, a rewrite that is accepted, a card that moves.        *)
NothingLost == UploadsOnlyAdd /\ RewritesItsField /\ NoRefLostSilently

(* Creating again asks for what was made, in every form that offers it.    *)
Recreates == RecreatesTheRequest /\ RecreatesTheShots
=============================================================================
