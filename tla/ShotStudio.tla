---------------------------- MODULE ShotStudio ----------------------------
(***************************************************************************)
(* The pages that send a sequence of shots: numbered cards that are        *)
(* written, moved, copied and removed, each of which may build on an       *)
(* earlier one.  Cards have ids and references are ids; a request has      *)
(* positions instead, leaves empty cards out and is answered by nodes      *)
(* numbered likewise, whose pictures have to be shown at the cards they    *)
(* were made for.  An image sequence sends every reference; a video        *)
(* sequence sends them in manual mode, where they are picked at anchors.   *)
(*                                                                         *)
(* The other fields of the page are left out.  What becomes of a request   *)
(* on its way is CreatePages's subject: here it becomes a job or it does  *)
(* not.                                                                    *)
(***************************************************************************)
EXTENDS Integers, FiniteSets, SequencesExt, Filter, Null

CONSTANTS
    Ids,           \* ids of cards
    Texts,         \* descriptions; Empty is the blank one
    Empty,
    MaxShots,
    Every,         \* of a video sequence: shots between anchors
    KeptDrags      \* what the user keeps to: see Editable

ASSUME ShotAssumption == /\ Empty \in Texts /\ Nothing \notin Ids
                         /\ MaxShots \in Nat \ {0, 1} /\ Every \in Nat \ {0}
                         /\ KeptDrags \subseteq {"drags"}

VARIABLES
    studio, manual,   \* which of the two pages; narrative continuity with manual picks
    shots,            \* the cards of the draft
    sending,          \* the request under way
    lastIds,          \* the ids of the cards sent with the last job
    armed,            \* dragFrom with the armed card, between pointerdown and dragend
    resets,           \* references the last change had to clear
    made              \* history: the request that became the last job

storyboard == <<shots, manual>>
job == <<lastIds, made>>
shotVars == <<studio, storyboard, sending, job, armed, resets>>

IdsOf(s) == {s[i].id : i \in DOMAIN s}
At(s, id) == CHOOSE i \in DOMAIN s : s[i].id = id
Requests == {sending, made} \ {Nothing}
Fresh == Ids \ (IdsOf(shots) \cup Range(lastIds) \cup UNION {Range(r.ids) : r \in Requests})

NewShot(id, text) == [id |-> id, text |-> text, ref |-> Nothing]

(* Faulty variants, for the checks of the properties only. *)
ReportNone(s) == {}
PlaceInDraft(s, i) == IF s[i].ref \in IdsOf(shots) THEN At(shots, s[i].ref) ELSE 0
AllIds == [i \in DOMAIN shots |-> shots[i].id]

(* clearInvalidRefs: a reference has to point at a shot before its own. *)
Valid(s, i) == s[i].ref = Nothing \/ (s[i].ref \in IdsOf(s) /\ At(s, s[i].ref) < i)
Cleared(s, i) == IF Valid(s, i) THEN s[i] ELSE [s[i] EXCEPT !.ref = Nothing]
ClearInvalid(s) == [i \in DOMAIN s |-> Cleared(s, i)]
Later(s) == {[shot |-> i, ref |-> At(s, s[i].ref), reason |-> "order"] : i \in {j \in DOMAIN s : ~Valid(s, j)}}

Moved(s, from, to) == InsertAt(RemoveAt(s, from), to, s[from])

Without(s, id) == Filtered(s, {i \in DOMAIN s : s[i].id # id})
Unlinked(s, id) == [i \in DOMAIN s |-> IF s[i].ref = id THEN [s[i] EXCEPT !.ref = Nothing] ELSE s[i]]
Orphans(s, id, at) == {[shot |-> i, ref |-> at, reason |-> "removed"] : i \in {j \in DOMAIN s : s[j].ref = id}}

(* sequenceSpec: empty shots are left out and references renumbered. *)
KeptShots(s) == Filtered(s, {i \in DOMAIN s : s[i].text # Empty})
RefOf(s, i) == IF s[i].ref \in IdsOf(s) THEN At(s, s[i].ref) ELSE 0
RefsOf(s) == [i \in DOMAIN s |-> RefOf(s, i)]
SequenceSpec(s) == [texts |-> [i \in DOMAIN s |-> s[i].text], refs |-> RefsOf(s)]

SentIds == [i \in DOMAIN KeptShots(shots) |-> KeptShots(shots)[i].id]

NoRefs(spec) == [spec EXCEPT !.refs = [i \in DOMAIN @ |-> 0]]
ShotRequest ==
    LET kept == KeptShots(shots)
        spec == SequenceSpec(kept)
    IN [ids |-> [i \in DOMAIN kept |-> kept[i].id],
        spec |-> IF manual THEN spec ELSE NoRefs(spec)]

(* isAnchorShot, by the position among the shots that are sent. *)
SentIndex(i) == Cardinality({j \in 1..(i - 1) : shots[j].text # Empty})
Anchor(i) == shots[i].text # Empty /\ SentIndex(i) % Every = 0
PicksAt(i) == i > 1 /\ (studio = "video" => manual /\ Anchor(i))

ShotInit == /\ studio \in {"image", "video"} /\ manual = (studio = "image")
            /\ \E a, b \in Ids : a # b /\ shots = <<NewShot(a, Empty), NewShot(b, Empty)>>
            /\ sending = Nothing /\ made = Nothing /\ lastIds = <<>>
            /\ armed = Nothing /\ resets = {}

(* Cards are disabled while a request is under way.  A user who keeps to   *)
(* "drags" presses a handle only to drag the card then and there.          *)
Editable == sending = Nothing /\ ("drags" \in KeptDrags => armed = Nothing)

SetShots(next, changed) ==
    /\ shots' = next /\ resets' = changed
    /\ UNCHANGED <<studio, manual, sending, job>>

Edit == /\ Editable /\ UNCHANGED armed
        /\ \E i \in DOMAIN shots, t \in Texts :
             t # shots[i].text /\ SetShots([shots EXCEPT ![i].text = t], {})

Pick == /\ Editable /\ UNCHANGED armed
        /\ \E i \in DOMAIN shots : \E r \in IdsOf(SubSeq(shots, 1, i - 1)) \cup {Nothing} :
             PicksAt(i) /\ r # shots[i].ref /\ SetShots([shots EXCEPT ![i].ref = r], {})

Add == /\ Editable /\ UNCHANGED armed /\ Len(shots) < MaxShots
       /\ \E id \in Fresh : SetShots(Append(shots, NewShot(id, Empty)), {})

Copy(s, i, id) == InsertAt(s, i + 1, [s[i] EXCEPT !.id = id])
Duplicate == /\ Editable /\ UNCHANGED armed /\ Len(shots) < MaxShots
             /\ \E i \in DOMAIN shots, id \in Fresh : SetShots(Copy(shots, i, id), {})

RemoveShot == /\ Editable /\ UNCHANGED armed /\ Len(shots) > 1
              /\ \E i \in DOMAIN shots :
                   LET id == shots[i].id
                       rest == Without(shots, id)
                   IN SetShots(Unlinked(rest, id), Orphans(rest, id, i))

MoveTo(from, to) ==
    IF from = to \/ from \notin DOMAIN shots THEN SetShots(shots, {})
    ELSE LET s == Moved(shots, from, to) IN SetShots(ClearInvalid(s), Later(s))

(* The arrows and Alt with an arrow key move a card by one.  The key is    *)
(* heard from a control of the card that has the focus, and while a request *)
(* is under way they all are disabled.                                     *)
Move == /\ Editable /\ UNCHANGED armed
        /\ \E i, to \in DOMAIN shots : (to = i + 1 \/ i = to + 1) /\ MoveTo(i, to)

(* Pressing a card's handle lets the card be dragged until a drag ends. *)
Arm == /\ Editable
       /\ \E i \in DOMAIN shots : armed' = [from |-> i, id |-> shots[i].id]
       /\ UNCHANGED <<studio, storyboard, sending, job, resets>>

Dragging == armed # Nothing /\ armed.id \in IdsOf(shots)
Drop == /\ Dragging /\ armed' = Nothing
        /\ \E to \in DOMAIN shots : MoveTo(armed.from, to)

DragEnd == /\ armed # Nothing /\ armed' = Nothing
           /\ UNCHANGED <<studio, storyboard, sending, job, resets>>

Dismiss == /\ resets # {} /\ resets' = {}
           /\ UNCHANGED <<studio, storyboard, sending, job, armed>>

(* The page's other fields stay open while a request is under way. *)
SwitchPicking == /\ studio = "video" /\ manual' = ~manual
                 /\ UNCHANGED <<studio, shots, sending, job, armed, resets>>

(* "Create again" opens the page anew with the shots of a job: in an image *)
(* sequence with its references, by position.                              *)
Prefilled(spec, ids) ==
    [i \in DOMAIN spec.texts |->
        LET r == IF studio = "image" THEN spec.refs[i] ELSE 0
        IN [NewShot(ids[i], spec.texts[i]) EXCEPT !.ref = IF r > 0 /\ r < i THEN ids[r] ELSE Nothing]]

Prefill ==
    /\ sending = Nothing /\ made # Nothing
    /\ LET n == Len(made.spec.texts)
       IN \E ids \in [1..n -> Fresh] : IsInjective(ids) /\ shots' = Prefilled(made.spec, ids)
    /\ resets' = {} /\ armed' = Nothing
    /\ UNCHANGED <<studio, manual, sending, job>>

Generate == /\ sending = Nothing /\ ("drags" \in KeptDrags => armed = Nothing)
            /\ KeptShots(shots) # <<>>
            /\ sending' = ShotRequest
            /\ UNCHANGED <<studio, storyboard, job, armed, resets>>

(* onCreated is the callback of the page as it is drawn when the answer    *)
(* comes, with its sentIds.                                                *)
Created == /\ sending # Nothing /\ sending' = Nothing
           /\ made' = sending /\ lastIds' = SentIds
           /\ UNCHANGED <<studio, storyboard, armed, resets>>

NotCreated == /\ sending # Nothing /\ sending' = Nothing
              /\ UNCHANGED <<studio, storyboard, job, armed, resets>>

ShotNext == \/ Edit \/ Pick \/ Add \/ Duplicate \/ RemoveShot \/ Move \/ Arm \/ Drop \/ DragEnd
            \/ Dismiss \/ SwitchPicking \/ Prefill
            \/ Generate \/ Created \/ NotCreated

-----------------------------------------------------------------------------
ShotTypeOK == /\ shots # <<>> /\ Len(shots) <= MaxShots
              /\ \A i \in DOMAIN shots : shots[i] \in [id : Ids, text : Texts, ref : Ids \cup {Nothing}]
              /\ IsInjective([i \in DOMAIN shots |-> shots[i].id])
              /\ manual \in BOOLEAN
              /\ lastIds \in Seq(Ids)
              /\ \A r \in resets : r.shot \in DOMAIN shots

(* Whatever is moved, copied, removed or brought by a job, a card builds   *)
(* on an earlier card that is there, and so does every request on its way: *)
(* the server refuses one that points forward (image_sequence.go:28).      *)
RefsPointBack ==
    /\ \A i \in DOMAIN shots : Valid(shots, i)
    /\ \A r \in Requests : \A i \in DOMAIN r.spec.refs : r.spec.refs[i] < i

(* The position sent for a reference is that of the very card it was       *)
(* picked for, although empty cards were left out in between               *)
(* (sequence.ts:79-87).                                                    *)
RefsKeepMeaning ==
    sending # Nothing => \A i \in DOMAIN sending.ids : sending.spec.refs[i] > 0 =>
        /\ sending.spec.refs[i] \in DOMAIN sending.ids
        /\ shots[At(shots, sending.ids[i])].ref = sending.ids[sending.spec.refs[i]]

(* A reference means an earlier card, in the draft and in the request.     *)
RefsMeanCards == RefsPointBack /\ RefsKeepMeaning

(* The pictures of the last job are shown at the cards whose descriptions  *)
(* they were made from (shotResults.ts:24-29, SequenceStudio.tsx:43).      *)
ShownWhereMade ==
    made # Nothing => lastIds = made.ids

(* A reference that a change clears, other than the user's own pick, is    *)
(* reported with the number the card has now (sequence.ts:39-61).          *)
LosesRef(i) == /\ shots[i].ref # Nothing /\ shots[i].id \in IdsOf(shots')
               /\ shots'[At(shots', shots[i].id)].ref = Nothing
PickedAt(i) == shots' = [shots EXCEPT ![i].ref = Nothing]
Reported(i) == \E r \in resets' : r.shot = At(shots', shots[i].id)
NoRefLostSilently == [][\A i \in DOMAIN shots : LosesRef(i) => PickedAt(i) \/ Reported(i)]_shotVars

(* Creating a job again asks for the same shots, and in an image sequence   *)
(* for the very same request: positions turned into cards and back         *)
(* (SequenceStudio.tsx:96-109).                                            *)
RecreatesTheShots ==
    [][Prefill => /\ ShotRequest'.spec.texts = made.spec.texts
                  /\ studio = "image" => ShotRequest'.spec = made.spec]_shotVars
=============================================================================
