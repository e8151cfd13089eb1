---------------------------- MODULE StudioDraft ----------------------------
(***************************************************************************)
(* The draft behind a page that makes single works: an image, a GPT image  *)
(* (written freely or sent as it is), a classic comic (from panels or from *)
(* a story) or a video (from text, from frames or from reference media).   *)
(* A draft is kept in the browser per account, a moment after the last     *)
(* change; it is seeded from a job, a character or an image brought from   *)
(* elsewhere; references are uploaded or picked from the library, and a    *)
(* description can be replaced by a suggested one.                         *)
(*                                                                         *)
(* Sending the request is CreatePages's subject.                           *)
(***************************************************************************)
EXTENDS Integers, SequencesExt, Filter, Null

CONSTANTS
    Pages,         \* of "image", "gpt", "classic" and "video", those to look at
    Inputs,        \* of "words", "media" and "people", the inputs a user uses
    Users, Guest,  \* accounts; nobody, or an account not yet known
    Library,       \* assets of the library that can be picked
    Files,         \* assets that uploads make
    People,        \* characters
    Presets,       \* presets
    MaxRefs,       \* of a slot that takes several references
    MaxBound,      \* MAX_CHARACTERS
    Kept           \* what the user keeps to: see Settled

ASSUME DraftAssumption == /\ Guest \notin Users /\ MaxRefs \in Nat \ {0} /\ MaxBound \in Nat \ {0}
                          /\ Pages \subseteq {"image", "gpt", "classic", "video"}
                          /\ Inputs \subseteq {"words", "media", "people"}
                          /\ Kept \subseteq {"uploads"}

VARIABLES
    page, input,   \* the page looked at, and what the user does there
    who, open,     \* the account useMe knows; whether the page is shown
    draft,         \* the draft in memory
    stored,        \* localStorage: a draft for each account and for guests
    uploads,       \* uploads under way
    picking,       \* the library dialog: its slot and what is chosen
    leaving,       \* the mode whose switch waits for a confirmation
    rewriting,     \* the field a rewrite was asked for
    suggestion     \* the rewrite that is offered

scene == <<page, input>>
dialogs == <<picking, leaving>>
wording == <<rewriting, suggestion>>
draftVars == <<scene, who, open, draft, stored, uploads, dialogs, wording>>

Accounts == Users \cup {Guest}
Words == {"empty", "typed", "suggested"}
Settings == {"plain", "special"}    \* of a classic comic, the provider
Fields == {"text", "other"}     \* "other": the direct text, or the story
Slots == {"reference", "directReferences", "first", "images"}

ASSUME RequestAssumption ==                 \* Nothing is not a request
    Nothing \notin [mode : {"single", "general", "direct", "panels", "story", "text", "frames", "refs"},
                   text : Words, media : UNION {[S -> Seq(Library \cup Files)] : S \in SUBSET Slots},
                   bound : Seq(People), presets : SUBSET Presets, setting : Settings]

Modes == CASE page = "image" -> {"single"}
           [] page = "gpt" -> {"general", "direct"}
           [] page = "classic" -> {"panels", "story"}
           [] page = "video" -> {"text", "frames", "refs"}

FieldOf(mode) == IF mode \in {"direct", "story"} THEN "other" ELSE "text"

(* The slots of a mode; frames stand for both of theirs, images for all    *)
(* reference media.                                                        *)
Owned(mode) == CASE mode \in {"single", "general", "panels", "story"} -> {"reference"}
                 [] mode = "direct" -> {"directReferences"}
                 [] mode = "frames" -> {"first"}
                 [] mode = "refs" -> {"images"}
                 [] mode = "text" -> {}

Limit(slot) == IF slot \in {"reference", "first"} THEN 1 ELSE MaxRefs
Room(slot) == Limit(slot) - Len(draft.media[slot])
Capped(slot, ids) == IF Limit(slot) = 1 /\ ids # <<>> THEN <<Last(ids)>> ELSE ids

FirstMode == CASE page = "image" -> "single" [] page = "gpt" -> "general"
               [] page = "classic" -> "panels" [] page = "video" -> "text"
Blank == [mode |-> FirstMode, media |-> [s \in Slots |-> <<>>], bound |-> <<>>, presets |-> {}, by |-> Nothing,
          setting |-> "plain",
          text |-> [f \in Fields |-> IF input = "words" THEN "empty" ELSE "typed"]]

(* The request a draft makes; media of other modes is not sent. *)
Missing(d) == \/ d.text[FieldOf(d.mode)] = "empty"
              \/ d.mode = "frames" /\ d.media["first"] = <<>>
              \/ d.mode = "refs" /\ d.media["images"] = <<>>
Sent(d) == [s \in Owned(d.mode) |-> d.media[s]]
Request(d) ==
    IF Missing(d) THEN Nothing
    ELSE [mode |-> d.mode, text |-> d.text[FieldOf(d.mode)],
          media |-> Sent(d),
          bound |-> IF d.mode = "direct" THEN <<>> ELSE d.bound,
          presets |-> IF d.mode = "direct" THEN {} ELSE d.presets,
          setting |-> IF d.mode = "direct" THEN "plain" ELSE d.setting]

DraftInit ==
    /\ page \in Pages /\ input \in Inputs
    /\ who = Guest /\ open = FALSE
    /\ draft = Blank /\ stored = [a \in Accounts |-> Blank]
    /\ uploads = {} /\ picking = Nothing /\ leaving = Nothing
    /\ rewriting = Nothing /\ suggestion = Nothing

Update(d) == draft' = [d EXCEPT !.by = who]

(* No dialog is open; a GPT page is drawn once the account is known. *)
Free == /\ open /\ picking = Nothing /\ leaving = Nothing /\ suggestion = Nothing
        /\ page = "gpt" => who # Guest

(* A user who keeps to "uploads" touches the references and the mode only  *)
(* once the account is known and while no upload is under way.             *)
Settled == "uploads" \in Kept => uploads = {} /\ who # Guest

-----------------------------------------------------------------------------
(* The account is known after the first render: its draft is loaded then.  *)
Carried(user) == draft                       \* a faulty variant
Reloaded(user) == stored[user]
Resolve ==
    /\ who = Guest /\ who' \in Users
    /\ draft' = IF open THEN Reloaded(who') ELSE draft
    /\ UNCHANGED <<scene, open, stored, uploads, dialogs, wording>>

SignOut ==
    /\ ~open /\ who # Guest /\ who' = Guest
    /\ UNCHANGED <<scene, open, draft, stored, uploads, dialogs, wording>>

Save ==
    /\ open /\ draft # stored[who]
    /\ stored' = [stored EXCEPT ![who] = draft]
    /\ UNCHANGED <<scene, who, open, draft, uploads, dialogs, wording>>

(* A page that is left forgets what is not stored, and what an upload or a *)
(* rewrite brings later.                                                   *)
Leave ==
    /\ open /\ open' = FALSE
    /\ draft' = Blank /\ uploads' = {} /\ picking' = Nothing /\ leaving' = Nothing
    /\ rewriting' = Nothing /\ suggestion' = Nothing
    /\ UNCHANGED <<scene, who, stored>>

Shown(d) == /\ ~open /\ open' = TRUE /\ draft' = d
            /\ UNCHANGED <<scene, who, stored, uploads, dialogs, wording>>

Open == Shown(stored[who])

(* "Create again": a job's request seeds the draft.  Every page but an     *)
(* image page sets the reference even to none; a page with two modes leaves *)
(* the other mode's fields, a classic one empties them.  A GPT page looks  *)
(* for its reference where readPrefill does not put it (prefill.ts:84,     *)
(* GptStudio.tsx:102): it sets none.  The provider of a classic comic is   *)
(* not in the request unless it is the special one, which is read back as  *)
(* the plain one.  A work sent as it is opens in the comic workspace, never *)
(* here.                                                                   *)
Emptied(d, s) == IF page = "image" \/ (page = "gpt" /\ s = "directReferences") THEN d.media[s] ELSE <<>>
SettingKept(d, r) == d.setting               \* a faulty variant
SettingFrom(d, r) == CASE page # "classic" -> r.setting
                       [] page = "classic" -> IF r.setting = "special" THEN "plain" ELSE d.setting
(* The request of a video does not name its mode: its media tell. *)
Has(r, s) == s \in DOMAIN r.media /\ r.media[s] # <<>>
ModeOf(r) == CASE page # "video" -> r.mode
               [] page = "video" /\ Has(r, "first") -> "frames"
               [] page = "video" /\ ~Has(r, "first") /\ Has(r, "images") -> "refs"
               [] OTHER -> "text"
ReadBack(r, s) == Has(r, s) /\ page # "gpt"
Seeded(d, r) ==
    [mode |-> ModeOf(r), by |-> who, bound |-> r.bound, presets |-> r.presets,
     setting |-> SettingFrom(d, r),
     text |-> [f \in Fields |-> IF f = FieldOf(ModeOf(r)) THEN r.text
                               ELSE IF page = "classic" THEN "empty" ELSE d.text[f]],
     media |-> [s \in Slots |-> IF ReadBack(r, s) THEN r.media[s] ELSE Emptied(d, s)]]

(* The jobs there are were made from drafts like those stored; a work of   *)
(* the community brings its description alone.                             *)
Brought == ({Request(stored[a]) : a \in Accounts} \ {Nothing})
           \cup IF page \in {"image", "video"}
                THEN {[mode |-> FirstMode, text |-> "typed", bound |-> <<>>, presets |-> {}, setting |-> "plain",
                       media |-> [s \in Owned(FirstMode) |-> <<>>]]}
                ELSE {}
Asked == {r \in Brought : r.mode # "direct"}
Again == \E r \in Asked : Shown(Seeded(stored[who], r))

(* withCharacter: the oldest goes when there are too many. *)
Untrimmed(ids) == ids
Trimmed(ids) == SubSeq(ids, IF Len(ids) > MaxBound THEN Len(ids) - MaxBound + 1 ELSE 1, Len(ids))
WithCharacter(bound, c) == Trimmed(Append(Dropping(bound, c), c))
OpenWithCharacter ==
    /\ input = "people"
    /\ \E c \in People :
         Shown([stored[who] EXCEPT !.bound = WithCharacter(@, c), !.by = who,
                                   !.mode = IF page = "gpt" THEN "general" ELSE @])

(* usePresetPrefill *)
OpenWithPreset ==
    /\ input = "people" /\ page # "video"
    /\ \E p \in Presets :
         Shown([stored[who] EXCEPT !.presets = @ \cup {p}, !.by = who,
                                   !.mode = IF page = "gpt" THEN "general" ELSE @])

OpenWithImage ==
    /\ input = "media"
    /\ \E a \in Library :
         \/ page = "image" /\ Shown([stored[who] EXCEPT !.media["reference"] = <<a>>, !.by = who])
         \/ page = "video" /\ Shown([stored[who] EXCEPT !.mode = "frames", !.by = who,
                 !.media = [s \in Slots |-> IF s = "first" THEN <<a>> ELSE <<>>]])

-----------------------------------------------------------------------------
Type ==
    /\ Free /\ input = "words"
    /\ \E w \in {"empty", "typed"}, f \in {FieldOf(draft.mode)} :
         w # draft.text[f] /\ Update([draft EXCEPT !.text[f] = w])
    /\ UNCHANGED <<scene, who, open, stored, uploads, dialogs, wording>>

Set ==
    /\ Free /\ input = "words" /\ draft.mode # "direct"
    /\ \E s \in Settings \ {draft.setting} : Update([draft EXCEPT !.setting = s])
    /\ UNCHANGED <<scene, who, open, stored, uploads, dialogs, wording>>

(* The description field of a GPT page is another one in each mode; one    *)
(* that is taken down forgets its rewrite.                                 *)
Remounts == page = "gpt"
MediaFor(d, mode) == [s \in Slots |-> IF page # "video" \/ s \in Owned(mode) THEN d.media[s] ELSE <<>>]
Clears(mode) == page = "video" /\ \E s \in Slots \ Owned(mode) : draft.media[s] # <<>>
SwitchTo(mode) ==
    /\ Update([draft EXCEPT !.mode = mode, !.media = MediaFor(draft, mode)])
    /\ IF Remounts THEN rewriting' = Nothing /\ suggestion' = Nothing ELSE UNCHANGED wording

Switch ==
    /\ Free /\ Settled
    /\ \E mode \in Modes \ {draft.mode} :
         \/ Clears(mode) /\ leaving' = mode /\ UNCHANGED <<draft, wording>>
         \/ ~Clears(mode) /\ SwitchTo(mode) /\ UNCHANGED leaving
    /\ UNCHANGED <<scene, who, open, stored, uploads, picking>>

ConfirmSwitch ==
    /\ leaving # Nothing /\ leaving' = Nothing
    /\ SwitchTo(leaving) \/ UNCHANGED <<draft, wording>>
    /\ UNCHANGED <<scene, who, open, stored, uploads, picking>>

Bind ==
    /\ Free /\ input = "people" /\ draft.mode # "direct"
    /\ \/ \E c \in People \ Range(draft.bound) :
            Len(draft.bound) < MaxBound /\ Update([draft EXCEPT !.bound = Append(@, c)])
       \/ \E c \in Range(draft.bound) : Update([draft EXCEPT !.bound = Dropping(@, c)])
    /\ UNCHANGED <<scene, who, open, stored, uploads, dialogs, wording>>

Toggle(set, p) == IF p \in set THEN set \ {p} ELSE set \cup {p}
Style ==
    /\ Free /\ input = "people" /\ draft.mode # "direct" /\ page # "video"
    /\ \/ \E p \in Presets : Update([draft EXCEPT !.presets = Toggle(@, p)])
       \/ draft.presets # {} /\ Update([draft EXCEPT !.presets = {}])
    /\ UNCHANGED <<scene, who, open, stored, uploads, dialogs, wording>>

-----------------------------------------------------------------------------
Attach(slot, ids) == Update([draft EXCEPT !.media[slot] = Capped(slot, ids)])
InUse == UNION {Range(d.media[s]) : d \in {draft} \cup Range(stored), s \in Slots}

(* The picker of a slot uploads one batch at a time, for the references it *)
(* was drawn with.                                                         *)
StartUpload ==
    /\ Free /\ Settled /\ input = "media"
    /\ \E slot \in Owned(draft.mode) :
         /\ Room(slot) > 0 /\ \A u \in uploads : u.slot # slot
         /\ uploads' = uploads \cup {[slot |-> slot, value |-> draft.media[slot]]}
    /\ UNCHANGED <<scene, who, open, draft, stored, dialogs, wording>>

Landed(u, ids) == Attach(u.slot, u.value \o ids)
UploadLands ==
    /\ \E u \in uploads :
         /\ uploads' = uploads \ {u}
         /\ \/ UNCHANGED draft          \* refused, or failed
            \/ \E f \in Files \ InUse : Landed(u, <<f>>)
    /\ UNCHANGED <<scene, who, open, stored, dialogs, wording>>

Browse ==
    /\ Free /\ Settled /\ input = "media"
    /\ \E slot \in Owned(draft.mode) : Room(slot) > 0 /\ picking' = [slot |-> slot, chosen |-> <<>>]
    /\ UNCHANGED <<scene, who, open, draft, stored, uploads, leaving, wording>>

Full(slot, chosen) == Len(draft.media[slot]) + Len(chosen) >= Limit(slot)
Choose ==
    /\ picking # Nothing
    /\ \E a \in Library \ Range(draft.media[picking.slot]) :
         picking' = [picking EXCEPT !.chosen =
             IF a \in Range(@) THEN Dropping(@, a) ELSE Append(@, a)]
         /\ (a \in Range(picking.chosen) \/ ~Full(picking.slot, picking.chosen))
    /\ UNCHANGED <<scene, who, open, draft, stored, uploads, leaving, wording>>

ClosePicker ==
    /\ picking # Nothing /\ picking' = Nothing
    /\ \/ UNCHANGED draft
       \/ picking.chosen # <<>> /\ Attach(picking.slot, draft.media[picking.slot] \o picking.chosen)
    /\ UNCHANGED <<scene, who, open, stored, uploads, leaving, wording>>

Detach ==
    /\ Free /\ Settled /\ input = "media"
    /\ \E slot \in Owned(draft.mode) : \E a \in Range(draft.media[slot]) :
         Attach(slot, Dropping(draft.media[slot], a))
    /\ UNCHANGED <<scene, who, open, stored, uploads, dialogs, wording>>

-----------------------------------------------------------------------------
AskRewrite ==
    /\ Free /\ input = "words" /\ rewriting = Nothing
    /\ page # "classic" /\ draft.mode # "direct" /\ draft.text[FieldOf(draft.mode)] # "empty"
    /\ rewriting' = FieldOf(draft.mode)
    /\ UNCHANGED <<scene, who, open, draft, stored, uploads, dialogs, suggestion>>

RewriteArrives ==
    /\ rewriting # Nothing /\ rewriting' = Nothing
    /\ suggestion' \in {Nothing, [field |-> rewriting]}
    /\ UNCHANGED <<scene, who, open, draft, stored, uploads, dialogs>>

AnswerRewrite ==
    /\ suggestion # Nothing /\ suggestion' = Nothing
    /\ \/ UNCHANGED draft
       \/ Update([draft EXCEPT !.text[FieldOf(draft.mode)] = "suggested"])
    /\ UNCHANGED <<scene, who, open, stored, uploads, dialogs, rewriting>>

DraftNext == \/ Resolve \/ SignOut \/ Save \/ Leave \/ Open \/ Again \/ OpenWithCharacter \/ OpenWithPreset
             \/ OpenWithImage \/ Type \/ Set \/ Switch \/ ConfirmSwitch \/ Bind \/ Style
             \/ StartUpload \/ UploadLands \/ Browse \/ Choose \/ ClosePicker \/ Detach
             \/ AskRewrite \/ RewriteArrives \/ AnswerRewrite

-----------------------------------------------------------------------------
DraftTypeOK ==
    /\ who \in Accounts /\ open \in BOOLEAN
    /\ draft.mode \in Modes /\ draft.by \in Accounts \cup {Nothing}
    /\ draft.text \in [Fields -> Words]
    /\ DOMAIN draft.media = Slots
    /\ IsInjective(draft.bound) /\ Len(draft.bound) <= MaxBound /\ Range(draft.bound) \subseteq People
    /\ draft.presets \subseteq Presets /\ draft.setting \in Settings
    /\ leaving \in Modes \cup {Nothing} /\ rewriting \in Fields \cup {Nothing}

(* What one account wrote is never stored as another's, though the account *)
(* is known only after the page is drawn and a store is always under way   *)
(* (drafts.ts:21-43).                                                      *)
OwnDrafts == \A a \in Accounts : stored[a].by \in {Nothing, a}

(* References stay within the slot's limit and are attached once, whatever *)
(* is chosen in the dialog and uploaded (ReferencePicker.tsx:63, 212-217). *)
WithinLimits ==
    \A slot \in Slots : Len(draft.media[slot]) <= Limit(slot) /\ IsInjective(draft.media[slot])

(* An upload that ends takes no reference away (ReferencePicker.tsx:117).  *)
UploadsOnlyAdd ==
    [][\A slot \in Slots : UploadLands /\ Limit(slot) > 1
           => Range(draft.media[slot]) \subseteq Range(draft'.media[slot])]_draftVars

(* Each mode of a video keeps only its own media: no path of switching,    *)
(* uploading or creating again leaves frames beside references             *)
(* (video.ts:1-3).                                                         *)
OneModeOnly ==
    page = "video" => \A slot \in Slots \ Owned(draft.mode) : draft.media[slot] = <<>>

(* A suggestion replaces only the description it was asked for             *)
(* (GptStudio.tsx:209-220).                                                *)
RewritesItsField ==
    [][\A f \in Fields : AnswerRewrite /\ draft'.text[f] # draft.text[f] => f = suggestion.field]_draftVars

(* Creating a job again on any page but an image page asks for that very   *)
(* request, whatever the draft held before, with two exceptions: a classic *)
(* comic may ask for another provider, and a GPT image is asked for without *)
(* its reference, though never with one the draft held                     *)
(* (VideoStudio.tsx:94-116, GptStudio.tsx:99-102,                          *)
(* ComicClassicStudio.tsx:62-74).                                          *)
SameRequest(r, s) ==
    /\ r # Nothing
    /\ \A field \in DOMAIN s \ {"media", "setting"} : r[field] = s[field]
    /\ page # "classic" => r.setting = s.setting
    /\ IF page = "gpt" THEN r.media["reference"] = <<>> ELSE r.media = s.media
RecreatesTheRequest ==
    [][page # "image" /\ Again => \E r \in Asked : SameRequest(Request(draft'), r)]_draftVars
=============================================================================
