------------------------------ MODULE ShelfPages ------------------------------
(***************************************************************************)
(* The pages that keep a user's own records: projects (a list and a page   *)
(* for each), characters and presets.  Each has a form that creates or     *)
(* edits a record; some forms hold the record as it was when they opened,  *)
(* others follow the list as it is loaded again.  The server answers       *)
(* saves and deletes late or never, and another tab edits the same         *)
(* records.  Searching, covers and the selection of presets are left out.  *)
(***************************************************************************)
EXTENDS Integers, FiniteSets, Queries

CONSTANTS
    Projects, Characters, Presets,
    System,        \* presets of the system: read only
    StartShelves,  \* the records there are at first: a set of sets
    MaxEdits,      \* bound: changes made in another tab
    MaxHandled,    \* bound: what the user opens, types and sends
    MaxSaves,      \* bound: calls under way at once
    KeptShelf      \* promises, see the guards

Records == Projects \cup Characters \cup Presets
New == "new"
ASSUME ShelfAssumption ==
    /\ Projects \cap (Characters \cup Presets) = {} /\ Characters \cap Presets = {}
    /\ System \subseteq Presets /\ IsFiniteSet(Records)
    /\ Records \cap {New, "projects", "characters", "presets", "away"} = {}
    /\ StartShelves \subseteq SUBSET Records /\ Nothing # "ok"
    /\ MaxEdits \in Nat /\ MaxHandled \in Nat /\ MaxSaves \in Nat \ {0}
    /\ KeptShelf \subseteq {"quiet", "uploads", "waits", "tabs"}

VARIABLES
    there,         \* the server: records that exist
    texts,         \* their fields
    member,        \* and the project of each character
    edits,         \* how often another tab changed them
    page,          \* a list, the page of a project, or elsewhere
    kept,          \* what is cached of each record
    keptMember,
    form,          \* the form that is open
    landing,       \* pictures for a first character are being uploaded
    saves,         \* calls that were sent
    raced,         \* characters written after their project was deleted
    handled

database == <<there, texts, member, edits, raced>>
cached == <<kept, keptMember>>
shelfVars == <<database, page, cached, form, landing, saves, handled>>

Fields == {"name", "text"}
Typed == {"typed", "retyped"}
Untouched == [f \in Fields |-> Nothing]
KindOf(place) == CASE place = "characters" -> Characters
                   [] place = "presets" -> Presets
                   [] place = "away" -> {}
                   [] OTHER -> Projects
Kinds == {Projects, Characters, Presets}
Lists == {"projects", "characters", "presets"}

ShelfInit ==
    /\ there \in StartShelves
    /\ texts = [r \in Records |-> [f \in Fields |-> "start"]]
    /\ member \in [Characters -> (Projects \cap there) \cup {Nothing}]
    /\ edits = 0 /\ raced = {} /\ handled = 0
    /\ page = "away" /\ form = Nothing /\ landing = FALSE /\ saves = {}
    /\ kept = [r \in Records |-> Nothing] /\ keptMember = [c \in Characters |-> Nothing]

Handled == handled < MaxHandled /\ handled' = handled + 1

(* handleDeleteProject detaches what is in the project. *)
Detached(p) == [c \in Characters |-> IF member[c] = p THEN Nothing ELSE member[c]]
Deleted(r) ==
    /\ there' = there \ {r}
    /\ member' = IF r \in Projects THEN Detached(r) ELSE member
    /\ UNCHANGED <<texts, raced>>

-----------------------------------------------------------------------------
(* A form shows a record as it was read (or nothing, for a new one), and   *)
(* what was typed since.  "meant" remembers what the user typed, "from"    *)
(* what the fields were last filled from.                                  *)
RowOf(r, rows) == IF r = New THEN [f \in Fields |-> "blank"] ELSE rows[r]
Filled(r, rows) == [f \in Fields |-> [of |-> r, by |-> RowOf(r, rows)[f]]]
Form(r, live, rows, meant) ==
    [of |-> r, live |-> live, from |-> RowOf(r, rows), values |-> Filled(r, rows), meant |-> meant, busy |-> FALSE,
     project |-> IF r \in Characters THEN keptMember[r] ELSE Nothing,
     held |-> IF r \in Characters THEN keptMember[r] ELSE Nothing]

(* The effect that fills the fields depends on the record itself: the      *)
(* cache keeps a record that was read again with the same content.         *)
OnEveryRead(f, rows) == TRUE                 \* a faulty variant
Differs(f, rows) == f.from # rows[f.of]
Refilled(f, rows) == [f EXCEPT !.from = rows[f.of], !.values = Filled(f.of, rows)]
Follow(f, rows) ==
    IF f = Nothing \/ f.of = New \/ ~f.live THEN f
    ELSE IF rows[f.of] = Nothing THEN (IF f.of \in Presets THEN Nothing ELSE f)
    ELSE IF Differs(f, rows) THEN Refilled(f, rows) ELSE f

Read(kind) == [r \in Records |-> IF r \in kind THEN (IF r \in there THEN texts[r] ELSE Nothing) ELSE kept[r]]
ReadMembers(kind) == IF kind = Characters THEN member ELSE keptMember
Disturbs(f, rows) == f # Nothing /\ f.live /\ f.of # New /\ f.meant # Untouched /\ f.from # rows[f.of]

(* A list is loaded again: on coming to it, when the window is focused,    *)
(* when something was saved.  The lists and the page of a project share    *)
(* their record here.                                                      *)
Reload(kind) ==
    /\ page # "away" /\ kind = KindOf(page)
    /\ "quiet" \in KeptShelf => ~Disturbs(form, Read(kind))
    /\ kept' = Read(kind) /\ keptMember' = ReadMembers(kind)
    /\ form' = Follow(form, Read(kind))
    /\ UNCHANGED <<database, page, landing, saves, handled>>

(* Another tab edits or deletes a record, or moves a character. *)
AnotherTab ==
    /\ edits < MaxEdits /\ edits' = edits + 1
    /\ \/ \E r \in there \ System, f \in Fields :
            texts' = [texts EXCEPT ![r][f] = "elsewhere"] /\ UNCHANGED <<there, member, raced>>
       \/ \E r \in there \ System : Deleted(r)
       \/ \E c \in Characters \cap there, p \in (Projects \cap there) \cup {Nothing} :
            p # member[c] /\ member' = [member EXCEPT ![c] = p] /\ UNCHANGED <<there, texts, raced>>
    /\ UNCHANGED <<page, cached, form, landing, saves, handled>>

-----------------------------------------------------------------------------
(* The history can go from one project's page to another's under an open   *)
(* form, which is then filled with the other project.                      *)
Turned(place) == IF page \in Projects /\ place \in Projects /\ form # Nothing THEN Form(place, TRUE, kept, Untouched) ELSE Nothing
Disowned(calls) == {[s EXCEPT !.mine = FALSE] : s \in calls}
GoTo == /\ Handled
        /\ \E place \in (Lists \cup {"away"} \cup Projects) \ {page} :
             /\ place \in Projects => kept[place] # Nothing
             /\ page' = place /\ form' = Turned(place)
             /\ saves' = IF page \in Projects /\ place \in Projects THEN saves ELSE Disowned(saves)
        /\ landing' = FALSE
        /\ UNCHANGED <<database, cached>>

Patient == "waits" \in KeptShelf => saves = {}

(* Dialogs and the drawer are modal, the panel of a preset is not.  The    *)
(* page of a project and the panel follow their record.                    *)
OpenForm ==
    /\ Handled /\ Patient /\ page # "away" /\ (form # Nothing => page = "presets")
    /\ \E r \in {New} \cup KindOf(page) :
         /\ r # New => kept[r] # Nothing
         /\ page \in Projects => r = page
         /\ form' = [Form(r, page \in Projects \cup {"presets"}, kept, Untouched) EXCEPT !.busy = form # Nothing /\ form.busy]
    /\ UNCHANGED <<database, page, cached, landing, saves>>
CloseForm == /\ form # Nothing /\ (page = "presets" \/ ~form.busy) /\ form' = Nothing
             /\ UNCHANGED <<database, page, cached, landing, saves, handled>>

TypeIn == /\ Handled /\ Patient /\ form # Nothing /\ form.of \notin System
          /\ \E f \in Fields, v \in Typed :
               form' = [form EXCEPT !.values[f] = [of |-> form.of, by |-> v], !.meant[f] = v]
          /\ UNCHANGED <<database, page, cached, landing, saves>>
PickProject == /\ Handled /\ Patient /\ form # Nothing /\ page = "characters"
               /\ \E p \in (Projects \cap there) \cup {Nothing} : p # form.project /\ form' = [form EXCEPT !.project = p]
               /\ UNCHANGED <<database, page, cached, landing, saves>>

(* The category is one of the effect's dependencies too. *)
SwitchCategory ==
    /\ Handled /\ page = "presets" /\ form # Nothing
    /\ "tabs" \in KeptShelf => form.meant = Untouched
    /\ form' = [form EXCEPT !.from = RowOf(form.of, kept), !.values = Filled(form.of, kept)]
    /\ UNCHANGED <<database, page, cached, landing, saves>>

(* An empty list offers to upload first; the drawer opens on a new         *)
(* character when the pictures are there, whatever it shows by then.       *)
UploadFirst == /\ Handled /\ page = "characters" /\ form = Nothing /\ ~landing
               /\ \A c \in Characters : kept[c] = Nothing
               /\ landing' = TRUE
               /\ UNCHANGED <<database, page, cached, form, saves>>
Landed == /\ landing /\ landing' = FALSE
          /\ "uploads" \in KeptShelf => form = Nothing
          /\ form' \in {form, IF form = Nothing THEN Form(New, FALSE, kept, Untouched)
                              ELSE IF form.of = New THEN form ELSE Form(New, FALSE, kept, form.meant)}
          /\ UNCHANGED <<database, page, cached, saves, handled>>

-----------------------------------------------------------------------------
(* A save sends every field; the project of a character only if one is     *)
(* chosen, and its removal only if there was one.                          *)
Sent(op, r) ==
    [op |-> op, of |-> r, values |-> Untouched, meant |-> Untouched, project |-> Nothing, clear |-> FALSE,
     resolved |-> FALSE, made |-> r, from |-> page, mine |-> TRUE, answer |-> Nothing]
SavedRecord == IF page \in Projects THEN page ELSE form.of
Room == Cardinality(saves) < MaxSaves
SaveOrCopy == IF form.of \in System THEN "copy" ELSE "save"
Submit ==
    /\ Handled /\ form # Nothing /\ ~form.busy /\ Room
    /\ saves' = saves \cup {[Sent(SaveOrCopy, SavedRecord) EXCEPT
           !.values = form.values, !.meant = form.meant, !.project = form.project,
           !.clear = (form.project = Nothing /\ form.held # Nothing)]}
    /\ form' = [form EXCEPT !.busy = TRUE]
    /\ UNCHANGED <<database, page, cached, landing>>
Remove ==
    /\ Handled /\ Patient /\ Room /\ (form # Nothing => page = "presets")
    /\ \E r \in KindOf(page) \ System :
         /\ kept[r] # Nothing /\ (page \in Projects => r = page)
         /\ saves' = saves \cup {Sent("delete", r)}
    /\ UNCHANGED <<database, page, cached, form, landing>>

Replied(s, answer) == saves' = (saves \ {s}) \cup {[s EXCEPT !.answer = answer]}

(* A character's project is looked up before the character is written, and *)
(* not in one transaction.                                                 *)
LookUp(s) ==
    /\ s \in saves /\ s.answer = Nothing /\ s.project # Nothing /\ ~s.resolved
    /\ IF s.project \in there THEN saves' = (saves \ {s}) \cup {[s EXCEPT !.resolved = TRUE]} ELSE Replied(s, "refused")
    /\ UNCHANGED <<database, page, cached, form, landing, handled>>

Written(s, r) == [f \in Fields |-> s.values[f].by]
MemberAfter(s, r) == IF s.project # Nothing THEN s.project
                     ELSE IF s.clear \/ s.of = New THEN Nothing ELSE member[r]
WriteRow(s, r) ==
    /\ texts' = [texts EXCEPT ![r] = Written(s, r)]
    /\ member' = IF r \in Characters THEN [member EXCEPT ![r] = MemberAfter(s, r)] ELSE member
    /\ there' = there \cup {r}
    /\ raced' = IF s.project # Nothing /\ s.project \notin there THEN raced \cup {r} ELSE raced
    /\ saves' = (saves \ {s}) \cup {[s EXCEPT !.answer = "ok", !.made = r]}
ServeSave(s) ==
    /\ s \in saves /\ s.answer = Nothing
    /\ \/ s.op = "delete" /\ s.of \in there /\ Deleted(s.of) /\ Replied(s, "ok")
       \/ /\ s.op = "save" /\ s.of # New /\ s.of \in there /\ (s.project # Nothing => s.resolved)
          /\ WriteRow(s, s.of)
       \/ /\ (s.op = "copy" \/ s.of = New) /\ (s.project # Nothing => s.resolved)
          /\ \E r \in KindOf(s.from) \ (there \cup System) : WriteRow(s, r)
       \/ /\ s.of # New /\ s.of \notin there /\ s.op # "copy" /\ Replied(s, "refused")
          /\ UNCHANGED <<there, texts, member, raced>>
    /\ UNCHANGED <<edits, page, cached, form, landing, handled>>

(* What was saved is no longer to be saved.  A dialog or drawer closes;    *)
(* the panel goes to the saved preset; the page of a deleted project to    *)
(* the list, from wherever the user is.  A form that stays follows.        *)
Outstanding(s) == [f \in Fields |-> IF form = Nothing \/ form.meant[f] = s.values[f].by THEN Nothing ELSE form.meant[f]]
GoesToList(s) == s.op = "delete" /\ s.from \in Projects /\ page # "projects"
FormAfter(s, rows) ==
    IF GoesToList(s) \/ (s.mine /\ s.op = "delete" /\ form # Nothing /\ form.of = s.of) THEN Nothing
    ELSE IF ~s.mine \/ s.op = "delete" THEN Follow(form, rows)
    ELSE IF s.from # "presets" \/ rows[s.made] = Nothing THEN Nothing
    ELSE IF form # Nothing /\ form.of = s.made
         THEN [Follow(form, rows) EXCEPT !.busy = FALSE, !.meant = Outstanding(s)]
         ELSE Form(s.made, TRUE, rows, Outstanding(s))
Unbusy(s) == IF form = Nothing \/ ~s.mine THEN form ELSE [form EXCEPT !.busy = FALSE]
SettleSave(s) ==
    /\ s \in saves /\ s.answer # Nothing
    /\ IF s.answer = "ok"
       THEN LET rows == Read(KindOf(s.from))
            IN /\ "quiet" \in KeptShelf => (Disturbs(form, rows) => form.of = s.of)
               /\ kept' = rows /\ keptMember' = ReadMembers(KindOf(s.from))
               /\ form' = FormAfter(s, rows)
               /\ page' = IF GoesToList(s) THEN "projects" ELSE page
               /\ saves' = IF GoesToList(s) THEN Disowned(saves \ {s}) ELSE saves \ {s}
               /\ landing' = (landing /\ ~GoesToList(s))
       ELSE saves' = saves \ {s} /\ form' = Unbusy(s) /\ UNCHANGED <<cached, page, landing>>
    /\ UNCHANGED <<database, handled>>

(* The request or its answer is lost: a toast, and the form stays. *)
LostSave(s) == /\ s \in saves /\ saves' = saves \ {s}
               /\ form' = Unbusy(s)
               /\ UNCHANGED <<database, page, cached, landing, handled>>

ShelfNext ==
    \/ AnotherTab \/ GoTo \/ OpenForm \/ CloseForm \/ TypeIn \/ PickProject \/ SwitchCategory
    \/ UploadFirst \/ Landed \/ Submit \/ Remove
    \/ \E kind \in Kinds : Reload(kind)
    \/ \E s \in saves : LookUp(s) \/ ServeSave(s) \/ SettleSave(s) \/ LostSave(s)

-----------------------------------------------------------------------------
ShelfTypeOK ==
    /\ there \subseteq Records /\ raced \subseteq Characters
    /\ texts \in [Records -> [Fields -> {"start", "elsewhere", "blank"} \cup Typed]]
    /\ member \in [Characters -> Projects \cup {Nothing}]
    /\ page \in Lists \cup {"away"} \cup Projects
    /\ form # Nothing => form.of \in Records \cup {New}
    /\ Cardinality(saves) <= MaxSaves

(* A save writes into a record only what was read from it or typed on it,  *)
(* though the panel and the page keep their fields when the record under   *)
(* them is another one (PresetDetail.tsx:44-50, CharacterDrawer.tsx:42-52, *)
(* ProjectDialogs.tsx:17-21).                                              *)
SavesIntoItsOwn == \A s \in saves : s.op # "delete" => \A f \in Fields : s.values[f].of = s.of

(* What was typed last into a field is what a save sends of it: nothing    *)
(* that is loaded, saved or uploaded meanwhile takes it back.              *)
SendsWhatWasTyped == \A s \in saves : \A f \in Fields : s.meant[f] # Nothing => s.values[f].by = s.meant[f]

(* A character stays with a project that was deleted only if its save had  *)
(* looked the project up before the delete (projects.go:192-206,           *)
(* characters.go:229-236).                                                 *)
DetachedUnlessRacing ==
    \A c \in Characters \cap there : member[c] # Nothing /\ member[c] \notin there => c \in raced

(* A record becomes what was typed on its own form, and belongs to what    *)
(* was there when it was saved.                                            *)
FormsSaveTheirOwn == SavesIntoItsOwn /\ SendsWhatWasTyped /\ DetachedUnlessRacing
=============================================================================
