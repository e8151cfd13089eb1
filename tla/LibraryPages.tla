---------------------------- MODULE LibraryPages ----------------------------
(***************************************************************************)
(* The asset library: its two lists (the assets and the trash), the        *)
(* selection, the dialogs that delete and empty the trash, the toasts that *)
(* undo a delete, the page of one asset, and the uploads.  Batches are     *)
(* answered late or never, another tab works on the same assets, and the   *)
(* lists are loaded apart.  Projects, filters and downloads are left out.  *)
(***************************************************************************)
EXTENDS Integers, FiniteSets, Queries

CONSTANTS
    Assets,        \* in the library or the trash at first
    Files,         \* to upload; a file's asset has its name
    StartTrash,    \* the sets of assets that are in the trash at first
    MaxActs,       \* bound: decisions of the user
    MaxRequests,   \* bound: requests under way at once
    MaxElsewhere,  \* bound: what happens to the assets elsewhere
    KeptLibrary    \* promises, see the guards

ASSUME LibraryAssumption ==
    /\ (Assets \cup Files) \cap {"library", "trash", "away"} = {} /\ Assets \cap Files = {}
    /\ IsFiniteSet(Assets) /\ IsFiniteSet(Files) /\ StartTrash \subseteq SUBSET Assets
    /\ MaxActs \in Nat /\ MaxElsewhere \in Nat /\ MaxRequests \in Nat \ {0}
    /\ KeptLibrary \subseteq {"alone", "history", "there", "transfer", "quiet", "answers"}
ASSUME NothingInLibrary ==
    /\ Nothing # "ok" /\ Nothing \notin [shape : {"pages"}, answer : {Nothing} \cup [ids : SUBSET (Assets \cup Files)]]
    /\ Nothing \notin [kind : {"delete", "empty", "publish"}, ids : SUBSET (Assets \cup Files), busy : BOOLEAN]

VARIABLES
    shelf,         \* the server: where each asset is
    public,        \* assets that are published
    elsewhere,     \* what happened to them elsewhere
    at,            \* the tab of the library, the page of an asset, or away
    lists,         \* what is cached of the two lists
    reading,       \* and the loads under way
    selected,      \* the selection
    box,           \* the dialog that is open
    agreed,        \* assets on whose page publishing was confirmed
    requests,      \* requests that were sent
    toasts,        \* toasts with an undo
    uploads,       \* the queue of the upload drawer
    acts

stored == <<shelf, public, elsewhere>>
looks == <<at, lists, reading>>
libraryVars == <<stored, looks, selected, box, agreed, requests, toasts, uploads, acts>>

Everything == Assets \cup Files
In(place) == {a \in Everything : shelf[a] = place}
ListKeys == {"library", "trash"}
ReadsBoth == [k \in ListKeys |-> "pages"]
Reads == IF at \in ListKeys THEN ReadsBoth ELSE [k \in {} |-> "pages"]

LibraryInit ==
    /\ \E trash \in StartTrash :
         shelf = [a \in Everything |-> IF a \in Files THEN "unmade" ELSE IF a \in trash THEN "trash" ELSE "library"]
    /\ public = {} /\ elsewhere = 0
    /\ at = "library" /\ lists = [k \in ListKeys |-> Nothing] /\ reading = Watched(lists, ReadsBoth)
    /\ selected = {} /\ box = Nothing /\ agreed = {}
    /\ requests = {} /\ toasts = {} /\ acts = 0
    /\ uploads = [f \in Files |-> [stage |-> "none", cancelled |-> FALSE]]

Act == acts < MaxActs /\ acts' = acts + 1

-----------------------------------------------------------------------------
(* Another tab restores an asset, or deletes one if the user has promised  *)
(* nothing; the upkeep purges old trash.                                   *)
MovedElsewhere(place) ==
    CASE place = "trash" -> {"library", "purged"}
      [] place = "library" -> IF "alone" \in KeptLibrary THEN {} ELSE {"trash"}
      [] OTHER -> {}
Elsewhere ==
    /\ elsewhere < MaxElsewhere /\ elsewhere' = elsewhere + 1
    /\ \E a \in Everything : \E place \in MovedElsewhere(shelf[a]) : shelf' = [shelf EXCEPT ![a] = place]
    /\ UNCHANGED <<public, looks, selected, box, agreed, requests, toasts, uploads, acts>>

ListRead(k) ==
    /\ reading[k] # Nothing /\ reading[k].answer = Nothing
    /\ reading' = [reading EXCEPT ![k].answer = [ids |-> In(k)]]
    /\ UNCHANGED <<stored, at, lists, selected, box, agreed, requests, toasts, uploads, acts>>
ListArrives(k) ==
    /\ reading[k] # Nothing /\ reading[k].answer # Nothing
    /\ lists' = [lists EXCEPT ![k] = reading[k].answer] /\ reading' = [reading EXCEPT ![k] = Nothing]
    /\ UNCHANGED <<stored, at, selected, box, agreed, requests, toasts, uploads, acts>>

(* keys.assets.all is the beginning of the keys of both lists. *)
NotTheTrash == {"library"}                   \* a faulty variant
AssetQueries == ListKeys
RefreshedLists == Invalidated(reading, lists, Reads, AssetQueries)

-----------------------------------------------------------------------------
(* The pages.  A dialog is modal; the history can leave under it.          *)
(* Leaving the library forgets the selection and its dialog; the page of   *)
(* an asset keeps its dialog for the next asset.  It is reached from a     *)
(* card, from a neighbour's page or by the history, whatever became of the *)
(* asset.                                                                  *)
Shown(k) == IF lists[k] = Nothing THEN {} ELSE lists[k].ids
Busy == \E r \in requests : r.mine
MayLeave == "history" \in KeptLibrary => box = Nothing /\ ~Busy
LibGo ==
    /\ Act /\ MayLeave
    /\ \E place \in (ListKeys \cup {"away"} \cup Everything) \ {at} :
         /\ place \in Everything => shelf[place] # "unmade"
         /\ at' = place
         /\ IF at \in ListKeys /\ place \in ListKeys THEN UNCHANGED <<selected, reading, box, requests>>
            ELSE /\ selected' = {}
                 /\ requests' = {[r EXCEPT !.mine = FALSE] : r \in requests}
                 /\ box' = IF at \in Everything /\ place \in Everything THEN box ELSE Nothing
                 /\ reading' = IF place \in ListKeys THEN Watched(reading, ReadsBoth) ELSE reading
    /\ UNCHANGED <<stored, lists, agreed, toasts, uploads>>

Quiet == "quiet" \in KeptLibrary => requests = {} /\ \A k \in ListKeys : reading[k] = Nothing

(* The selection keeps what a filter hides, and is not changed by a list   *)
(* that is loaded again.                                                   *)
Toggle ==
    /\ at = "library" /\ box = Nothing /\ Quiet
    /\ \E a \in Shown("library") : selected' = IF a \in selected THEN selected \ {a} ELSE selected \cup {a}
    /\ UNCHANGED <<stored, looks, box, agreed, requests, toasts, uploads, acts>>
Unselect ==
    /\ at = "library" /\ box = Nothing /\ selected # {} /\ selected' \in {{}, selected \cap Shown("library")}
    /\ UNCHANGED <<stored, looks, box, agreed, requests, toasts, uploads, acts>>

(* A dialog takes its ids when it is opened: those of a card, or the whole *)
(* selection.  The dialogs of an asset's page mean the asset on the page;  *)
(* their ids here tell the one they were opened on.  The page shows what   *)
(* is cached of the asset also when the server does not find it any more   *)
(* (AssetDetailPage.tsx:71, 127); a user who keeps to "there" does not act *)
(* on the page of an asset that was deleted.  Every asset counts as cached. *)
Box(kind, ids) == [kind |-> kind, ids |-> ids, busy |-> FALSE]
OpenBox ==
    /\ box = Nothing /\ Quiet
    /\ \/ /\ at = "library"
          /\ \E ids \in {{a} : a \in Shown("library")} \cup ({selected} \ {{}}) : box' = Box("delete", ids)
       \/ at = "trash" /\ Shown("trash") # {} /\ box' = Box("empty", {})
       \/ /\ at \in Everything /\ ("there" \in KeptLibrary => shelf[at] = "library")
          /\ box' \in {Box("delete", {at}), Box("publish", {at})}
    /\ UNCHANGED <<stored, looks, selected, agreed, requests, toasts, uploads, acts>>
CloseBox == /\ box # Nothing /\ ~box.busy /\ box' = Nothing
            /\ UNCHANGED <<stored, looks, selected, agreed, requests, toasts, uploads, acts>>

(* What a request is about, what the user was shown of the trash when it   *)
(* was sent, and what it changed.                                          *)
Request(op, ids) ==
    [op |-> op, ids |-> ids, from |-> at, mine |-> TRUE, shown |-> Shown("trash"), changed |-> {}, answer |-> Nothing]
Sends(op, ids) == Cardinality(requests) < MaxRequests /\ requests' = requests \cup {Request(op, ids)}

Subjects == IF at \in Everything THEN {at} ELSE box.ids
ConfirmBox ==
    /\ Act /\ box # Nothing /\ ~box.busy /\ Quiet
    /\ Sends(box.kind, Subjects)
    /\ box' = [box EXCEPT !.busy = TRUE]
    /\ agreed' = IF box.kind = "publish" THEN agreed \cup box.ids ELSE agreed
    /\ UNCHANGED <<stored, looks, selected, toasts, uploads>>
Unpublish == /\ Act /\ at \in public /\ box = Nothing /\ Sends("unpublish", {at})
             /\ UNCHANGED <<stored, looks, selected, box, agreed, toasts, uploads>>
RestoreOne == /\ Act /\ at = "trash" /\ box = Nothing
              /\ \E a \in Shown("trash") : Sends("restore", {a})
              /\ UNCHANGED <<stored, looks, selected, box, agreed, toasts, uploads>>
Undo == /\ Act /\ box = Nothing
        /\ \E t \in toasts : Sends("restore", t.undo) /\ toasts' = toasts \ {t}
        /\ UNCHANGED <<stored, looks, selected, box, agreed, uploads>>
ToastLeaves == /\ \E t \in toasts : toasts' = toasts \ {t}
               /\ UNCHANGED <<stored, looks, selected, box, agreed, requests, uploads, acts>>

(* handleBatchAssets changes only rows that are on the other side, and     *)
(* answers as well when it changes none; handleEmptyTrash purges what is   *)
(* in the trash by then; handleUpdateAsset finds an asset only in the      *)
(* library.                                                                *)
Changes(r) == CASE r.op = "delete" -> {a \in r.ids : shelf[a] = "library"}
                [] r.op = "restore" -> {a \in r.ids : shelf[a] = "trash"}
                [] r.op = "empty" -> In("trash")
                [] OTHER -> {}
Becomes(r) == CASE r.op = "delete" -> "trash" [] r.op = "restore" -> "library" [] OTHER -> "purged"
Found(r) == r.op \in {"publish", "unpublish"} => r.ids \subseteq In("library")
LibServe(r) ==
    /\ r \in requests /\ r.answer = Nothing /\ Found(r)
    /\ shelf' = [a \in Everything |-> IF a \in Changes(r) THEN Becomes(r) ELSE shelf[a]]
    /\ public' = CASE r.op = "publish" -> public \cup r.ids
                   [] r.op = "unpublish" -> public \ r.ids
                   [] OTHER -> public
    /\ requests' = (requests \ {r}) \cup {[r EXCEPT !.answer = "ok", !.changed = Changes(r)]}
    /\ UNCHANGED <<elsewhere, looks, selected, box, agreed, toasts, uploads, acts>>

(* A delete takes its ids out of the selection and offers to undo it; that *)
(* of an asset's page goes to the library, from wherever the user is.      *)
Remaining(r) == selected \ r.ids
BoxAfter(r) == IF r.op = "restore" \/ ~r.mine THEN box ELSE Nothing
LibSettle(r) ==
    /\ r \in requests /\ r.answer = "ok" /\ requests' = requests \ {r}
    /\ box' = BoxAfter(r)
    /\ selected' = IF r.op = "delete" THEN Remaining(r) ELSE selected
    /\ toasts' = IF r.op = "delete" THEN toasts \cup {[undo |-> IF at \in Everything THEN {at} ELSE r.ids, took |-> r.changed]}
                 ELSE toasts
    /\ IF r.op = "delete" /\ r.from \in Everything
       THEN at' = "library" /\ reading' = Watched(RefreshedLists, ReadsBoth)
       ELSE at' = at /\ reading' = RefreshedLists
    /\ UNCHANGED <<stored, lists, agreed, uploads, acts>>

(* The request is refused, or it or its answer is lost: a toast, and the   *)
(* dialog stays.                                                           *)
LibLost(r) ==
    /\ r \in requests /\ (r.op = "delete" /\ "answers" \in KeptLibrary => r.answer = Nothing)
    /\ requests' = requests \ {r}
    /\ box' = IF box = Nothing THEN box ELSE [box EXCEPT !.busy = FALSE]
    /\ UNCHANGED <<stored, looks, selected, agreed, toasts, uploads, acts>>

-----------------------------------------------------------------------------
(* Uploads: presign, transfer, confirm.  The abort is listened to from the *)
(* start of the transfer to its end; an upload goes on when its page is    *)
(* left.                                                                   *)
Uploading == {"prepare", "transfer", "confirm", "made"}
Staged(f, stage) == uploads' = [uploads EXCEPT ![f].stage = stage]
AddFile(f) == /\ Act /\ uploads[f].stage = "none" /\ at \in ListKeys /\ box = Nothing /\ Staged(f, "prepare")
              /\ UNCHANGED <<stored, looks, selected, box, agreed, requests, toasts>>
Progresses(f) ==
    /\ \/ uploads[f].stage = "prepare" /\ Staged(f, "transfer")
       \/ uploads[f].stage = "transfer" /\ Staged(f, "confirm")
    /\ UNCHANGED <<stored, looks, selected, box, agreed, requests, toasts, acts>>
Completes(f) ==
    /\ uploads[f].stage = "confirm" /\ Staged(f, "made")
    /\ shelf' = [shelf EXCEPT ![f] = "library"]
    /\ UNCHANGED <<public, elsewhere, looks, selected, box, agreed, requests, toasts, acts>>
UploadEnds(f) ==
    /\ uploads[f].stage = "made" /\ Staged(f, "done") /\ reading' = RefreshedLists
    /\ UNCHANGED <<stored, at, lists, selected, box, agreed, requests, toasts, acts>>
UploadFails(f) ==
    /\ uploads[f].stage \in Uploading /\ Staged(f, "failed")
    /\ UNCHANGED <<stored, looks, selected, box, agreed, requests, toasts, acts>>
Aborts(stage) == stage = "transfer"
CancelUpload(f) ==
    /\ at \in ListKeys /\ box = Nothing /\ uploads[f].stage \in Uploading /\ ~uploads[f].cancelled
    /\ "transfer" \in KeptLibrary => uploads[f].stage = "transfer"
    /\ uploads' = [uploads EXCEPT ![f] = [stage |-> IF Aborts(@.stage) THEN "removed" ELSE @.stage, cancelled |-> TRUE]]
    /\ UNCHANGED <<stored, looks, selected, box, agreed, requests, toasts, acts>>
(* A second asset of a file whose first confirmation was lost is not       *)
(* followed.                                                               *)
RetryUpload(f) ==
    /\ Act /\ at \in ListKeys /\ uploads[f].stage = "failed" /\ shelf[f] = "unmade" /\ Staged(f, "prepare")
    /\ UNCHANGED <<stored, looks, selected, box, agreed, requests, toasts>>

LibraryNext ==
    \/ Elsewhere \/ LibGo \/ Toggle \/ Unselect \/ OpenBox \/ CloseBox \/ ConfirmBox
    \/ Unpublish \/ RestoreOne \/ Undo \/ ToastLeaves
    \/ \E k \in ListKeys : ListRead(k) \/ ListArrives(k)
    \/ \E r \in requests : LibServe(r) \/ LibSettle(r) \/ LibLost(r)
    \/ \E f \in Files : \/ AddFile(f) \/ Progresses(f) \/ Completes(f) \/ UploadEnds(f)
                        \/ UploadFails(f) \/ CancelUpload(f) \/ RetryUpload(f)

-----------------------------------------------------------------------------
LibraryTypeOK ==
    /\ shelf \in [Everything -> {"unmade", "library", "trash", "purged"}]
    /\ public \subseteq Everything /\ agreed \subseteq Everything /\ selected \subseteq Everything
    /\ at \in ListKeys \cup {"away"} \cup Everything
    /\ \A k \in ListKeys : lists[k] # Nothing => lists[k].ids \subseteq Everything
    /\ Cardinality(requests) <= MaxRequests

(* Emptying the trash purges nothing that the list, whose count the dialog *)
(* states, did not show when it was confirmed, though the server empties   *)
(* what is there by then (TrashView.tsx:17, 40, 74-83).                    *)
EmptiesWhatIsShown == \A r \in requests : r.op = "empty" => r.changed \subseteq r.shown

(* What a toast offers to undo is what its delete put into the trash: not  *)
(* less, and nothing that was there before (LibraryPage.tsx:93-102,        *)
(* AssetDetailPage.tsx:79-87).                                             *)
UndoesItsDelete == \A t \in toasts : t.undo = t.took

(* An asset is public only if publishing was confirmed for it on its page, *)
(* though one dialog serves whichever asset the page shows                 *)
(* (AssetDetailPage.tsx:66, 88-96, 316-325).                               *)
PublishedOnPurpose == public \subseteq agreed

(* An upload that was cancelled makes no asset (upload.ts:51-71,           *)
(* UploadDrawer.tsx:34-49).                                                *)
CancelledMakesNoAsset == \A f \in Files : uploads[f].cancelled => shelf[f] = "unmade"
=============================================================================
