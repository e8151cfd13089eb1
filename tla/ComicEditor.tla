----------------------------- MODULE ComicEditor -----------------------------
(***************************************************************************)
(* One window of the comic editor: a draft being edited with undo and redo *)
(* and a local backup, saved to the account under versions, and the        *)
(* generations it submits and follows (features/comic).  Another window of *)
(* the same account, the server and the queue are the environment.         *)
(*                                                                         *)
(* A document is what the properties tell apart: the story that a request  *)
(* is made of, the lettering (title, layers, canvas) that is drawn over    *)
(* it, the page, and the generation it waits for.  Stories and letterings  *)
(* are numbered in the order they are written.                             *)
(***************************************************************************)
EXTENDS Integers, Sequences

CONSTANTS
    Jobs,          \* keys a submission may use; the job of a key has its name
    Drafts,        \* identifiers of drafts in the account
    HistoryLimit,  \* HISTORY_LIMIT
    MaxEdits,      \* bound: changes a user makes
    MaxSaves,      \* bound: saves of drafts
    MaxTrouble,    \* bound: lost requests, changed prices, leaving the page, saves
                   \* and deletions in other windows
    Kept,          \* promises of the user that hold, a subset of Promises
    Nothing        \* null

ASSUME LimitAssumption == HistoryLimit \in Nat \ {0}
ASSUME BoundsAssumption == MaxEdits \in Nat /\ MaxSaves \in Nat /\ MaxTrouble \in Nat
\* "restores": a backup is restored only while no action is under way.
\* "uploads": another document is opened only while no reference is uploaded.
Promises == {"restores", "uploads"}
ASSUME KeptAssumption == Kept \subseteq Promises
ASSUME NothingAssumption == Nothing \notin Jobs \cup Drafts

VARIABLES
    doc, history, future,    \* live document, undo and redo stacks
    touched,                 \* live changed since the last save was sent
    saved, savedId, dirty,   \* saved.current, savedId, doc # savedDoc
    recovery,                \* the backup offered on arrival
    call,                    \* the action run() is executing
    conflict, quote, ask,    \* the three dialogs
    attempt,                 \* the submission whose key a retry reuses
    upload,                  \* the document a reference upload started from, its origin
    address,                 \* the draft that the page's address names
    backup, submission,      \* local storage of the account
    stored, job,             \* the account's drafts and jobs on the server
    edits, trouble, saves,   \* bounds
    origin, adrift, lost     \* history: the draft the document came from; it was
                             \* marked saved without having been stored; the last
                             \* request that made a job and was not answered

session == <<doc, history, future, touched, saved, savedId, dirty, recovery>>
dialogs == <<conflict, quote, ask>>
local == <<backup, submission>>
server == <<stored, job, saves>>
ghosts == <<origin, adrift, lost>>
vars == <<session, call, dialogs, attempt, upload, address, local, server, edits, trouble, ghosts>>

------------------------------------------------------------------------------
Imported == "imported"
Pages == Jobs \cup {Nothing, Imported}
Foreign == MaxEdits + 1   \* lettering written in another window
Documents == [story: 0..MaxEdits, art: 0..Foreign, page: Pages, pending: Jobs \cup {Nothing}]
Blank == [story |-> 0, art |-> 0, page |-> Nothing, pending |-> Nothing]
Base == [id: Drafts \cup {Nothing}, version: 0..MaxSaves]
Unsaved == [id |-> Nothing, version |-> 0]
Saved == [id: Drafts \cup {Nothing}, version: 0..MaxSaves, doc: Documents]
Uploads == [doc: Documents, home: Drafts \cup {Nothing}]
Request == [story: 0..MaxEdits, panel: BOOLEAN]
Attempt == [payload: Request, id: Jobs]
ASSUME RequestAssumption == Nothing \notin Request \cup Attempt
Ops == {"save", "copy", "keep", "open", "delete", "review", "submit", "import", "source", "page"}
Calls == [op: Ops, at: {"persist", "fetch", "get", "remove", "estimate", "create", "local"},
          held: {Nothing} \cup Documents, payload: {Nothing} \cup Request, asks: BOOLEAN, prior: Base,
          sent: {Nothing} \cup Documents, base: Base,
          reply: {"none", "ok", "lost", "gone", "refused", "conflict", "price_changed"},
          got: {Nothing} \cup Saved, shown: Drafts \cup {Nothing}, home: Drafts \cup {Nothing}]
Idle == [op |-> "none"]
Busy == call # Idle
Pending == doc.pending # Nothing

\* What a request for the whole page, or for one panel of it, is made of.
GenerationRequest(d, panel) == [story |-> d.story, panel |-> panel]

\* A page replaces the page, a panel is drawn into it.
ApplyGeneratedImage(d, j) ==
    [d EXCEPT !.page = IF job[j].payload.panel THEN @ ELSE j, !.pending = Nothing]
ImportPage(d) == [d EXCEPT !.page = Imported]

HasWork == doc.story # 0 \/ doc.art # 0 \/ doc.page # Nothing

\* The last n elements of a stack, as slice(-n) keeps them.
Last(s, n) == IF Len(s) <= n THEN s ELSE SubSeq(s, Len(s) - n + 1, Len(s))
Front(s) == SubSeq(s, 1, Len(s) - 1)

\* What change() keeps of the history before it adds the replaced document.
Trimmed(s) == Last(s, HistoryLimit - 1)

------------------------------------------------------------------------------
(* The document (useComicDraft)                                            *)

Change(next) ==
    /\ history' = Append(Trimmed(history), doc)
    /\ future' = <<>>
    /\ doc' = next
    /\ dirty' = TRUE /\ touched' = TRUE

\* A change that is not the user's: no undo step.
Adjust(next) == doc' = next /\ dirty' = TRUE /\ touched' = TRUE /\ UNCHANGED <<history, future>>

Init ==
    /\ doc = Blank /\ history = <<>> /\ future = <<>> /\ touched = FALSE
    /\ saved = Unsaved /\ savedId = Nothing /\ dirty = TRUE
    /\ recovery = Nothing /\ call = Idle
    /\ conflict = Nothing /\ quote = Nothing /\ ask = Nothing
    /\ attempt = Nothing /\ upload = Nothing /\ address = Nothing
    /\ backup = Nothing /\ submission = Nothing
    /\ stored = [d \in Drafts |-> [version |-> 0, doc |-> Blank, live |-> FALSE]]
    /\ job = [j \in Jobs |-> [status |-> "none", payload |-> [story |-> 0, panel |-> FALSE]]]
    /\ edits = 0 /\ trouble = 0 /\ saves = 0
    /\ origin = Nothing /\ adrift = FALSE /\ lost = Nothing

\* An open dialog keeps the page behind it out of reach.
NoDialog == conflict = Nothing /\ quote = Nothing /\ ask = Nothing
\* What the panels leave enabled.
StoryOffered == ~Busy /\ NoDialog
ToolsOffered == ~Pending /\ NoDialog
ReferencesOffered == ~Busy /\ ~Pending /\ NoDialog
GenerationOffered == ~Busy /\ ~Pending /\ NoDialog

\* The story is locked while an action runs, its references also while a
\* generation is pending; the quote no longer describes it.
EditStory ==
    /\ edits < MaxEdits /\ StoryOffered
    /\ edits' = edits + 1
    /\ Change([doc EXCEPT !.story = edits'])
    /\ quote' = Nothing
    /\ UNCHANGED <<saved, savedId, recovery, call, conflict, ask, attempt, upload, address, local, server, trouble, ghosts>>

\* Title and lettering can be edited at any time.
EditArt ==
    /\ edits < MaxEdits /\ NoDialog
    /\ edits' = edits + 1
    /\ Change([doc EXCEPT !.art = edits'])
    /\ quote' = Nothing
    /\ UNCHANGED <<saved, savedId, recovery, call, conflict, ask, attempt, upload, address, local, server, trouble, ghosts>>

Undo ==
    /\ history # <<>> /\ ToolsOffered
    /\ history' = Front(history)
    /\ future' = Append(future, doc)
    /\ doc' = [history[Len(history)] EXCEPT !.pending = doc.pending]
    /\ dirty' = TRUE /\ touched' = TRUE
    /\ UNCHANGED <<saved, savedId, recovery, call, dialogs, attempt, upload, address, local, server, edits, trouble, ghosts>>

Redo ==
    /\ future # <<>> /\ ToolsOffered
    /\ future' = Front(future)
    /\ history' = Append(history, doc)
    /\ doc' = [future[Len(future)] EXCEPT !.pending = doc.pending]
    /\ dirty' = TRUE /\ touched' = TRUE
    /\ UNCHANGED <<saved, savedId, recovery, call, dialogs, attempt, upload, address, local, server, edits, trouble, ghosts>>

\* The identity that saved.current takes on.
FormerIdentity(value) == saved               \* a faulty variant
Identity(value) == [id |-> value.id, version |-> value.version]

Activate(value, keepUndo) ==
    /\ "uploads" \in Kept => upload = Nothing
    /\ saved' = Identity(value)
    /\ savedId' = value.id
    /\ doc' = value.doc /\ touched' = TRUE
    /\ dirty' = (value.id = Nothing)
    /\ IF keepUndo THEN history' = Append(Trimmed(history), doc) /\ future' = <<>>
                   ELSE history' = <<>> /\ future' = <<>>
    /\ recovery' = Nothing
    /\ origin' = value.id

\* A reference upload is not an action of run(): the page stays usable, and the
\* result is put into the document the panel was drawn with, which then stands
\* there whatever draft has been opened meanwhile.
StartUpload ==
    /\ upload = Nothing /\ ReferencesOffered /\ edits < MaxEdits
    /\ upload' = [doc |-> doc, home |-> origin]
    /\ edits' = edits + 1
    /\ UNCHANGED <<session, call, dialogs, attempt, address, local, server, trouble, ghosts>>
FinishUpload ==
    /\ upload # Nothing
    /\ Change([upload.doc EXCEPT !.story = edits])
    /\ origin' = upload.home
    /\ upload' = Nothing /\ quote' = Nothing
    /\ UNCHANGED <<saved, savedId, recovery, call, conflict, ask, attempt, address, local, server, edits, trouble,
                   adrift, lost>>

------------------------------------------------------------------------------
(* Local storage, leaving and coming back                                  *)

BackupOf(value, base) == [id |-> base.id, version |-> base.version, doc |-> value]

\* The timer of the autosave; a backup waiting to be restored is not overwritten.
\* (Once the page can no longer be left, nobody reads the backup.)
Autosave ==
    /\ recovery = Nothing /\ trouble < MaxTrouble
    /\ backup' = BackupOf(doc, saved)
    /\ backup' # backup
    /\ UNCHANGED <<session, call, dialogs, attempt, upload, address, submission, server, edits, trouble, ghosts>>

DismissRecovery ==
    /\ recovery # Nothing /\ NoDialog
    /\ recovery' = Nothing
    /\ UNCHANGED <<doc, history, future, touched, saved, savedId, dirty, call, dialogs, attempt, upload, address, local, server, edits, trouble, ghosts>>

\* The button is there whatever else is going on.
Restore ==
    /\ recovery # Nothing /\ NoDialog
    /\ "restores" \in Kept => ~Busy
    /\ Activate(recovery, FALSE)
    /\ adrift' = TRUE
    /\ UNCHANGED <<call, dialogs, attempt, upload, address, local, server, edits, trouble, lost>>

\* What an action remembers of the moment it started: the draft, and by action the
\* document, the request, whether there was work to lose, the former identity.
Start(op, at) ==
    [op |-> op, at |-> at, held |-> Nothing, payload |-> Nothing, asks |-> FALSE, prior |-> Unsaved,
     sent |-> Nothing, base |-> Unsaved, reply |-> "none", got |-> Nothing, shown |-> savedId, home |-> origin]
Ask(c, at) == [c EXCEPT !.at = at, !.reply = "none"]

\* The page as it is mounted at an address: one that names a draft loads it.
Mount(d) ==
    /\ address' = d
    /\ doc' = Blank /\ history' = <<>> /\ future' = <<>> /\ touched' = FALSE
    /\ saved' = Unsaved /\ savedId' = Nothing /\ dirty' = TRUE
    /\ recovery' = backup'
    /\ call' = IF d = Nothing THEN Idle
               ELSE [Start("open", "get") EXCEPT !.base.id = d, !.shown = Nothing, !.home = Nothing]
    /\ conflict' = Nothing /\ quote' = Nothing /\ ask' = Nothing
    /\ attempt' = Nothing /\ upload' = Nothing
    /\ origin' = Nothing /\ adrift' = FALSE

\* The page is left and opened again, at the address of a draft or not.
\* beforeunload writes the backup in any case; a killed tab does not.
Leave ==
    /\ trouble < MaxTrouble
    /\ trouble' = trouble + 1
    /\ backup' \in {backup, BackupOf(doc, saved)}
    /\ \E d \in {Nothing} \cup {e \in Drafts: stored[e].version > 0}: Mount(d)
    /\ UNCHANGED <<submission, server, edits, lost>>

------------------------------------------------------------------------------
(* run(): one action at a time.  An action waits "at" a request until the  *)
(* server has answered or the network has failed.                          *)

\* persist(value) carries the document and the version known now.
Persist(c, value, base) == [Ask(c, "persist") EXCEPT !.sent = value, !.base = base]
\* Bounds: a new draft needs a name, and saves are counted.
SavesLeft == MaxSaves - saves
Room(base) == SavesLeft > 0 /\ (base.id = Nothing => \E d \in Drafts: stored[d].version = 0)

quiet == <<recovery, dialogs, attempt, upload, address, local, server, edits, trouble, ghosts>>

Save ==
    /\ ~Busy /\ NoDialog /\ Room(saved)
    /\ call' = Persist(Start("save", "persist"), doc, saved)
    /\ touched' = FALSE
    /\ UNCHANGED <<doc, history, future, saved, savedId, dirty, quiet>>

\* saveCopy forgets the identity before it saves and puts it back on failure.
BeginCopy ==
    /\ Room(Unsaved)
    /\ call' = Persist([Start("copy", "persist") EXCEPT !.prior = saved], doc, Unsaved)
    /\ saved' = Unsaved /\ touched' = FALSE
    /\ UNCHANGED <<doc, history, future, savedId, dirty>>
SaveCopy ==
    /\ ~Busy /\ NoDialog /\ BeginCopy
    /\ UNCHANGED quiet

\* The panels' files: a source replaces the story of the document the panel was
\* drawn with; a page is put into the live one; a draft is read and then guarded
\* by what was true when it was chosen.
ReadFile(op) ==
    /\ ~Busy /\ NoDialog /\ edits < MaxEdits /\ op \in {"source", "page", "import"}
    /\ op = "source" \/ ~Pending
    /\ call' = [Start(op, "local") EXCEPT !.held = IF op = "source" THEN doc ELSE Nothing, !.asks = op = "import" /\ HasWork /\ dirty]
    /\ edits' = edits + 1
    /\ UNCHANGED <<session, dialogs, attempt, upload, address, local, server, trouble, ghosts>>

NewDocument(d) == [id |-> Nothing, version |-> 0, doc |-> d]

FileRead ==
    /\ Busy /\ call.at = "local"
    /\ call' = Idle
    /\ \/ call.op = "source" /\ Change([call.held EXCEPT !.story = edits]) /\ quote' = Nothing
          /\ origin' = call.home
          /\ UNCHANGED <<saved, savedId, recovery, ask, adrift, lost>>
       \/ call.op = "page" /\ Change(ImportPage(doc)) /\ quote' = Nothing
          /\ UNCHANGED <<saved, savedId, recovery, ask, ghosts>>
       \/ /\ call.op = "import"
          /\ LET value == NewDocument([Blank EXCEPT !.story = edits]) IN
             IF call.asks
             THEN ask' = [kind |-> "import", value |-> value] /\ UNCHANGED <<session, ghosts>>
             ELSE Activate(value, FALSE) /\ adrift' = FALSE /\ UNCHANGED <<ask, lost>>
          /\ UNCHANGED quote
    /\ UNCHANGED <<conflict, attempt, upload, address, local, server, edits, trouble>>

\* New and switch ask first when there is work to lose, delete always does.
Guard(action) == /\ ~Busy /\ NoDialog
                 /\ action.kind # "delete" => ~Pending
                 /\ action.kind = "delete" => savedId # Nothing

\* What perform() does at once; the others become actions of run().
Perform(action) ==
    \/ /\ action.kind \in {"new", "import"}
       /\ Activate(action.value, FALSE) /\ adrift' = FALSE
       /\ UNCHANGED <<call, lost>>
    \/ /\ action.kind = "switch"
       /\ call' = [Start("open", "get") EXCEPT !.base.id = action.value.id]
       /\ UNCHANGED <<session, ghosts>>
    \/ /\ action.kind = "delete"
       /\ call' = [Start("delete", "remove") EXCEPT !.base.id = savedId]
       /\ UNCHANGED <<session, ghosts>>

Menu == [kind: {"new"}, value: {NewDocument(Blank)}]
        \cup [kind: {"switch"}, value: {[id |-> d, version |-> 0, doc |-> Blank] : d \in {e \in Drafts: stored[e].version > 0}}]
        \cup [kind: {"delete"}, value: {NewDocument(Blank)}]

Choose ==
    \E action \in Menu:
        /\ Guard(action)
        /\ IF action.kind = "delete" \/ (HasWork /\ dirty)
           THEN ask' = action /\ UNCHANGED <<session, call, ghosts>>
           ELSE Perform(action) /\ UNCHANGED ask
        /\ UNCHANGED <<conflict, quote, attempt, upload, address, local, server, edits, trouble>>

Answer ==
    /\ ask # Nothing
    /\ ask' = Nothing
    /\ \/ Perform(ask)
       \/ UNCHANGED <<session, call, ghosts>>
    /\ UNCHANGED <<conflict, quote, attempt, upload, address, local, server, edits, trouble>>

\* The three ways out of a conflict, and closing the dialog.
ResolveConflict ==
    /\ conflict # Nothing /\ ~Busy
    /\ conflict' = Nothing
    /\ \/ /\ Activate(conflict, TRUE) /\ adrift' = FALSE
          /\ UNCHANGED <<call, lost>>
       \/ BeginCopy /\ UNCHANGED <<recovery, ghosts>>
       \/ /\ saved.id # Nothing
          /\ call' = [Start("keep", "get") EXCEPT !.base = saved]
          /\ UNCHANGED <<session, ghosts>>
       \/ UNCHANGED <<session, call, ghosts>>
    /\ UNCHANGED <<quote, ask, attempt, upload, address, local, server, edits, trouble>>

\* Review asks the price of what would be sent now.
CanRedraw == doc.page # Nothing
Review(panel) ==
    /\ GenerationOffered
    /\ doc.story # 0
    /\ panel => CanRedraw
    /\ call' = [Start("review", "estimate") EXCEPT !.payload = GenerationRequest(doc, panel)]
    /\ UNCHANGED <<session, dialogs, attempt, upload, address, local, server, edits, trouble, ghosts>>

CancelQuote ==
    /\ quote # Nothing /\ conflict = Nothing /\ ~Busy
    /\ quote' = Nothing
    /\ UNCHANGED <<session, call, conflict, ask, attempt, upload, address, local, server, edits, trouble, ghosts>>

\* The key of a submission: the one kept for the same request, else a new one.
RememberedInMemory == attempt                      \* a faulty variant
Remembered == IF attempt # Nothing THEN attempt ELSE submission
Key(payload) ==
    IF Remembered # Nothing /\ Remembered.payload = payload THEN {Remembered.id}
    ELSE {j \in Jobs: job[j].status = "none" /\ \A a \in {attempt, submission}: a # Nothing => a.id # j}

\* Confirming the quote saves, submits, and saves again with the job to follow.
ConfirmQuote ==
    /\ quote # Nothing /\ conflict = Nothing /\ ~Busy
    /\ Room(saved) /\ SavesLeft > 1 /\ Key(quote) # {}
    /\ call' = Persist([Start("submit", "persist") EXCEPT !.payload = quote], doc, saved)
    /\ touched' = FALSE
    /\ UNCHANGED <<doc, history, future, saved, savedId, dirty, quiet>>

------------------------------------------------------------------------------
(* The server                                                              *)

Reply(r) == call' = [call EXCEPT !.reply = r]
ReplyWith(value) == call' = [call EXCEPT !.reply = "ok", !.got = value]
Snapshot(d) == [id |-> d, version |-> stored[d].version, doc |-> stored[d].doc]
unasked == <<session, dialogs, attempt, upload, address, local, edits, trouble, ghosts>>

\* A draft that waits for a deleted job is refused.
Unavailable(value) == value.pending # Nothing /\ job[value.pending].status = "deleted"

HandleSaveComic ==
    /\ Busy /\ call.at = "persist" /\ call.reply = "none"
    /\ LET base == call.base  value == call.sent IN
       \/ /\ Unavailable(value)
          /\ Reply("refused") /\ UNCHANGED <<stored, saves>>
       \/ /\ ~Unavailable(value)
          /\ \/ /\ base.id = Nothing
                /\ \E d \in Drafts:
                      /\ stored[d].version = 0
                      /\ stored' = [stored EXCEPT ![d] = [version |-> 1, doc |-> value, live |-> TRUE]]
                      /\ ReplyWith([id |-> d, version |-> 1, doc |-> value])
                /\ saves' = saves + 1
             \/ /\ base.id # Nothing /\ ~stored[base.id].live
                /\ Reply("gone") /\ UNCHANGED <<stored, saves>>
             \/ /\ base.id # Nothing /\ stored[base.id].live /\ stored[base.id].version # base.version
                /\ Reply("conflict") /\ UNCHANGED <<stored, saves>>
             \/ /\ base.id # Nothing /\ stored[base.id].live /\ stored[base.id].version = base.version
                /\ stored' = [stored EXCEPT ![base.id].version = @ + 1, ![base.id].doc = value]
                /\ ReplyWith([id |-> base.id, version |-> base.version + 1, doc |-> value])
                /\ saves' = saves + 1
    /\ UNCHANGED <<job, unasked>>

HandleGetComic ==
    /\ Busy /\ call.at \in {"get", "fetch"} /\ call.reply = "none"
    /\ LET d == IF call.at = "get" THEN call.base.id ELSE call.shown IN
       IF stored[d].live THEN ReplyWith(Snapshot(d)) ELSE Reply("gone")
    /\ UNCHANGED <<server, unasked>>

HandleDeleteComic ==
    /\ Busy /\ call.at = "remove" /\ call.reply = "none"
    /\ LET d == call.base.id IN
       /\ Reply(IF stored[d].live THEN "ok" ELSE "gone")
       /\ stored' = [stored EXCEPT ![d].live = FALSE]
    /\ UNCHANGED <<job, saves, unasked>>

HandleEstimate ==
    /\ Busy /\ call.at = "estimate" /\ call.reply = "none"
    /\ Reply("ok")
    /\ UNCHANGED <<server, unasked>>

\* The price is compared before the key is looked up; a key that has made a job
\* answers with that job.
HandleCreateJob ==
    /\ Busy /\ call.at = "create" /\ call.reply = "none"
    /\ LET j == attempt.id IN
       \/ job[j].status = "none" /\ Reply("ok")
          /\ job' = [job EXCEPT ![j] = [status |-> "running", payload |-> attempt.payload]]
          /\ lost' = attempt.payload /\ UNCHANGED trouble
       \/ Reply("price_changed") /\ UNCHANGED <<job, lost>>
          /\ trouble < MaxTrouble /\ trouble' = trouble + 1
       \/ job[j].status \in {"running", "succeeded", "failed"} /\ Reply("ok") /\ UNCHANGED <<job, lost, trouble>>
       \/ job[j].status = "deleted" /\ Reply("refused") /\ UNCHANGED <<job, lost, trouble>>
    /\ UNCHANGED <<stored, saves, session, dialogs, attempt, upload, address, local, edits, origin, adrift>>

\* A request or its answer is lost on the way.
Disconnect ==
    /\ Busy /\ call.at # "local" /\ call.reply # "lost" /\ trouble < MaxTrouble
    /\ trouble' = trouble + 1
    /\ call' = [call EXCEPT !.reply = "lost", !.got = Nothing]
    /\ UNCHANGED <<session, dialogs, attempt, upload, address, local, server, edits, ghosts>>

\* Another window of the account saves or deletes a draft; its backup goes to the
\* same place.
Elsewhere(d) ==
    /\ stored[d].live /\ trouble < MaxTrouble
    /\ trouble' = trouble + 1
    /\ \/ /\ SavesLeft > 0 /\ saves' = saves + 1
          /\ stored' = [stored EXCEPT ![d].version = @ + 1, ![d].doc.art = Foreign]
          /\ backup' \in {backup, BackupOf(stored'[d].doc, [id |-> d, version |-> stored'[d].version])}
       \/ stored' = [stored EXCEPT ![d].live = FALSE] /\ UNCHANGED <<backup, saves>>
    /\ UNCHANGED <<session, call, dialogs, attempt, upload, address, submission, job, edits, ghosts>>

JobEnds(j) ==
    /\ job[j].status = "running"
    /\ \E s \in {"succeeded", "failed"}: job' = [job EXCEPT ![j].status = s]
    /\ UNCHANGED <<stored, saves, call, unasked>>
\* Jobs that have ended can be deleted in the task center.
JobDeleted(j) ==
    /\ job[j].status \in {"succeeded", "failed"} /\ trouble < MaxTrouble
    /\ trouble' = trouble + 1
    /\ job' = [job EXCEPT ![j].status = "deleted"]
    /\ UNCHANGED <<stored, saves, call, session, dialogs, attempt, upload, address, local, edits, ghosts>>

------------------------------------------------------------------------------
(* What the answers do                                                     *)

Answered(at) == Busy /\ call.at = at /\ call.reply # "none"
Finish == call' = Idle

\* Whether the document on the screen is another one than the one just saved.
SavedAnyway == FALSE                         \* a faulty variant
Edited == touched

\* The draft a document belongs to, after the one on the screen was saved as a new one.
Home(d) == IF call.base.id = Nothing /\ d = call.home THEN call.got.id ELSE d

\* markSaved, with the backup it writes.
MarkSaved ==
    /\ saved' = [id |-> call.got.id, version |-> call.got.version]
    /\ savedId' = call.got.id
    /\ dirty' = Edited
    /\ backup' = BackupOf(doc, saved')
    /\ origin' = Home(origin)
    /\ upload' = IF upload = Nothing THEN Nothing ELSE [upload EXCEPT !.home = Home(@)]
    /\ adrift' = FALSE

SaveAnswered ==
    /\ Answered("persist") /\ call.reply = "ok"
    /\ MarkSaved
    /\ \/ call.op \in {"save", "copy", "keep"} /\ Finish /\ UNCHANGED <<quote, attempt, submission, lost>>
       \/ /\ call.op = "submit" /\ call.payload # Nothing
          /\ \E j \in Key(call.payload):
                /\ attempt' = [payload |-> call.payload, id |-> j]
                /\ submission' = attempt'
          /\ lost' = IF lost = call.payload THEN lost ELSE Nothing
          /\ call' = Ask(call, "create") /\ UNCHANGED quote
       \/ /\ call.op = "submit" /\ call.payload = Nothing
          /\ Finish /\ quote' = Nothing
          /\ UNCHANGED <<attempt, submission, lost>>
    /\ UNCHANGED <<doc, history, future, touched, recovery, conflict, ask, address, server, edits, trouble>>

Conflicting == call.reply = "conflict"

SaveFailed ==
    /\ Answered("persist") /\ call.reply # "ok"
    /\ saved' = IF call.op = "copy" THEN call.prior ELSE saved
    /\ IF Conflicting /\ call.shown # Nothing THEN call' = Ask(call, "fetch") ELSE Finish
    /\ UNCHANGED <<doc, history, future, touched, savedId, dirty, quiet>>

\* The conflict dialog shows the server's copy.
ConflictFetched ==
    /\ Answered("fetch")
    /\ Finish
    /\ conflict' = IF call.reply = "ok" THEN call.got ELSE conflict
    /\ UNCHANGED <<session, quote, ask, attempt, upload, address, local, server, edits, trouble, ghosts>>

Opened ==
    /\ Answered("get")
    /\ \/ call.op = "open" /\ call.reply = "ok" /\ Finish /\ Activate(call.got, FALSE) /\ adrift' = FALSE
          /\ UNCHANGED lost
       \/ /\ call.op = "keep" /\ call.reply = "ok"
          /\ saved' = [id |-> call.got.id, version |-> call.got.version]
          /\ IF Room(saved') THEN call' = Persist(call, doc, saved') ELSE Finish
          /\ touched' = FALSE
          /\ adrift' = TRUE
          /\ UNCHANGED <<doc, history, future, savedId, dirty, recovery, origin, lost>>
       \/ call.reply # "ok" /\ Finish /\ UNCHANGED <<session, ghosts>>
    /\ UNCHANGED <<dialogs, attempt, upload, address, local, server, edits, trouble>>

\* At the address of a draft the page is left for the one without.
Removed ==
    /\ Answered("remove")
    /\ UNCHANGED <<local, server, edits, trouble, lost>>
    /\ \/ call.reply = "ok" /\ address = Nothing
          /\ Finish /\ Activate(NewDocument(Blank), FALSE) /\ adrift' = FALSE
          /\ UNCHANGED <<dialogs, attempt, upload, address>>
       \/ call.reply = "ok" /\ address # Nothing /\ Mount(Nothing)
       \/ call.reply # "ok" /\ Finish /\ UNCHANGED <<session, dialogs, attempt, upload, address, origin, adrift>>

Estimated ==
    /\ Answered("estimate")
    /\ Finish
    /\ quote' = IF call.reply = "ok" THEN call.payload ELSE quote
    /\ UNCHANGED <<session, conflict, ask, attempt, upload, address, local, server, edits, trouble, ghosts>>

\* A changed price closes the quote; the new review that is asked for at once is
\* refused, because the action that asks for it is still running.
JobCreated ==
    /\ Answered("create")
    /\ \/ /\ call.reply = "ok"
          /\ LET next == [doc EXCEPT !.pending = attempt.id] IN
             /\ doc' = next /\ dirty' = TRUE /\ touched' = FALSE
             /\ IF Room(saved) THEN call' = [Persist(call, next, saved) EXCEPT !.payload = Nothing] ELSE Finish
          /\ attempt' = Nothing /\ submission' = Nothing /\ lost' = Nothing
          /\ UNCHANGED <<history, future, saved, savedId, recovery, quote>>
       \/ /\ call.reply # "ok"
          /\ Finish
          /\ quote' = IF call.reply = "price_changed" THEN Nothing ELSE quote
          /\ UNCHANGED <<session, attempt, submission, lost>>
    /\ UNCHANGED <<conflict, ask, upload, address, backup, server, edits, trouble, origin, adrift>>

\* The poll of the job the document waits for; any other answer is asked again.
PollEnded ==
    /\ Pending
    /\ \/ job[doc.pending].status = "succeeded" /\ Change(ApplyGeneratedImage(doc, doc.pending))
       \/ job[doc.pending].status = "failed" /\ Adjust([doc EXCEPT !.pending = Nothing])
    /\ UNCHANGED <<saved, savedId, recovery, call, dialogs, attempt, upload, address, local, server, edits, trouble, ghosts>>

------------------------------------------------------------------------------
Handle == HandleSaveComic \/ HandleGetComic \/ HandleDeleteComic \/ HandleEstimate \/ HandleCreateJob
Receive == SaveAnswered \/ SaveFailed \/ ConflictFetched \/ Opened \/ Removed \/ Estimated \/ JobCreated \/ FileRead
User == \/ EditStory \/ EditArt \/ Undo \/ Redo \/ StartUpload
        \/ DismissRecovery \/ Restore \/ Leave
        \/ Save \/ SaveCopy \/ Choose \/ Answer \/ ResolveConflict
        \/ \E op \in Ops: ReadFile(op)
        \/ \E panel \in BOOLEAN: Review(panel)
        \/ CancelQuote \/ ConfirmQuote
Environment == Disconnect \/ (\E d \in Drafts: Elsewhere(d)) \/ (\E j \in Jobs: JobEnds(j) \/ JobDeleted(j))
Next == User \/ Autosave \/ FinishUpload \/ Handle \/ Receive \/ PollEnded \/ Environment
Spec == Init /\ [][Next]_vars

------------------------------------------------------------------------------
(* Properties                                                              *)

TypeOK ==
    /\ doc \in Documents /\ history \in Seq(Documents) /\ future \in Seq(Documents)
    /\ touched \in BOOLEAN /\ dirty \in BOOLEAN
    /\ saved \in Base /\ savedId \in Drafts \cup {Nothing}
    /\ recovery \in {Nothing} \cup Saved /\ backup \in {Nothing} \cup Saved
    /\ call \in Calls \cup {Idle}
    /\ conflict \in {Nothing} \cup Saved /\ quote \in {Nothing} \cup Request
    /\ attempt \in {Nothing} \cup Attempt /\ submission \in {Nothing} \cup Attempt
    /\ upload \in {Nothing} \cup Uploads /\ address \in Drafts \cup {Nothing}
    /\ stored \in [Drafts -> [version: 0..MaxSaves, doc: Documents, live: BOOLEAN]]
    /\ job \in [Jobs -> [status: {"none", "running", "succeeded", "failed", "deleted"}, payload: Request]]
    /\ edits \in 0..MaxEdits /\ trouble \in 0..MaxTrouble /\ saves \in 0..(MaxSaves + 1)
    /\ origin \in Drafts \cup {Nothing} /\ adrift \in BOOLEAN /\ lost \in {Nothing} \cup Request

\* Undo and redo together never hold more than HISTORY_LIMIT documents, although
\* only change() trims: moving between the stacks cannot outgrow it.
UndoBounded == Len(history) + Len(future) <= HistoryLimit

\* When the header says "saved to your account", it is: unless somebody saved the
\* draft since, the account holds this very document, whatever was edited, answered
\* or lost meanwhile.  Two documents are left out, until their next save succeeds: a
\* backup that was restored, which is marked saved and never was (the Restore button
\* of ComicWorkspace, activate), and one whose overwrite took over the version of
\* the server's copy and then failed (overwrite): adrift.
CleanIsStored ==
    ~dirty /\ ~adrift /\ saved.id # Nothing /\ stored[saved.id].version = saved.version
        => stored[saved.id].doc = doc

\* A save goes to the draft its document came from, through copies that fail,
\* switches while a save is on its way, uploads that end late and deletions elsewhere.
SavesItsOwn == saved.id # Nothing => saved.id = origin

\* The conflict dialog only opens on a newer copy of the draft being edited.
ConflictIsReal == conflict # Nothing => conflict.id = saved.id /\ conflict.version > saved.version

\* However saves, copies, imports, restores, uploads and conflicts follow each other,
\* the editor knows which draft and which version it holds, and its history is
\* bounded, as long as the user keeps the promises.
EditorAgrees == TypeOK /\ UndoBounded /\ SavesItsOwn /\ ConflictIsReal

\* A submission whose answer was lost is not paid twice: as long as nothing else is
\* submitted, sending the same request again makes no second job, not even after
\* the page was left.
NoSecondJob ==
    [][\A j \in Jobs: job[j].status = "none" /\ job'[j].status # "none" => job'[j].payload # lost]_vars
==============================================================================
