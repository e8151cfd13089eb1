----------------------------- MODULE TaskPages -----------------------------
(***************************************************************************)
(* The task center and the page of one job: what they load, how the stream *)
(* and polling keep it fresh, and the dialogs that rename, cancel, delete  *)
(* or retry a job while the server moves jobs on and the browser's history *)
(* moves between pages.  The server's jobs are reduced to their statuses;  *)
(* the tiles of the filter to "all", "needs_review" and "active".          *)
(***************************************************************************)
EXTENDS Integers, FiniteSets, Queries

CONSTANTS
    Jobs,
    PinLimit,      \* jobs in the pinned list (20 in the code)
    StartVisits,   \* where the user comes in, and the jobs then: a set of records
    MaxMoves,      \* bound: changes that the server makes to jobs
    MaxTurns,      \* bound: pages turned to, calls, and changes of the connection
    MaxTaskCalls,  \* bound: calls of the user under way at once
    KeptTasks      \* promises about the user and the network, see the guards

ASSUME TaskAssumption ==
    /\ Jobs \cap {"center", "away", "all", "needs_review", "active"} = {} /\ IsFiniteSet(Jobs)
    /\ PinLimit \in Nat \ {0} /\ MaxMoves \in Nat /\ MaxTurns \in Nat /\ MaxTaskCalls \in Nat \ {0}
    /\ KeptTasks \subseteq {"dialogs", "loads", "shapes", "answers"}

VARIABLES
    state,         \* the server's jobs
    moves,         \* how often the server moved one
    online,        \* the event stream is open
    news,          \* events that were not applied yet
    turns,         \* pages turned to, calls, and changes of the connection
    where,         \* the task center, the page of a job, or elsewhere
    view,          \* the tile chosen in the task center
    listed,        \* what each query has cached
    loads,         \* and the load under way
    dialog,        \* the dialog that is open
    sent           \* calls that were sent

served == <<state, moves, online, news>>
screen == <<turns, where, view, listed, loads>>
taskVars == <<served, screen, dialog, sent>>

(* A job with nothing running ends as soon as it is stopped. *)
ACTIVE_BUT_CANCELLING == {"queued", "running", "awaiting_review"}
ACTIVE == {"queued", "running", "awaiting_review", "cancelling"}
TERMINAL == {"succeeded", "failed", "cancelled"}
ASSUME NothingInTasks ==
    /\ Nothing \notin Jobs \cup {"ok", "refused"}
    /\ LET shapes == {"one", "page", "pages"}
           answers == [shape : shapes, rows : SUBSET [job : Jobs, status : ACTIVE \cup TERMINAL]]
       IN Nothing \notin answers /\ Nothing \notin [shape : shapes, answer : {Nothing} \cup answers]
ASSUME StartsTyped ==
    \A v \in StartVisits : /\ v.where \in {"center", "away"} \cup Jobs
                           /\ v.state \in [Jobs -> ACTIVE \cup TERMINAL \cup {"unmade", "gone"}]
Moves(s) == CASE s = "unmade" -> {"queued"}
              [] s = "queued" -> {"running", "cancelling", "failed"}
              [] s = "running" -> {"awaiting_review", "succeeded", "failed", "cancelling"}
              [] s = "awaiting_review" -> {"running", "cancelling", "failed"}
              [] s = "cancelling" -> {"cancelled", "failed"}
              [] OTHER -> {}

(* Filters and rows.  "All" leaves out what is pinned above it, and the    *)
(* pinned list is the first page of the needs_review bucket.               *)
Views == {"all", "needs_review", "active"}
Listed(v) == CASE v = "all" -> {"queued", "running", "cancelling"} \cup TERMINAL
               [] v = "needs_review" -> {"awaiting_review"}
               [] v = "active" -> {"queued", "running", "cancelling"}
FirstPage(rows) == IF Cardinality(rows) <= PinLimit THEN rows
                   ELSE CHOOSE some \in SUBSET rows : Cardinality(some) = PinLimit
RowsOf(js) == {[job |-> j, status |-> state[j]] : j \in js}
AnswerOf(q, shape) ==
    LET rows == IF q \in Jobs THEN {j \in {q} : state[j] \notin {"unmade", "gone"}}
                ELSE {j \in Jobs : state[j] \in Listed(q)}
    IN [shape |-> shape, rows |-> RowsOf(IF shape = "page" THEN FirstPage(rows) ELSE rows)]

TaskQueries == Views \cup Jobs
Watches(place, v) ==
    CASE place = "center" /\ v = "all" -> [q \in {"all", "needs_review"} |-> IF q = "all" THEN "pages" ELSE "page"]
      [] place = "center" /\ v # "all" -> [q \in {v} |-> "pages"]
      [] place \in Jobs -> [q \in {place} |-> "one"]
      [] OTHER -> [q \in {} |-> "one"]
watch == Watches(where, view)

TaskInit ==
    /\ \E v \in StartVisits : state = v.state /\ where = v.where
    /\ moves = 0 /\ turns = 0
    /\ online = TRUE /\ news = FALSE
    /\ view = "all"
    /\ listed = [q \in TaskQueries |-> Nothing] /\ loads = Watched(listed, Watches(where, view))
    /\ dialog = Nothing /\ sent = {}

(* The answer of a first load, or of one that nothing watches, is not      *)
(* replaced when a change is announced.                                    *)
LoadsUndisturbed ==
    "loads" \in KeptTasks => \A q \in TaskQueries : ~Uncancelled(loads, listed, watch, q)

-----------------------------------------------------------------------------
(* The server, and the stream that tells of it; deleting a job does not    *)
(* send an event.                                                          *)
JobMoves ==
    /\ moves < MaxMoves /\ LoadsUndisturbed
    /\ \E j \in Jobs : \E s \in Moves(state[j]) : state' = [state EXCEPT ![j] = s]
    /\ moves' = moves + 1 /\ news' = TRUE
    /\ UNCHANGED <<online, screen, dialog, sent>>

OnlyTheDetails == Jobs                       \* a faulty variant
JobQueries == TaskQueries
Refreshed == Invalidated(loads, listed, watch, JobQueries)
Deliver == /\ online /\ news /\ LoadsUndisturbed
           /\ news' = FALSE
           /\ loads' = Refreshed
           /\ UNCHANGED <<state, moves, online, turns, where, view, listed, dialog, sent>>

Turn == turns < MaxTurns /\ turns' = turns + 1
Connection == /\ Turn /\ online' = ~online
              /\ UNCHANGED <<state, moves, news, where, view, listed, loads, dialog, sent>>

(* While the stream is down a job's page polls, as long as the job it      *)
(* shows is not over.                                                      *)
NotCancelling == ACTIVE_BUT_CANCELLING       \* a faulty variant
Polled == ACTIVE
StatusShown(j) == {r.status : r \in listed[j].rows}
Poll == /\ where \in Jobs /\ ~online
        /\ listed[where] # Nothing /\ loads[where] = Nothing
        /\ StatusShown(where) \subseteq Polled
        /\ loads' = [loads EXCEPT ![where] = Load("one")]
        /\ UNCHANGED <<served, turns, where, view, listed, dialog, sent>>

TaskRead(q) ==
    /\ loads[q] # Nothing /\ loads[q].answer = Nothing
    /\ loads' = [loads EXCEPT ![q].answer = AnswerOf(q, loads[q].shape)]
    /\ UNCHANGED <<served, turns, where, view, listed, dialog, sent>>

(* Rows are keyed by the job's id: the dialog of a row that is gone closes *)
(* with it.  A job that is not found leaves what was shown.                *)
OfTheList(d, rows) == {r \in rows : r.job = d.row}
RowDialog(d, rows) == IF d = Nothing \/ d.row = Nothing \/ OfTheList(d, rows) # {} THEN d ELSE Nothing
TaskArrives(q) ==
    /\ loads[q] # Nothing /\ loads[q].answer # Nothing
    /\ LET answer == loads[q].answer
       IN /\ listed' = IF answer.rows = {} /\ q \in Jobs THEN listed ELSE [listed EXCEPT ![q] = answer]
          /\ dialog' = IF dialog # Nothing /\ dialog.list = q THEN RowDialog(dialog, answer.rows) ELSE dialog
    /\ loads' = [loads EXCEPT ![q] = Nothing]
    /\ UNCHANGED <<served, turns, where, view, sent>>

(* What no page watches is dropped after a while. *)
Idle(q) == q \notin DOMAIN watch /\ loads[q] = Nothing
Dropped == /\ \E q \in TaskQueries : Idle(q) /\ listed[q] # Nothing
           /\ listed' = [q \in TaskQueries |-> IF Idle(q) THEN Nothing ELSE listed[q]]
           /\ UNCHANGED <<served, turns, where, view, loads, dialog, sent>>

-----------------------------------------------------------------------------
(* The user.  A dialog is modal, so that only the history leaves a page    *)
(* under it; the page of a job keeps its dialog for the next job.          *)
Fits(place, v) ==
    "shapes" \in KeptTasks =>
        LET w == Watches(place, v)
        IN \A q \in DOMAIN w : \A kept \in {listed[q], loads[q]} : kept # Nothing => kept.shape = w[q]
Shows(place, v) ==
    /\ Fits(place, v)
    /\ where' = place /\ view' = v
    /\ loads' = Watched(loads, Watches(place, v))
    /\ UNCHANGED listed
Follows(place) == IF place \in Jobs /\ where \in Jobs THEN dialog ELSE Nothing

Tour == IF where = "away" \/ view # "all" THEN {"away", "center"} ELSE {"center"} \cup Jobs
Go == /\ Turn /\ ("dialogs" \in KeptTasks => dialog = Nothing)
      /\ \E place \in Tour :
           /\ place # where /\ (place \in Jobs => state[place] \notin {"unmade", "gone"})
           /\ Shows(place, view) /\ dialog' = Follows(place)
      /\ UNCHANGED <<served, sent>>
SetView == /\ Turn /\ where = "center" /\ dialog = Nothing
           /\ \E v \in Views \ {view} : Shows("center", v)
           /\ UNCHANGED <<served, dialog, sent>>

Offers(status) == {"rename"} \cup (IF status \in ACTIVE_BUT_CANCELLING THEN {"cancel"} ELSE {})
                             \cup (IF status \in TERMINAL THEN {"delete"} ELSE {})
Opened(kind, j, row, list) == [kind |-> kind, job |-> j, row |-> row, list |-> list, busy |-> FALSE]
OpenDialog ==
    /\ dialog = Nothing
    /\ "dialogs" \in KeptTasks => \A c \in sent : c.kind # "retry"
    /\ \E q \in DOMAIN watch : listed[q] # Nothing /\ \E r \in listed[q].rows : \E kind \in Offers(r.status) :
         dialog' = IF where = "center" THEN Opened(kind, r.job, r.job, q) ELSE Opened(kind, r.job, Nothing, Nothing)
    /\ UNCHANGED <<served, screen, sent>>

(* Only a rename on the job's page can be closed while it is being saved. *)
Dismiss == /\ dialog # Nothing /\ (dialog.busy => dialog.kind = "rename" /\ dialog.row = Nothing)
           /\ dialog' = Nothing
           /\ UNCHANGED <<served, screen, sent>>

Call(kind, j, opened) == [kind |-> kind, job |-> j, opened |-> opened, from |-> where, made |-> Nothing, answer |-> Nothing]
Target == IF where \in Jobs THEN where ELSE dialog.row
Confirm ==
    /\ Turn /\ dialog # Nothing /\ ~dialog.busy /\ Cardinality(sent) < MaxTaskCalls
    /\ dialog' = [dialog EXCEPT !.busy = TRUE]
    /\ sent' = sent \cup {Call(dialog.kind, Target, dialog.job)}
    /\ UNCHANGED <<served, where, view, listed, loads>>

(* The failure's card and the list of steps each have a button, and wait   *)
(* for their own call only.                                                *)
Retry ==
    /\ Turn /\ where \in Jobs /\ dialog = Nothing /\ Cardinality(sent) < MaxTaskCalls
    /\ listed[where] # Nothing /\ StatusShown(where) = {"failed"}
    /\ sent' = sent \cup {Call("retry", where, where)}
    /\ UNCHANGED <<served, where, view, listed, loads, dialog>>

Gone(c) == state[c.job] = "gone"
Answers(c, s, made, answer) ==
    /\ state' = s /\ sent' = (sent \ {c}) \cup {[c EXCEPT !.answer = answer, !.made = made]}
Serve(c) ==
    /\ c \in sent /\ c.answer = Nothing /\ LoadsUndisturbed
    /\ \/ Gone(c) /\ Answers(c, state, Nothing, "refused") /\ UNCHANGED news
       \/ ~Gone(c) /\ c.kind = "rename" /\ Answers(c, state, Nothing, "ok") /\ UNCHANGED news
       \/ /\ ~Gone(c) /\ c.kind = "cancel"
          /\ IF state[c.job] \in ACTIVE
             THEN /\ \E s \in {"cancelling", "cancelled"} : Answers(c, [state EXCEPT ![c.job] = s], Nothing, "ok")
                  /\ news' = TRUE
             ELSE Answers(c, state, Nothing, "ok") /\ UNCHANGED news
       \/ /\ ~Gone(c) /\ c.kind = "delete" /\ UNCHANGED news
          /\ IF state[c.job] \in TERMINAL
             THEN Answers(c, [state EXCEPT ![c.job] = "gone"], Nothing, "ok")
             ELSE Answers(c, state, Nothing, "refused")
       \/ /\ ~Gone(c) /\ c.kind = "retry" /\ state[c.job] = "failed"
          /\ \E j \in Jobs : state[j] = "unmade" /\ Answers(c, [state EXCEPT ![j] = "queued"], j, "ok")
          /\ news' = TRUE
    /\ UNCHANGED <<moves, online, screen, dialog>>

(* A call that is done goes on where its page left off, wherever the user  *)
(* is by now: a job's page closes its dialog, a deleted job's page goes to *)
(* the task center, a retry to the new job.                                *)
DialogAfter(c) == IF dialog # Nothing /\ dialog.row = (IF c.from \in Jobs THEN Nothing ELSE c.job)
                  THEN Nothing ELSE dialog
CallSettles(c) ==
    /\ c \in sent /\ c.answer # Nothing /\ LoadsUndisturbed /\ sent' = sent \ {c}
    /\ \/ /\ c.answer = "refused"
          /\ dialog' = IF dialog = Nothing THEN dialog ELSE [dialog EXCEPT !.busy = FALSE]
          /\ UNCHANGED screen
       \/ /\ c.answer = "ok" /\ c.kind = "retry"
          /\ dialog' = Follows(c.made) /\ UNCHANGED turns
          /\ Shows(c.made, view)
       \/ /\ c.answer = "ok" /\ c.kind = "delete" /\ c.from \in Jobs
          /\ dialog' = Follows("center")
          /\ Fits("center", view) /\ where' = "center"
          /\ loads' = Watched(Refreshed, Watches("center", view))
          /\ UNCHANGED <<turns, view, listed>>
       \/ /\ c.answer = "ok" /\ c.kind # "retry" /\ ~(c.kind = "delete" /\ c.from \in Jobs)
          /\ dialog' = DialogAfter(c) /\ loads' = Refreshed
          /\ UNCHANGED <<turns, where, view, listed>>
    /\ UNCHANGED served

(* The request or its answer is lost: the dialog can be confirmed again. *)
CallLost(c) == /\ c \in sent /\ ("answers" \in KeptTasks => c.answer = Nothing)
               /\ sent' = sent \ {c}
               /\ dialog' = IF dialog = Nothing THEN dialog ELSE [dialog EXCEPT !.busy = FALSE]
               /\ UNCHANGED <<served, screen>>

TaskReads == \E q \in TaskQueries : TaskRead(q)
TaskArrivals == \E q \in TaskQueries : TaskArrives(q)
TaskNext == \/ JobMoves \/ Deliver \/ Connection \/ Poll \/ TaskReads \/ TaskArrivals \/ Dropped
            \/ Go \/ SetView \/ OpenDialog \/ Dismiss \/ Confirm \/ Retry
            \/ \E c \in sent : Serve(c) \/ CallSettles(c) \/ CallLost(c)

(* Loads are answered while the page waits for them, and a timer polls. *)
TaskFairness == WF_taskVars(TaskReads) /\ WF_taskVars(TaskArrivals) /\ WF_taskVars(Poll)

-----------------------------------------------------------------------------
TaskTypeOK ==
    /\ state \in [Jobs -> ACTIVE \cup TERMINAL \cup {"unmade", "gone"}] /\ moves \in 0..MaxMoves
    /\ online \in BOOLEAN /\ news \in BOOLEAN
    /\ where \in {"center", "away"} \cup Jobs /\ view \in Views
    /\ \A q \in TaskQueries : /\ listed[q] # Nothing => listed[q].shape \in {"one", "page", "pages"}
                              /\ loads[q] # Nothing => loads[q].shape \in {"one", "page", "pages"}
    /\ Cardinality(sent) <= MaxTaskCalls

(* A call renames, cancels, deletes or retries the job its dialog was      *)
(* opened on, though the dialog's job is whichever its page or row shows   *)
(* when it is confirmed, and rows come and go (TaskActions.tsx:15-50,      *)
(* TaskItem.tsx:156-164, JobDetailPage.tsx:214-236).                       *)
ActsWhereOpened == \A c \in sent : c.job = c.opened

Settled == online /\ ~news /\ sent = {} /\ \A q \in TaskQueries : loads[q] = Nothing
ListsShown == {listed[q].rows : q \in DOMAIN watch}
Exists(j) == state[j] \notin {"unmade", "gone"}

(* When everything sent has been dealt with, the task center shows each    *)
(* job exactly once in "all", pinned or not, with the status it has on the *)
(* server: two lists loaded apart neither lose nor repeat one, and each is *)
(* of the shape the page reads, or the page would break down               *)
(* (filters.ts:44-59, applyEvent.ts:9-13, TaskCenter.tsx:50-61).           *)
EachTaskOnce ==
    (Settled /\ where = "center" /\ view = "all" /\ Cardinality({j \in Jobs : state[j] = "awaiting_review"}) <= PinLimit)
        => \A j \in Jobs :
             /\ Cardinality({q \in DOMAIN watch : \E r \in listed[q].rows : r.job = j}) = IF Exists(j) THEN 1 ELSE 0
             /\ \A q \in DOMAIN watch :
                  /\ listed[q].shape = watch[q]
                  /\ \A r \in listed[q].rows : r.job = j => r.status = state[j]

(* And the page of a job shows the status the job has. *)
ShowsTruth(j) == Exists(j) => listed[j] # Nothing /\ listed[j].rows = RowsOf({j})

(* The page of a job that is open while the stream is down comes to show   *)
(* the job's status by polling, and stops only at the end of the job       *)
(* (JobDetailPage.tsx:224-226).                                            *)
PollsWhileDown ==
    \A j \in Jobs : <>[](where = j /\ ~online) => <>[]ShowsTruth(j)
=============================================================================
