# Framescape models

TLA+ models of Framescape: what its orchestrator, its workers and its credit
accounts do in every order the database, the queue and the operating system
allow, and what its site does around them in every order a browser's history, a
query cache, timers and answers that are late, lost or repeated allow. Checked
with TLC on small instances; every safety property of the passing runs is also
proved with TLAPS, for every plan, every number of workers, jobs, callers,
requests, drafts and records, and every bound. Liveness is checked by TLC only.

Start with `JobGraph.tla`, then `NodeLease.tla`; `NodeLife.tla` is the small
specification they share, and `JobContract.tla` is what the owner of a job may
rely on. Of the site, start with `EventStream.tla`, which runs from the
transaction that ends a job to the page that shows it, and `Submission.tla`,
which runs the other way.

## The system

A request becomes a *job*: a directed acyclic graph of *nodes* (a prompt to
enhance, an image, a clip, a page to compose, a review to wait for). The API
writes job, nodes and a credit *reservation* in one transaction. Workers take
messages from a queue (asynq on Redis), claim a node in the database with a
*lease*, execute it against a provider or locally, and record the outcome in a
transaction that also releases dependents, settles credits and, when nothing is
left alive, ends the job. A *sweeper* in every worker repairs what crashes and
lost messages leave behind. Events written in these transactions reach the
browser through Redis, a *hub* in every API process and server-sent events; the
site then loads again the queries an event touches.

| Component | State | Operations | Hard because |
| --- | --- | --- | --- |
| Job graph (`orchestrator/store.go`, `submit.go`, finish and sweeper transactions of `runner.go`, `sweeper.go`) | job status, error code, deadline; per node status, counter of dependencies, attempts, cancel flag | SubmitTx, claim, toWaiting, finish, advance, skipDownstream, finalizeJob, Resume, Abort, sweepDeadlines, sweepExpiredLeases | transactions of many workers in any order, decisions that append nodes, aborts at any time |
| One node's execution (`runner.go`, `sweeper.go`, `transport.go`) | row with lease and dispatch number, queue message, goroutines and their locals, map of running executions | RunNode, PollNode, heartbeat, settle, toWaiting, finish, deferNode, Shutdown, CancelLocal, Sweep, Nudge | at-least-once queue, crash between provider call and commit, lost leases, stale executions |
| Credits (`creditsvc`) | account (balance, held), reservation per job, ledger with unique keys | HoldForJobTx, CommitForJobTx, ReleaseJobTx, recharge | several jobs of a user at once, estimates that are too low, repeated calls |
| Events (`events.go`, `realtime/hub.go`, `http/sse.go`, `StreamProvider.tsx`) | `job_events`, listeners and their buffers, the Redis subscription; the tab's last id, its query cache | add, publish, republish, Subscribe, EventsSince, stream; connect, receive, invalidate | ids assigned before commit, connections that break between any two steps, loads that events overtake |
| Session (`client.ts`, `authStore.ts`, `LoginPage.tsx`, `guards.tsx`) | token pair in memory and local storage, the refresh under way, requests, the cached accounts | request, ensureFreshToken, sign in three ways, sign out | several requests refused at once, tabs that share a storage, answers after a sign-out |
| Submission (`useSubmit.ts`, `jobs.go`, `jobsvc.go`) | request, quote, idempotency key; jobs by key, price list | quote, press, create | prices and requests change under the button, answers are lost after the job was made |
| Drafts (`features/create`) | draft per account in local storage, references, uploads; cards with ids | edit, seed, upload, pick, switch, rewrite; move, copy, remove | drafts seen before the account is known, late uploads, ids that become positions |
| Task pages (`features/tasks`) | lists and details in the cache, one dialog, calls | load, poll, rename, cancel, delete, retry, decide, redraw | lists loaded apart, rows and pages that change under a dialog |
| Comic editor (`features/comic`, `http/comics.go`) | document with undo, saved version, backup, submission | change, save, copy, switch, import, generate | another window, saves on their way, lost answers |
| Library and records (`features/library`, `projects`, `characters`, `presets`) | assets and trash, selection, undo, uploads; records and their forms | batches, undo, empty, upload; save, delete | batches and undo against another tab, forms that follow what is loaded |
| Community (`features/community`) | two feeds, the viewer, likes | like, unlike, unpublish | two feeds show one work, answers in any order |
| Provider limits, upkeep, streaks, administration | tokens in Redis, trash, streaks and rewards | Acquire, purge, RecordPublish | tokens that expire, purge against restore, two transactions of which the second may fail |

What makes each correct: the *job graph* starts nothing before its inputs
exist, leaves nobody waiting in vain, ends with its nodes and not before, ends
for the reason it was stopped for, and keeps its reservation exactly as long as
it may still cost something. *One node's execution* does each attempt once,
survives every crash, records what was paid for and always ends. *Credits*
never appear or vanish, and one job never spends what another has reserved.
*Events* reach a resuming tab without gaps, once, and its pages come to show
them. A *session* ends for good, and no request hangs in it. A *submission*
makes one job, at the price that was shown. *Drafts* hold what their user put
there, and requests mean what the drafts say. *Pages* show each object once and
act on the one they were asked to. The *editor* never calls saved what is not.

`PROJECT.json` lists every component, modelled or not, and under `hazards` the
places in the code where these can go wrong, with the properties that watch
them.

## Modules

    WorkflowStatus        words for the statuses, which are final
      NodeLife            one node: the steps its row may take
      JobContract         one job as its owner sees it
      JobGraph            one job and its nodes, one action per transaction
        MCJobGraph        plan shapes for TLC
        JobGraphProofs    types, order of dependencies; the end of a job, its
                          reservation, reason and deadline; no doomed node,
                          bounded attempts, both refinements
      NodeLease           one node, workers, queue, sweeper: one statement per step
        MCNodeLease       two workers, three goroutines
        NodeLeaseProofs   one holder, distinct attempts, refinement of NodeLife
    CreditHolds           a user's account, reservations, ledger
      MCCreditHolds       two jobs, two callers
      CreditHoldsProofs   account, reservations and ledger agree
    EventStream           from the end of a job to the pages of a tab
      EventStreamProofs   no event skipped, none applied twice
    AuthSession           tokens, requests, sign-in and sign-out of a tab
      MCAuthSession
      AuthSessionProofs   one refresh, one replay; a sign-out forgets
    ComicEditor           one window of the comic editor
      MCComicEditor
      ComicEditorProofs   what is called saved is; saves go to their own draft;
                          a lost submission is not paid twice
    Null                  the value for none
      Queries             loads of the query cache, shared by the pages
      Submission          quote, key, call, server
        CreatePages       the page around it
      Filter              what a filter leaves of a sequence, by positions
      StudioDraft         the draft of a single work
      ShotStudio          the cards of a sequence
      ReviewPanel         the decision on a job that exists
        Studios           the forms in which a job is written; MCStudios
          StudiosProofs   decisions as shown; cards, references and requests;
                          drafts in order, nothing lost, jobs made again
      TaskPages           task center and job pages
      LibraryPages        assets, trash, uploads
      ShelfPages          projects, characters, presets
      CommunityPages      feeds and hearts
        WorkPages         the parts of the site; MCWorkPages
          WorkPagesProofs one job per request, at the price shown; each task
                          once; dialogs, batches, uploads, hearts and forms
                          keep to their object

`JobGraph` and `NodeLease` look at the same rows at two grains. In `JobGraph`
every action is a transaction under the lock on the job's row (`lockJob`), and
the executions are choices of outcome; it has all nodes. In `NodeLease` there
is one node, and every statement, goroutine and message is a step. Both are
shown to implement `NodeLife`: what one assumes about a node's row is what the
other guarantees. `CreditHolds` takes from `JobGraph` that a job charges
nothing after it has ended (`HoldFollowsJob`), and `JobGraph` abstracts the
account to "open or closed". `TaskPages` moves its jobs as
`JobContract` allows, and `Submission` has of a job that it was made once and at
which price.

`Studios` and `WorkPages` put together parts of the site that share no state
but the cache's rules: a behaviour visits one of them, and the parts that are
not visited stay as they are. What one part does to another arrives as a change
"elsewhere", which each has as actions of its environment.

### JobGraph

| State | Code |
| --- | --- |
| `status`, `deps`, `depsPending`, `attempt`, `ref`, `cancelReq` | the columns of `job_nodes`, for every name a plan or patch may use |
| `jobStatus`, `jobCode`, `armed` | `jobs.status`, `error_code` as far as it tells aborts from failures, `deadline_at` set or not |
| `started`, `anyAssets` | what `summarize` reads of `started_at` and of the outputs |
| `hold` | `credit_holds.status` |
| `suspects` | the lists `overdue` and `gates` of `sweepDeadlines` |
| `asked` | history: the codes of the aborts that took effect |

`SubmitTx` accepts any plan that `Validate` accepts. `Claim` and `ClaimPoll` are
`claim`; `FinishSucceeded`, `Terminate` and `Requeue` are the three ways through
`finish`, each including `advance`, `skipDownstream` and `finalizeJob`, which
the code calls before it commits; `Resume` and `Abort` are the transactions of
those names. `sweepStuckJobs` repairs a state that `EndedTogether` shows no
transaction can produce, so it is not an action.

The reservation, the events and the messages are written in the same
transactions; only the reservation is state here.

### NodeLease

A goroutine (`Slot`) of a worker process (`Host`) has a program counter and the
copy of the row it loaded. `queue` says whether the current dispatch number has
a message; a message is not consumed, so that redelivery and duplicates need no
action of their own. A worker in `Mortal` may shut down and may crash at any
step. `MaxTrouble` bounds, together, lost and archived messages, leases that
slip while the worker is alive, deferrals, refusals for capacity, repeated
polls and failed writes: an unbounded number of any of them is a run in which
nothing is promised. `contested` is history: a lease ran out under a working
holder, or the transaction of an outcome failed, so that two may have held the
row. Only a property reads it.

### CreditHolds

Each of `HoldForJobTx`, `CommitForJobTx` and `ReleaseJobTx` runs under the job's
and the account's row locks and is one action. `recharge` looks for its key in
its snapshot before it locks anything, so it is two, and two calls with one key
may interleave; the unique index decides. The older `Hold`, `Commit` and
`Refund` of `creditsvc.go` have no caller outside tests and are left out.

### EventStream

`row`, `id` and `published` are `job_events`; an id is taken when the row is
inserted and seen when its transaction commits. `Publish` is `publish` and what
`republish` repeats, through Redis and the hub's goroutine into each listener's
buffer (`buf`). A connection's handler subscribes, reads back what its
Last-Event-ID asks for (`FirstId`, `EventsSince`) and writes what is newer than
`lastId` to `wire`. `Subscribe` and its end only write a command to Redis
(`commands`), which is a step of its own; Redis takes it later (`RedisTakes`),
and nobody waits for that. The tab connects, applies frames, gives up after a while (`Offline`) and
comes back; `Frame` is the parser's answer to what arrives. `page` and `fetch`
are two queries, of which `detail` polls while the stream is down.

### AuthSession

`tok` is the store, `stored` the local storage other tabs write. A request is
sent with the token of its moment, refused when that has expired, waits for the
one refresh that all share, and is replayed once. The server's decision and
what the tab does with it are one step, since a token that has expired stays
expired. `busy`, `sending`, `wait` and `google` are the locks of `LoginPage`.

### ComicEditor

`doc`, `history`, `future`, `saved`, `dirty`, `recovery` are `useComicDraft`;
`call` is the action `run` is executing, so that only one is under way; `quote`,
`attempt` and `submission` are `useComicGeneration` with its key in memory and
in local storage; `upload` is the document a reference upload began with, which
its end puts back whole; `address` is the draft the page's address names, which
is loaded when the page is mounted there. `edits`, `saves` and `trouble` count towards the bounds: `saves` is every save of
a draft the server has accepted, from this window or another.
`origin` and `adrift` are history: the draft the document on the screen came
from, and that it is marked saved without having been saved, as a restored backup
is, or one whose overwrite took the server's version and then failed.

### Submission and CreatePages

`debounced`, `quote` and `fetching` are the debounced request and its query,
`idem` the key and its body; `wire` holds requests the server has yet to
handle, so that a call can fail while its request is on its way. `Handle` is the
transaction of POST /jobs in the order of the code: price, key, reservation.
`CreatePages` adds the fields, the dialog that confirms the cost of a GPT
generation, and leaving the page.

### StudioDraft, ShotStudio, ReviewPanel

A draft has a mode, media by slot, bound characters, presets and a setting;
`stored` is local storage by account, and a draft is written back a moment
after the last change or not at all. Cards have ids and `ref` is an id; the spec
of a request has positions, leaves empty cards out, and is answered by nodes
numbered likewise. A review's panel has choices, a quote of them and the
decision that sends its total; prices, gates and pages change around it.

### TaskPages, LibraryPages, ShelfPages, CommunityPages

Each keeps what the server has, what is cached (`listed`, `lists`, `kept`,
`feeds`), the loads under way, one dialog or form, and the calls that were sent.
Leaving a page disowns its calls: they are served, and their answers refresh
lists, but find no form to fill.
A load is read by the server and arrives, in two steps; a call is served and
settled, in two steps, or lost. `Queries` says what an invalidation does to a
load under way. Histories (`opened`, `from`, `meant`, `agreed`, `wanted`)
remember what the user meant when something was opened, typed or pressed, and
only properties read them.

## Runs

| Run | Instance | Shows |
| --- | --- | --- |
| `job_shapes` | 6 nodes, 4 plans (fan-out and fan-in, two roots, gate beside a branch, gate first), 3 patches, 2 attempts for one node | types, six invariants of the job graph, both refinements |
| `job_review` | a clip, its review, redo and concat, 2 attempts, fairness | the deadline is armed again; every job ends |
| `lease_safety` | 2 workers, 3 goroutines, 2 attempts, 1 trouble, asynchronous executor | one claim per message, no attempt twice at a time, loaded copies current, recorded tasks polled to their end, refinement of NodeLife |
| `lease_recovery` | 2 workers, 2 goroutines, fairness | every offered node ends |
| `credits` | 2 jobs, 2 charges each, 2 grant keys, 2 callers, amounts 1 and 3 | account, reservations and ledger agree |
| `stream` | 2 jobs, 3 connections, buffers of 1, fairness | no event is skipped or applied twice; the pages catch up |
| `session` | 2 people, 2 requests, 2 expiries, 1 lost answer, another tab, fairness | one refresh at a time, one replay, a sign-out is final, nobody waits for ever |
| `comic_editor` | 2 drafts, 2 jobs, 1 edit, 1 undo, 4 saves, 1 loss, another window | what is marked saved is stored; a lost submission is paid once |
| `studios` | 4 creation pages, 2 library assets, 2 files, 2 people; 4 cards; 2 reviews and a comic with 2 clips | forms keep what was put in, and requests mean it |
| `pages` | 2 request bodies, 2 calls, 1 price change; 2 jobs; 2 assets and a file; 2 projects, a character, 2 presets; 2 works; fairness | one job per request, at the price shown; dialogs, lists, forms and hearts keep to their object |
| `lease_stale_ref`, `lease_charge` | as `lease_safety`, smaller | violated: see Findings |

Some properties are conjunctions, of which each part has a definition and a
comment in its module:

| Property | Parts |
| --- | --- |
| `OneHolder` | `TypeOK`, `SnapshotCurrent`, `OneClaimPerMessage` |
| `AccountAgrees` | `TypeOK`, `HeldIsReserved`, `HoldAccounted` |
| `Resumable`; `PagesCatchUp` | `TypeOK`, `NoneSkipped`; `StreamCatchesUp`, `PollsWhileDown` |
| `SessionAgrees`; `NobodyWaits` | `TypeOK`, `AccountPagesNeedOne`, `OneRefresh`, `ReplayedOnce`; `RequestsSettle`, `FormComesBack` |
| `EditorAgrees` | `TypeOK`, `UndoBounded`, `SavesItsOwn`, `ConflictIsReal` |
| `DraftsInOrder`; `NothingLost` | `TypeOK`, `OwnDrafts`, `WithinLimits`, `OneModeOnly`; `UploadsOnlyAdd`, `RewritesItsField`, `NoRefLostSilently` |
| `RefsMeanCards`; `Recreates` | `RefsPointBack`, `RefsKeepMeaning`; `RecreatesTheRequest`, `RecreatesTheShots` |
| `DecidesAsShown` | `ChargedAsShown`, `ChoicesOfThisJob` |
| `NothingUnasked` | `TypeOK`, `ActsWhereOpened`, `EmptiesWhatIsShown`, `UndoesItsDelete`, `PublishedOnPurpose`, `CancelledMakesNoAsset`, `LikesAsPressed` |
| `FormsSaveTheirOwn` | `SavesIntoItsOwn`, `SendsWhatWasTyped`, `DetachedUnlessRacing` |
| `PagesComeBack` | `PriceComesBack`, `PollsWhileDown` |

### Bounds

A plan of four nodes has every pair of relations two nodes can have (before,
after, beside, behind a gate, behind a common dependency); six names leave room
for a patch. Two attempts distinguish first, last and refunded. In the lease
runs one worker has two goroutines, because some errors need two executions in
one process, and the other may die; a stale execution, its successor and a
sweeper make three. One trouble is enough to lose a lease, and the lost lease
may itself lead to two executions; crashes, shutdowns, cancels and duplicates
are free. In the credit run the amounts make a charge smaller than, equal to
and larger than reservation and balance.

Two troubles give a tab three connections, so that one can be resumed at an id
that another wrote, and two events are one more than a buffer holds. Two
expiries let the replay of a request be refused as well. One undo step makes
the bound on the history bite, and four saves let the other window save
before and after a conflict. A sequence of three cards has two references, the
least that a move can swap, and a fourth id lets a removed card come back as a
new one. `PinLimit` 1 puts one waiting job more than the pinned list shows.
`TwoVisits` starts on the page of a job that is ending, or in the task center;
the states in between are reached from one of them by one move of the server.
Five taps press two hearts of one work while the first answer is out; four
handled inputs type, turn to another record, save and come back.

Symmetry is used over the jobs and the callers in `credits`, over the two
goroutines of one worker in `lease_safety`, over drafts and jobs in
`comic_editor` and over the ids of cards in `studios`, names that no property
tells apart; the liveness runs use none. Deadlock is checked wherever the
system must go on: in the job and lease models the end is an explicit
stuttering step that requires all nodes to be terminal, so a job stuck anywhere
else is a deadlock. It is off in `credits`, where a user whose keys are all used
has nothing left to do, and in the runs of the site other than `studios`, where a
bounded user may have nothing left to do either.

### Promises

The site has races that its code does not close (see Observations). A constant
`Kept` of each of these modules lists what the user or the network is assumed
to do, each a guard of one or two actions; the models run without a promise
too, and in that form they show the race, so each is there for at least one
property that fails without it.

| Module | Promises |
| --- | --- |
| EventStream | `in_order`: events commit and are published in the order of their ids; `hub_calls`: the hub's calls to Redis do not overlap; `confirmed`: Redis has taken the hub's commands before a handler reads back; `linked`: Redis reaches the hub with what it fans out; `room`: no buffer is full; `warm`: the tab already follows the stream; `loads`: no event arrives during a first load |
| ComicEditor | `restores`: a backup is restored only while no action is under way; `uploads`: no other document is opened while a reference is uploaded |
| StudioDraft | `uploads`: references and modes are left alone while an upload is under way or the account is unknown |
| ShotStudio | `drags`: a handle is pressed only to drag then and there |
| ReviewPanel | `KeptReviews`: no walk through the history from one review straight to another seen before |
| TaskPages | `dialogs`: no walk through the history under a dialog, and none opened while a retry is under way; `loads`: as above; `shapes`: no page reads as a list what another keeps as pages; `answers`: an answer that was given arrives |
| LibraryPages | `alone`: no other tab deletes; `history`: no walk under a dialog or call; `there`: no dialog is opened on the page of an asset that was deleted; `transfer`: an upload is cancelled only during the transfer; `quiet`: no batch while another or a load is under way; `answers`: the answer of a delete arrives |
| ShelfPages | `quiet`: no record is loaded again under a form it would reset; `uploads`: no drawer is opened while an upload for a new character is under way; `waits`: no input during a save; `tabs`: no change of category over a changed preset |
| CommunityPages | `quiet`: no like during a load of a feed, nor the reverse; `presses`: no second press of a heart whose first is under way |

### Fairness

`JobGraph`'s `FairSpec` asks for each node that, while it is ready or waiting, it
is eventually claimed (weak fairness: its message is redelivered, or sent again
by the sweeper every few seconds), and that an execution which starts again and
again eventually ends for good (strong fairness: attempts have timeouts, and
refunds for shutdowns and missing capacity do not go on for ever); for the job,
that the sweeper finds a gate past its TTL and aborts it. Nothing obliges
anyone to submit, to answer a review or to cancel, and the deadline is not
needed for a job to end. `NodeLease` justifies the first two at its own grain:
there only goroutines are scheduled, leases run out when nobody renews them, and
the sweeper sends again what is not in the queue. A lease that slips, a
heartbeat, a crash, a callback or an abort is never owed.

On the site, what a timer, the server or the browser does by itself is weakly
fair: transactions commit and are published, handlers and reads go on, the
connection is tried again or given up (`EventStream`); requests, refreshes and
sign-ins are answered or fail (`AuthSession`); reads, their arrival and the
polling timer (`TaskPages`); the debounce, calls that land, and a window that is
looked at again (`CreatePages`). A quote that is refused may be refused again,
but not for ever, hence strong fairness of `QuoteArrives`. No user, no other
tab, no loss and no end of a job is owed. A connection that stays unreachable
for ever is allowed (`blocked`), and there the pages catch up by polling.

## Findings

Two statements of comments that the code does not keep, each the one property
of a run; `PROJECT.json` quotes both sides.

* `toWaiting` does not compare the attempt: a stale task reference can be
  written over a newer attempt of the same worker.
* The cost of an execution interrupted by a shutdown uses up the ledger key of
  the execution that repeats it.

## Observations

Behaviours of the code that the models show, or were written around, and that
its authors may want to know. None has a run of its own.

Orchestrator:

* A user cancel of a job with a failed node ends as *failed* (`store.go:426`
  against `submit.go:219`).
* A gate with three parallel branches beside it would lose the job's deadline
  while the last one runs (`store.go`, `summarize`); no plan has one (see Proofs).
* A gate answered between the sweeper's read and its abort: the resumed job is
  failed as expired (`sweeper.go:246`, `200-201`).
* A message archived by the queue is never sent again, and its node stays ready
  (`transport.go:47`, `sweeper.go:22-23`).
* A crash between `Submit` and `toWaiting` resubmits a paid task
  (`runner.go:133-138`).
* The sweeper's takeover compares status, owner and attempt, but neither the lease
  nor the task (`sweeper.go:115`), and decides by the row it loaded before. A slow
  holder may record its task in between, and a poll of it claim the row with the
  same owner and attempt: the takeover still matches, drops the task and submits
  the node again, against `sweeper.go:90-91`. `TaskIsNotResubmitted` fails when it is
  asked of contested rows too.
* A poll that found its task finished is parked if it was interrupted as well
  (`runner.go:193-195`, `360`).
* An aborted job starts new attempts of nodes that failed with attempts left;
  `Shutdown` misses executions that have passed its check but are not tracked
  yet; two executions of one node in one process share one entry of the active
  map. `EveryJobEnds`, `DistinctAttempts` and `EveryNodeEnds` hold in spite of
  them.

Submission and session:

* The price is compared before the key is looked up (`jobs.go:50-55`), so that
  a retry after a price change is refused, the key is dropped
  (`useSubmit.ts:48`) and the next press makes a second job. A gateway's 5xx
  forgets the key as well, and so does leaving the page; a late success of an
  earlier double click forgets the key of another body. Node and panel retries
  use a fresh key for each press (`jobs.ts:128-132`).
* A refresh under way at a sign-out, or at a sign-in of another account, writes
  its pair when it ends (`client.ts:39`); a failed refresh signs out without
  clearing the query cache (`client.ts:43`); tabs share local storage and read
  it at load only (`authStore.ts:22`); Google's callback can arrive during the
  form's own sign-in (`LoginPage.tsx:161`).

Events and cache:

* Ids become visible out of order (`events.go:44`), an unsubscribe can overtake
  a subscribe (`hub.go:93`), a full buffer drops an event (`hub.go:56`), and the
  status of a job is read before the subscription (`sse.go:129`). `Subscribe`
  does not wait for Redis to confirm (`hub.go:75`), so an event published between
  the reading back and the real subscription is lost, and a later one moves the
  tab's last id past it. The first
  stream of a tab starts at the latest event (`StreamProvider.tsx:64`).
* A first load that an event overtakes leaves a stale page while the stream is
  open. Two pages read one key as a list and as pages (`TaskCenter.tsx:57-61`;
  `LibraryPage.tsx:50-55` against `AssetDetailPage.tsx:70`), which breaks the
  page. The pinned list has no second page. Deleting sends no event, so that a
  lost answer leaves the deleted job listed.
* The dialogs of a job's page, and a cached review panel, are not keyed by job;
  a retry's success navigates under an open dialog.
* A heart waits only for the newest like (`CommunityPage.tsx:151`), and a feed
  read before a like and arriving after it shows the old heart (`112-123`).

Forms:

* Drafts lose the edits of the last 300 ms on leaving (`drafts.ts:33-42`), and
  text typed before the account is known is the guest's. A late upload adds to a
  stale value (`ReferencePicker.tsx:117`); an open library dialog can exceed the
  limit; an upload can land in another mode. A handle pressed without a drag
  stays armed during the submission (`ShotCard.tsx:58-66`).
* "Create again" inverts the classic provider (`prefill.ts:94`), drops manual
  picks of a video sequence and keeps the draft's old reference
  (`ImageStudio.tsx:99`). A GPT image is made again without its reference, since
  `GptStudio.tsx:102` reads `references` and `prefill.ts:84` sets `reference`;
  the property `Recreates` says so. The direct branch of `GptStudio.tsx:101` is not
  reachable (`routing.ts:43`); `effectiveRef` counts empty cards.
* An upload cannot be cancelled outside its transfer (against `upload.ts:65`),
  and a lost answer of its confirmation makes two assets. Undoing a delete that
  changed nothing restores what it did not delete; emptying the trash purges
  what another tab deleted since (`TrashView.tsx:17`). The page of an asset shows
  what is cached after a 404 (`AssetDetailPage.tsx:71`, `127`): deleting it there
  again changes nothing, yet offers to undo it.
* References of a character uploaded first can replace an open drawer
  (`CharactersPage.tsx:75`); a refetch resets a project's form
  (`ProjectDialogs.tsx:17-21`); another category, or a late save, clears a
  preset's text (`PresetDetail.tsx:50`, `PresetsPage.tsx:84-92`). Saves send all
  fields. Deleting a project does not refresh the characters
  (`ProjectDialogs.tsx:72-74`), whose drawer then sends the deleted one.
* A comic can be restored while a save is on its way (`ComicWorkspace.tsx:446`),
  whose answer then binds it to the draft that was saved; a restored backup is
  marked saved (`useComicDraft.ts:169`), and so is a document whose overwrite
  failed after it had taken the server's version (`147`). A reference upload
  overwrites later edits, and after a switch writes the former draft's whole
  document into the new one (`ReferencePanel.tsx:33`). Opening the page by the
  address of a draft drops the backup it would have offered (`176`). The handler of
  a changed price is refused by `run` (`ComicWorkspace.tsx:554`), and a deleted job
  is polled for ever (`comics.go:116`).

## Proofs

53 theorems, which the modules named `...Proofs` hold. Each is proved for every
value of the constants, from the named assumptions of the modules it is about;
those say what the constants are (sets, numbers, which of them are finite, that
`Nothing` is none of the values it stands beside) and TLC evaluates them in every
run. Where a theorem needs more, its ASSUME says so and the text below does too.

### Job graph

Every set of nodes, every family of valid plans and patches, every attempt
limit; from `NodeAssumption`, which says of plans what `Validate` checks.

1. `TypeCorrect`.
2. `ReleasedInOrder`: dependencies first, and the stored counter is exact.
   The invariant alone is not inductive, since `advance` decrements a number it
   read; the strengthening is that for each pending node the counter equals the
   cardinality of its dependencies that have not succeeded, and a node in any
   other state but skipped and cancelled has none left.
3. `JobEndsWithItsNodes`, `HoldEndsWithTheJob`, `AbortReasonIsKept`,
   `SuccessHasEveryStep`: one inductive invariant relates the job's status,
   code and reservation to its nodes, and each transaction ends with
   `finalizeJob`, which restores it.
4. `NobodyWaitsInVain`: the set that `skipDownstream` computes is closed under
   dependents, so after a failure no pending node depends on a dead one.
5. `AttemptsAreBounded`, `CancellingOnlyDrains`.
6. `DeadlineIsKept`: a job that is queued or running has a deadline, also after
   its review. The theorem assumes of each plan that a gate depends, directly or
   not, on every other node (`GateComesLast`), and it needs to: with three ready
   nodes beside a waiting gate, the first that finishes takes the deadline off
   (nothing is active, so the job awaits its review), and when the second
   finishes during the third the job is running again without one. The only gate
   the repository builds, `video.go:166-170`, comes last. Then all else is done
   while a gate waits (`GateIsLast`), a job awaits a review only while a gate
   waits (`OnlyGatesWait`, `ReviewWaits`), and `Resume` is the only way back.
7. `EveryNodeLives`, `JobKeepsItsContract`: the job implements `NodeLife` for each
   node and `JobContract` for its owner: initial states map to initial states,
   and each action to a step or a stutter, one case per action.

### One node's execution

Every set of workers and goroutines, every attempt limit, any amount of trouble.
`LeaseInv` is what makes the lease work: no goroutine knows a dispatch number or
an attempt the row has not reached (`NotAhead`, `AttemptCounted`), and one that
executes has spent the message of its number, so that the row is not offered
under that number again (`MessageSpent`); hence at most one of them holds the
row under the current number, and its copy is the row's.

* `ClaimantIsAlone` (`OneHolder`); `AttemptsAreDistinct` (`DistinctAttempts`):
  executions under way at once, of which all but one are stale, are of different
  attempts.
* `TaskIsPolledOnly` (`TaskIsNotResubmitted`), an action property: through
  crashes, shutdowns, cancels and takeovers a recorded task stays recorded, and
  its node is not made ready again, until one that polled this very task says that
  the attempt is over. It leaves out what follows a lease that ran out under a
  working holder, or an outcome whose transaction failed (`contested`), where the
  code does drop a task (see Observations). Until then (`AloneInv`) whoever executes
  holds the row alone and has its task in its copy, and a sweeper finds only rows
  of workers that are gone, which nobody changes before it takes them over.
* `LeaseImplementsLife` (`LifeSpec`): every statement of every goroutine is a step of
  `NodeLife` or a stutter. With `EveryNodeLives`, the two grains of the model
  rest on the same small specification for all values of the constants.

### Credits

Every set of jobs, charges, grant keys, callers and amounts. Sums are written as
the size of a set that has each credit once (`Credits`), so that what a row adds
is a disjoint interval and no induction is needed. `AccountInv` adds to the
properties little more than that those sets are finite.

* `AccountsAgree` (`AccountAgrees`): what is held is what open reservations have
  left, nothing is negative, and each reservation accounts for what it held.
* `LedgerExplains` (`NothingMinted`): the account is the sum of its ledger.
* `CommitsPayInOrder` (`PaysInOrder`), an action property: reservation first,
  then balance, then the platform.

### Events

Every finite set of jobs, any number of connections and troubles.
`AppliedAtMostOnce` needs no promise. `StreamResumes` (`Resumable`) assumes
six of them, each of which removes one of the races listed under Promises:
commits in the order of ids, hub calls that do not overlap, commands that Redis
has taken before a handler reads back, Redis within reach of the hub, room in the
buffers, a tab that has followed the stream before. `StreamInv` holds with none of them
(ids are given once and without a gap; what the connection will deliver
ascends); `KeptInv` follows from them (a connection that reads live events has
a subscription that Redis has taken; ids become visible in order; each id above the tab's last one
is still to be committed, published, buffered, written or asked for).

### Session and submission

* `SessionCorrect` (`SessionAgrees`) and `SignOutClears` (`SignOutForgets`), for
  any accounts, requests, expiries, reloads and other tabs. `SessionInv` adds
  that a request waits only before its replay, that a second refresh never
  starts, and that whoever's token the tab or a request that still counts
  carries has signed in since the cache was last cleared (`KnownAccounts`):
  that is why a late answer of an earlier account finds no way into the cache.
* `OneJobPerRequest` (`NoSecondJob`) and `ChargeWasShown` (`ChargedAsQuoted`), for
  any requests, calls and price lists; the other pages leave this state alone.
  `NoSecondJob` speaks of keys that have a job, which is not inductive: a key
  gets its job long after the next one was made. `SubmissionInv` says it of all
  keys (`ToldOf`): between two keys of one request the user was told the outcome
  of the first; and every request on the wire, and every job, is of a press that
  was made under its key (`WireMade`, `JobsMade`).

### Task pages, library, records and community

For any jobs, assets, files, projects, characters, presets, works and bounds,
under the promises each theorem names. `WorkPages` visits one part at a time, and
`PartsApart` says that what one part does leaves the others as they are, so that
an invariant of a part needs the steps of that part only.

* `SiteTypeOK`, with no promise: `TaskTypes`, `LibraryTypes`, `ShelfInv`,
  `GalleryInv` and `PageTypes` type the parts, with what calls, loads and dialogs
  may hold. That calls stay within their bound is about the cardinality of a
  finite set that is added to under a guard, and replaced one for one when a call
  is served.
* `TasksShownOnce` (`EachTaskOnce`), under "loads", "shapes" and "answers".
  `FreshInv` is what the query cache owes its readers: unless a change is still
  to be announced or a delete was done and not heard of, every answer on its way,
  and every list shown and not being loaded again, is what the server would say
  now (`LoadsCurrent`, `ListsCurrent`), in the shape its page reads (`LoadsFit`).
  An event that arrives starts the loads again; a delete, which has no event, does
  so when its answer arrives. With at most `PinLimit` reviews the
  two lists of the task center then divide the jobs between them.
* `ActsOnItsJob` (`ActsWhereOpened`), under "dialogs": a job's page has rows of that
  job only (`RowsAreTheirs`), and nobody leaves it under its dialog (`DialogsStay`).
* `CancelledStaysUnmade`, under "transfer"; `PublicWasAgreed`, under "history": the
  dialog and the calls are of the asset on the screen (`PublishInv`).
* `EmptiedWasShown` and `UndoneWasDeleted`, under the promises of the library.
  Both follow from `DeleteInv`, since a delete puts into the trash what an emptying
  purges: a delete or an emptying is the only call (`IsSole`), under its open
  dialog (`BoxStands`); what was selected is still in the library or is being
  deleted (`SelectionTrue`); and what is in the trash is shown there, or on its way
  to be shown, or is being deleted (`ListsTrue`, `LoadsTrue`, `ListsComing`).
* `SavedIntoItsOwn` (`SavesIntoItsOwn`), with no promise: the cells of a form name
  the record the form is on, and an answer changes only a form of its own page
  (`ShelfInv`). `DetachedBeforeLookUp` (`DetachedUnlessRacing`), with no promise.
* `FormsKeepToThemselves` (`FormsSaveTheirOwn`), under the promises of the records:
  besides, what was typed is still in its field, and a form whose save is under
  way has nothing typed since (`TypedInv`).
* `HeartsAsPressed` (`LikesAsPressed`), under "quiet" and "presses": one press on a
  work is under way at a time and is what its user wanted; no feed is loaded
  meanwhile; and a feed on its way tells the likes the server has (`HeartInv`).
* `NothingIsUnasked` (`NothingUnasked`) puts these together.

### Forms

For any accounts, media, people, cards, jobs and prices.

* `DecisionIsAsShown` (`DecidesAsShown`) and `ChargeIsShown`. `PanelInv` says what
  the screen means: as long as no quote is loading, the total is that of the
  choices on it (a comic's total does not depend on texts, so typing leaves it),
  and a decision under way carries both. So the charge is the one shown with no
  promise at all; that the choices were made on the job they are sent to
  (`ChosenHere`) needs `KeptReviews`, since the panel keeps its choices from one
  review to the next.
* `PicturesKeepTheirCards` (`ShownWhereMade`), under "drags": as long as a request
  is under way no card is moved, added or removed, because a drag that began
  before it (`armed`) has ended.
* `CardsPointBack` (`ShotTypeOK` and `RefsPointBack`), with no promise: every
  operation on cards yields a sequence that is `Sound`, with each id once and each
  reference at an earlier card. What a sequence looks like after a card was moved,
  copied or removed is not computed by induction but read off its positions:
  `Filter` has the k-th place of a set of positions, and `Ranks` says that these
  places rise and that none is left out. `PositionsMeanCards` carries it to
  requests, where a card is the number of its description.
* `RefsMeanTheirCards` (`RefsMeanCards`), under "drags": a request in flight names
  the cards of the draft, which no step changes meanwhile (`SendingInv`).
* `LostRefsAreReported`, with no promise: `RefsAreReported` follows a card through
  each change, to the number it is reported at.
* `DraftsAreOwn` (`OwnDrafts`), with no promise: a page that is not open has nothing
  under way and an unsigned draft (`OwnInv`), so that no upload lands in the next
  account's.
* `DraftsStayInOrder` (`DraftsInOrder`), under "uploads". `GoodInv` types drafts,
  uploads and dialogs, and every request that can be made again (`AskedIs`).
  `WithinLimits` alone is not inductive: `UploadInv` adds that an upload still has
  the references it began with, and that there is room for what it brings
  and for what is chosen in the dialog, of which nothing is attached yet
  (`HasRoom`). `VideoInv` adds that both belong to the mode the draft still has.
* `NothingIsLost` (`NothingLost`), under the same promise: from `UploadInv`, an
  upload adds to what is attached; from `RewriteInv`, the mode that decides where a
  suggestion goes is that of the field it was asked for; and
  `LostRefsAreReported`.
* `JobsAreMadeAgain` (`Recreates`), with no promise: the media of a request tell
  its mode (`ModeIsTold`), and the draft it seeds has of the other modes what is
  not sent (a GPT image loses its reference, and a classic comic may change its
  provider); the cards of a storyboard, all written, are numbered as in the
  request they came from (`PrefilledAsMade`).

### The comic editor

Any drafts, jobs, history limit, edits, saves and troubles.

* `CleanMeansStored` (`CleanIsStored`). Versions only grow and a document changes
  only with its version, so a copy that was true of the account stays true or is
  behind it (`IsTrue`, `TrueStays`). `EditorInv` says which copies are: what the
  answer to a save, an opened draft or the conflict dialog holds, and what is on
  the screen while nothing is dirty. A save that is on its way carries the
  document on the screen unless it was edited since (`touched`), a copy remembers
  the draft it has to put back (`HomeInv`), and no dialog that could start another
  action is open while one goes on (`DialogInv`). A restored backup, and a document
  whose overwrite failed, are left out until a save of them succeeds (`adrift`).
* `EditorKnowsItsDraft` (`EditorAgrees`), under "restores" and "uploads": `SavesItsOwn` and `ConflictIsReal` from
  `EditorInv`; `UndoBounded` from `StackInv`, which has the sequences: only `change`
  trims, and undo and redo keep the sum of both stacks; and the types from
  `TypesInv`. That no version exceeds the bound needs that the editor has heard of
  no version beyond the number of saves the server has accepted (`Reached`), and
  that an action which will save began while there was room for it.
* `LostIsNotPaidTwice` (`NoSecondJob`), an action property: the attempt kept in
  memory is the one in local storage, and after a lost answer it is that of the
  request that was lost, under a key that already has its job (`KeyInv`).

Every invariant above was checked by TLC as an invariant of the run before it
was proved. Each property of a passing run is broken, in that run, by a mutant of
the code. A theorem about a part of a property (see Runs) is about what the run
checks with the rest of it; the exact counter of `ReleasedInOrder`,
`AttemptsAreBounded` and `CancellingOnlyDrains` are in no run.

### Checked by TLC only

* Liveness (`EveryJobEnds`, `EveryNodeEnds`, `PagesCatchUp`, `NobodyWaits`,
  `PagesComeBack`): it rests on fairness and so on ENABLED, which the prover does
  not handle.
* The two violated properties, which no proof can be about: a counterexample is
  their proof.

## Not modelled

* Provider limiters (`ratelimit.go`) and `admit`: counts that expire by time, in
  the plan. A token of the account's semaphore may expire while its video task
  still runs, and be taken again (`ratelimit.go:25`). Upkeep is present only as a
  change elsewhere in `LibraryPages`, which purges an asset in one step; the code
  may remove one that was restored since its query (`upkeep.go:108`);
  streaks and rewards, node inputs and follow-ups are in the plan or are pure
  functions of rows that nobody else touches.
* The prompt compiler, prices, images, provider payloads and the recorder of
  provider calls: pure functions and one-statement writes. Persistence, storage,
  migrations and deployment: MySQL is taken to be the locks and unique indexes
  it promises, and Redis to lose or keep a message but not to invent one.
* Of the site, the pages of settings, credits and administration, which send one
  call and load again; the older pages (`src/web/src/pages`), which no route uses
  any more; the demo's sample data and the components of the UI kit.

In what is modelled, time is abstract (a lease, a deadline or a token is past or
not), text is a value, and a request body is a name.

## Plan

1. `ProviderSlots`: both semaphores and `admit`, expiry while work goes on, and
   mutual exclusion while tokens live.
2. `Streak`: a publication, its reward and the grant that may fail; `TrashPurge`.
3. `PlanValidate`: `Validate` and the plan builders as operators, checked against
   graph-theoretic definitions.
