---------------------------- MODULE EventStream ----------------------------
(***************************************************************************)
(* How a finished job reaches an open page: its event is numbered in the   *)
(* transaction that ends the job, published over Redis to the hub of the   *)
(* process that holds the user's connection, written to that connection    *)
(* (GET /stream) and applied by the tab, which refetches the queries the   *)
(* event touches; what a broken connection missed is read back with        *)
(* Last-Event-ID, and some queries poll.  One user, one tab; each job has  *)
(* one event, and a page shows the set of jobs it has seen ended.          *)
(*                                                                         *)
(* The hub only writes its commands to Redis, which takes them in order    *)
(* later: nobody waits for an answer.  An event that Redis fans out is in  *)
(* the listeners' buffers at once: one that is delayed is published later. *)
(***************************************************************************)
EXTENDS Integers, Sequences, FiniteSets

CONSTANTS
    Jobs,
    Watched,      \* the job whose own page is open
    MaxTrouble,   \* bound: lost connections, reconnections by hand, lost marks
    Kept,         \* what the environment is assumed to keep, see below
    Nothing       \* null

\* "in_order": events are committed and published in the order of their numbers;
\* "hub_calls": the hub's calls to Redis return before another connection comes;
\* "confirmed": Redis has taken the hub's commands before a handler reads back;
\* "linked": Redis reaches the hub with what it fans out;
\* "room": no listener's buffer is full;  "warm": the tab has received an event;
\* "loads": no event overtakes the answer of a page's first load.
Promises == {"in_order", "hub_calls", "confirmed", "linked", "room", "warm", "loads"}
ASSUME KeptAssumption == Kept \subseteq Promises /\ MaxTrouble \in Nat
ASSUME JobsAssumption == Watched \in Jobs /\ IsFiniteSet(Jobs)
ASSUME NothingAssumption == Nothing \notin Nat

VARIABLES
    row, id, nextId, published,      \* job_events, seen with their jobs
    listeners,                       \* Hub.listeners
    commands, active,                \* SUBSCRIBE (TRUE) and UNSUBSCRIBE on their way
                                     \* to Redis, and whether it fans out to the hub
    handler, lastId, buf,            \* per connection: handleStream, lastID, live
    asked, wire, dead,               \* its Last-Event-ID, what it wrote; aborted or lost
    status, conn, lastEv,            \* StreamProvider: status, controller, lastEventId
    page, fetch,                     \* the query cache
    blocked,                         \* the stream cannot be reached, for ever
    trouble,
    applied                          \* history: jobs whose event the tab applied

store == <<row, id, nextId, published>>
hub == <<listeners, commands, active>>
serving == <<handler, lastId, buf, wire>>
tab == <<status, conn, lastEv, asked, applied>>
cache == <<page, fetch>>
vars == <<store, hub, serving, tab, dead, cache, blocked, trouble>>

Conns == 1..(MaxTrouble + 1)
Ids == 0..Cardinality(Jobs)
Queries == {"detail", "list"}
Capacity == 1   \* of a listener's buffer, 64 in the code

Visible == {j \in Jobs : row[j] = "visible"}
LatestEventId == IF Visible = {} THEN 0
                 ELSE CHOOSE n \in Ids : /\ \E j \in Visible : id[j] = n
                                         /\ \A j \in Visible : id[j] <= n
\* The numbers above n, ascending.
Ascending(S) == CHOOSE f \in [1..Cardinality(S) -> S] : \A m, n \in DOMAIN f : m < n => f[m] < f[n]
EventsSince(n) == Ascending({id[j] : j \in {k \in Visible : id[k] > n}})

------------------------------------------------------------------------------
ColdTab == /\ status = "idle" /\ conn = 0 /\ lastEv = Nothing
           /\ page = [q \in Queries |-> Nothing]
           /\ listeners = {} /\ active = FALSE
           /\ handler = [c \in Conns |-> "none"]

WarmTab == /\ lastEv = 0
           /\ page \in [Queries -> {Nothing, {}}] /\ page["list"] = {}
           /\ \/ /\ blocked
                 /\ status = "offline" /\ conn = 0
                 /\ listeners = {} /\ active = FALSE
                 /\ handler = [c \in Conns |-> "none"]
              \/ /\ ~blocked
                 /\ status = "open" /\ conn = 1
                 /\ listeners = {1} /\ active = TRUE
                 /\ handler = [c \in Conns |-> IF c = 1 THEN "live" ELSE "none"]

Init == /\ row = [j \in Jobs |-> "running"] /\ id = [j \in Jobs |-> 0]
        /\ nextId = 1 /\ published = [j \in Jobs |-> FALSE]
        /\ blocked \in BOOLEAN
        /\ commands = <<>>
        /\ IF "warm" \in Kept THEN WarmTab ELSE ColdTab
        /\ lastId = [c \in Conns |-> 0] /\ buf = [c \in Conns |-> <<>>]
        /\ wire = [c \in Conns |-> <<>>] /\ asked = [c \in Conns |-> Nothing]
        /\ dead = {} /\ applied = {} /\ trouble = 0
        /\ fetch = [q \in Queries |-> [at |-> "idle", got |-> {}]]

------------------------------------------------------------------------------
(* The transaction that ends a job, and publish() once it has committed.   *)

Insert(j) ==
    /\ row[j] = "running"
    /\ row' = [row EXCEPT ![j] = "inserted"]
    /\ id' = [id EXCEPT ![j] = nextId] /\ nextId' = nextId + 1
    /\ UNCHANGED <<published, hub, serving, tab, dead, cache, blocked, trouble>>

Earlier(j) == {k \in Jobs : row[k] # "running" /\ id[k] < id[j]}

Commit(j) ==
    /\ row[j] = "inserted"
    /\ "in_order" \in Kept => Earlier(j) \subseteq Visible
    /\ row' = [row EXCEPT ![j] = "visible"]
    /\ UNCHANGED <<id, nextId, published, hub, serving, tab, dead, cache, blocked, trouble>>

HasRoom(c) == Len(buf[c]) < Capacity

\* To every listener with room; the mark can fail, and the sweeper publishes again.
Publish(j) ==
    /\ row[j] = "visible" /\ ~published[j]
    /\ "in_order" \in Kept => \A k \in Earlier(j) : published[k]
    /\ "room" \in Kept => \A c \in listeners : HasRoom(c)
    /\ \E fansOut \in IF "linked" \in Kept THEN {active} ELSE {active, FALSE} :
         buf' = [c \in Conns |-> IF fansOut /\ c \in listeners /\ HasRoom(c)
                                 THEN Append(buf[c], id[j]) ELSE buf[c]]
    /\ \/ published' = [published EXCEPT ![j] = TRUE] /\ UNCHANGED trouble
       \/ trouble < MaxTrouble /\ trouble' = trouble + 1 /\ UNCHANGED published
    /\ UNCHANGED <<row, id, nextId, hub, handler, lastId, wire, tab, dead, cache, blocked>>

------------------------------------------------------------------------------
(* GET /stream on the server.                                              *)

HubCallPending == \E c \in Conns : handler[c] \in {"subscribing", "closing"}

Subscribe(c) ==
    /\ c <= conn /\ handler[c] = "none" /\ ~blocked
    /\ "hub_calls" \in Kept => ~HubCallPending
    /\ listeners' = listeners \cup {c}
    /\ handler' = [handler EXCEPT ![c] = IF listeners = {} THEN "subscribing" ELSE "starting"]
    /\ UNCHANGED <<store, commands, active, lastId, buf, wire, tab, dead, cache, blocked, trouble>>

Subscribed(c) ==
    /\ handler[c] = "subscribing"
    /\ commands' = Append(commands, TRUE)
    /\ handler' = [handler EXCEPT ![c] = "starting"]
    /\ UNCHANGED <<store, listeners, active, lastId, buf, wire, tab, dead, cache, blocked, trouble>>

FirstIdAlwaysLatest(c) == LatestEventId      \* a faulty variant
FirstId(c) == IF asked[c] = Nothing THEN LatestEventId ELSE asked[c]

Start(c) ==
    /\ handler[c] = "starting"
    /\ lastId' = [lastId EXCEPT ![c] = FirstId(c)]
    /\ handler' = [handler EXCEPT ![c] = "reading"]
    /\ UNCHANGED <<store, hub, buf, wire, tab, dead, cache, blocked, trouble>>

CatchUp(c) ==
    /\ handler[c] = "reading"
    /\ "confirmed" \in Kept => commands = <<>>
    /\ LET missed == EventsSince(lastId[c])
       IN /\ wire' = [wire EXCEPT ![c] = @ \o missed]
          /\ lastId' = [lastId EXCEPT ![c] = IF missed = <<>> THEN @ ELSE missed[Len(missed)]]
    /\ handler' = [handler EXCEPT ![c] = "live"]
    /\ UNCHANGED <<store, hub, buf, tab, dead, cache, blocked, trouble>>

WritesAll(c, e) == TRUE                      \* a faulty variant
Writes(c, e) == e > lastId[c]

Live(c) ==
    /\ handler[c] = "live" /\ buf[c] # <<>>
    /\ buf' = [buf EXCEPT ![c] = Tail(@)]
    /\ IF Writes(c, Head(buf[c]))
       THEN /\ wire' = [wire EXCEPT ![c] = Append(@, Head(buf[c]))]
            /\ lastId' = [lastId EXCEPT ![c] = Head(buf[c])]
       ELSE UNCHANGED <<wire, lastId>>
    /\ UNCHANGED <<store, hub, handler, tab, dead, cache, blocked, trouble>>

\* The handler sees its request cancelled and returns, and what it knew is gone; the
\* last listener leaves Redis too.
Remove(c) ==
    /\ c \in dead /\ handler[c] \in {"starting", "reading", "live"}
    /\ listeners' = listeners \ {c}
    /\ handler' = [handler EXCEPT ![c] = IF listeners = {c} THEN "closing" ELSE "gone"]
    /\ buf' = [buf EXCEPT ![c] = <<>>] /\ wire' = [wire EXCEPT ![c] = <<>>]
    /\ lastId' = [lastId EXCEPT ![c] = 0] /\ asked' = [asked EXCEPT ![c] = Nothing]
    /\ UNCHANGED <<store, commands, active, status, conn, lastEv, applied, dead, cache, blocked, trouble>>

Unsubscribed(c) ==
    /\ handler[c] = "closing"
    /\ commands' = Append(commands, FALSE)
    /\ handler' = [handler EXCEPT ![c] = "gone"]
    /\ UNCHANGED <<store, listeners, active, lastId, buf, wire, tab, dead, cache, blocked, trouble>>

\* Redis takes the hub's next command, at some time after it was written.
RedisTakes ==
    /\ commands # <<>>
    /\ active' = Head(commands) /\ commands' = Tail(commands)
    /\ UNCHANGED <<store, listeners, serving, tab, dead, cache, blocked, trouble>>

------------------------------------------------------------------------------
(* StreamProvider in the tab.                                              *)

\* connect(): a controller of its own, the last one is aborted.
Dial ==
    /\ status' = IF status = "open" THEN "open" ELSE "connecting"
    /\ IF blocked
       THEN UNCHANGED <<conn, asked, dead>>
       ELSE /\ conn' = conn + 1
            /\ asked' = [asked EXCEPT ![conn + 1] = lastEv]
            /\ dead' = dead \cup (Conns \cap {conn})
    /\ UNCHANGED <<store, hub, serving, lastEv, applied, cache, blocked>>

Connect == status \in {"idle", "offline"} /\ Dial /\ UNCHANGED trouble

\* The browser says it is online again, or the user asks.
Reconnect ==
    /\ status # "idle" /\ ~blocked
    /\ trouble < MaxTrouble /\ trouble' = trouble + 1
    /\ Dial

Opened ==
    /\ status = "connecting" /\ conn \in Conns \ dead
    /\ handler[conn] \in {"reading", "live"}
    /\ status' = "open"
    /\ UNCHANGED <<store, hub, serving, conn, lastEv, asked, applied, dead, cache, blocked, trouble>>

Loading(q) == page[q] = Nothing /\ fetch[q].at # "idle"
Shows(q) == IF q = "detail" THEN {Watched} ELSE Jobs

Shown(q) == IF page[q] = Nothing THEN {} ELSE page[q]

\* A query without data keeps the fetch it waits for; any other starts again.
FetchKept(q) == fetch[q]                     \* a faulty variant
Invalidated(q) == IF page[q] = Nothing THEN fetch[q] ELSE [at |-> "sent", got |-> {}]

ApplyEvent(j) ==
    fetch' = [q \in Queries |-> IF j \in Shows(q) THEN Invalidated(q) ELSE fetch[q]]

\* Frames are read whole, and one after the other.
Frame == Head(wire[conn])
Receive ==
    /\ status = "open" /\ conn \in Conns \ dead /\ wire[conn] # <<>>
    /\ "loads" \in Kept => \A q \in Queries : ~Loading(q)
    /\ lastEv' = Frame
    /\ \E j \in Jobs : id[j] = Frame /\ applied' = applied \cup {j} /\ ApplyEvent(j)
    /\ wire' = [wire EXCEPT ![conn] = Tail(@)]
    /\ UNCHANGED <<store, hub, handler, lastId, buf, status, conn, asked, dead, page, blocked, trouble>>

\* The connection goes silent; what was on its way is gone.
Lose ==
    /\ conn \in Conns \ dead
    /\ trouble < MaxTrouble /\ trouble' = trouble + 1
    /\ dead' = dead \cup {conn}
    /\ UNCHANGED <<store, hub, serving, tab, cache, blocked>>

\* Three heartbeats missed, or the attempt fails: schedule().
Offline ==
    /\ status \in {"connecting", "open"} /\ (blocked \/ conn \in dead)
    /\ status' = "offline"
    /\ UNCHANGED <<store, hub, serving, conn, lastEv, asked, applied, dead, cache, blocked, trouble>>

------------------------------------------------------------------------------
(* The pages' queries.                                                     *)

\* Of a job's own page, a finished job needs no polling.
PollsDetail == status # "open" /\ Watched \notin Shown("detail")

\* The first load of a page, or a poll.
Fetch(q) ==
    /\ fetch[q].at = "idle"
    /\ \/ page[q] = Nothing
       \/ page[q] # Nothing /\ q = "detail" /\ PollsDetail
    /\ fetch' = [fetch EXCEPT ![q].at = "sent"]
    /\ UNCHANGED <<store, hub, serving, tab, dead, page, blocked, trouble>>

Answer(q) == Visible \cap Shows(q)
Read(q) ==
    /\ fetch[q].at = "sent"
    /\ fetch' = [fetch EXCEPT ![q] = [at |-> "read", got |-> Answer(q)]]
    /\ UNCHANGED <<store, hub, serving, tab, dead, page, blocked, trouble>>

Show(q) ==
    /\ fetch[q].at = "read"
    /\ page' = [page EXCEPT ![q] = fetch[q].got]
    /\ fetch' = [fetch EXCEPT ![q] = [at |-> "idle", got |-> {}]]
    /\ UNCHANGED <<store, hub, serving, tab, dead, blocked, trouble>>

------------------------------------------------------------------------------
Serving(c) == Subscribe(c) \/ Subscribed(c) \/ Start(c) \/ CatchUp(c) \/ Live(c)
                 \/ Remove(c) \/ Unsubscribed(c)
Ending(j) == Insert(j) \/ Commit(j) \/ Publish(j)
Following == Connect \/ Opened \/ Receive \/ Offline
Querying(q) == Fetch(q) \/ Read(q) \/ Show(q)

Next == \/ \E j \in Jobs : Ending(j)
        \/ \E c \in Conns : Serving(c)
        \/ RedisTakes
        \/ Following \/ Reconnect \/ Lose
        \/ \E q \in Queries : Querying(q)

\* Servers, timers and the browser go on; nothing says that a job ends, that a
\* connection is lost or that the user asks for a new one.  Jobs and handlers take
\* finitely many steps and the tab has one to take at a time, so that fairness of
\* each is fairness of all.
Fairness == /\ WF_vars(\E j \in Jobs : Commit(j) \/ Publish(j))
            /\ WF_vars(\E c \in Conns : Serving(c))
            /\ WF_vars(RedisTakes)
            /\ WF_vars(Following)
            /\ \A q \in Queries : WF_vars(Querying(q))

Spec == Init /\ [][Next]_vars /\ Fairness

------------------------------------------------------------------------------
TypeOK ==
    /\ row \in [Jobs -> {"running", "inserted", "visible"}]
    /\ id \in [Jobs -> Ids] /\ nextId \in 1..(Cardinality(Jobs) + 1)
    /\ published \in [Jobs -> BOOLEAN]
    /\ listeners \subseteq Conns /\ commands \in Seq(BOOLEAN) /\ active \in BOOLEAN
    /\ handler \in [Conns -> {"none", "subscribing", "starting", "reading", "live", "closing", "gone"}]
    /\ lastId \in [Conns -> Ids] /\ asked \in [Conns -> Ids \cup {Nothing}]
    /\ buf \in [Conns -> Seq(Ids)] /\ wire \in [Conns -> Seq(Ids)]
    /\ status \in {"idle", "connecting", "open", "offline"}
    /\ conn \in 0..(MaxTrouble + 1) /\ dead \subseteq Conns
    /\ lastEv \in Ids \cup {Nothing} /\ applied \subseteq Jobs
    /\ page \in [Queries -> {Nothing} \cup SUBSET Jobs]
    /\ fetch \in [Queries -> [at : {"idle", "sent", "read"}, got : SUBSET Jobs]]
    /\ \A q \in Queries : /\ page[q] = Nothing \/ page[q] \subseteq Shows(q)
                          /\ fetch[q].got \subseteq Shows(q)
    /\ blocked \in BOOLEAN /\ trouble \in 0..MaxTrouble

\* The promise behind Last-Event-ID: the number a tab would resume from says that it
\* has applied every event up to it (sse.go 69-80, StreamProvider.tsx 64, 92).
NoneSkipped ==
    lastEv # Nothing => \A j \in Visible : id[j] <= lastEv => j \in applied

\* A connection that is lost at any moment can be resumed from lastEv.
Resumable == TypeOK /\ NoneSkipped

\* An event republished by the sweeper, or both read back and published, is applied
\* once: the number to resume from only grows (sse.go 61).
Took == conn \in Conns \ dead' /\ Len(wire'[conn]) < Len(wire[conn])
AppliedOnce == [][Took => lastEv = Nothing \/ lastEv' > lastEv]_vars

\* A tab that can reach the server comes to show every ended job on its pages, those
\* that never poll included: by the stream or by what a reconnection reads back
\* (applyEvent.ts 9-13).
StreamCatchesUp ==
    []<>(~blocked => \A q \in Queries : Visible \cap Shows(q) \subseteq Shown(q))

\* Where the stream never comes through, the job's own page polls until it has seen
\* the end (JobDetailPage.tsx 225).
PollsWhileDown == []<>(blocked /\ row[Watched] = "visible" => page["detail"] = {Watched})

\* By the stream or without it, the pages come to show what ended.
PagesCatchUp == StreamCatchesUp /\ PollsWhileDown
=============================================================================
