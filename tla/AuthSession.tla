---------------------------- MODULE AuthSession ----------------------------
(***************************************************************************)
(* The session of one tab: the token pair in memory and in local storage,  *)
(* which other tabs write too; requests that carry it, are refused once it *)
(* has expired, refresh it together and are replayed; the sign-in page     *)
(* with its password, code and Google calls; and the guards that send a    *)
(* guest to that page.  The query cache is what the properties tell apart: *)
(* the accounts whose data it holds.                                       *)
(*                                                                         *)
(* The user stays on the sign-in page while one of its calls is under way, *)
(* or reloads it; and a code is asked for, or Google, when no request of   *)
(* an earlier page is left, since neither has to do with the other.        *)
(***************************************************************************)
EXTENDS Integers, FiniteSets

CONSTANTS
    Users,
    Requests,      \* requests that can be under way together
    MaxExpiries,   \* bound: times the access tokens expire
    MaxTrouble,    \* bound: writes of other tabs, reloads
    Nothing        \* null

ASSUME BoundsAssumption == MaxExpiries \in Nat /\ MaxTrouble \in Nat
ASSUME NothingAssumption == Nothing \notin Users /\ Nothing \notin [user : Users, good : BOOLEAN]

VARIABLES
    tok, stored,       \* the auth store, local storage
    clock,             \* bound: how often the access tokens have expired
    refresh,           \* refreshPromise: the calls to /auth/refresh under way
    req, cache,        \* requests; accounts whose data is cached
    view, from,        \* the page; where RequireAuth was asked for
    busy, sending, wait, google, calls,   \* LoginPage
    trouble,
    since              \* history: accounts signed in since the cache was last cleared

login == <<busy, sending, wait, google, calls>>
session == <<tok, stored, since>>
route == <<view, from>>
vars == <<session, clock, refresh, req, cache, route, login, trouble>>

Clock == 0..MaxExpiries
Tokens == [user : Users, good : BOOLEAN]
Views == {"login", "guest", "account"}
NoRequest == [at |-> "idle", tok |-> Nothing, tries |-> 0, live |-> FALSE]
Slots == 1..2
Ways == {"form", "google"}

Good(k) == k # Nothing /\ k.good
Waiting == {r \in Requests : req[r].at = "waiting"}
Refreshing == {s \in Slots : refresh[s] # Nothing}

Quiet == Refreshing = {} /\ \A r \in Requests : req[r].at = "idle"

Init == /\ tok = Nothing /\ stored = Nothing /\ since = {}
        /\ clock = 0 /\ trouble = 0
        /\ refresh = [s \in Slots |-> Nothing]
        /\ req = [r \in Requests |-> NoRequest] /\ cache = {}
        /\ view = "guest" /\ from = Nothing
        /\ busy = FALSE /\ sending = FALSE /\ wait = FALSE /\ google = "none"
        /\ calls = [w \in Ways |-> FALSE]

------------------------------------------------------------------------------
(* The store and the guards.                                               *)

\* RequireAuth renders the sign-in page in place of a page that needs an account.
Guarded(v, k, asked) ==
    IF v = "account" /\ k = Nothing
    THEN view' = "login" /\ from' = "account"
    ELSE view' = v /\ from' = asked

Holder(k) == {u \in Users : k # Nothing /\ k.user = u}

SetTokens(k) == /\ tok' = k /\ stored' = k
                /\ since' = since \cup Holder(k)

Logout == tok' = Nothing /\ stored' = Nothing /\ UNCHANGED since

------------------------------------------------------------------------------
(* request() and ensureFreshToken().  What the server decides and what the *)
(* tab does with it are one step: an expired token stays expired.          *)

Send(r) ==
    /\ req[r].at = "idle" /\ view # "login"
    /\ req' = [req EXCEPT ![r] = [at |-> "sent", tok |-> tok, tries |-> 1, live |-> TRUE]]
    /\ UNCHANGED <<session, clock, refresh, cache, route, login, trouble>>

\* Without an account, or with a good token, a page gets what it asked for.
Succeed(r) ==
    /\ req[r].at = "sent" /\ (req[r].tok = Nothing \/ Good(req[r].tok))
    /\ req' = [req EXCEPT ![r] = NoRequest]
    /\ cache' = IF req[r].live THEN cache \cup Holder(req[r].tok) ELSE cache
    /\ UNCHANGED <<session, clock, refresh, route, login, trouble>>

Retried(r) == req[r].tries > 1
Refreshable(r) == ~Good(req[r].tok) /\ ~Retried(r) /\ tok # Nothing

\* The network, another refusal (a wrong password is a 401 too), or no way to refresh.
Fail(r) ==
    /\ req[r].at = "sent"
    /\ req' = [req EXCEPT ![r] = NoRequest]
    /\ UNCHANGED <<session, clock, refresh, cache, route, login, trouble>>

OneMoreRefresh == Refreshing # Slots         \* a faulty variant
StartsRefresh == Refreshing = {}

\* The first to be refused calls /auth/refresh, the others wait for the same call.
EnsureFreshToken(r) ==
    /\ req[r].at = "sent" /\ Refreshable(r)
    /\ req' = [req EXCEPT ![r].at = "waiting"]
    /\ IF StartsRefresh
       THEN \E s \in Slots \ Refreshing : refresh' = [refresh EXCEPT ![s] = tok.user]
       ELSE UNCHANGED refresh
    /\ UNCHANGED <<session, clock, cache, route, login, trouble>>

Replay(r, k) == [req[r] EXCEPT !.at = "sent", !.tok = k, !.tries = @ + 1]

\* The refresh token stays the same, and is not asked whether anybody signed out.
Refreshed(s) ==
    /\ s \in Refreshing
    /\ LET k == [user |-> refresh[s], good |-> TRUE] IN
       /\ SetTokens(k)
       /\ req' = [r \in Requests |-> IF r \in Waiting THEN Replay(r, k) ELSE req[r]]
    /\ refresh' = [refresh EXCEPT ![s] = Nothing]
    /\ UNCHANGED <<clock, cache, route, login, trouble>>

WaitersKept == req                           \* a faulty variant
WaitersFail == [r \in Requests |-> IF r \in Waiting THEN NoRequest ELSE req[r]]

\* Refused, or lost: either way the tab is signed out.
RefreshFailed(s) ==
    /\ s \in Refreshing
    /\ Logout
    /\ req' = WaitersFail
    /\ refresh' = [refresh EXCEPT ![s] = Nothing]
    /\ Guarded(view, Nothing, from)
    /\ UNCHANGED <<clock, cache, login, trouble>>

------------------------------------------------------------------------------
(* Pages.                                                                  *)

FreshForm == /\ busy' = FALSE /\ sending' = FALSE /\ wait' = FALSE
             /\ google' = "none" /\ calls' = [w \in Ways |-> FALSE]
LoginIdle == google = "none" /\ ~sending /\ \A w \in Ways : ~calls[w]

Visit(v) ==
    /\ v # view /\ LoginIdle
    /\ Guarded(v, tok, Nothing)
    /\ FreshForm
    /\ UNCHANGED <<session, clock, refresh, req, cache, trouble>>

\* qc.clear(): answers to what was asked before no longer reach the cache.
NothingCleared == UNCHANGED <<cache, req>>   \* a faulty variant
Clear == /\ cache' = {}
         /\ req' = [r \in Requests |-> [req[r] EXCEPT !.live = FALSE]]

SignOut ==
    /\ tok # Nothing /\ view # "login"
    /\ tok' = Nothing /\ stored' = Nothing /\ since' = {}
    /\ Clear
    /\ view' = "login" /\ from' = Nothing
    /\ FreshForm
    /\ UNCHANGED <<clock, refresh, trouble>>

------------------------------------------------------------------------------
(* The sign-in page.                                                       *)

SubmitOffered == view = "login" /\ ~busy /\ ~sending
CodeOffered == view = "login" /\ ~wait /\ ~sending /\ ~busy
GoogleOffered == view = "login" /\ ~busy

Submit ==
    /\ SubmitOffered
    /\ ~calls["form"]
    /\ busy' = TRUE /\ calls' = [calls EXCEPT !["form"] = TRUE]
    /\ UNCHANGED <<session, clock, refresh, req, cache, route, sending, wait, google, trouble>>

SendCode ==
    /\ CodeOffered /\ Quiet
    /\ sending' = TRUE
    /\ UNCHANGED <<session, clock, refresh, req, cache, route, busy, wait, google, calls, trouble>>

CodeAnswered ==
    /\ sending
    /\ sending' = FALSE /\ wait' \in BOOLEAN
    /\ UNCHANGED <<session, clock, refresh, req, cache, route, busy, google, calls, trouble>>

Countdown ==
    /\ wait
    /\ wait' = FALSE
    /\ UNCHANGED <<session, clock, refresh, req, cache, route, busy, sending, google, calls, trouble>>

Google ==
    /\ GoogleOffered /\ Quiet /\ google = "none"
    /\ busy' = TRUE /\ google' = "loading"
    /\ UNCHANGED <<session, clock, refresh, req, cache, route, sending, wait, calls, trouble>>

BusyEnds == busy' = FALSE

\* The script is there and the prompt shown, or it could not be loaded.
ScriptLoaded ==
    /\ google = "loading"
    /\ google' \in {"prompt", "none"}
    /\ BusyEnds
    /\ UNCHANGED <<session, clock, refresh, req, cache, route, sending, wait, calls, trouble>>

\* Google calls back when it likes, whatever the form is doing.
Credential ==
    /\ google = "prompt" /\ ~calls["google"]
    /\ google' = "none" /\ busy' = TRUE
    /\ calls' = [calls EXCEPT !["google"] = TRUE]
    /\ UNCHANGED <<session, clock, refresh, req, cache, route, sending, wait, trouble>>

\* finish(): back to the page that was asked for, or the start page, whose last mode
\* may be one for guests.
Finish(w, u) ==
    /\ calls[w]
    /\ SetTokens([user |-> u, good |-> TRUE])
    /\ view' \in (IF from = Nothing THEN {"account", "guest"} ELSE {from}) /\ from' = Nothing
    /\ FreshForm
    /\ UNCHANGED <<clock, refresh, req, cache, trouble>>

Refused(w) ==
    /\ calls[w]
    /\ calls' = [calls EXCEPT ![w] = FALSE] /\ busy' = FALSE
    /\ UNCHANGED <<session, clock, refresh, req, cache, route, sending, wait, google, trouble>>

------------------------------------------------------------------------------
(* Time, other tabs, and a reload.                                         *)

Expired(k) == IF k = Nothing THEN Nothing ELSE [k EXCEPT !.good = FALSE]

Expire ==
    /\ clock < MaxExpiries
    /\ clock' = clock + 1
    /\ tok' = Expired(tok) /\ stored' = Expired(stored)
    /\ req' = [r \in Requests |-> [req[r] EXCEPT !.tok = Expired(@)]]
    /\ UNCHANGED <<since, refresh, cache, route, login, trouble>>

Troubled == trouble < MaxTrouble /\ trouble' = trouble + 1

\* Another tab signs in, out or refreshes: this one does not look.
Elsewhere ==
    /\ Troubled
    /\ stored' \in {Nothing} \cup [user : Users, good : {TRUE}]
    /\ UNCHANGED <<tok, since, clock, refresh, req, cache, route, login>>

Reload ==
    /\ Troubled
    /\ tok' = stored /\ since' = Holder(stored) /\ UNCHANGED stored
    /\ refresh' = [s \in Slots |-> Nothing]
    /\ req' = [r \in Requests |-> NoRequest] /\ cache' = {}
    /\ Guarded(view, stored, from)
    /\ FreshForm
    /\ UNCHANGED clock

------------------------------------------------------------------------------
Requesting(r) == Succeed(r) \/ Fail(r) \/ EnsureFreshToken(r)
RefreshCall(s) == Refreshed(s) \/ RefreshFailed(s)
SigningIn(w) == (\E u \in Users : Finish(w, u)) \/ Refused(w)

Next == \/ \E r \in Requests : Send(r) \/ Requesting(r)
        \/ \E s \in Slots : RefreshCall(s)
        \/ \E v \in Views : Visit(v)
        \/ SignOut
        \/ Submit \/ Credential \/ SendCode \/ CodeAnswered \/ Countdown \/ Google \/ ScriptLoaded
        \/ \E w \in Ways : SigningIn(w)
        \/ Expire \/ Elsewhere \/ Reload

\* The server answers or the connection fails, and what follows is the browser's.
Fairness == /\ \A r \in Requests : WF_vars(Requesting(r))
            /\ \A s \in Slots : WF_vars(RefreshCall(s))
            /\ \A w \in Ways : WF_vars(SigningIn(w))
            /\ WF_vars(ScriptLoaded)

Spec == Init /\ [][Next]_vars /\ Fairness

------------------------------------------------------------------------------
TypeOK ==
    /\ tok \in Tokens \cup {Nothing} /\ stored \in Tokens \cup {Nothing}
    /\ clock \in Clock /\ trouble \in 0..MaxTrouble
    /\ refresh \in [Slots -> Users \cup {Nothing}]
    /\ req \in [Requests -> [at : {"idle", "sent", "waiting"}, tok : Tokens \cup {Nothing},
                             tries : 0..(MaxExpiries + 2), live : BOOLEAN]]
    /\ \A r \in Requests : req[r].at = "idle" => req[r] = NoRequest
    /\ cache \subseteq Users /\ since \subseteq Users
    /\ view \in Views /\ from \in {Nothing, "account"}
    /\ busy \in BOOLEAN /\ sending \in BOOLEAN /\ wait \in BOOLEAN
    /\ google \in {"none", "loading", "prompt"}
    /\ calls \in [Ways -> BOOLEAN]

\* A page that needs an account is never shown without one, also when the session ends
\* under it (guards.tsx 17-23).
AccountPagesNeedOne == view = "account" => tok # Nothing

\* Concurrent callers share one refresh, also when the session changes under it
\* (client.ts 24-50).
OneRefresh == Cardinality(Refreshing) <= 1

\* A request is replayed at most once, however often its token expires (client.ts 61-62).
ReplayedOnce == \A r \in Requests : req[r].tries <= 2

\* What holds of one session in every order of refusals, refreshes and sign-ins.
SessionAgrees == TypeOK /\ AccountPagesNeedOne /\ OneRefresh /\ ReplayedOnce

\* What a tab shows is of accounts that were signed in since somebody last signed out:
\* answers that come after the sign-out do not bring the old account's data back
\* (TopBar.tsx 60-64).
SignOutForgets == cache \subseteq since

\* Every request ends, and nobody waits for a refresh that has ended, whatever the session goes through (client.ts 64-92).
RequestsSettle == \A r \in Requests : []<>(req[r].at = "idle")

\* The form does not stay locked (LoginPage.tsx 113-177).
FormComesBack == []<>~busy

\* Nobody is left waiting, neither a request nor the person at the form.
NobodyWaits == RequestsSettle /\ FormComesBack
=============================================================================
