-------------------------- MODULE AuthSessionProofs -------------------------
(***************************************************************************)
(* Theorems about AuthSession for any accounts, any number of requests and *)
(* any number of expiries, reloads and other tabs, with their proofs.      *)
(***************************************************************************)
EXTENDS AuthSession, FiniteSetTheorems, TLAPS
-----------------------------------------------------------------------------
(* A request waits for a refresh only before its replay.                   *)
WaitsOnce == \A r \in Requests : /\ req[r].tries <= 2
                                 /\ req[r].at = "waiting" => req[r].tries <= 1

(* A second refresh does not start while there is one.                     *)
AloneInSlot == \A s, t \in Refreshing : s = t

(* Whoever's token this tab holds, or one of its live requests carries,    *)
(* has been signed in since the cache was last cleared: the request of an  *)
(* earlier account is not live, the refresh of one signs it in again.      *)
KnownAccounts == /\ tok # Nothing => tok.user \in since
                 /\ \A r \in Requests : req[r].live /\ req[r].tok # Nothing => req[r].tok.user \in since

SessionInv == TypeOK /\ WaitsOnce /\ AloneInSlot /\ AccountPagesNeedOne /\ KnownAccounts /\ SignOutForgets
-----------------------------------------------------------------------------
LEMMA TokenIsSome == \A k \in Tokens : k # Nothing /\ k.user \in Users
  BY NothingAssumption DEF Tokens

LEMMA HolderKnown ==
  \A k \in Tokens \cup {Nothing} : /\ Holder(k) \subseteq Users
                                   /\ k # Nothing => Holder(k) = {k.user}
                                   /\ k = Nothing => Holder(k) = {}
  BY TokenIsSome DEF Holder

LEMMA ExpiredToken ==
  \A k \in Tokens \cup {Nothing} : /\ Expired(k) \in Tokens \cup {Nothing}
                                   /\ Expired(k) = Nothing <=> k = Nothing
                                   /\ k # Nothing => Expired(k).user = k.user
<1> SUFFICES ASSUME NEW k \in Tokens \cup {Nothing}
             PROVE  /\ Expired(k) \in Tokens \cup {Nothing}
                    /\ Expired(k) = Nothing <=> k = Nothing
                    /\ k # Nothing => Expired(k).user = k.user
  OBVIOUS
<1>1. CASE k = Nothing
  BY <1>1 DEF Expired
<1>2. CASE k # Nothing
  <2>1. k \in Tokens /\ Expired(k) = [k EXCEPT !.good = FALSE]
    BY <1>2 DEF Expired
  <2>2. Expired(k) \in Tokens /\ Expired(k).user = k.user
    BY <2>1 DEF Tokens
  <2>3. Expired(k) # Nothing
    BY <2>2, TokenIsSome
  <2> QED BY <1>2, <2>2, <2>3
<1> QED BY <1>1, <1>2

RequestRecords == [at : {"idle", "sent", "waiting"}, tok : Tokens \cup {Nothing},
                   tries : 0..(MaxExpiries + 2), live : BOOLEAN]

(* What is known of one request's record.                                  *)
RequestOK(q) == /\ q \in RequestRecords
                /\ q.at = "idle" => q = NoRequest
                /\ q.tries <= 2
                /\ q.at = "waiting" => q.tries <= 1

LEMMA RestingRequest == RequestOK(NoRequest)
  BY BoundsAssumption DEF NoRequest, RequestRecords, RequestOK

LEMMA RestingFields ==
  /\ NoRequest \in RequestRecords
  /\ NoRequest.at = "idle" /\ NoRequest.tok = Nothing /\ NoRequest.tries = 0 /\ NoRequest.live = FALSE
  BY BoundsAssumption DEF NoRequest, RequestRecords

LEMMA SameRecord ==
  \A p, q \in RequestRecords :
      p.at = q.at /\ p.tok = q.tok /\ p.tries = q.tries /\ p.live = q.live => p = q
  BY DEF RequestRecords

LEMMA SentRequest ==
  ASSUME NEW k \in Tokens \cup {Nothing}, NEW b \in BOOLEAN
  PROVE  RequestOK([at |-> "sent", tok |-> k, tries |-> 1, live |-> b])
  BY BoundsAssumption DEF RequestRecords, RequestOK

LEMMA WaitingRequest ==
  ASSUME NEW q, RequestOK(q), ~(q.tries > 1)
  PROVE  RequestOK([q EXCEPT !.at = "waiting"])
  BY BoundsAssumption DEF RequestRecords, RequestOK

LEMMA ReplayedRequest ==
  ASSUME NEW q, RequestOK(q), q.at = "waiting", NEW k \in Tokens
  PROVE  RequestOK([q EXCEPT !.at = "sent", !.tok = k, !.tries = @ + 1])
<1> DEFINE p == [q EXCEPT !.at = "sent", !.tok = k, !.tries = @ + 1]
<1>1. q \in RequestRecords /\ q.tries <= 1
  BY DEF RequestOK
<1>2. q.tries \in 0..(MaxExpiries + 2)
  BY <1>1 DEF RequestRecords
<1>3. q.tries + 1 \in 0..(MaxExpiries + 2) /\ q.tries + 1 <= 2
  BY <1>1, <1>2, BoundsAssumption
<1>4. p.at = "sent" /\ p.tries = q.tries + 1
  BY <1>1 DEF RequestRecords
<1>5. p \in RequestRecords
  BY <1>1, <1>3 DEF RequestRecords
<1> HIDE DEF p
<1>6. RequestOK(p)
  BY <1>3, <1>4, <1>5 DEF RequestOK
<1> QED BY <1>6 DEF p

LEMMA ClearedRequest ==
  ASSUME NEW q, RequestOK(q)
  PROVE  RequestOK([q EXCEPT !.live = FALSE])
<1> DEFINE p == [q EXCEPT !.live = FALSE]
<1>1. q \in RequestRecords
  BY DEF RequestOK
<1>2. p \in RequestRecords /\ p.at = q.at /\ p.tries = q.tries
  BY <1>1 DEF RequestRecords
<1>3. p.tok = q.tok /\ p.live = FALSE
  BY <1>1 DEF RequestRecords
<1>4. q = NoRequest => p = NoRequest
  BY <1>2, <1>3, SameRecord, RestingFields
<1> HIDE DEF p
<1>5. RequestOK(p)
  BY <1>2, <1>4 DEF RequestOK
<1> QED BY <1>5 DEF p

LEMMA ExpiredRequest ==
  ASSUME NEW q, RequestOK(q)
  PROVE  RequestOK([q EXCEPT !.tok = Expired(@)])
<1>1. q.tok \in Tokens \cup {Nothing} /\ Expired(q.tok) \in Tokens \cup {Nothing}
  BY ExpiredToken DEF RequestOK, RequestRecords
<1> DEFINE p == [q EXCEPT !.tok = Expired(@)]
<1>2. q \in RequestRecords
  BY DEF RequestOK
<1>3. p \in RequestRecords /\ p.at = q.at /\ p.tries = q.tries
  BY <1>1, <1>2 DEF RequestRecords
<1>4. p.tok = Expired(q.tok) /\ p.live = q.live
  BY <1>1, <1>2 DEF RequestRecords
<1>5. Expired(Nothing) = Nothing
  BY DEF Expired
<1>6. q = NoRequest => p = NoRequest
  BY <1>3, <1>4, <1>5, SameRecord, RestingFields
<1> HIDE DEF p
<1>7. RequestOK(p)
  BY <1>3, <1>6 DEF RequestOK
<1> QED BY <1>7 DEF p

(* The type invariant and WaitsOnce speak of each request alone.           *)
RequestsOK == req \in [Requests -> RequestRecords] /\ \A r \in Requests : RequestOK(req[r])

RestOK == /\ tok \in Tokens \cup {Nothing} /\ stored \in Tokens \cup {Nothing}
          /\ clock \in Clock /\ trouble \in 0..MaxTrouble
          /\ refresh \in [Slots -> Users \cup {Nothing}]
          /\ cache \subseteq Users /\ since \subseteq Users
          /\ view \in Views /\ from \in {Nothing, "account"}
          /\ busy \in BOOLEAN /\ sending \in BOOLEAN /\ wait \in BOOLEAN
          /\ google \in {"none", "loading", "prompt"}
          /\ calls \in [Ways -> BOOLEAN]

LEMMA TypeByRequests == TypeOK /\ WaitsOnce <=> RestOK /\ RequestsOK
<1>1. ASSUME TypeOK, WaitsOnce PROVE RestOK /\ RequestsOK
  <2>1. RestOK /\ req \in [Requests -> RequestRecords]
    BY <1>1 DEF TypeOK, RestOK, RequestRecords
  <2>2. ASSUME NEW r \in Requests PROVE RequestOK(req[r])
    BY <1>1, <2>1 DEF TypeOK, WaitsOnce, RequestOK
  <2> QED BY <2>1, <2>2 DEF RequestsOK
<1>2. ASSUME RestOK, RequestsOK PROVE TypeOK /\ WaitsOnce
  <2>1. req \in [Requests -> RequestRecords]
    BY <1>2 DEF RequestsOK
  <2>2. \A r \in Requests : /\ req[r].at = "idle" => req[r] = NoRequest
                            /\ req[r].tries <= 2
                            /\ req[r].at = "waiting" => req[r].tries <= 1
    BY <1>2 DEF RequestsOK, RequestOK
  <2>3. TypeOK
    BY <1>2, <2>1, <2>2 DEF TypeOK, RestOK, RequestRecords
  <2> QED BY <2>2, <2>3 DEF WaitsOnce
<1> QED BY <1>1, <1>2

(* The steps of the form that neither sign in nor leave the page.          *)
FormStep == \/ Submit \/ Credential \/ SendCode \/ CodeAnswered \/ Countdown
            \/ Google \/ ScriptLoaded

LEMMA InitSession == Init => SessionInv
<1> SUFFICES ASSUME Init PROVE SessionInv
  OBVIOUS
<1>1. RestOK
  <2>1. clock \in Clock /\ trouble \in 0..MaxTrouble
    BY BoundsAssumption DEF Init, Clock
  <2>2. calls \in [Ways -> BOOLEAN] /\ refresh \in [Slots -> Users \cup {Nothing}]
    BY DEF Init
  <2> QED BY <2>1, <2>2 DEF Init, RestOK, Views
<1>2. RequestsOK
  BY RestingRequest DEF Init, RequestsOK, RequestOK
<1>3. AloneInSlot
  BY DEF Init, AloneInSlot, Refreshing
<1>4. AccountPagesNeedOne /\ KnownAccounts /\ SignOutForgets
  BY DEF Init, AccountPagesNeedOne, KnownAccounts, SignOutForgets, NoRequest
<1> QED BY <1>1, <1>2, <1>3, <1>4, TypeByRequests DEF SessionInv
-----------------------------------------------------------------------------
(* Each request by itself.                                                 *)
LEMMA OneRequest ==
  ASSUME RequestsOK, NEW r \in Requests, NEW q, RequestOK(q), req' = [req EXCEPT ![r] = q]
  PROVE  RequestsOK'
<1>1. q \in RequestRecords
  BY DEF RequestOK
<1>2. req' \in [Requests -> RequestRecords]
  BY <1>1 DEF RequestsOK
<1>3. \A s \in Requests : req'[s] = IF s = r THEN q ELSE req[s]
  BY DEF RequestsOK
<1>4. \A s \in Requests : RequestOK(req'[s])
  BY <1>3 DEF RequestsOK
<1> QED BY <1>2, <1>4 DEF RequestsOK

LEMMA EveryRequest ==
  ASSUME NEW f, req' = f, f = [r \in Requests |-> f[r]], \A r \in Requests : RequestOK(f[r])
  PROVE  RequestsOK'
<1>1. \A r \in Requests : f[r] \in RequestRecords
  BY DEF RequestOK
<1>2. f \in [Requests -> RequestRecords]
  BY <1>1
<1> QED BY <1>2 DEF RequestsOK

(* What becomes of one request when several change.                        *)
LEMMA RequestsKept ==
  ASSUME RestOK, RequestsOK, [Next]_vars
  PROVE  RequestsOK'
<1>0. \A r \in Requests : RequestOK(req[r])
  BY DEF RequestsOK
<1>1. CASE UNCHANGED req
  BY <1>1 DEF RequestsOK
<1>2. ASSUME NEW r \in Requests, Send(r) PROVE RequestsOK'
  BY <1>2, OneRequest, SentRequest DEF Send, RestOK
<1>3. ASSUME NEW r \in Requests, Succeed(r) \/ Fail(r) PROVE RequestsOK'
  BY <1>3, OneRequest, RestingRequest DEF Succeed, Fail
<1>4. ASSUME NEW r \in Requests, EnsureFreshToken(r) PROVE RequestsOK'
  <2>1. req' = [req EXCEPT ![r] = [req[r] EXCEPT !.at = "waiting"]] /\ ~(req[r].tries > 1)
    BY <1>4 DEF EnsureFreshToken, Refreshable, Retried, RequestsOK
  <2>2. RequestOK([req[r] EXCEPT !.at = "waiting"])
    BY <1>0, <2>1, WaitingRequest
  <2> QED BY <2>1, <2>2, OneRequest
<1>5. ASSUME NEW s \in Slots, Refreshed(s) PROVE RequestsOK'
  <2> DEFINE k == [user |-> refresh[s], good |-> TRUE]
             f == [r \in Requests |-> IF r \in Waiting THEN Replay(r, k) ELSE req[r]]
  <2>1. k \in Tokens
    BY <1>5 DEF Refreshed, Refreshing, RestOK, Tokens
  <2>2. req' = f
    BY <1>5 DEF Refreshed
  <2> HIDE DEF k
  <2>3. ASSUME NEW r \in Requests PROVE RequestOK(f[r])
    <3>1. CASE r \in Waiting
      <4>1. RequestOK(req[r]) /\ req[r].at = "waiting"
        BY <1>0, <3>1 DEF Waiting
      <4>2. RequestOK(Replay(r, k))
        BY <2>1, <4>1, ReplayedRequest DEF Replay
      <4> QED BY <3>1, <4>2
    <3>2. CASE r \notin Waiting
      BY <3>2, <1>0
    <3> QED BY <3>1, <3>2
  <2>4. f = [r \in Requests |-> f[r]]
    OBVIOUS
  <2> HIDE DEF f
  <2> QED BY <2>2, <2>3, <2>4, EveryRequest
<1>6. ASSUME NEW s \in Slots, RefreshFailed(s) PROVE RequestsOK'
  <2>1. req' = WaitersFail
    BY <1>6 DEF RefreshFailed
  <2>2. \A r \in Requests : RequestOK(WaitersFail[r])
    BY <1>0, RestingRequest DEF WaitersFail
  <2>3. WaitersFail = [r \in Requests |-> WaitersFail[r]]
    BY DEF WaitersFail
  <2> QED BY <2>1, <2>2, <2>3, EveryRequest
<1>7. CASE SignOut
  <2> DEFINE f == [r \in Requests |-> [req[r] EXCEPT !.live = FALSE]]
  <2>1. req' = f
    BY <1>7 DEF SignOut, Clear
  <2>2. \A r \in Requests : RequestOK(f[r])
    BY <1>0, ClearedRequest
  <2>3. f = [r \in Requests |-> f[r]]
    OBVIOUS
  <2> HIDE DEF f
  <2> QED BY <2>1, <2>2, <2>3, EveryRequest
<1>8. CASE Expire
  <2> DEFINE f == [r \in Requests |-> [req[r] EXCEPT !.tok = Expired(@)]]
  <2>1. req' = f
    BY <1>8 DEF Expire
  <2>2. \A r \in Requests : RequestOK(f[r])
    BY <1>0, ExpiredRequest
  <2>3. f = [r \in Requests |-> f[r]]
    OBVIOUS
  <2> HIDE DEF f
  <2> QED BY <2>1, <2>2, <2>3, EveryRequest
<1>9. CASE Reload
  <2> DEFINE f == [r \in Requests |-> NoRequest]
  <2>1. req' = f
    BY <1>9 DEF Reload
  <2>2. \A r \in Requests : RequestOK(f[r])
    BY RestingRequest
  <2>3. f = [r \in Requests |-> f[r]]
    OBVIOUS
  <2> HIDE DEF f
  <2> QED BY <2>1, <2>2, <2>3, EveryRequest
<1>10. ASSUME NEW v \in Views, Visit(v) PROVE UNCHANGED req
  BY <1>10 DEF Visit
<1>11. ASSUME NEW w \in Ways, SigningIn(w) PROVE UNCHANGED req
  BY <1>11 DEF SigningIn, Finish, Refused
<1>12. CASE FormStep
  BY <1>12, <1>1 DEF FormStep, Submit, Credential, SendCode, CodeAnswered, Countdown, Google, ScriptLoaded
<1>13. CASE Elsewhere
  BY <1>13, <1>1 DEF Elsewhere
<1>14. CASE UNCHANGED vars
  BY <1>14, <1>1 DEF vars
<1> QED BY <1>1, <1>2, <1>3, <1>4, <1>5, <1>6, <1>7, <1>8, <1>9, <1>10, <1>11, <1>12, <1>13, <1>14
        DEF Next, Requesting, RefreshCall, FormStep
-----------------------------------------------------------------------------
(* The rest of the state, part by part.                                    *)
LEMMA GuardedRoute ==
  ASSUME NEW v \in Views, NEW k, NEW asked \in {Nothing, "account"}, Guarded(v, k, asked)
  PROVE  /\ view' \in Views /\ from' \in {Nothing, "account"}
         /\ view' = "account" => k # Nothing
  BY DEF Guarded, Views

LEMMA FreshFormOK ==
  FreshForm => /\ busy' \in BOOLEAN /\ sending' \in BOOLEAN /\ wait' \in BOOLEAN
               /\ google' \in {"none", "loading", "prompt"} /\ calls' \in [Ways -> BOOLEAN]
  BY DEF FreshForm

(* What signs in: a token of a user, also in the storage, and the user.    *)
LEMMA TokensSet ==
  ASSUME RestOK, NEW k \in Tokens, SetTokens(k)
  PROVE  /\ tok' \in Tokens \cup {Nothing} /\ stored' \in Tokens \cup {Nothing} /\ since' \subseteq Users
         /\ tok' # Nothing /\ tok'.user \in since' /\ since \subseteq since'
         /\ since' = since \cup {k.user} /\ tok' = k
<1>1. Holder(k) = {k.user} /\ k # Nothing /\ k.user \in Users
  BY HolderKnown, TokenIsSome
<1> QED BY <1>1 DEF RestOK, SetTokens

LEMMA RestKept ==
  ASSUME RestOK, RequestsOK, [Next]_vars
  PROVE  RestOK'
<1>1. ASSUME NEW r \in Requests, Send(r) \/ Fail(r) PROVE RestOK'
  BY <1>1 DEF Send, Fail, session, route, login, RestOK
<1>2. ASSUME NEW r \in Requests, Succeed(r) PROVE RestOK'
  <2>1. req[r].tok \in Tokens \cup {Nothing}
    BY DEF RequestsOK, RequestRecords
  <2>2. cache' \subseteq Users
    BY <1>2, <2>1, HolderKnown DEF Succeed, RestOK
  <2> QED BY <1>2, <2>2 DEF Succeed, session, route, login, RestOK
<1>3. ASSUME NEW r \in Requests, EnsureFreshToken(r) PROVE RestOK'
  <2>1. refresh' \in [Slots -> Users \cup {Nothing}]
    <3>1. tok.user \in Users
      BY <1>3, TokenIsSome DEF EnsureFreshToken, Refreshable, RestOK
    <3> QED BY <1>3, <3>1 DEF EnsureFreshToken, RestOK
  <2> QED BY <1>3, <2>1 DEF EnsureFreshToken, session, route, login, RestOK
<1>4. ASSUME NEW s \in Slots, Refreshed(s) PROVE RestOK'
  <2>1. [user |-> refresh[s], good |-> TRUE] \in Tokens
    BY <1>4 DEF Refreshed, Refreshing, RestOK, Tokens
  <2>2. SetTokens([user |-> refresh[s], good |-> TRUE])
    BY <1>4 DEF Refreshed
  <2>3. /\ tok' \in Tokens \cup {Nothing} /\ stored' \in Tokens \cup {Nothing}
        /\ since' \subseteq Users
    BY <2>1, <2>2, TokensSet
  <2>4. refresh' \in [Slots -> Users \cup {Nothing}]
    BY <1>4 DEF Refreshed, RestOK
  <2> QED BY <1>4, <2>3, <2>4 DEF Refreshed, route, login, RestOK
<1>5. ASSUME NEW s \in Slots, RefreshFailed(s) PROVE RestOK'
  <2>1. refresh' \in [Slots -> Users \cup {Nothing}]
    BY <1>5 DEF RefreshFailed, RestOK
  <2>2. view' \in Views /\ from' \in {Nothing, "account"}
    BY <1>5, GuardedRoute DEF RefreshFailed, RestOK
  <2> QED BY <1>5, <2>1, <2>2 DEF RefreshFailed, Logout, login, RestOK
<1>6. ASSUME NEW v \in Views, Visit(v) PROVE RestOK'
  <2>1. view' \in Views /\ from' \in {Nothing, "account"}
    BY <1>6, GuardedRoute DEF Visit
  <2> QED BY <1>6, <2>1, FreshFormOK DEF Visit, session, RestOK
<1>7. CASE SignOut
  <2>1. view' \in Views
    BY <1>7 DEF SignOut, Views
  <2> QED BY <1>7, <2>1, FreshFormOK DEF SignOut, Clear, RestOK
<1>8. CASE FormStep
  <2>1. UNCHANGED <<session, clock, refresh, req, cache, route, trouble>>
    BY <1>8 DEF FormStep, Submit, Credential, SendCode, CodeAnswered, Countdown, Google, ScriptLoaded
  <2>2. /\ busy' \in BOOLEAN /\ sending' \in BOOLEAN /\ wait' \in BOOLEAN
        /\ google' \in {"none", "loading", "prompt"}
    BY <1>8 DEF FormStep, Submit, Credential, SendCode, CodeAnswered, Countdown, Google, ScriptLoaded,
                BusyEnds, RestOK
  <2>3. calls' \in [Ways -> BOOLEAN]
    BY <1>8 DEF FormStep, Submit, Credential, SendCode, CodeAnswered, Countdown, Google, ScriptLoaded,
                RestOK
  <2> QED BY <2>1, <2>2, <2>3 DEF session, route, RestOK
<1>9. ASSUME NEW w \in Ways, NEW u \in Users, Finish(w, u) PROVE RestOK'
  <2>1. [user |-> u, good |-> TRUE] \in Tokens
    BY DEF Tokens
  <2>2. SetTokens([user |-> u, good |-> TRUE])
    BY <1>9 DEF Finish
  <2>3. /\ tok' \in Tokens \cup {Nothing} /\ stored' \in Tokens \cup {Nothing}
        /\ since' \subseteq Users
    BY <2>1, <2>2, TokensSet
  <2>4. view' \in Views /\ from' \in {Nothing, "account"}
    BY <1>9 DEF Finish, RestOK, Views
  <2> QED BY <1>9, <2>3, <2>4, FreshFormOK DEF Finish, RestOK
<1>10. ASSUME NEW w \in Ways, Refused(w) PROVE RestOK'
  <2>1. calls' \in [Ways -> BOOLEAN] /\ busy' \in BOOLEAN
    BY <1>10 DEF Refused, RestOK
  <2> QED BY <1>10, <2>1 DEF Refused, session, route, RestOK
<1>11. CASE Expire
  <2>1. tok' \in Tokens \cup {Nothing} /\ stored' \in Tokens \cup {Nothing}
    BY <1>11, ExpiredToken DEF Expire, RestOK
  <2>2. clock' \in Clock
    BY <1>11, BoundsAssumption DEF Expire, RestOK, Clock
  <2> QED BY <1>11, <2>1, <2>2 DEF Expire, route, login, RestOK
<1>12. CASE Elsewhere
  <2>1. stored' \in Tokens \cup {Nothing}
    BY <1>12 DEF Elsewhere, Tokens
  <2>2. trouble' \in 0..MaxTrouble
    BY <1>12, BoundsAssumption DEF Elsewhere, Troubled, RestOK
  <2> QED BY <1>12, <2>1, <2>2 DEF Elsewhere, route, login, RestOK
<1>13. CASE Reload
  <2>1. trouble' \in 0..MaxTrouble
    BY <1>13, BoundsAssumption DEF Reload, Troubled, RestOK
  <2>2. view' \in Views /\ from' \in {Nothing, "account"}
    BY <1>13, GuardedRoute DEF Reload, RestOK
  <2>3. since' \subseteq Users
    BY <1>13, HolderKnown DEF Reload, RestOK
  <2>4. refresh' \in [Slots -> Users \cup {Nothing}]
    BY <1>13 DEF Reload
  <2> QED BY <1>13, <2>1, <2>2, <2>3, <2>4, FreshFormOK DEF Reload, RestOK
<1>14. CASE UNCHANGED vars
  BY <1>14 DEF vars, session, route, login, RestOK
<1> QED BY <1>1, <1>2, <1>3, <1>4, <1>5, <1>6, <1>7, <1>8, <1>9, <1>10, <1>11, <1>12, <1>13, <1>14
        DEF Next, Requesting, RefreshCall, SigningIn, FormStep
-----------------------------------------------------------------------------
(* A refresh starts only where there is none.                              *)
LEMMA AloneKept ==
  ASSUME RestOK, AloneInSlot, [Next]_vars
  PROVE  AloneInSlot'
<1>1. CASE UNCHANGED refresh
  BY <1>1 DEF AloneInSlot, Refreshing
<1>2. ASSUME NEW r \in Requests, EnsureFreshToken(r) PROVE AloneInSlot'
  <2>1. CASE StartsRefresh
    <3>1. PICK s \in Slots : refresh' = [refresh EXCEPT ![s] = tok.user]
      BY <1>2, <2>1 DEF EnsureFreshToken
    <3>2. \A t \in Slots : t # s => refresh'[t] = Nothing
      BY <2>1, <3>1 DEF StartsRefresh, Refreshing, RestOK
    <3> QED BY <3>2 DEF AloneInSlot, Refreshing
  <2>2. CASE ~StartsRefresh
    BY <1>2, <2>2, <1>1 DEF EnsureFreshToken
  <2> QED BY <2>1, <2>2
<1>3. ASSUME NEW s \in Slots, RefreshCall(s) PROVE AloneInSlot'
  <2>1. refresh' = [refresh EXCEPT ![s] = Nothing]
    BY <1>3 DEF RefreshCall, Refreshed, RefreshFailed
  <2>2. \A t \in Slots : refresh'[t] # Nothing => refresh[t] # Nothing
    BY <2>1 DEF RestOK
  <2> QED BY <2>2 DEF AloneInSlot, Refreshing
<1>4. CASE Reload
  BY <1>4 DEF Reload, AloneInSlot, Refreshing
<1>5. ASSUME NEW r \in Requests, Send(r) \/ Succeed(r) \/ Fail(r) PROVE UNCHANGED refresh
  BY <1>5 DEF Send, Succeed, Fail
<1>6. ASSUME NEW v \in Views, Visit(v) PROVE UNCHANGED refresh
  BY <1>6 DEF Visit
<1>7. ASSUME NEW w \in Ways, SigningIn(w) PROVE UNCHANGED refresh
  BY <1>7 DEF SigningIn, Finish, Refused
<1>8. CASE FormStep
  BY <1>8, <1>1 DEF FormStep, Submit, Credential, SendCode, CodeAnswered, Countdown, Google, ScriptLoaded
<1>9. CASE SignOut \/ Expire \/ Elsewhere \/ UNCHANGED vars
  BY <1>9, <1>1 DEF SignOut, Expire, Elsewhere, vars
<1> QED BY <1>1, <1>2, <1>3, <1>4, <1>5, <1>6, <1>7, <1>8, <1>9
        DEF Next, Requesting, FormStep
-----------------------------------------------------------------------------
(* The guards: whoever ends the session also asks them again.              *)
LEMMA PagesKept ==
  ASSUME RestOK, AccountPagesNeedOne, [Next]_vars
  PROVE  AccountPagesNeedOne'
<1>1. CASE UNCHANGED <<tok, view>>
  BY <1>1 DEF AccountPagesNeedOne
<1>2. ASSUME NEW r \in Requests, Send(r) \/ Requesting(r) PROVE UNCHANGED <<tok, view>>
  BY <1>2 DEF Send, Requesting, Succeed, Fail, EnsureFreshToken, session, route
<1>3. ASSUME NEW s \in Slots, Refreshed(s) PROVE AccountPagesNeedOne'
  <2>1. [user |-> refresh[s], good |-> TRUE] \in Tokens
    BY <1>3 DEF Refreshed, Refreshing, RestOK, Tokens
  <2>2. tok' # Nothing
    BY <1>3, <2>1, TokensSet DEF Refreshed
  <2> QED BY <2>2 DEF AccountPagesNeedOne
<1>4. ASSUME NEW s \in Slots, RefreshFailed(s) PROVE AccountPagesNeedOne'
  BY <1>4, GuardedRoute DEF RefreshFailed, AccountPagesNeedOne, RestOK
<1>5. ASSUME NEW v \in Views, Visit(v) PROVE AccountPagesNeedOne'
  BY <1>5, GuardedRoute DEF Visit, AccountPagesNeedOne, session
<1>6. CASE SignOut
  BY <1>6 DEF SignOut, AccountPagesNeedOne
<1>7. CASE FormStep
  BY <1>7, <1>1 DEF FormStep, Submit, Credential, SendCode, CodeAnswered, Countdown, Google,
                    ScriptLoaded, session, route
<1>8. ASSUME NEW w \in Ways, NEW u \in Users, Finish(w, u) PROVE AccountPagesNeedOne'
  <2>1. [user |-> u, good |-> TRUE] \in Tokens
    BY DEF Tokens
  <2>2. tok' # Nothing
    BY <1>8, <2>1, TokensSet DEF Finish
  <2> QED BY <2>2 DEF AccountPagesNeedOne
<1>9. ASSUME NEW w \in Ways, Refused(w) PROVE UNCHANGED <<tok, view>>
  BY <1>9 DEF Refused, session, route
<1>10. CASE Expire
  <2>1. tok' = Nothing <=> tok = Nothing
    BY <1>10, ExpiredToken DEF Expire, RestOK
  <2> QED BY <1>10, <2>1 DEF Expire, AccountPagesNeedOne, route
<1>11. CASE Elsewhere \/ UNCHANGED vars
  BY <1>11, <1>1 DEF Elsewhere, vars, session, route
<1>12. CASE Reload
  BY <1>12, GuardedRoute DEF Reload, AccountPagesNeedOne, RestOK
<1> QED BY <1>1, <1>2, <1>3, <1>4, <1>5, <1>6, <1>7, <1>8, <1>9, <1>10, <1>11, <1>12
        DEF Next, RefreshCall, SigningIn, FormStep

(* A token is of somebody in since: what KnownAccounts says of each.       *)
Known(k, accounts) == k # Nothing => k.user \in accounts

LEMMA StillKnown ==
  \A k : \A older, newer : Known(k, older) /\ older \subseteq newer => Known(k, newer)
  BY DEF Known

LEMMA KnownAgain ==
  \A k \in Tokens \cup {Nothing} : \A accounts :
     /\ Known(k, accounts) => Known(Expired(k), accounts)
     /\ Known(k, accounts) => Holder(k) \subseteq accounts
  BY ExpiredToken, HolderKnown DEF Known

LEMMA KnownByToken ==
  KnownAccounts <=> /\ Known(tok, since)
                    /\ \A r \in Requests : req[r].live => Known(req[r].tok, since)
  BY DEF KnownAccounts, Known

Holding == KnownAccounts /\ SignOutForgets

(* The cache and the live requests are of accounts signed in since then.   *)
LEMMA HoldingKept ==
  ASSUME RestOK, RequestsOK, Holding, [Next]_vars
  PROVE  Holding'
<1> SUFFICES /\ Known(tok', since')
             /\ \A r \in Requests : req'[r].live => Known(req'[r].tok, since')
             /\ cache' \subseteq since'
  BY KnownByToken DEF Holding, KnownAccounts, Known, SignOutForgets
<1> DEFINE Goal == /\ Known(tok', since')
                   /\ \A r \in Requests : req'[r].live => Known(req'[r].tok, since')
                   /\ cache' \subseteq since'
<1>0. /\ Known(tok, since)
      /\ \A r \in Requests : req[r].live => Known(req[r].tok, since)
      /\ cache \subseteq since
  BY KnownByToken DEF Holding, SignOutForgets
<1>t. \A r \in Requests : req[r].tok \in Tokens \cup {Nothing} /\ req[r] \in RequestRecords
  BY DEF RequestsOK, RequestRecords
<1>1. CASE UNCHANGED <<tok, since, req, cache>>
  BY <1>0, <1>1
<1>2. ASSUME NEW r \in Requests, Send(r) PROVE Goal
  <2>1. req' = [req EXCEPT ![r] = [at |-> "sent", tok |-> tok, tries |-> 1, live |-> TRUE]]
        /\ UNCHANGED <<tok, since, cache>>
    BY <1>2 DEF Send, session
  <2>2. \A q \in Requests : req'[q].tok = IF q = r THEN tok ELSE req[q].tok
    BY <2>1 DEF RequestsOK
  <2>3. \A q \in Requests : q # r => req'[q] = req[q]
    BY <2>1 DEF RequestsOK
  <2> QED BY <1>0, <2>1, <2>2, <2>3
<1>3. ASSUME NEW r \in Requests, Succeed(r) \/ Fail(r) PROVE Goal
  <2>1. req' = [req EXCEPT ![r] = NoRequest] /\ UNCHANGED <<tok, since>>
    BY <1>3 DEF Succeed, Fail, session
  <2>2. \A q \in Requests : req'[q].live => req'[q] = req[q]
    BY <2>1, RestingFields DEF RequestsOK
  <2>3. cache' \subseteq since
    <3>1. req[r].live => Holder(req[r].tok) \subseteq since
      BY <1>0, <1>t, KnownAgain
    <3> QED BY <1>0, <1>3, <3>1 DEF Succeed, Fail
  <2> QED BY <1>0, <2>1, <2>2, <2>3
<1>4. ASSUME NEW r \in Requests, EnsureFreshToken(r) PROVE Goal
  <2>1. req' = [req EXCEPT ![r].at = "waiting"] /\ UNCHANGED <<tok, since, cache>>
    BY <1>4 DEF EnsureFreshToken, session
  <2>2. \A q \in Requests : req'[q].live = req[q].live /\ req'[q].tok = req[q].tok
    BY <2>1, <1>t DEF RequestsOK, RequestRecords
  <2> QED BY <1>0, <2>1, <2>2
<1>5. ASSUME NEW s \in Slots, Refreshed(s) PROVE Goal
  <2> DEFINE k == [user |-> refresh[s], good |-> TRUE]
  <2>1. k \in Tokens
    BY <1>5 DEF Refreshed, Refreshing, RestOK, Tokens
  <2>2. SetTokens(k) /\ UNCHANGED cache
        /\ req' = [r \in Requests |-> IF r \in Waiting THEN Replay(r, k) ELSE req[r]]
    BY <1>5 DEF Refreshed
  <2> HIDE DEF k
  <2>3. tok' = k /\ Known(k, since') /\ since \subseteq since'
    BY <2>1, <2>2, TokensSet DEF Known
  <2>4. \A r \in Requests : Replay(r, k).tok = k
    BY <1>t DEF Replay, RequestRecords
  <2>5. \A r \in Requests : req'[r].tok = k \/ req'[r] = req[r]
    BY <2>2, <2>4
  <2> QED BY <1>0, <2>2, <2>3, <2>5, StillKnown
<1>6. ASSUME NEW s \in Slots, RefreshFailed(s) PROVE Goal
  <2>1. tok' = Nothing /\ UNCHANGED <<since, cache>> /\ req' = WaitersFail
    BY <1>6 DEF RefreshFailed, Logout
  <2>2. \A r \in Requests : req'[r].live => req'[r] = req[r]
    BY <2>1, RestingFields DEF WaitersFail
  <2> QED BY <1>0, <2>1, <2>2 DEF Known
<1>7. CASE SignOut
  <2>1. tok' = Nothing /\ cache' = {} /\ req' = [r \in Requests |-> [req[r] EXCEPT !.live = FALSE]]
    BY <1>7 DEF SignOut, Clear
  <2>2. \A r \in Requests : ~req'[r].live
    BY <2>1, <1>t DEF RequestRecords
  <2> QED BY <2>1, <2>2 DEF Known
<1>8. ASSUME NEW w \in Ways, NEW u \in Users, Finish(w, u) PROVE Goal
  <2> DEFINE k == [user |-> u, good |-> TRUE]
  <2>1. k \in Tokens
    BY DEF Tokens
  <2>2. SetTokens(k) /\ UNCHANGED <<req, cache>>
    BY <1>8 DEF Finish
  <2> HIDE DEF k
  <2>3. tok' = k /\ Known(k, since') /\ since \subseteq since'
    BY <2>1, <2>2, TokensSet DEF Known
  <2> QED BY <1>0, <2>2, <2>3, StillKnown
<1>9. CASE Expire
  <2>1. /\ tok' = Expired(tok) /\ UNCHANGED <<since, cache>>
        /\ req' = [r \in Requests |-> [req[r] EXCEPT !.tok = Expired(@)]]
    BY <1>9 DEF Expire
  <2>2. Known(tok', since)
    BY <1>0, <2>1, KnownAgain DEF RestOK
  <2>3. \A r \in Requests : req'[r].live = req[r].live /\ req'[r].tok = Expired(req[r].tok)
    BY <2>1, <1>t DEF RequestRecords
  <2>4. \A r \in Requests : req'[r].live => Known(req'[r].tok, since)
    BY <1>0, <1>t, <2>3, KnownAgain
  <2> QED BY <1>0, <2>1, <2>2, <2>4
<1>10. CASE Reload
  <2>1. /\ tok' = stored /\ since' = Holder(stored) /\ cache' = {}
        /\ req' = [r \in Requests |-> NoRequest]
    BY <1>10 DEF Reload
  <2>2. \A r \in Requests : ~req'[r].live
    BY <2>1, RestingFields
  <2>3. Known(stored, Holder(stored))
    BY HolderKnown DEF Known, RestOK
  <2> QED BY <2>1, <2>2, <2>3
<1>11. ASSUME NEW v \in Views, Visit(v) PROVE Goal
  BY <1>11, <1>1 DEF Visit, session
<1>12. ASSUME NEW w \in Ways, Refused(w) PROVE Goal
  BY <1>12, <1>1 DEF Refused, session
<1>13. CASE FormStep
  BY <1>13, <1>1 DEF FormStep, Submit, Credential, SendCode, CodeAnswered, Countdown, Google,
                     ScriptLoaded, session
<1>14. CASE Elsewhere \/ UNCHANGED vars
  BY <1>14, <1>1 DEF Elsewhere, vars, session
<1> QED BY <1>1, <1>2, <1>3, <1>4, <1>5, <1>6, <1>7, <1>8, <1>9, <1>10, <1>11, <1>12, <1>13, <1>14
        DEF Next, Requesting, RefreshCall, SigningIn, FormStep
-----------------------------------------------------------------------------
LEMMA SessionStep == SessionInv /\ [Next]_vars => SessionInv'
<1> SUFFICES ASSUME SessionInv, [Next]_vars PROVE SessionInv'
  OBVIOUS
<1>1. RestOK /\ RequestsOK /\ AloneInSlot /\ AccountPagesNeedOne /\ Holding
  BY TypeByRequests DEF SessionInv, Holding
<1>2. RestOK' /\ RequestsOK'
  BY <1>1, RestKept, RequestsKept
<1>3. TypeOK' /\ WaitsOnce'
  BY <1>2, TypeByRequests, PTL
<1>4. AloneInSlot' /\ AccountPagesNeedOne' /\ Holding'
  BY <1>1, AloneKept, PagesKept, HoldingKept
<1> QED BY <1>3, <1>4 DEF SessionInv, Holding

LEMMA SessionInvariant == Spec => []SessionInv
  BY InitSession, SessionStep, PTL DEF Spec

(* What SessionAgrees states: no page of an account without one, one       *)
(* refresh for all who wait, and one replay for each request, whatever     *)
(* expires, answers or is written elsewhere in between                     *)
(* (client.ts 24-92, guards.tsx 17-23).                                    *)
THEOREM SessionCorrect == Spec => []SessionAgrees
<1>1. AloneInSlot => OneRefresh
  <2> SUFFICES ASSUME AloneInSlot PROVE OneRefresh
    OBVIOUS
  <2>1. CASE Refreshing = {}
    BY <2>1, FS_EmptySet DEF OneRefresh
  <2>2. CASE Refreshing # {}
    <3>1. PICK s \in Refreshing : Refreshing = {s}
      BY <2>2 DEF AloneInSlot
    <3>2. Cardinality({s}) = 1
      BY FS_Singleton
    <3>3. Cardinality(Refreshing) = 1
      BY <3>1, <3>2
    <3> QED BY <3>3 DEF OneRefresh
  <2> QED BY <2>1, <2>2
<1>2. SessionInv => SessionAgrees
  BY <1>1 DEF SessionInv, SessionAgrees, WaitsOnce, ReplayedOnce
<1> QED BY <1>2, SessionInvariant, PTL

(* What SignOutForgets states: nothing of an account that signed out       *)
(* comes back into the cache with a late answer (TopBar.tsx 60-64).        *)
THEOREM SignOutClears == Spec => []SignOutForgets
<1>1. SessionInv => SignOutForgets
  BY DEF SessionInv
<1> QED BY <1>1, SessionInvariant, PTL
=============================================================================
