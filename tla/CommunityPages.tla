---------------------------- MODULE CommunityPages ----------------------------
(***************************************************************************)
(* The community: the feed of all published works and that of the user's   *)
(* own, the viewer of one work with its heart and, for its author, a       *)
(* button that unpublishes it.  Nothing is shown before the server says    *)
(* so: an answer is written into both cached feeds.  Guests, the filter by *)
(* type, the number of likes and the publishing streak are left out.       *)
(***************************************************************************)
EXTENDS Integers, FiniteSets, Queries

CONSTANTS
    Works,
    Mine,          \* works of the user
    MaxTaps,       \* bound: what the user and other authors do
    MaxHearts,     \* bound: calls under way at once
    KeptCommunity  \* promises, see the guards

ASSUME CommunityAssumption ==
    /\ Mine \subseteq Works /\ MaxTaps \in Nat /\ MaxHearts \in Nat \ {0}
    /\ KeptCommunity \subseteq {"quiet", "presses"} /\ Nothing \notin {"ok", "refused"}

VARIABLES
    exhibited,     \* the server: works that are published
    hearted,       \* works that the user likes
    feedTab,       \* the tab that is shown; "away" from the community
    feeds,         \* what is cached of each feed
    feeding,       \* and the loads under way
    viewed,        \* the work in the viewer
    hearts,        \* calls that were sent
    latest,        \* the works of the newest like and the newest unpublishing
    wanted,        \* history: what the user's last press on each work was for
    taps

gallery == <<exhibited, hearted>>
stand == <<feedTab, feeds, feeding, viewed, latest>>
communityVars == <<gallery, stand, hearts, wanted, taps>>

Feeds == {"all", "mine"}
FeedWatch == [f \in Feeds \cap {feedTab} |-> "pages"]
InFeed(f) == IF f = "mine" THEN exhibited \cap Mine ELSE exhibited
FeedAnswer(f) == [rows |-> {[work |-> w, liked |-> w \in hearted] : w \in InFeed(f)}]
RowsShown == IF feedTab \notin Feeds \/ feeds[feedTab] = Nothing THEN {} ELSE feeds[feedTab].rows

CommunityInit ==
    /\ exhibited = Works /\ hearted = {}
    /\ feedTab = "all" /\ feeds = [f \in Feeds |-> Nothing] /\ feeding = Watched(feeds, FeedWatch)
    /\ viewed = Nothing /\ latest = [like |-> Nothing, unpublish |-> Nothing]
    /\ hearts = {} /\ wanted = [w \in Works |-> Nothing] /\ taps = 0

Tap == taps < MaxTaps /\ taps' = taps + 1

(* Another author unpublishes a work. *)
TakenDown == /\ Tap /\ \E w \in exhibited \ Mine : exhibited' = exhibited \ {w}
             /\ UNCHANGED <<hearted, stand, hearts, wanted>>

FeedRead(f) ==
    /\ feeding[f] # Nothing /\ feeding[f].answer = Nothing
    /\ feeding' = [feeding EXCEPT ![f].answer = FeedAnswer(f)]
    /\ UNCHANGED <<gallery, feedTab, feeds, viewed, latest, hearts, wanted, taps>>
FeedArrives(f) ==
    /\ feeding[f] # Nothing /\ feeding[f].answer # Nothing
    /\ feeds' = [feeds EXCEPT ![f] = feeding[f].answer] /\ feeding' = [feeding EXCEPT ![f] = Nothing]
    /\ UNCHANGED <<gallery, feedTab, viewed, latest, hearts, wanted, taps>>

Unhurried == "quiet" \in KeptCommunity => hearts = {}
Undisturbed == "quiet" \in KeptCommunity => \A f \in Feeds : feeding[f] = Nothing

(* Another tab keeps the viewer, which shows its work if the feed has it. *)
Stroll ==
    /\ Tap /\ Unhurried
    /\ \E t \in (Feeds \cup {"away"}) \ {feedTab} :
         /\ feedTab' = t
         /\ feeding' = Watched(feeding, [f \in Feeds \cap {t} |-> "pages"])
         /\ viewed' = IF "away" \in {t, feedTab} THEN Nothing ELSE viewed
         /\ latest' = IF "away" \in {t, feedTab} THEN [like |-> Nothing, unpublish |-> Nothing] ELSE latest
    /\ UNCHANGED <<gallery, feeds, hearts, wanted>>
FeedRefocus ==
    /\ feedTab \in Feeds /\ feeding[feedTab] = Nothing /\ Unhurried
    /\ feeding' = Watched(feeding, FeedWatch)
    /\ UNCHANGED <<gallery, feedTab, feeds, viewed, latest, hearts, wanted, taps>>

ViewWork == /\ \E r \in RowsShown : r.work # viewed /\ viewed' = r.work
            /\ UNCHANGED <<gallery, feedTab, feeds, feeding, latest, hearts, wanted, taps>>
CloseViewer == /\ viewed # Nothing /\ viewed' = Nothing
               /\ UNCHANGED <<gallery, feedTab, feeds, feeding, latest, hearts, wanted, taps>>

(* A button waits for the newest call of its kind only. *)
UnderWay(kind, w) == \E c \in hearts : c.kind = kind /\ c.work = w
Hearting(w) == latest.like = w /\ UnderWay("like", w)
Unpublishing == UnderWay("unpublish", latest.unpublish)
Tapped(kind, w, to) ==
    /\ Tap /\ Undisturbed /\ Cardinality(hearts) < MaxHearts
    /\ hearts' = hearts \cup {[kind |-> kind, n |-> taps, work |-> w, to |-> to, answer |-> Nothing]}
    /\ latest' = [latest EXCEPT ![kind] = w]
PressHeart ==
    /\ \E r \in RowsShown :
         /\ r.work = viewed /\ ~Hearting(viewed)
         /\ "presses" \in KeptCommunity => ~UnderWay("like", viewed)
         /\ Tapped("like", viewed, ~r.liked)
         /\ wanted' = [wanted EXCEPT ![viewed] = ~r.liked]
    /\ UNCHANGED <<gallery, feedTab, feeds, feeding, viewed>>
PressUnpublish ==
    /\ \E r \in RowsShown : r.work = viewed /\ viewed \in Mine /\ ~Unpublishing /\ Tapped("unpublish", viewed, FALSE)
    /\ UNCHANGED <<gallery, feedTab, feeds, feeding, viewed, wanted>>

Responds(c, answer) == hearts' = (hearts \ {c}) \cup {[c EXCEPT !.answer = answer]}
ServeLike(c) ==
    /\ c \in hearts /\ c.answer = Nothing /\ c.kind = "like" /\ c.to
    /\ IF c.work \in exhibited
       THEN hearted' = hearted \cup {c.work} /\ Responds(c, "ok")
       ELSE Responds(c, "refused") /\ UNCHANGED hearted
    /\ UNCHANGED <<exhibited, stand, wanted, taps>>
ServeUnlike(c) ==
    /\ c \in hearts /\ c.answer = Nothing /\ c.kind = "like" /\ ~c.to
    /\ hearted' = hearted \ {c.work} /\ Responds(c, "ok")
    /\ UNCHANGED <<exhibited, stand, wanted, taps>>
ServeUnpublish(c) ==
    /\ c \in hearts /\ c.answer = Nothing /\ c.kind = "unpublish"
    /\ exhibited' = exhibited \ {c.work} /\ Responds(c, "ok")
    /\ UNCHANGED <<hearted, stand, wanted, taps>>

(* patchWork: an answer is written into the feeds wherever the user is. *)
Patched(c, rows) ==
    IF c.kind = "unpublish" THEN {r \in rows : r.work # c.work}
    ELSE {IF r.work = c.work THEN [r EXCEPT !.liked = c.to] ELSE r : r \in rows}
PatchedFeeds == Feeds
HeartSettles(c) ==
    /\ c \in hearts /\ c.answer = "ok" /\ hearts' = hearts \ {c}
    /\ feeds' = [f \in Feeds |-> IF f \in PatchedFeeds /\ feeds[f] # Nothing
                                 THEN [rows |-> Patched(c, feeds[f].rows)] ELSE feeds[f]]
    /\ viewed' = IF c.kind = "unpublish" THEN Nothing ELSE viewed
    /\ UNCHANGED <<gallery, feedTab, feeding, latest, wanted, taps>>

(* A refusal, or a call or answer that is lost, is told in a toast. *)
HeartFails(c) ==
    /\ c \in hearts /\ hearts' = hearts \ {c}
    /\ wanted' = IF c.kind = "like" THEN [wanted EXCEPT ![c.work] = Nothing] ELSE wanted
    /\ UNCHANGED <<gallery, stand, taps>>

CommunityNext ==
    \/ TakenDown \/ Stroll \/ FeedRefocus \/ ViewWork \/ CloseViewer \/ PressHeart \/ PressUnpublish
    \/ \E f \in Feeds : FeedRead(f) \/ FeedArrives(f)
    \/ \E c \in hearts : \/ ServeLike(c) \/ ServeUnlike(c) \/ ServeUnpublish(c)
                         \/ HeartSettles(c) \/ HeartFails(c)

-----------------------------------------------------------------------------
CommunityTypeOK ==
    /\ exhibited \subseteq Works /\ hearted \subseteq Works
    /\ feedTab \in Feeds \cup {"away"} /\ viewed \in Works \cup {Nothing}
    /\ \A f \in Feeds : feeds[f] # Nothing => \A r \in feeds[f].rows : r.work \in Works /\ r.liked \in BOOLEAN
    /\ wanted \in [Works -> BOOLEAN \cup {Nothing}] /\ Cardinality(hearts) <= MaxHearts

(* Once a press on a heart has been answered, the user likes the work just *)
(* as that last press said, and both the feeds say so, whichever was on    *)
(* the screen (CommunityPage.tsx:108-124, assets.go:332-369).              *)
LikesAsPressed ==
    \A w \in Works : wanted[w] # Nothing /\ ~UnderWay("like", w) =>
        /\ wanted[w] = (w \in hearted)
        /\ \A f \in Feeds : feeds[f] # Nothing => [work |-> w, liked |-> ~wanted[w]] \notin feeds[f].rows
=============================================================================
