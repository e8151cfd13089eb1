---------------------------- MODULE Submission ----------------------------
(***************************************************************************)
(* Pricing a request and sending it, as every creation page does: the      *)
(* quote of the request (asked for when the request has stood for a        *)
(* moment, and kept for a while), the button that sends the request at     *)
(* that price with an idempotency key, and the server's handler, which     *)
(* compares the price before it looks the key up.  A call of the tab can   *)
(* fail while its request is still on its way, or be answered by the       *)
(* gateway in the server's place.                                          *)
(*                                                                         *)
(* A page extends this module: its request is the parameter b.  A price is *)
(* told apart by the request it is for and by the list it was made with.   *)
(***************************************************************************)
EXTENDS Integers, Sequences, FiniteSets, Null

CONSTANTS
    MaxCalls,      \* bound: calls that create a job
    MaxPrice       \* bound: changes of the price list

ASSUME SubmissionAssumption == MaxCalls \in Nat \ {0} /\ MaxPrice \in Nat

VARIABLES
    debounced, quote, fetching,   \* the debounced request, its query's data and isFetching
    idem, notice,                 \* idem.current, and what the cost bar says
    calls, newest,                \* mutations under way; how many there have been
    wire,                         \* requests the server has yet to handle
    jobs, price,                  \* the server's jobs and price list
    asked                         \* history: for each key, what was pressed and learnt

tab == <<debounced, quote, fetching, idem, notice>>
server == <<wire, jobs, price>>
submission == <<tab, calls, newest, server, asked>>

Outcomes == {"job", "price_changed", "insufficient"}
Notices == {Nothing, "priceChanged", "insufficient"}
Prices == 0..MaxPrice
Keys == 1..Len(asked)

(* Faulty variants, for the checks of the properties only. *)
FreshKey(b) == Len(asked) + 1
DiffersByRequest(m) == m.quote.of # m.body

SubmissionInit ==
    /\ debounced = Nothing /\ quote = Nothing /\ fetching = FALSE
    /\ idem = Nothing /\ notice = Nothing
    /\ calls = {} /\ newest = 0
    /\ wire = {} /\ jobs = {} /\ price = 0
    /\ asked = <<>>

(* isPending is that of the latest mutate: an earlier call that is still   *)
(* under way no longer counts.                                             *)
Submitting == \E c \in calls : c.n = newest

CanSubmit(b) == /\ b # Nothing /\ quote # Nothing
                /\ debounced = b /\ ~fetching /\ ~Submitting

(* The request has stood for 300 ms.  Its query may have been answered in  *)
(* the last minutes, by the price list of then (as when it was sent), and  *)
(* is asked again unless that was less than 30 s ago.                      *)
Debounced(b) == debounced # b /\ debounced' = b
Settle(b) ==
    /\ Debounced(b)
    /\ \/ b = Nothing /\ quote' = Nothing /\ fetching' = FALSE
       \/ b # Nothing /\ quote' = Nothing /\ fetching' = TRUE
       \/ /\ \E k \in Keys : \E p \in asked[k].presses : p.body = b /\ quote' = p.quote.at
          /\ fetching' \in BOOLEAN
    /\ UNCHANGED <<idem, notice, calls, newest, server, asked>>

QuoteAnswered ==
    /\ fetching /\ fetching' = FALSE
    /\ quote' \in {price, quote}       \* a refused quote leaves the data there is
    /\ UNCHANGED <<debounced, idem, notice, calls, newest, server, asked>>

QuoteArrives == QuoteAnswered /\ quote' = price

(* The window is focused again, or the network is back. *)
Refocus ==
    /\ debounced # Nothing /\ ~fetching /\ quote # price
    /\ fetching' = TRUE
    /\ UNCHANGED <<debounced, quote, idem, notice, calls, newest, server, asked>>

KeyFor(b) == IF idem # Nothing /\ idem.body = b THEN idem.key ELSE Len(asked) + 1

(* One click, or two before the button is drawn as busy. *)
Press(b) ==
    /\ CanSubmit(b)
    /\ \E clicks \in 1..2 :
        LET key == KeyFor(b)
            quoted == [of |-> debounced, at |-> quote]
            made == [body |-> b, quote |-> quoted]
            sent == {[n |-> newest + i, key |-> key, body |-> b, quote |-> quoted,
                      answer |-> Nothing] : i \in 1..clicks}
        IN /\ newest + clicks <= MaxCalls
           /\ newest' = newest + clicks
           /\ calls' = calls \cup sent
           /\ wire' = wire \cup sent
           /\ idem' = [body |-> b, key |-> key]
           /\ asked' = IF key \in Keys
                       THEN [asked EXCEPT ![key].presses = @ \cup {made}]
                       ELSE Append(asked, [body |-> b, presses |-> {made}, told |-> FALSE])
    /\ notice' = Nothing
    /\ UNCHANGED <<debounced, quote, fetching, jobs, price>>

Answer(m, outcome) == calls' = {IF c.n = m.n THEN [c EXCEPT !.answer = outcome] ELSE c : c \in calls}

PriceOf(b) == [of |-> b, at |-> price]
Keyed(key) == {j \in jobs : j.key = key}

(* POST /jobs: the quote is compared first, then a job with the key is     *)
(* looked up, and only then is one made and its price held.                *)
PriceDiffers(m) == m.quote # PriceOf(m.body)
Handle ==
    /\ \E m \in wire :
        /\ wire' = wire \ {m}
        /\ \/ PriceDiffers(m) /\ Answer(m, "price_changed") /\ UNCHANGED jobs
           \/ ~PriceDiffers(m) /\ Keyed(m.key) # {} /\ Answer(m, "job") /\ UNCHANGED jobs
           \/ ~PriceDiffers(m) /\ Keyed(m.key) = {} /\ Answer(m, "insufficient") /\ UNCHANGED jobs
           \/ /\ ~PriceDiffers(m) /\ Keyed(m.key) = {} /\ Answer(m, "job")
              /\ jobs' = jobs \cup {[key |-> m.key, body |-> m.body, charged |-> PriceOf(m.body)]}
    /\ UNCHANGED <<tab, newest, price, asked>>

Reprice == /\ price < MaxPrice /\ price' = price + 1
           /\ UNCHANGED <<tab, calls, newest, wire, jobs, asked>>

(* The key is given up, with the request it was for: that of the answered  *)
(* call, or of a later one when a double click is answered twice.          *)
GivesUp(c) ==
    /\ idem' = Nothing
    /\ asked' = [k \in Keys |-> IF k = c.key \/ (idem # Nothing /\ idem.key = k)
                               THEN [asked[k] EXCEPT !.told = TRUE] ELSE asked[k]]

(* onSuccess: the page shows the job (see each page's Created). *)
Succeed(c) ==
    /\ c.answer = "job" /\ calls' = calls \ {c}
    /\ notice' = Nothing /\ GivesUp(c)
    /\ UNCHANGED <<debounced, quote, fetching, newest, server>>

(* onError of an answer, whoever gave it. *)
Refused ==
    /\ \E c \in calls :
        /\ calls' = calls \ {c} /\ GivesUp(c)
        /\ \/ c.answer = "price_changed" /\ notice' = "priceChanged" /\ fetching' = (debounced # Nothing)
           \/ c.answer = "insufficient" /\ notice' = "insufficient" /\ UNCHANGED fetching
           \/ c.answer = Nothing /\ UNCHANGED <<notice, fetching>>     \* by the gateway: a 5xx
    /\ UNCHANGED <<debounced, quote, newest, server>>

(* onError without an answer: the key is kept for the same request. *)
Lost ==
    /\ \E c \in calls : calls' = calls \ {c}
    /\ UNCHANGED <<tab, newest, server, asked>>

(* The page is left: its mutations go on without it. *)
Unmount ==
    /\ debounced' = Nothing /\ quote' = Nothing /\ fetching' = FALSE
    /\ idem' = Nothing /\ notice' = Nothing
    /\ calls' = {} /\ newest' = newest
    /\ asked' = [k \in Keys |-> [asked[k] EXCEPT !.told = TRUE]]
    /\ UNCHANGED server

SubmissionStep == QuoteAnswered \/ Refocus \/ Handle \/ Reprice \/ Refused \/ Lost

-----------------------------------------------------------------------------
SameRequest(k, l) == \A i \in k..l : asked[i].body = asked[k].body

(* A request that is sent again, because it was clicked twice or because   *)
(* its answer was lost, makes no second job as long as no call was         *)
(* answered: useSubmit keeps the key and the handler finds the job by it   *)
(* (useSubmit.ts:36, jobsvc.go:193).                                       *)
NoSecondJob == \A j, k \in jobs : j.key < k.key /\ SameRequest(j.key, k.key) => asked[j.key].told

(* A job is charged what the button showed when it was pressed for that    *)
(* very request, whatever happened to prices and requests before it came   *)
(* to be handled (useSubmit.ts:37, jobs.go:50-55).                         *)
ChargedAsQuoted == \A j \in jobs : \E p \in asked[j.key].presses : p.quote = j.charged /\ p.body = j.body
=============================================================================
