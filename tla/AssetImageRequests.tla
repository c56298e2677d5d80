------------------------- MODULE AssetImageRequests -------------------------
(***************************************************************************)
(* AssetImageRequestCoordinator: card images by URL.  Requests for a URL   *)
(* that is already being downloaded join its flight; a request that is     *)
(* cancelled leaves it, and the last one takes the download with it.  URLs *)
(* that were not found are remembered for a while.  All of it runs on one  *)
(* thread.  What the image cache holds is left open: a lookup may hit.     *)
(***************************************************************************)
EXTENDS Naturals, FiniteSets, Functions

CONSTANTS Requests,      \* request ids, each used once
          Keys, Bases,   \* card image keys and asset base URLs
          Bounds,        \* distinct decode bounds
          Endings,       \* how downloads end, of EveryEnding
          Ttl,           \* negativeCacheTtl in ticks
          NegativeMax    \* negativeCacheMaxEntries

EveryEnding == {"none", "notFound", "failed"}

ASSUME NegativeAssumption == Ttl \in Nat /\ NegativeMax \in Nat
ASSUME EndingsAssumption == Endings \subseteq EveryEnding

VARIABLES base,          \* m_config.assetBaseUrl
          flights,       \* m_flights
          requestKeys,   \* m_requestKeys
          bound,         \* what each request asked for, or NoBound
          fetching,      \* downloads of the fetcher that are pending
          posted,        \* results the fetcher has queued for delivery
          negative,      \* m_negativeCache: ticks left, 0 if not in it
          answer         \* what each request's callback was given

vars == <<base, flights, requestKeys, bound, fetching, posted, negative, answer>>

Urls == Bases \X Keys
NoUrl == << >>
NoBound == "noBound"
ASSUME NoBoundAssumption == NoBound \notin Bounds
NoAnswer == "none"
ImageOutcomes == {"image", "invalidKey", "notFound", "failed", "decodeError"}

\* A download has the id of the request that started it.  An image may decode
\* at some of the bounds only.
Flights == [fetch : Requests, waiters : (SUBSET Requests) \ {{}}]
Fetches == [id : Requests, url : Urls]
Results == [id : Requests, url : Urls, error : EveryEnding,
            decodes : SUBSET Bounds]

Init ==
  /\ base \in Bases
  /\ flights = << >>
  /\ requestKeys = [r \in Requests |-> NoUrl]
  /\ bound = [r \in Requests |-> NoBound]
  /\ fetching = {} /\ posted = {}
  /\ negative = [u \in Urls |-> 0]
  /\ answer = [r \in Requests |-> NoAnswer]

-----------------------------------------------------------------------------
(* requestCardImage() and requestUrl()                                     *)

Completed(r, o) ==
  /\ answer' = [answer EXCEPT ![r] = o]
  /\ UNCHANGED <<flights, requestKeys, fetching>>

\* A request for a URL that has a flight joins it.
Join(r, u) ==
  /\ u \in DOMAIN flights
  /\ flights' = [flights EXCEPT ![u].waiters = @ \cup {r}]
  /\ requestKeys' = [requestKeys EXCEPT ![r] = u]
  /\ UNCHANGED <<fetching, answer>>

Launch(r, u) ==
  /\ u \notin DOMAIN flights
  /\ flights' = [v \in DOMAIN flights \cup {u} |->
                 IF v = u THEN [fetch |-> r, waiters |-> {r}] ELSE flights[v]]
  /\ requestKeys' = [requestKeys EXCEPT ![r] = u]
  /\ fetching' = fetching \cup {[id |-> r, url |-> u]}
  /\ UNCHANGED answer

RequestCardImage(r, k, b) ==
  /\ bound[r] = NoBound
  /\ bound' = [bound EXCEPT ![r] = b]
  /\ LET u == <<base, k>>
     IN  \/ Completed(r, "invalidKey")
         \/ negative[u] > 0 /\ Completed(r, "notFound")
         \/ negative[u] = 0 /\ Completed(r, "image")
         \/ negative[u] = 0 /\ (Join(r, u) \/ Launch(r, u))
  /\ UNCHANGED <<base, posted, negative>>

SetAssetBaseUrl ==
  /\ base' \in Bases
  /\ UNCHANGED <<flights, requestKeys, bound, fetching, posted, negative, answer>>

-----------------------------------------------------------------------------
(* cancel() and cancelAll()                                                *)

\* The download of a flight is cancelled: nothing, if its result is posted.
WithoutFlight(u) == Restrict(flights, DOMAIN flights \ {u})
WithoutFetch(id) == {f \in fetching : f.id # id}

\* Mutants: the download is cancelled for all of its waiters, or the
\* flight is looked for under the present base URL.
LeaveWithFetch(r, u) ==
  LET rest == flights[u].waiters \ {r}
  IN  /\ flights' = IF rest = {} THEN WithoutFlight(u)
                     ELSE [flights EXCEPT ![u].waiters = rest]
      /\ fetching' = WithoutFetch(flights[u].fetch)
LeaveAtBase(r, u) ==
  LET v == <<base, u[2]>>
      rest == flights[v].waiters \ {r}
  IN  IF v \notin DOMAIN flights THEN UNCHANGED <<flights, fetching>>
      ELSE IF rest = {}
      THEN flights' = WithoutFlight(v) /\ fetching' = WithoutFetch(flights[v].fetch)
      ELSE flights' = [flights EXCEPT ![v].waiters = rest] /\ UNCHANGED fetching

\* The request leaves the flight it is in; the last one ends it.
Leave(r, u) ==
  LET rest == flights[u].waiters \ {r}
  IN  IF rest = {}
      THEN /\ flights' = WithoutFlight(u)
           /\ fetching' = WithoutFetch(flights[u].fetch)
      ELSE /\ flights' = [flights EXCEPT ![u].waiters = rest]
           /\ UNCHANGED fetching

\* Mutant: the id is forgotten, the waiter stays.
CancelKeepingWaiter(r) ==
  /\ requestKeys' = [requestKeys EXCEPT ![r] = NoUrl]
  /\ UNCHANGED <<base, flights, bound, fetching, posted, negative, answer>>

Cancel(r) ==
  /\ IF requestKeys[r] = NoUrl THEN UNCHANGED <<flights, requestKeys, fetching>>
     ELSE /\ Leave(r, requestKeys[r])
          /\ requestKeys' = [requestKeys EXCEPT ![r] = NoUrl]
  /\ UNCHANGED <<base, bound, posted, negative, answer>>

CancelAll ==
  /\ fetching' = {f \in fetching : \A u \in DOMAIN flights : flights[u].fetch # f.id}
  /\ flights' = << >>
  /\ requestKeys' = [r \in Requests |-> NoUrl]
  /\ UNCHANGED <<base, bound, posted, negative, answer>>

-----------------------------------------------------------------------------
(* The fetcher, and handleFetchFinished()                                  *)

\* A download ends, its result is queued.
FetchCompletes ==
  /\ \E f \in fetching, e \in Endings, D \in SUBSET Bounds :
       /\ fetching' = fetching \ {f}
       /\ posted' = posted \cup
            {[id |-> f.id, url |-> f.url, error |-> e,
              decodes |-> IF e = "none" THEN D ELSE {}]}
  /\ UNCHANGED <<base, flights, requestKeys, bound, negative, answer>>

Remembers(n) == {u \in Urls : n[u] > 0}

\* pruneNegativeCache(): of what is too much, the oldest go.
Pruned(n) ==
  IF Cardinality(Remembers(n)) <= NegativeMax THEN {n}
  ELSE {[n EXCEPT ![u] = 0] :
          u \in {v \in Remembers(n) : \A w \in Remembers(n) : n[v] <= n[w]}}

\* rememberNotFound().
Remembered(u) ==
  IF Ttl = 0 \/ NegativeMax = 0 THEN {negative}
  ELSE Pruned([negative EXCEPT ![u] = Ttl])

\* Every bound is decoded before any callback, and one failure fails all.
OutcomeOf(p, W, r) ==
  IF p.error # "none" THEN p.error
  ELSE IF {bound[w] : w \in W} \subseteq p.decodes THEN "image" ELSE "decodeError"

\* Mutant: a flight takes the result of any download of its URL.
IsStaleByUrl(p) == p.url \notin DOMAIN flights

\* The result of a download that was cancelled too late.
IsStale(p) == p.url \notin DOMAIN flights \/ flights[p.url].fetch # p.id

HandleFetchFinished(p) ==
  /\ p \in posted
  /\ posted' = posted \ {p}
  /\ IF IsStale(p) THEN UNCHANGED <<flights, requestKeys, negative, answer>>
     ELSE LET W == flights[p.url].waiters
          IN  /\ flights' = WithoutFlight(p.url)
              /\ requestKeys' = [r \in Requests |->
                                   IF r \in W THEN NoUrl ELSE requestKeys[r]]
              /\ answer' = [r \in Requests |->
                              IF r \in W THEN OutcomeOf(p, W, r) ELSE answer[r]]
              /\ negative' \in IF p.error = "notFound" THEN Remembered(p.url)
                               ELSE {negative}
  /\ UNCHANGED <<base, bound, fetching>>

\* Time passes: entries of the negative cache expire.
Tick ==
  /\ negative' = [u \in Urls |-> IF negative[u] = 0 THEN 0 ELSE negative[u] - 1]
  /\ UNCHANGED <<base, flights, requestKeys, bound, fetching, posted, answer>>

-----------------------------------------------------------------------------

Next ==
  \/ \E r \in Requests, k \in Keys, b \in Bounds : RequestCardImage(r, k, b)
  \/ \E r \in Requests : bound[r] # NoBound /\ Cancel(r)
  \/ SetAssetBaseUrl \/ CancelAll \/ FetchCompletes \/ Tick
  \/ \E p \in posted : HandleFetchFinished(p)

\* Downloads settle, see AssetFetcher, and the event loop delivers them.
Fairness ==
  WF_vars(FetchCompletes) /\ WF_vars(\E p \in posted : HandleFetchFinished(p))

Spec == Init /\ [][Next]_vars /\ Fairness

-----------------------------------------------------------------------------
(* Properties                                                              *)

TypeOK ==
  /\ base \in Bases
  /\ \E U \in SUBSET Urls : flights \in [U -> Flights]
  /\ requestKeys \in [Requests -> Urls \cup {NoUrl}]
  /\ bound \in [Requests -> Bounds \cup {NoBound}]
  /\ fetching \subseteq Fetches
  /\ posted \subseteq Results
  /\ negative \in [Urls -> 0..Ttl]
  /\ answer \in [Requests -> ImageOutcomes \cup {NoAnswer}]

\* A request waits in the flight its id leads to, and in no other: else it
\* could not be cancelled, also after the base URL has changed.
WaitersAreFound ==
  \A r \in Requests, u \in Urls :
    requestKeys[r] = u <=> u \in DOMAIN flights /\ r \in flights[u].waiters

\* A URL is downloaded once for all who wait for it, and for nobody else;
\* each flight has waiters, and a download that will still answer it.
OneDownloadPerFlight ==
  /\ \A u \in DOMAIN flights :
       /\ flights[u].waiters # {}
       /\ \/ [id |-> flights[u].fetch, url |-> u] \in fetching
          \/ \E p \in posted : p.id = flights[u].fetch /\ p.url = u
  /\ \A f \in fetching : f.url \in DOMAIN flights /\ flights[f.url].fetch = f.id

\* Why that is: a download is known by the request that launched it, which
\* no other flight has, and is over before its result is posted; a request
\* that was not made yet waits nowhere.
DownloadsAreDistinct ==
  /\ \A u, v \in DOMAIN flights : flights[u].fetch = flights[v].fetch => u = v
  /\ \A u \in DOMAIN flights : bound[flights[u].fetch] # NoBound
  /\ \A p \in posted :
       bound[p.id] # NoBound /\ \A f \in fetching : f.id # p.id
  /\ \A r \in Requests : bound[r] = NoBound => requestKeys[r] = NoUrl

\* Requests, flights and downloads agree: whoever waits can be found and is in
\* one flight, each flight has its one download, no two are confused.
Sharing == TypeOK /\ WaitersAreFound /\ OneDownloadPerFlight /\ DownloadsAreDistinct

\* A request is answered once, maybe before it returns, and never after it
\* was cancelled; and one that others cancelled beside is still answered.
Coordinator ==
  INSTANCE OneAnswer WITH
    Calls <- Requests, Outcomes <- ImageOutcomes, NoOutcome <- NoAnswer,
    AtOnce <- TRUE,
    phase <- [r \in Requests |->
                CASE bound[r] = NoBound -> "unused"
                  [] answer[r] # NoAnswer -> "answered"
                  [] requestKeys[r] # NoUrl -> "open"
                  [] OTHER -> "withdrawn"],
    outcome <- answer
AnswersOnce == Coordinator!Promise
=============================================================================
