---------------------- MODULE AssetImageRequestsProofs ----------------------
(***************************************************************************)
(* For any requests, keys, base URLs and decode bounds: whoever waits for  *)
(* an image is found by its id, and each URL is downloaded once, for all   *)
(* who wait for it and for nobody else; and a request is answered at most  *)
(* once.                                                                   *)
(***************************************************************************)
EXTENDS AssetImageRequests, SequenceTheorems, TLAPS

-----------------------------------------------------------------------------
(* Flights                                                                 *)

\* What is known of the flights when Sharing holds.
LEMMA FlightsAreFunctions ==
  ASSUME TypeOK
  PROVE  /\ DOMAIN flights \subseteq Urls
         /\ flights = [u \in DOMAIN flights |-> flights[u]]
         /\ \A u \in DOMAIN flights :
              /\ flights[u] \in Flights
              /\ flights[u] = [fetch |-> flights[u].fetch, waiters |-> flights[u].waiters]
              /\ flights[u].fetch \in Requests
              /\ flights[u].waiters \subseteq Requests /\ flights[u].waiters # {}
<1>1. PICK U \in SUBSET Urls : flights \in [U -> Flights]
  BY DEF TypeOK
<1> QED BY <1>1 DEF Flights

\* A URL is not what an id leads to that has no flight.
LEMMA NoUrlIsNone == NoUrl \notin Urls
<1> SUFFICES ASSUME NEW b \in Bases, NEW k \in Keys, << >> = <<b, k>> PROVE FALSE
  BY DEF NoUrl, Urls
<1>1. Len(<< >>) = 0 /\ Len(<<b, k>>) = 2
  OBVIOUS
<1> QED BY <1>1

\* The coordinator without flights.
LEMMA NoFlights == << >> \in [{} -> Flights] /\ DOMAIN << >> = {}
<1>1. << >> \in Seq(Flights) /\ Len(<< >>) = 0
  BY EmptySeq
<1>2. << >> \in [1..0 -> Flights]
  BY <1>1, LenProperties
<1> QED BY <1>2

\* A flight that has ended.
LEMMA FlightEnds ==
  ASSUME TypeOK, NEW u \in DOMAIN flights
  PROVE  /\ DOMAIN WithoutFlight(u) = DOMAIN flights \ {u}
         /\ \A v \in DOMAIN flights \ {u} : WithoutFlight(u)[v] = flights[v]
         /\ \E U \in SUBSET Urls : WithoutFlight(u) \in [U -> Flights]
<1>1. WithoutFlight(u) = [v \in DOMAIN flights \ {u} |-> flights[v]]
  BY DEF WithoutFlight, Restrict
<1>2. WithoutFlight(u) \in [DOMAIN flights \ {u} -> Flights]
  BY <1>1, FlightsAreFunctions
<1> QED BY <1>1, <1>2, FlightsAreFunctions

-----------------------------------------------------------------------------
(* Requests                                                                *)

\* An answer that is there at once, one more who waits for a URL, or the
\* first: the waiters stay those whose ids lead there.
LEMMA RequestStep ==
  ASSUME Sharing, NEW r \in Requests, NEW k \in Keys, NEW b \in Bounds,
         RequestCardImage(r, k, b)
  PROVE  Sharing'
<1> DEFINE u == <<base, k>>
<1> USE DEF Sharing
<1>1. u \in Urls
  BY DEF TypeOK, Urls
<1>2. /\ bound[r] = NoBound /\ bound' = [bound EXCEPT ![r] = b]
      /\ UNCHANGED <<base, posted, negative>>
      /\ requestKeys[r] = NoUrl
  BY DEF RequestCardImage, DownloadsAreDistinct
<1>3. /\ bound' \in [Requests -> Bounds \cup {NoBound}]
      /\ bound'[r] # NoBound
      /\ \A q \in Requests : bound[q] # NoBound => bound'[q] # NoBound
      /\ \A q \in Requests : bound'[q] = NoBound => q # r /\ bound[q] = NoBound
  BY <1>2, NoBoundAssumption DEF TypeOK
<1>4. /\ \A v \in DOMAIN flights : flights[v].fetch \in Requests \ {r}
      /\ \A p \in posted : p.id \in Requests \ {r}
      /\ \A f \in fetching : f.id # r
      /\ \A v \in DOMAIN flights : r \notin flights[v].waiters
  <2>1. \A v \in DOMAIN flights : flights[v].fetch \in Requests \ {r}
    BY <1>2, FlightsAreFunctions DEF DownloadsAreDistinct
  <2>2. \A p \in posted : p.id \in Requests \ {r}
    BY <1>2 DEF TypeOK, Results, DownloadsAreDistinct
  <2>3. \A f \in fetching : f.id # r
    BY <2>1 DEF OneDownloadPerFlight
  <2>4. \A v \in DOMAIN flights : r \notin flights[v].waiters
    BY <1>2, NoUrlIsNone, FlightsAreFunctions DEF WaitersAreFound
  <2> QED BY <2>1, <2>2, <2>3, <2>4
<1>5. ASSUME NEW o \in ImageOutcomes, Completed(r, o) PROVE Sharing'
  <2>1. TypeOK'
    BY <1>2, <1>3, <1>5 DEF TypeOK, Completed
  <2>2. WaitersAreFound' /\ OneDownloadPerFlight'
    BY <1>2, <1>5 DEF Completed, WaitersAreFound, OneDownloadPerFlight
  <2>3. DownloadsAreDistinct'
    BY <1>2, <1>3, <1>4, <1>5 DEF Completed, DownloadsAreDistinct, TypeOK
  <2> QED BY <2>1, <2>2, <2>3
<1>6. CASE Join(r, u)
  <2>1. /\ u \in DOMAIN flights
        /\ flights' = [flights EXCEPT ![u].waiters = @ \cup {r}]
        /\ requestKeys' = [requestKeys EXCEPT ![r] = u]
        /\ UNCHANGED <<fetching, answer>>
    BY <1>6 DEF Join
  <2>2. /\ flights' \in [DOMAIN flights -> Flights]
        /\ DOMAIN flights' = DOMAIN flights
        /\ \A v \in DOMAIN flights :
             /\ flights'[v].fetch = flights[v].fetch
             /\ flights'[v].waiters = IF v = u THEN flights[v].waiters \cup {r}
                                      ELSE flights[v].waiters
             /\ flights'[v].waiters # {}
    BY <2>1, FlightsAreFunctions DEF Flights
  <2>3. TypeOK'
    <3>1. \E U \in SUBSET Urls : flights' \in [U -> Flights]
      BY <2>2, FlightsAreFunctions
    <3>2. requestKeys' \in [Requests -> Urls \cup {NoUrl}]
      BY <1>3, <2>1 DEF TypeOK
    <3> QED BY <1>1, <1>2, <1>3, <2>1, <3>1, <3>2 DEF TypeOK
  <2>4. WaitersAreFound'
    BY <1>1, <1>2, <1>4, <2>1, <2>2, SMTT(30) DEF WaitersAreFound, TypeOK
  <2>5. OneDownloadPerFlight'
    BY <1>2, <2>1, <2>2 DEF OneDownloadPerFlight
  <2>6. DownloadsAreDistinct'
    BY <1>2, <1>3, <1>4, <2>1, <2>2, SMTT(30) DEF DownloadsAreDistinct, TypeOK
  <2> QED BY <2>3, <2>4, <2>5, <2>6
<1>7. CASE Launch(r, u)
  <2> DEFINE f == [id |-> r, url |-> u]
  <2>1. /\ u \notin DOMAIN flights
        /\ flights' = [v \in DOMAIN flights \cup {u} |->
                        IF v = u THEN [fetch |-> r, waiters |-> {r}] ELSE flights[v]]
        /\ requestKeys' = [requestKeys EXCEPT ![r] = u]
        /\ fetching' = fetching \cup {f} /\ UNCHANGED answer
    BY <1>7 DEF Launch
  <2>2. /\ flights' \in [DOMAIN flights \cup {u} -> Flights]
        /\ DOMAIN flights' = DOMAIN flights \cup {u}
        /\ flights'[u].fetch = r /\ flights'[u].waiters = {r}
        /\ \A v \in DOMAIN flights : flights'[v] = flights[v]
    BY <2>1, FlightsAreFunctions DEF Flights
  <2>3. TypeOK'
    <3>1. DOMAIN flights \cup {u} \subseteq Urls /\ f \in Fetches
      BY <1>1, FlightsAreFunctions DEF Fetches
    <3> QED BY <1>1, <1>2, <1>3, <2>1, <2>2, <3>1 DEF TypeOK
  <2>4. WaitersAreFound'
    BY <1>1, <1>2, <1>4, <2>1, <2>2 DEF WaitersAreFound, TypeOK
  <2>5. OneDownloadPerFlight'
    <3>1. f \in fetching' /\ \A g \in fetching' : g = f \/ g \in fetching
      BY <2>1
    <3>2. \A v \in DOMAIN flights' :
            /\ flights'[v].waiters # {}
            /\ \/ [id |-> flights'[v].fetch, url |-> v] \in fetching'
               \/ \E p \in posted' : p.id = flights'[v].fetch /\ p.url = v
      <4>1. /\ flights'[u].waiters # {}
            /\ [id |-> flights'[u].fetch, url |-> u] \in fetching'
        BY <2>2, <3>1
      <4>2. \A v \in DOMAIN flights :
              /\ flights[v].waiters # {}
              /\ \/ [id |-> flights[v].fetch, url |-> v] \in fetching
                 \/ \E p \in posted : p.id = flights[v].fetch /\ p.url = v
        BY DEF OneDownloadPerFlight
      <4> HIDE DEF u, f
      <4> QED BY <1>2, <2>1, <2>2, <4>1, <4>2
    <3>3. \A g \in fetching' : g.url \in DOMAIN flights' /\ flights'[g.url].fetch = g.id
      <4>1. \A g \in fetching : g.url \in DOMAIN flights /\ flights[g.url].fetch = g.id
        BY DEF OneDownloadPerFlight
      <4>2. f.url = u /\ f.id = r
        OBVIOUS
      <4> HIDE DEF u, f
      <4> QED BY <2>2, <3>1, <4>1, <4>2
    <3> QED BY <3>2, <3>3 DEF OneDownloadPerFlight
  <2>6. DownloadsAreDistinct'
    BY <1>2, <1>3, <1>4, <2>1, <2>2 DEF DownloadsAreDistinct, TypeOK
  <2> QED BY <2>3, <2>4, <2>5, <2>6
<1> QED BY <1>5, <1>6, <1>7 DEF RequestCardImage, ImageOutcomes

-----------------------------------------------------------------------------
(* Cancellation                                                            *)

\* A flight that ends leaves the others as they are, with its download or
\* with its result.
LEMMA EndsAlone ==
  ASSUME Sharing, NEW u \in DOMAIN flights,
         flights' = WithoutFlight(u),
         fetching' = WithoutFetch(flights[u].fetch),
         posted' \subseteq posted,
         \A p \in posted \ posted' : p.id = flights[u].fetch,
         bound' = bound
  PROVE  /\ OneDownloadPerFlight'
         /\ \E U \in SUBSET Urls : flights' \in [U -> Flights]
         /\ \A v, w \in DOMAIN flights' : flights'[v].fetch = flights'[w].fetch => v = w
         /\ \A v \in DOMAIN flights' : bound'[flights'[v].fetch] # NoBound
         /\ \A p \in posted' : bound'[p.id] # NoBound /\ \A f \in fetching' : f.id # p.id
<1> DEFINE id == flights[u].fetch
<1>1. /\ DOMAIN flights' = DOMAIN flights \ {u}
      /\ \A v \in DOMAIN flights' : flights'[v] = flights[v]
      /\ \E U \in SUBSET Urls : flights' \in [U -> Flights]
  BY FlightEnds DEF Sharing
<1>2. \A v \in DOMAIN flights' : flights[v].fetch # id
  BY <1>1 DEF Sharing, DownloadsAreDistinct
<1>3. fetching' = {f \in fetching : f.id # id}
  BY DEF WithoutFetch
<1>4. \A f \in fetching : f.url \in DOMAIN flights /\ flights[f.url].fetch = f.id
  BY DEF Sharing, OneDownloadPerFlight
<1>5. \A f \in fetching' : f.url \in DOMAIN flights' /\ flights'[f.url].fetch = f.id
  BY <1>1, <1>3, <1>4
<1>6. ASSUME NEW v \in DOMAIN flights'
      PROVE  /\ flights'[v].waiters # {}
             /\ \/ [id |-> flights'[v].fetch, url |-> v] \in fetching'
                \/ \E p \in posted' : p.id = flights'[v].fetch /\ p.url = v
  <2>1. v \in DOMAIN flights /\ flights'[v] = flights[v] /\ flights[v].fetch # id
    BY <1>1, <1>2
  <2>2. /\ flights[v].waiters # {}
        /\ \/ [id |-> flights[v].fetch, url |-> v] \in fetching
           \/ \E p \in posted : p.id = flights[v].fetch /\ p.url = v
    BY <2>1 DEF Sharing, OneDownloadPerFlight
  <2>3. \A p \in posted : p.id = flights[v].fetch => p \in posted'
    BY <2>1
  <2>4. [id |-> flights[v].fetch, url |-> v].id = flights[v].fetch
    OBVIOUS
  <2> QED BY <1>3, <2>1, <2>2, <2>3, <2>4
<1>7. OneDownloadPerFlight'
  BY <1>5, <1>6 DEF OneDownloadPerFlight
<1>8. /\ \A v, w \in DOMAIN flights' : flights'[v].fetch = flights'[w].fetch => v = w
      /\ \A v \in DOMAIN flights' : bound'[flights'[v].fetch] # NoBound
      /\ \A p \in posted' : bound'[p.id] # NoBound /\ \A f \in fetching' : f.id # p.id
  BY <1>1, <1>3 DEF Sharing, DownloadsAreDistinct
<1> QED BY <1>1, <1>7, <1>8

\* A request leaves the flight that its id leads to.
LEMMA CancelStep ==
  ASSUME Sharing, NEW r \in Requests, bound[r] # NoBound, Cancel(r)
  PROVE  Sharing'
<1> DEFINE u == requestKeys[r]
<1> USE DEF Sharing
<1>1. UNCHANGED <<base, bound, posted, negative, answer>>
  BY DEF Cancel
<1>2. CASE u = NoUrl
  <2>1. UNCHANGED <<flights, requestKeys, fetching>>
    BY <1>2 DEF Cancel
  <2> QED BY <1>1, <2>1 DEF TypeOK, WaitersAreFound, OneDownloadPerFlight, DownloadsAreDistinct
<1>3. CASE u # NoUrl
  <2> DEFINE rest == flights[u].waiters \ {r}
  <2>1. u \in Urls /\ u \in DOMAIN flights /\ r \in flights[u].waiters
    BY <1>3 DEF TypeOK, WaitersAreFound
  <2>2. requestKeys' = [requestKeys EXCEPT ![r] = NoUrl] /\ Leave(r, u)
    BY <1>3 DEF Cancel
  <2>3. /\ requestKeys' \in [Requests -> Urls \cup {NoUrl}]
        /\ \A q \in Requests, v \in Urls :
             requestKeys'[q] = v <=> q # r /\ requestKeys[q] = v
    BY <2>2, NoUrlIsNone DEF TypeOK
  <2>4. \A q \in Requests : bound'[q] = NoBound => requestKeys'[q] = NoUrl
    BY <1>1, <2>2 DEF DownloadsAreDistinct, TypeOK
  <2>5. \A v \in Urls : v # u => r \notin {q \in Requests : requestKeys[q] = v}
    OBVIOUS
  <2>6. CASE rest = {}
    <3>1. flights' = WithoutFlight(u) /\ fetching' = WithoutFetch(flights[u].fetch)
      BY <2>2, <2>6 DEF Leave
    <3>2. /\ OneDownloadPerFlight'
          /\ \E U \in SUBSET Urls : flights' \in [U -> Flights]
          /\ \A v, w \in DOMAIN flights' : flights'[v].fetch = flights'[w].fetch => v = w
          /\ \A v \in DOMAIN flights' : bound'[flights'[v].fetch] # NoBound
          /\ \A p \in posted' : bound'[p.id] # NoBound /\ \A f \in fetching' : f.id # p.id
      BY <1>1, <2>1, <3>1, EndsAlone
    <3>3. TypeOK'
      BY <1>1, <2>3, <3>1, <3>2 DEF TypeOK, WithoutFetch
    <3>4. WaitersAreFound'
      <4>1. /\ DOMAIN flights' = DOMAIN flights \ {u}
            /\ \A v \in DOMAIN flights \ {u} : flights'[v] = flights[v]
        BY <2>1, <3>1, FlightEnds
      <4>2. flights[u].waiters \subseteq {r}
        BY <2>6
      <4> QED BY <2>1, <2>3, <4>1, <4>2 DEF WaitersAreFound
    <3>5. DownloadsAreDistinct'
      BY <2>4, <3>2 DEF DownloadsAreDistinct
    <3> QED BY <3>2, <3>3, <3>4, <3>5
  <2>7. CASE rest # {}
    <3>1. flights' = [flights EXCEPT ![u].waiters = rest] /\ UNCHANGED fetching
      BY <2>2, <2>7 DEF Leave
    <3>2. /\ flights' \in [DOMAIN flights -> Flights]
          /\ DOMAIN flights' = DOMAIN flights
          /\ \A v \in DOMAIN flights :
               /\ flights'[v].fetch = flights[v].fetch
               /\ flights'[v].waiters = IF v = u THEN rest ELSE flights[v].waiters
               /\ flights'[v].waiters # {}
      BY <2>1, <2>7, <3>1, FlightsAreFunctions DEF Flights
    <3>3. TypeOK'
      BY <1>1, <2>3, <3>1, <3>2, FlightsAreFunctions DEF TypeOK
    <3>4. WaitersAreFound'
      <4> HIDE DEF u
      <4> QED BY <2>1, <2>3, <3>2 DEF WaitersAreFound
    <3>5. OneDownloadPerFlight'
      BY <1>1, <3>1, <3>2 DEF OneDownloadPerFlight
    <3>6. DownloadsAreDistinct'
      BY <1>1, <2>4, <3>1, <3>2 DEF DownloadsAreDistinct
    <3> QED BY <3>3, <3>4, <3>5, <3>6
  <2> QED BY <2>6, <2>7
<1> QED BY <1>2, <1>3

\* All flights end with their downloads.
LEMMA CancelAllStep == ASSUME Sharing, CancelAll PROVE Sharing'
<1> USE DEF Sharing
<1>1. /\ fetching' = {f \in fetching : \A u \in DOMAIN flights : flights[u].fetch # f.id}
      /\ flights' = << >> /\ requestKeys' = [r \in Requests |-> NoUrl]
      /\ UNCHANGED <<base, bound, posted, negative, answer>>
  BY DEF CancelAll
<1>2. flights' \in [{} -> Flights] /\ DOMAIN flights' = {}
  BY <1>1, NoFlights
<1>3. TypeOK'
  BY <1>1, <1>2 DEF TypeOK
<1>4. fetching' = {}
  BY <1>1 DEF OneDownloadPerFlight
<1>5. WaitersAreFound'
  BY <1>1, <1>2, NoUrlIsNone DEF WaitersAreFound
<1>6. OneDownloadPerFlight' /\ DownloadsAreDistinct'
  BY <1>1, <1>2, <1>4 DEF OneDownloadPerFlight, DownloadsAreDistinct
<1> QED BY <1>3, <1>5, <1>6

-----------------------------------------------------------------------------
(* Downloads                                                               *)

\* A download is over when its result is posted.
LEMMA CompletesStep == ASSUME Sharing, FetchCompletes PROVE Sharing'
<1> USE DEF Sharing
<1>1. PICK f \in fetching, e \in Endings, D \in SUBSET Bounds :
        /\ fetching' = fetching \ {f}
        /\ posted' = posted \cup {[id |-> f.id, url |-> f.url, error |-> e,
                                   decodes |-> IF e = "none" THEN D ELSE {}]}
  BY DEF FetchCompletes
<1> DEFINE p == [id |-> f.id, url |-> f.url, error |-> e,
                 decodes |-> IF e = "none" THEN D ELSE {}]
<1>2. UNCHANGED <<base, flights, requestKeys, bound, negative, answer>>
  BY DEF FetchCompletes
<1>3. /\ f \in Fetches /\ f = [id |-> f.id, url |-> f.url]
      /\ f.url \in DOMAIN flights /\ flights[f.url].fetch = f.id
  BY DEF TypeOK, Fetches, OneDownloadPerFlight
<1>4. p \in Results /\ p.id = f.id /\ p.url = f.url
  BY <1>3, EndingsAssumption DEF Results, Fetches
<1>5. posted' = posted \cup {p}
  BY <1>1
<1> HIDE DEF p
<1>6. TypeOK'
  BY <1>1, <1>2, <1>4, <1>5 DEF TypeOK
<1>7. WaitersAreFound'
  BY <1>2 DEF WaitersAreFound
<1>8. OneDownloadPerFlight'
  <2>1. ASSUME NEW u \in DOMAIN flights
        PROVE  /\ flights[u].waiters # {}
               /\ \/ [id |-> flights[u].fetch, url |-> u] \in fetching'
                  \/ \E q \in posted' : q.id = flights[u].fetch /\ q.url = u
    <3>1. CASE [id |-> flights[u].fetch, url |-> u] = f
      BY <1>4, <1>5, <3>1 DEF OneDownloadPerFlight
    <3>2. CASE [id |-> flights[u].fetch, url |-> u] # f
      BY <1>1, <1>5, <3>2 DEF OneDownloadPerFlight
    <3> QED BY <3>1, <3>2
  <2> QED BY <1>1, <1>2, <2>1 DEF OneDownloadPerFlight
<1>9. DownloadsAreDistinct'
  <2>1. \A g \in fetching' : g.id # f.id
    <3>1. \A g \in fetching : /\ g = [id |-> g.id, url |-> g.url]
                              /\ g.url \in DOMAIN flights /\ flights[g.url].fetch = g.id
      BY DEF TypeOK, Fetches, OneDownloadPerFlight
    <3> QED BY <1>1, <1>3, <3>1 DEF DownloadsAreDistinct
  <2> QED BY <1>1, <1>2, <1>3, <1>4, <1>5, <2>1 DEF DownloadsAreDistinct
<1> QED BY <1>6, <1>7, <1>8, <1>9

\* What is remembered of absent images has its type.
LEMMA RememberedType ==
  ASSUME TypeOK, NEW u \in Urls, NEW n \in Remembered(u)
  PROVE  n \in [Urls -> 0..Ttl]
<1>1. ASSUME NEW m \in [Urls -> 0..Ttl], NEW o \in Pruned(m)
      PROVE  o \in [Urls -> 0..Ttl]
  BY <1>1, NegativeAssumption DEF Pruned, Remembers
<1>2. [negative EXCEPT ![u] = Ttl] \in [Urls -> 0..Ttl]
  BY NegativeAssumption DEF TypeOK
<1> QED BY <1>1, <1>2 DEF Remembered, TypeOK

\* A result ends its flight and answers those who waited in it, unless it
\* comes too late for any.
LEMMA ResultStep ==
  ASSUME Sharing, NEW p \in posted, HandleFetchFinished(p)
  PROVE  Sharing'
<1> USE DEF Sharing
<1>1. posted' = posted \ {p} /\ UNCHANGED <<base, bound, fetching>>
  BY DEF HandleFetchFinished
<1>2. CASE IsStale(p)
  <2>1. UNCHANGED <<flights, requestKeys, negative, answer>>
    BY <1>2 DEF HandleFetchFinished
  <2>2. TypeOK' /\ WaitersAreFound' /\ DownloadsAreDistinct'
    BY <1>1, <2>1 DEF TypeOK, WaitersAreFound, DownloadsAreDistinct
  <2>3. \A u \in DOMAIN flights : ~(p.id = flights[u].fetch /\ p.url = u)
    BY <1>2 DEF IsStale
  <2>4. OneDownloadPerFlight'
    BY <1>1, <2>1, <2>3 DEF OneDownloadPerFlight
  <2> QED BY <2>2, <2>4
<1>3. CASE ~IsStale(p)
  <2> DEFINE u == p.url
             W == flights[u].waiters
  <2>1. u \in DOMAIN flights /\ flights[u].fetch = p.id /\ u \in Urls
    BY <1>3 DEF IsStale, TypeOK, Results
  <2>2. /\ flights' = WithoutFlight(u)
        /\ requestKeys' = [r \in Requests |-> IF r \in W THEN NoUrl ELSE requestKeys[r]]
        /\ answer' = [r \in Requests |-> IF r \in W THEN OutcomeOf(p, W, r) ELSE answer[r]]
        /\ negative' \in IF p.error = "notFound" THEN Remembered(u) ELSE {negative}
    BY <1>3 DEF HandleFetchFinished
  <2>3. fetching' = WithoutFetch(flights[u].fetch)
    BY <1>1, <2>1 DEF WithoutFetch, DownloadsAreDistinct
  <2>4. /\ OneDownloadPerFlight'
        /\ \E U \in SUBSET Urls : flights' \in [U -> Flights]
        /\ \A v, w \in DOMAIN flights' : flights'[v].fetch = flights'[w].fetch => v = w
        /\ \A v \in DOMAIN flights' : bound'[flights'[v].fetch] # NoBound
        /\ \A q \in posted' : bound'[q.id] # NoBound /\ \A f \in fetching' : f.id # q.id
    BY <1>1, <2>1, <2>2, <2>3, EndsAlone
  <2>5. TypeOK'
    <3>1. negative' \in [Urls -> 0..Ttl]
      BY <2>1, <2>2, RememberedType DEF TypeOK
    <3>2. \A r \in Requests : OutcomeOf(p, W, r) \in ImageOutcomes
      BY DEF OutcomeOf, ImageOutcomes, TypeOK, Results, EveryEnding
    <3>3. requestKeys' \in [Requests -> Urls \cup {NoUrl}]
      BY <2>2 DEF TypeOK
    <3>4. answer' \in [Requests -> ImageOutcomes \cup {NoAnswer}]
      BY <2>2, <3>2 DEF TypeOK
    <3> QED BY <1>1, <2>4, <3>1, <3>3, <3>4 DEF TypeOK
  <2>6. WaitersAreFound'
    <3>1. /\ DOMAIN flights' = DOMAIN flights \ {u}
          /\ \A v \in DOMAIN flights \ {u} : flights'[v] = flights[v]
      BY <2>1, <2>2, FlightEnds
    <3>2. \A r \in Requests, v \in Urls :
            requestKeys'[r] = v <=> r \notin W /\ requestKeys[r] = v
      BY <2>2, NoUrlIsNone
    <3>3. \A r \in Requests : r \in W <=> requestKeys[r] = u
      BY <2>1 DEF WaitersAreFound
    <3> HIDE DEF u, W
    <3> QED BY <3>1, <3>2, <3>3 DEF WaitersAreFound
  <2>7. DownloadsAreDistinct'
    <3>1. \A r \in Requests : bound'[r] = NoBound => requestKeys'[r] = NoUrl
      BY <1>1, <2>2 DEF DownloadsAreDistinct
    <3> QED BY <2>4, <3>1 DEF DownloadsAreDistinct
  <2> QED BY <2>4, <2>5, <2>6, <2>7
<1> QED BY <1>2, <1>3

-----------------------------------------------------------------------------
(* The theorems                                                            *)

\* At the start there are no requests and no flights.
LEMMA InitShares == Init => Sharing
<1> SUFFICES ASSUME Init PROVE Sharing
  OBVIOUS
<1>1. flights \in [{} -> Flights] /\ DOMAIN flights = {}
  BY NoFlights DEF Init
<1>2. TypeOK
  <2>1. \E U \in SUBSET Urls : flights \in [U -> Flights]
    BY <1>1
  <2>2. 0 \in 0..Ttl
    BY NegativeAssumption
  <2>3. fetching \subseteq Fetches /\ posted \subseteq Results
    BY DEF Init
  <2> QED BY <2>1, <2>2, <2>3 DEF Init, TypeOK
<1>3. WaitersAreFound
  BY <1>1, NoUrlIsNone DEF Init, WaitersAreFound
<1>4. OneDownloadPerFlight /\ DownloadsAreDistinct
  BY <1>1 DEF Init, OneDownloadPerFlight, DownloadsAreDistinct
<1> QED BY <1>2, <1>3, <1>4 DEF Sharing

\* Each operation keeps them so.
LEMMA SharingStep == Sharing /\ [Next]_vars => Sharing'
<1> SUFFICES ASSUME Sharing, [Next]_vars PROVE Sharing'
  OBVIOUS
<1>1. ASSUME NEW r \in Requests, NEW k \in Keys, NEW b \in Bounds,
             RequestCardImage(r, k, b)
      PROVE  Sharing'
  BY <1>1, RequestStep
<1>2. ASSUME NEW r \in Requests, bound[r] # NoBound, Cancel(r) PROVE Sharing'
  BY <1>2, CancelStep
<1>3. CASE SetAssetBaseUrl
  BY <1>3 DEF SetAssetBaseUrl, Sharing, TypeOK, WaitersAreFound, OneDownloadPerFlight,
              DownloadsAreDistinct
<1>4. CASE Tick
  <2>1. negative' \in [Urls -> 0..Ttl]
    BY <1>4, NegativeAssumption DEF Tick, Sharing, TypeOK
  <2> QED BY <1>4, <2>1 DEF Tick, Sharing, TypeOK, WaitersAreFound, OneDownloadPerFlight,
              DownloadsAreDistinct
<1>5. CASE CancelAll
  BY <1>5, CancelAllStep
<1>6. CASE FetchCompletes
  BY <1>6, CompletesStep
<1>7. ASSUME NEW p \in posted, HandleFetchFinished(p) PROVE Sharing'
  BY <1>7, ResultStep
<1>8. CASE UNCHANGED vars
  BY <1>8 DEF vars, Sharing, TypeOK, WaitersAreFound, OneDownloadPerFlight,
              DownloadsAreDistinct
<1> QED BY <1>1, <1>2, <1>3, <1>4, <1>5, <1>6, <1>7, <1>8 DEF Next

\* The inductive invariant: flights, ids and downloads lead to each other,
\* and no two downloads are confused.
THEOREM SharingInvariant == Spec => []Sharing
BY InitShares, SharingStep, PTL DEF Spec

\* A request waits where its id leads, and nowhere else, also after the base
\* URL has changed: it can always be cancelled, and is answered with its own.
THEOREM EveryWaiterIsFound == Spec => []WaitersAreFound
<1>1. Sharing => WaitersAreFound
  BY DEF Sharing
<1> QED BY SharingInvariant, <1>1, PTL

\* Whoever wants a URL shares one download of it, and none is made for nobody.
THEOREM DownloadsAreShared == Spec => []OneDownloadPerFlight
<1>1. Sharing => OneDownloadPerFlight
  BY DEF Sharing
<1> QED BY SharingInvariant, <1>1, PTL

-----------------------------------------------------------------------------
(* One answer for each request                                             *)

\* What a request is to the abstract client.
PhaseOf(b, o, k) == CASE b = NoBound -> "unused"
                      [] o # NoAnswer -> "answered"
                      [] k # NoUrl -> "open"
                      [] OTHER -> "withdrawn"

\* An answer is given to a request that was made, and that waits no more.
AnswersFit ==
  \A r \in Requests : answer[r] # NoAnswer => bound[r] # NoBound /\ requestKeys[r] = NoUrl

\* What a slot may do with one request: nothing, or it leaves unanswered; it
\* is made, and answered at once or not; or it is answered.
RequestMoves(r) ==
  \/ /\ bound'[r] = bound[r] /\ answer'[r] = answer[r]
     /\ requestKeys'[r] = requestKeys[r] \/ requestKeys'[r] = NoUrl
  \/ /\ bound[r] = NoBound /\ bound'[r] # NoBound
     /\ \/ answer'[r] = answer[r] /\ requestKeys'[r] # NoUrl
        \/ answer'[r] \in ImageOutcomes /\ requestKeys'[r] = NoUrl
  \/ /\ bound'[r] = bound[r] /\ requestKeys[r] # NoUrl /\ requestKeys'[r] = NoUrl
     /\ answer'[r] \in ImageOutcomes

\* A step moves a request one phase on, or leaves it where it is.
LEMMA RequestsMove ==
  ASSUME Sharing, [Next]_vars
  PROVE  \A r \in Requests : RequestMoves(r)
<1> USE DEF RequestMoves
<1>1. /\ bound \in [Requests -> Bounds \cup {NoBound}]
      /\ requestKeys \in [Requests -> Urls \cup {NoUrl}]
      /\ answer \in [Requests -> ImageOutcomes \cup {NoAnswer}]
  BY DEF Sharing, TypeOK
<1>2. ASSUME NEW q \in Requests, NEW k \in Keys, NEW b \in Bounds,
             RequestCardImage(q, k, b), NEW r \in Requests
      PROVE  RequestMoves(r)
  <2> DEFINE u == <<base, k>>
  <2>1. bound[q] = NoBound /\ requestKeys[q] = NoUrl
    BY <1>2 DEF RequestCardImage, Sharing, DownloadsAreDistinct
  <2>2. bound' = [bound EXCEPT ![q] = b] /\ b # NoBound
    BY <1>2, NoBoundAssumption DEF RequestCardImage
  <2>3. u # NoUrl
    <3>1. u \in Urls
      BY DEF Urls, Sharing, TypeOK
    <3> QED BY <3>1, NoUrlIsNone
  <2>4. \/ \E o \in ImageOutcomes : Completed(q, o)
        \/ Join(q, u) \/ Launch(q, u)
    BY <1>2 DEF RequestCardImage, ImageOutcomes
  <2> HIDE DEF u
  <2>5. \/ \E o \in ImageOutcomes :
             answer' = [answer EXCEPT ![q] = o] /\ UNCHANGED requestKeys
        \/ requestKeys' = [requestKeys EXCEPT ![q] = u] /\ UNCHANGED answer
    BY <2>4 DEF Completed, Join, Launch
  <2>6. CASE r = q
    BY <1>1, <2>1, <2>2, <2>3, <2>5, <2>6
  <2>7. CASE r # q
    BY <1>1, <2>2, <2>5, <2>7
  <2> QED BY <2>6, <2>7
<1>3. ASSUME NEW q \in Requests, Cancel(q), NEW r \in Requests PROVE RequestMoves(r)
  <2>1. UNCHANGED <<bound, answer>>
        /\ (requestKeys' = requestKeys \/ requestKeys' = [requestKeys EXCEPT ![q] = NoUrl])
    BY <1>3 DEF Cancel
  <2> QED BY <1>1, <2>1
<1>4. ASSUME CancelAll, NEW r \in Requests PROVE RequestMoves(r)
  BY <1>4 DEF CancelAll
<1>5. ASSUME NEW p \in posted, HandleFetchFinished(p), NEW r \in Requests
      PROVE  RequestMoves(r)
  <2>1. UNCHANGED bound
    BY <1>5 DEF HandleFetchFinished
  <2>2. CASE IsStale(p)
    BY <1>5, <2>1, <2>2 DEF HandleFetchFinished
  <2>3. CASE ~IsStale(p)
    <3> DEFINE W == flights[p.url].waiters
    <3>1. p.url \in DOMAIN flights /\ p.url \in Urls /\ p \in Results
      BY <2>3 DEF IsStale, Sharing, TypeOK, Results
    <3>2. /\ requestKeys' = [x \in Requests |-> IF x \in W THEN NoUrl ELSE requestKeys[x]]
          /\ answer' = [x \in Requests |-> IF x \in W THEN OutcomeOf(p, W, x) ELSE answer[x]]
      BY <1>5, <2>3 DEF HandleFetchFinished
    <3>3. r \in W => requestKeys[r] = p.url /\ p.url # NoUrl
      BY <3>1, NoUrlIsNone DEF Sharing, WaitersAreFound
    <3>4. OutcomeOf(p, W, r) \in ImageOutcomes
      BY <3>1 DEF OutcomeOf, ImageOutcomes, Results, EveryEnding
    <3> HIDE DEF W
    <3> QED BY <2>1, <3>2, <3>3, <3>4
  <2> QED BY <2>2, <2>3
<1>6. ASSUME SetAssetBaseUrl \/ FetchCompletes \/ Tick \/ UNCHANGED vars,
             NEW r \in Requests
      PROVE  RequestMoves(r)
  BY <1>6 DEF SetAssetBaseUrl, FetchCompletes, Tick, vars
<1> QED BY <1>2, <1>3, <1>4, <1>5, <1>6 DEF Next

\* Answers fit what becomes of requests.
LEMMA AnswersFitStep ==
  ASSUME Sharing, AnswersFit, \A r \in Requests : RequestMoves(r)
  PROVE  AnswersFit'
<1>1. \A r \in Requests : bound[r] = NoBound => requestKeys[r] = NoUrl
  BY DEF Sharing, DownloadsAreDistinct
<1> QED BY <1>1 DEF AnswersFit, RequestMoves

\* The coordinator implements a client that answers each call at most once,
\* maybe before it returns, and never after it was cancelled; that it answers
\* in the end is left to the fairness that TLC takes into account.
THEOREM AtMostOneImage == Spec => Coordinator!Spec
<1>1. Init => Coordinator!Init
  BY DEF Init, Coordinator!Init
<1>2. Init => AnswersFit
  BY DEF Init, AnswersFit
<1>3. ASSUME Sharing, Sharing', AnswersFit, [Next]_vars PROVE Coordinator!Next /\ AnswersFit'
  <2>1. \A r \in Requests : RequestMoves(r)
    BY <1>3, RequestsMove
  <2>2. AnswersFit'
    BY <1>3, <2>1, AnswersFitStep
  <2>3. /\ answer \in [Requests -> ImageOutcomes \cup {NoAnswer}]
        /\ answer' \in [Requests -> ImageOutcomes \cup {NoAnswer}]
        /\ NoAnswer \notin ImageOutcomes
        /\ \A r \in Requests : bound[r] = NoBound => requestKeys[r] = NoUrl
    BY <1>3 DEF Sharing, TypeOK, DownloadsAreDistinct, NoAnswer, ImageOutcomes
  <2>4. ASSUME NEW r \in Requests
        PROVE  /\ PhaseOf(bound'[r], answer'[r], requestKeys'[r])
                    \in {"unused", "open", "answered", "withdrawn"}
               /\ \/ /\ PhaseOf(bound'[r], answer'[r], requestKeys'[r])
                          = PhaseOf(bound[r], answer[r], requestKeys[r])
                     /\ answer'[r] = answer[r]
                  \/ /\ PhaseOf(bound[r], answer[r], requestKeys[r]) = "unused"
                     /\ PhaseOf(bound'[r], answer'[r], requestKeys'[r]) = "open"
                     /\ answer'[r] = answer[r]
                  \/ /\ PhaseOf(bound[r], answer[r], requestKeys[r]) \in {"open", "unused"}
                     /\ PhaseOf(bound'[r], answer'[r], requestKeys'[r]) = "answered"
                     /\ answer'[r] \in ImageOutcomes
                  \/ /\ PhaseOf(bound[r], answer[r], requestKeys[r]) = "open"
                     /\ PhaseOf(bound'[r], answer'[r], requestKeys'[r]) = "withdrawn"
                     /\ answer'[r] = answer[r]
    BY <1>3, <2>1, <2>2, <2>3 DEF AnswersFit, RequestMoves, PhaseOf
  <2>5. Coordinator!Next
    BY <2>3, <2>4 DEF PhaseOf, Coordinator!Next, Coordinator!Keep, Coordinator!Issue,
                      Coordinator!Answer, Coordinator!Withdraw
  <2> QED BY <2>2, <2>5
<1>4. Sharing /\ Sharing' /\ AnswersFit /\ [Next]_vars
        => [Coordinator!Next]_(Coordinator!vars) /\ AnswersFit'
  BY <1>3
<1> QED BY <1>1, <1>2, <1>4, SharingInvariant, PTL DEF Spec, Coordinator!Spec
=============================================================================
