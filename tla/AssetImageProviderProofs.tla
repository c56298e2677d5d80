----------------------- MODULE AssetImageProviderProofs -----------------------
(***************************************************************************)
(* For any responses, keys and bounds, with the image reader, the worker   *)
(* and the GUI thread at any point between their critical sections: a      *)
(* response that was cancelled is taken off the coordinator, nothing that  *)
(* was deleted is used, and a response finishes at most once.              *)
(***************************************************************************)
EXTENDS AssetImageProvider, TLAPS

\* What is proved of the coordinator alone.
Alone == INSTANCE AssetImageRequestsProofs

-----------------------------------------------------------------------------
(* The coordinator                                                         *)

\* The coordinator that the provider uses is the one proved about.
LEMMA SameConstants ==
  /\ Alone!NegativeAssumption /\ Alone!EndingsAssumption /\ Alone!NoBoundAssumption
  /\ Alone!NoBound = Coordinator!NoBound /\ Alone!NoUrl = Coordinator!NoUrl
  /\ Alone!ImageOutcomes = Coordinator!ImageOutcomes
  /\ Alone!Urls = Coordinator!Urls /\ Alone!Flights = Coordinator!Flights
  /\ Alone!Fetches = Coordinator!Fetches /\ Alone!Results = Coordinator!Results
  /\ Alone!NoAnswer = Coordinator!NoAnswer
BY CoordinatorAssumption
   DEF Alone!NegativeAssumption, Alone!EndingsAssumption, Alone!NoBoundAssumption,
       Coordinator!NegativeAssumption, Coordinator!EndingsAssumption,
       Coordinator!NoBoundAssumption, Alone!EveryEnding, Coordinator!EveryEnding,
       Alone!NoBound, Coordinator!NoBound, Alone!NoUrl, Coordinator!NoUrl,
       Alone!ImageOutcomes, Coordinator!ImageOutcomes, Alone!Urls, Coordinator!Urls,
       Alone!Flights, Coordinator!Flights, Alone!Fetches, Coordinator!Fetches,
       Alone!Results, Coordinator!Results, Alone!NoAnswer, Coordinator!NoAnswer

\* What is known of requests and flights is the same for both.
LEMMA SameSharing == Alone!Sharing <=> Coordinator!Sharing
BY SameConstants
   DEF Alone!Sharing, Coordinator!Sharing, Alone!TypeOK, Coordinator!TypeOK,
       Alone!WaitersAreFound, Coordinator!WaitersAreFound,
       Alone!OneDownloadPerFlight, Coordinator!OneDownloadPerFlight,
       Alone!DownloadsAreDistinct, Coordinator!DownloadsAreDistinct

\* The same after a step.
LEMMA SameSharingNext == Alone!Sharing' <=> Coordinator!Sharing'
BY SameConstants
   DEF Alone!Sharing, Coordinator!Sharing, Alone!TypeOK, Coordinator!TypeOK,
       Alone!WaitersAreFound, Coordinator!WaitersAreFound,
       Alone!OneDownloadPerFlight, Coordinator!OneDownloadPerFlight,
       Alone!DownloadsAreDistinct, Coordinator!DownloadsAreDistinct

\* A step of the provider's coordinator is one of the coordinator alone.
LEMMA SameNext == Coordinator!Next => Alone!Next
<1>1. ASSUME NEW r \in Requests, NEW k \in Keys, NEW b \in Bounds,
             Coordinator!RequestCardImage(r, k, b)
      PROVE  Alone!RequestCardImage(r, k, b)
  BY <1>1, SameConstants
     DEF Alone!RequestCardImage, Coordinator!RequestCardImage,
         Alone!Completed, Coordinator!Completed, Alone!Join, Coordinator!Join,
         Alone!Launch, Coordinator!Launch
<1>2. \A u : Alone!WithoutFlight(u) = Coordinator!WithoutFlight(u)
  BY DEF Alone!WithoutFlight, Coordinator!WithoutFlight, Alone!Restrict, Coordinator!Restrict
<1>3. ASSUME NEW r \in Requests, Coordinator!Cancel(r) PROVE Alone!Cancel(r)
  BY <1>2, <1>3, SameConstants
     DEF Alone!Cancel, Coordinator!Cancel, Alone!Leave, Coordinator!Leave,
         Alone!WithoutFetch, Coordinator!WithoutFetch
<1>4. Coordinator!CancelAll => Alone!CancelAll
  BY SameConstants DEF Alone!CancelAll, Coordinator!CancelAll
<1>5. Coordinator!FetchCompletes => Alone!FetchCompletes
  BY DEF Alone!FetchCompletes, Coordinator!FetchCompletes
<1>6. Coordinator!SetAssetBaseUrl => Alone!SetAssetBaseUrl
  BY DEF Alone!SetAssetBaseUrl, Coordinator!SetAssetBaseUrl
<1>7. Coordinator!Tick => Alone!Tick
  BY SameConstants DEF Alone!Tick, Coordinator!Tick
<1>8. \A u : Coordinator!Remembered(u) = Alone!Remembered(u)
  BY SameConstants
     DEF Alone!Remembered, Coordinator!Remembered, Alone!Remembers,
         Coordinator!Remembers, Alone!Pruned, Coordinator!Pruned,
         Alone!Cardinality, Coordinator!Cardinality
<1>9. \A p : Coordinator!IsStale(p) <=> Alone!IsStale(p)
  BY DEF Alone!IsStale, Coordinator!IsStale
<1>10. \A p, W, r : Coordinator!OutcomeOf(p, W, r) = Alone!OutcomeOf(p, W, r)
  BY DEF Alone!OutcomeOf, Coordinator!OutcomeOf
<1>11. ASSUME NEW p \in posted, Coordinator!HandleFetchFinished(p)
       PROVE  Alone!HandleFetchFinished(p)
  BY <1>2, <1>8, <1>9, <1>10, <1>11, SameConstants
     DEF Alone!HandleFetchFinished, Coordinator!HandleFetchFinished
<1> QED BY <1>1, <1>3, <1>4, <1>5, <1>6, <1>7, <1>11, SameConstants
        DEF Alone!Next, Coordinator!Next

\* What an operation of the coordinator does to a request, whoever calls it.
RequestMoves(r) ==
  \/ /\ bound'[r] = bound[r] /\ answer'[r] = answer[r]
     /\ requestKeys'[r] = requestKeys[r] \/ requestKeys'[r] = Coordinator!NoUrl
  \/ /\ bound[r] = Coordinator!NoBound /\ bound'[r] # Coordinator!NoBound
     /\ \/ answer'[r] = answer[r] /\ requestKeys'[r] # Coordinator!NoUrl
        \/ answer'[r] \in Coordinator!ImageOutcomes /\ requestKeys'[r] = Coordinator!NoUrl
  \/ /\ bound'[r] = bound[r] /\ requestKeys[r] # Coordinator!NoUrl
     /\ requestKeys'[r] = Coordinator!NoUrl /\ answer'[r] \in Coordinator!ImageOutcomes

\* The coordinator keeps its own invariant.
LEMMA CoordinatorKeeps ==
  ASSUME Coordinator!Sharing, Coordinator!Next \/ UNCHANGED coordinatorVars
  PROVE  /\ Coordinator!Sharing' /\ Coordinator!TypeOK'
         /\ \A r \in Requests : RequestMoves(r)
<1>1. Alone!Sharing /\ (Alone!Next \/ UNCHANGED Alone!vars)
  BY SameSharing, SameNext DEF coordinatorVars, Alone!vars
<1>2. Alone!Sharing'
  BY <1>1, Alone!SharingStep, SameConstants
<1>3. \A r \in Requests : Alone!RequestMoves(r)
  BY <1>1, Alone!RequestsMove, SameConstants
<1>4. \A r \in Requests : RequestMoves(r)
  BY <1>3, SameConstants DEF RequestMoves, Alone!RequestMoves
<1>5. Coordinator!Sharing'
  BY <1>2, SameSharingNext
<1>6. Coordinator!TypeOK'
  BY <1>5 DEF Coordinator!Sharing
<1> QED BY <1>4, <1>5, <1>6

-----------------------------------------------------------------------------
(* Closures and the queue                                                  *)

Works == {Idle, ClosingDown} \cup Closures \cup [step : {"record"}, r : Requests]

\* What a closure, or what the worker is about to do, is made of.
LEMMA WorkFields ==
  ASSUME NEW c \in Works
  PROVE  /\ c.step = "request" => c.r \in Requests /\ c.k \in Keys /\ c.b \in Bounds
         /\ c.step = "cancel" => c.r \in Requests /\ c = At("cancel", c.r)
         /\ c.step = "record" => c.r \in Requests /\ c = At("record", c.r)
         /\ c.step = "setBase" => c.base \in Bases
         /\ c.step = "idle" <=> c = Idle
         /\ c.step = "cancelAll" <=> c = ClosingDown
         /\ c.step \in {"request", "cancel", "record", "setBase", "idle", "cancelAll"}
<1>1. CASE c \in {Idle, ClosingDown}
  BY <1>1 DEF Idle, ClosingDown
<1>2. CASE c \in [step : {"request"}, r : Requests, k : Keys, b : Bounds]
  BY <1>2 DEF Idle, ClosingDown
<1>3. CASE c \in [step : {"cancel", "record"}, r : Requests]
  BY <1>3 DEF Idle, ClosingDown, At
<1>4. CASE c \in [step : {"setBase"}, base : Bases]
  BY <1>4 DEF Idle, ClosingDown
<1> QED BY <1>1, <1>2, <1>3, <1>4 DEF Works, Closures

\* The closures that the threads make.
LEMMA ClosureTypes ==
  ASSUME NEW r \in Requests, NEW k \in Keys, NEW b \in Bounds, NEW x \in Bases
  PROVE  /\ Asking("request", r, k, b) \in Closures /\ Asking("request", r, k, b).r = r
         /\ Asking("request", r, k, b).step = "request"
         /\ At("cancel", r) \in Closures /\ At("cancel", r).step = "cancel"
         /\ At("cancel", r).r = r /\ At("record", r).r = r /\ At("record", r).step = "record"
         /\ At("record", r) \in [step : {"record"}, r : Requests]
         /\ Rebasing(x) \in Closures /\ Rebasing(x).step = "setBase"
         /\ ClosingDown.step = "cancelAll" /\ Idle.step = "idle"
BY DEF Asking, At, Rebasing, ClosingDown, Idle, Closures

\* What MayRun(c) says of a closure c after the step.
MayStillRun(c) ==
  /\ c.step = "request" => phase'[c.r] # "unused" /\ bound'[c.r] = Coordinator!NoBound
  /\ c.step = "record" => phase'[c.r] # "unused" /\ bound'[c.r] # Coordinator!NoBound
  /\ c.step = "cancel" => phase'[c.r] \in {"cancelled", "finished"}
                            /\ bound'[c.r] # Coordinator!NoBound
  /\ c = ClosingDown => ~handle'

\* A response moves on in one direction.
PhasesMove ==
  /\ phase' \in [Requests -> Phases]
  /\ \A r \in Requests :
       \/ phase'[r] = phase[r]
       \/ phase[r] = "unused" /\ phase'[r] \in {"open", "finished"}
       \/ phase[r] = "open" /\ phase'[r] \in {"cancelled", "finished"}

\* What may run still may, when the coordinator has not worked.
LEMMA StillRuns ==
  ASSUME Provided, PhasesMove, UNCHANGED bound, handle' => handle
  PROVE  MayStillRun(worker) /\ \A i \in 1..Len(queue) : MayStillRun(queue[i])
<1>1. worker \in Works /\ \A i \in 1..Len(queue) : queue[i] \in Works
  BY DEF Provided, TypeOK, Works
<1>2. ASSUME NEW c \in Works, MayRun(c) PROVE MayStillRun(c)
  BY <1>2, WorkFields DEF MayRun, MayStillRun, PhasesMove
<1> QED BY <1>1, <1>2 DEF Provided

\* The queue stays.
LEMMA QueueStays ==
  ASSUME Provided, UNCHANGED queue, \A i \in 1..Len(queue) : MayStillRun(queue[i]),
         \A r \in Requests : Asks(worker', r) => Asks(worker, r)
  PROVE  (\A i \in 1..Len(queue) : MayRun(queue[i]))' /\ RequestedOnce'
<1>1. (\A i \in 1..Len(queue) : MayRun(queue[i]))'
  BY DEF MayRun, MayStillRun
<1>2. RequestedOnce'
  BY DEF Provided, RequestedOnce, Asks
<1> QED BY <1>1, <1>2

\* A closure is queued behind the others.
LEMMA QueueAppends ==
  ASSUME Provided, NEW c \in Closures \cup {ClosingDown}, queue' = Append(queue, c),
         UNCHANGED worker, MayStillRun(c), \A i \in 1..Len(queue) : MayStillRun(queue[i]),
         \A r \in Requests : Asks(c, r) =>
           ~Asks(worker, r) /\ \A i \in 1..Len(queue) : ~Asks(queue[i], r)
  PROVE  /\ (\A i \in 1..Len(queue) : MayRun(queue[i]))' /\ RequestedOnce'
         /\ queue' \in Seq(Closures \cup {ClosingDown})
         /\ \A d : (d = c \/ \E i \in DOMAIN queue : queue[i] = d)
                     => \E i \in DOMAIN queue' : queue'[i] = d
<1>1. /\ queue \in Seq(Closures \cup {ClosingDown}) /\ Len(queue) \in Nat
      /\ queue' \in Seq(Closures \cup {ClosingDown}) /\ Len(queue') = Len(queue) + 1
      /\ \A i \in 1..Len(queue) : queue'[i] = queue[i]
      /\ queue'[Len(queue) + 1] = c
      /\ DOMAIN queue = 1..Len(queue) /\ DOMAIN queue' = 1..Len(queue')
  BY DEF Provided, TypeOK
<1>2. 1..Len(queue') = 1..Len(queue) \cup {Len(queue) + 1}
  BY <1>1
<1>3. ASSUME NEW i \in 1..Len(queue') PROVE MayStillRun(queue'[i])
  BY <1>1, <1>2
<1>4. (\A i \in 1..Len(queue) : MayRun(queue[i]))'
  BY <1>3 DEF MayRun, MayStillRun
<1>5. RequestedOnce'
  BY <1>1, <1>2 DEF Provided, RequestedOnce, Asks
<1>6. \A d : (d = c \/ \E i \in DOMAIN queue : queue[i] = d)
               => \E i \in DOMAIN queue' : queue'[i] = d
  BY <1>1, <1>2
<1> QED BY <1>1, <1>4, <1>5, <1>6

\* The first closure leaves the queue; the worker runs or drops it.
LEMMA QueueTakes ==
  ASSUME Provided, worker = Idle, queue # << >>, queue' = Tail(queue),
         worker' \in {Head(queue), Idle}, \A i \in 1..Len(queue) : MayStillRun(queue[i])
  PROVE  /\ (\A i \in 1..Len(queue) : MayRun(queue[i]))' /\ RequestedOnce'
         /\ queue' \in Seq(Closures \cup {ClosingDown})
         /\ Head(queue) \in Closures \cup {ClosingDown} /\ MayStillRun(Head(queue))
         /\ \A d : (\E i \in DOMAIN queue : queue[i] = d)
                     => d = Head(queue) \/ \E i \in DOMAIN queue' : queue'[i] = d
<1>1. /\ queue \in Seq(Closures \cup {ClosingDown}) /\ Len(queue) \in Nat /\ Len(queue) >= 1
      /\ queue' \in Seq(Closures \cup {ClosingDown}) /\ Len(queue') = Len(queue) - 1
      /\ \A i \in 1..Len(queue') : queue'[i] = queue[i + 1]
      /\ Head(queue) = queue[1]
      /\ DOMAIN queue = 1..Len(queue) /\ DOMAIN queue' = 1..Len(queue')
  BY DEF Provided, TypeOK
<1>2. /\ 1 \in 1..Len(queue)
      /\ \A i \in 1..Len(queue') : i + 1 \in 1..Len(queue) /\ i + 1 # 1
      /\ \A i \in 1..Len(queue) : i # 1 => i - 1 \in 1..Len(queue') /\ (i - 1) + 1 = i
      /\ \A i, j \in 1..Len(queue') : i + 1 = j + 1 => i = j
  BY <1>1
<1>3. Head(queue) \in Closures \cup {ClosingDown} /\ MayStillRun(Head(queue))
  BY <1>1, <1>2
<1>4. ASSUME NEW i \in 1..Len(queue') PROVE MayStillRun(queue'[i])
  BY <1>1, <1>2
<1>5. (\A i \in 1..Len(queue) : MayRun(queue[i]))'
  BY <1>4 DEF MayRun, MayStillRun
<1>6. RequestedOnce'
  <2> SUFFICES ASSUME NEW r \in Requests, NEW i \in 1..Len(queue'), Asks(queue'[i], r)
               PROVE  ~Asks(worker', r) /\ \A j \in 1..Len(queue') : Asks(queue'[j], r) => i = j
    BY DEF RequestedOnce, Asks
  <2>1. Asks(queue[i + 1], r) /\ i + 1 \in 1..Len(queue)
    BY <1>1, <1>2
  <2>2. \A j \in 1..Len(queue) : Asks(queue[j], r) => i + 1 = j
    BY <2>1 DEF Provided, RequestedOnce
  <2>3. ~Asks(Head(queue), r)
    BY <1>1, <1>2, <2>2
  <2>4. ~Asks(Idle, r)
    BY DEF Asks, Idle
  <2>5. \A j \in 1..Len(queue') : Asks(queue'[j], r) => i = j
    BY <1>1, <1>2, <2>2
  <2> QED BY <2>3, <2>4, <2>5
<1>7. ASSUME NEW d, NEW i \in DOMAIN queue, queue[i] = d
      PROVE  d = Head(queue) \/ \E j \in DOMAIN queue' : queue'[j] = d
  <2>1. CASE i = 1
    BY <1>1, <1>7, <2>1
  <2>2. CASE i # 1
    <3>1. i - 1 \in DOMAIN queue' /\ queue'[i - 1] = d
      BY <1>1, <1>2, <1>7, <2>2
    <3> QED BY <3>1
  <2> QED BY <2>1, <2>2
<1> QED BY <1>1, <1>3, <1>5, <1>6, <1>7

-----------------------------------------------------------------------------
(* The image reader                                                        *)

\* What the types say of the responses.
LEMMA ResponseTypes ==
  ASSUME Provided
  PROVE  /\ phase \in [Requests -> Phases] /\ phase \in [Requests -> {"unused", "open", "cancelled", "finished"}]
         /\ result \in [Requests -> Results \cup {NoResult}]
         /\ shown \in [Requests -> Results \cup {NoResult}]
         /\ NoResult \notin Results
         /\ {"invalidKey", "unavailable"} \subseteq Results
BY DEF Provided, TypeOK, Phases, Results, NoResult, Coordinator!ImageOutcomes

\* The coordinator does not work meanwhile.
LEMMA CoordinatorStays ==
  ASSUME Provided, UNCHANGED coordinatorVars
  PROVE  Coordinator!Sharing' /\ Coordinator!TypeOK' /\ UNCHANGED <<bound, requestKeys>>
BY CoordinatorKeeps DEF Provided, coordinatorVars

\* The worker goes on to run what it was about to.
LEMMA WorkerStays ==
  ASSUME Provided, PhasesMove, UNCHANGED <<bound, worker>>, handle' => handle
  PROVE  /\ MayRun(worker)' /\ \A i \in 1..Len(queue) : MayStillRun(queue[i])
         /\ \A r \in Requests : Asks(worker', r) => Asks(worker, r)
BY StillRuns DEF MayRun, MayStillRun

\* What is left to show of a step of the reader.
LEMMA ReaderKeeps ==
  ASSUME Provided, PhasesMove, UNCHANGED <<coordinatorVars, handle, exists, worker>>,
         (\A i \in 1..Len(queue) : MayRun(queue[i]))', RequestedOnce',
         queue' \in Seq(Closures \cup {ClosingDown}),
         queue' # << >> => queue # << >> \/ handle,
         reader' \in {Idle} \cup [step : {"readId", "post"}, r : Requests],
         result' \in [Requests -> Results \cup {NoResult}],
         shown' \in [Requests -> Results \cup {NoResult}],
         deleted' \subseteq Requests, drains' \subseteq Requests,
         drainPosted' \subseteq Requests, UNCHANGED requestId,
         IdsAreRecorded', CompletionsAreDrained', CancelReaches',
         drains' \cap deleted' = {}
  PROVE  Provided'
<1>1. /\ Coordinator!Sharing' /\ Coordinator!TypeOK' /\ UNCHANGED <<bound, requestKeys>>
  BY CoordinatorStays
<1>2. MayRun(worker)'
  BY <1>1, WorkerStays
<1>3. TypeOK'
  BY <1>1 DEF Provided, TypeOK, PhasesMove, CompletionsAreDrained
<1>4. NothingDangles' /\ (handle' => exists')
  BY DEF Provided, NothingDangles
<1> QED BY <1>1, <1>2, <1>3, <1>4 DEF Provided

\* A response is asked for.
LEMMA RequestKeeps ==
  ASSUME Provided, NEW r \in Requests, NEW k \in Keys, NEW b \in Bounds, Request(r, k, b)
  PROVE  Provided'
<1> DEFINE c == Asking("request", r, k, b)
<1>1. /\ phase[r] = "unused" /\ handle /\ reader = Idle
      /\ phase' = [phase EXCEPT ![r] = "open"]
      /\ callback' = callback \cup {r} /\ queue' = Append(queue, c)
      /\ UNCHANGED <<coordinatorVars, handle, exists, worker, reader, deleted,
                     result, drains, drainPosted, requestId, shown>>
  BY DEF Request
<1>2. /\ c \in Closures /\ c.step = "request" /\ c.r = r /\ c # ClosingDown
  BY DEF Asking, Closures, ClosingDown
<1>3. PhasesMove /\ phase'[r] = "open" /\ \A q \in Requests : q # r => phase'[q] = phase[q]
  BY <1>1, ResponseTypes DEF PhasesMove, Phases
<1>4. UNCHANGED <<bound, requestKeys>>
  BY <1>1, CoordinatorStays
<1>5. /\ bound[r] = Coordinator!NoBound /\ requestKeys[r] = Coordinator!NoUrl
      /\ r \notin requestId
  BY <1>1 DEF Provided, IdsAreRecorded, Coordinator!Sharing, Coordinator!DownloadsAreDistinct
<1>6. ~Asks(worker, r) /\ \A i \in 1..Len(queue) : ~Asks(queue[i], r)
  BY <1>1 DEF Provided, MayRun, Asks
<1> HIDE DEF c
<1>7. MayStillRun(c)
  BY <1>2, <1>3, <1>4, <1>5 DEF MayStillRun
<1>8. \A q \in Requests : Asks(c, q) => q = r
  BY <1>2 DEF Asks
<1>9. /\ (\A i \in 1..Len(queue) : MayRun(queue[i]))' /\ RequestedOnce'
      /\ queue' \in Seq(Closures \cup {ClosingDown})
      /\ \A d : (\E i \in DOMAIN queue : queue[i] = d) => \E i \in DOMAIN queue' : queue'[i] = d
  BY <1>1, <1>2, <1>3, <1>4, <1>6, <1>7, <1>8, WorkerStays, QueueAppends
<1>10. IdsAreRecorded'
  BY <1>1, <1>3, <1>4 DEF Provided, IdsAreRecorded, Idle
<1>11. CompletionsAreDrained'
  BY <1>1, <1>3 DEF Provided, CompletionsAreDrained
<1>12. CancelReaches'
  BY <1>1, <1>3, <1>4, <1>9 DEF Provided, CancelReaches
<1> QED BY <1>1, <1>3, <1>9, <1>10, <1>11, <1>12, ReaderKeeps
        DEF Provided, TypeOK, NothingDangles

\* A response that could not be asked for finishes at once.
LEMMA RequestFailsKeeps ==
  ASSUME Provided, NEW r \in Requests, RequestFails(r)
  PROVE  Provided'
<1>1. /\ phase[r] = "unused" /\ phase' = [phase EXCEPT ![r] = "finished"]
      /\ drains' = drains \cup {r} /\ drainPosted' = drainPosted \cup {r}
      /\ shown' = [shown EXCEPT ![r] = IF handle THEN "invalidKey" ELSE "unavailable"]
      /\ UNCHANGED <<coordinatorVars, handle, exists, queue, worker, reader, deleted,
                     result, callback, requestId>>
  BY DEF RequestFails
<1>2. /\ PhasesMove /\ phase'[r] = "finished"
      /\ \A q \in Requests : q # r => phase'[q] = phase[q]
      /\ shown' \in [Requests -> Results \cup {NoResult}]
  BY <1>1, ResponseTypes DEF PhasesMove, Phases
<1>3. UNCHANGED <<bound, requestKeys>>
  BY <1>1, CoordinatorStays
<1>4. (\A i \in 1..Len(queue) : MayRun(queue[i]))' /\ RequestedOnce'
  BY <1>1, <1>2, <1>3, WorkerStays, QueueStays
<1>5. IdsAreRecorded'
  BY <1>1, <1>2, <1>3, ResponseTypes DEF Provided, IdsAreRecorded, TypeOK
<1>6. CompletionsAreDrained' /\ r \notin deleted
  BY <1>1, <1>2 DEF Provided, CompletionsAreDrained
<1>7. CancelReaches'
  BY <1>1, <1>2, <1>3 DEF Provided, CancelReaches
<1> QED BY <1>1, <1>2, <1>4, <1>5, <1>6, <1>7, ReaderKeeps DEF Provided, TypeOK, NothingDangles

\* A response is cancelled: the reader goes after its request.
LEMMA CancelKeeps ==
  ASSUME Provided, NEW r \in Requests, Cancel(r)
  PROVE  Provided'
<1>1. /\ phase[r] = "open" /\ phase' = [phase EXCEPT ![r] = "cancelled"]
      /\ callback' = callback \ {r} /\ reader' = At("readId", r) /\ reader = Idle
      /\ UNCHANGED <<coordinatorVars, handle, exists, queue, worker, deleted, result,
                     drains, drainPosted, requestId, shown>>
  BY DEF Cancel
<1>2. /\ PhasesMove /\ phase'[r] = "cancelled"
      /\ \A q \in Requests : q # r => phase'[q] = phase[q]
  BY <1>1, ResponseTypes DEF PhasesMove, Phases
<1>3. UNCHANGED <<bound, requestKeys>>
  BY <1>1, CoordinatorStays
<1>4. (\A i \in 1..Len(queue) : MayRun(queue[i]))' /\ RequestedOnce'
  BY <1>1, <1>2, <1>3, WorkerStays, QueueStays
<1>5. /\ reader'.step = "readId" /\ reader'.r = r
      /\ reader' \in [step : {"readId", "post"}, r : Requests]
  BY <1>1 DEF At
<1>6. IdsAreRecorded'
  BY <1>1, <1>2, <1>3, <1>5 DEF Provided, IdsAreRecorded
<1>7. CompletionsAreDrained'
  BY <1>1, <1>2 DEF Provided, CompletionsAreDrained
<1>8. worker # At("cancel", r)
  BY <1>1 DEF Provided, MayRun, At
<1>9. CancelReaches'
  <2> SUFFICES ASSUME NEW q \in Requests, phase'[q] = "cancelled",
                      requestKeys'[q] # Coordinator!NoUrl
               PROVE  \/ reader' \in {At("readId", q), At("post", q)} /\ q \in requestId'
                      \/ worker' \in {At("record", q), At("cancel", q)}
                      \/ \E i \in DOMAIN queue' : queue'[i] = At("cancel", q)
                      \/ ~handle'
    BY DEF CancelReaches
  <2>1. CASE q = r
    BY <1>1, <1>3, <1>8, <2>1 DEF Provided, IdsAreRecorded
  <2>2. CASE q # r
    BY <1>1, <1>2, <1>3, <2>2 DEF Provided, CancelReaches, At, Idle
  <2> QED BY <2>1, <2>2
<1> QED BY <1>1, <1>2, <1>4, <1>5, <1>6, <1>7, <1>9, ReaderKeeps DEF Provided, TypeOK, NothingDangles

\* The cancel callback reads the id, and posts a closure if there is one.
LEMMA CallbackKeeps ==
  ASSUME Provided, ReadId \/ PostCancel
  PROVE  Provided'
<1>1. /\ PhasesMove /\ UNCHANGED <<responseVars, coordinatorVars, handle, exists, worker>>
      /\ reader.step \in {"readId", "post"}
  BY ResponseTypes DEF ReadId, PostCancel, responseVars, PhasesMove, Phases
<1>2. UNCHANGED <<bound, requestKeys>>
  BY <1>1, CoordinatorStays
<1>3. PICK r \in Requests : reader \in {At("readId", r), At("post", r)} /\ reader.r = r
  <2>1. reader \in [step : {"readId", "post"}, r : Requests]
    BY <1>1 DEF Provided, TypeOK, Idle
  <2> QED BY <2>1 DEF At
<1>4. phase[r] = "cancelled" /\ (reader = At("post", r) => r \in requestId)
  BY <1>3 DEF Provided, IdsAreRecorded, At, Idle
<1>5. CompletionsAreDrained'
  BY <1>1 DEF Provided, CompletionsAreDrained, responseVars
<1>6. \A q \in Requests, t \in {"readId", "post"} : q # r => reader # At(t, q)
  BY <1>3 DEF At
<1>7. CASE ReadId
  <2>1. /\ reader = At("readId", r) /\ UNCHANGED queue
        /\ reader' = IF r \in requestId THEN At("post", r) ELSE Idle
    BY <1>3, <1>7 DEF ReadId, At
  <2>2. /\ reader' \in {Idle} \cup [step : {"readId", "post"}, r : Requests]
        /\ reader' # Idle => reader'.r = r /\ r \in requestId
        /\ Idle.step # "post"
    BY <2>1 DEF At, Idle
  <2>3. (\A i \in 1..Len(queue) : MayRun(queue[i]))' /\ RequestedOnce'
    BY <1>1, <1>2, <2>1, WorkerStays, QueueStays
  <2>4. IdsAreRecorded'
    BY <1>1, <1>2, <1>4, <2>2 DEF Provided, IdsAreRecorded, responseVars
  <2>5. CancelReaches'
    <3> SUFFICES ASSUME NEW q \in Requests, phase'[q] = "cancelled",
                        requestKeys'[q] # Coordinator!NoUrl
                 PROVE  \/ reader' \in {At("readId", q), At("post", q)} /\ q \in requestId'
                        \/ worker' \in {At("record", q), At("cancel", q)}
                        \/ \E i \in DOMAIN queue' : queue'[i] = At("cancel", q)
                        \/ ~handle'
      BY DEF CancelReaches
    <3>1. CASE q = r
      BY <1>1, <1>2, <2>1, <3>1 DEF Provided, IdsAreRecorded, responseVars
    <3>2. CASE q # r
      BY <1>1, <1>2, <1>6, <2>1, <3>2 DEF Provided, CancelReaches, responseVars
    <3> QED BY <3>1, <3>2
  <2> QED BY <1>1, <1>5, <2>1, <2>2, <2>3, <2>4, <2>5, ReaderKeeps
          DEF Provided, TypeOK, NothingDangles, responseVars
<1>8. CASE PostCancel
  <2> DEFINE c == At("cancel", r)
  <2>1. /\ reader = At("post", r) /\ reader' = Idle
        /\ queue' = IF handle THEN Append(queue, c) ELSE queue
    BY <1>3, <1>8 DEF PostCancel, At
  <2>2. c \in Closures /\ c.step = "cancel" /\ c.r = r /\ c # ClosingDown
    BY DEF At, Closures, ClosingDown
  <2>3. \A q \in Requests : ~Asks(c, q)
    BY <2>2 DEF Asks
  <2>4. MayStillRun(c)
    BY <1>1, <1>2, <1>4, <2>1, <2>2 DEF MayStillRun, Provided, IdsAreRecorded, responseVars
  <2>5. /\ (\A i \in 1..Len(queue) : MayRun(queue[i]))' /\ RequestedOnce'
        /\ queue' \in Seq(Closures \cup {ClosingDown})
        /\ \A d : (handle /\ d = c) \/ (\E i \in DOMAIN queue : queue[i] = d)
                    => \E i \in DOMAIN queue' : queue'[i] = d
    <3> HIDE DEF c
    <3>1. CASE handle
      BY <1>1, <1>2, <2>1, <2>2, <2>3, <2>4, <3>1, WorkerStays, QueueAppends
    <3>2. CASE ~handle
      BY <1>1, <1>2, <2>1, <3>2, WorkerStays, QueueStays DEF Provided, TypeOK
    <3> QED BY <3>1, <3>2
  <2>6. IdsAreRecorded'
    BY <1>1, <1>2, <2>1 DEF Provided, IdsAreRecorded, responseVars, Idle
  <2>7. CancelReaches'
    <3> SUFFICES ASSUME NEW q \in Requests, phase'[q] = "cancelled",
                        requestKeys'[q] # Coordinator!NoUrl
                 PROVE  \/ worker' \in {At("record", q), At("cancel", q)}
                        \/ \E i \in DOMAIN queue' : queue'[i] = At("cancel", q)
                        \/ ~handle'
      BY DEF CancelReaches
    <3>1. CASE q = r
      BY <1>1, <2>5, <3>1
    <3>2. CASE q # r
      BY <1>1, <1>2, <1>6, <2>5, <3>2 DEF Provided, CancelReaches, responseVars
    <3> QED BY <3>1, <3>2
  <2> QED BY <1>1, <1>5, <2>1, <2>5, <2>6, <2>7, ReaderKeeps
          DEF Provided, TypeOK, NothingDangles, responseVars
<1> QED BY <1>7, <1>8

\* A response is deleted, and what is queued for it with it.
LEMMA DeleteKeeps ==
  ASSUME Provided, NEW r \in Requests, Delete(r)
  PROVE  Provided'
<1>1. /\ phase[r] \in {"cancelled", "finished"} /\ UNCHANGED phase
      /\ deleted' = deleted \cup {r} /\ drains' = drains \ {r}
      /\ UNCHANGED <<coordinatorVars, handle, exists, queue, worker, reader, result,
                     drainPosted, callback, requestId, shown>>
  BY DEF Delete
<1>2. PhasesMove
  BY <1>1, ResponseTypes DEF PhasesMove, Phases
<1>3. UNCHANGED <<bound, requestKeys>>
  BY <1>1, CoordinatorStays
<1>4. (\A i \in 1..Len(queue) : MayRun(queue[i]))' /\ RequestedOnce'
  BY <1>1, <1>2, <1>3, WorkerStays, QueueStays
<1>5. IdsAreRecorded' /\ CompletionsAreDrained' /\ CancelReaches'
  BY <1>1, <1>3 DEF Provided, IdsAreRecorded, CompletionsAreDrained, CancelReaches
<1> QED BY <1>1, <1>2, <1>4, <1>5, ReaderKeeps DEF Provided, TypeOK, NothingDangles

\* A drain: finished() if the response is open, or nothing.
LEMMA DrainKeeps ==
  ASSUME Provided, NEW r \in Requests, DrainCompletion(r)
  PROVE  Provided'
<1>1. /\ r \in drains /\ drains' = drains \ {r} /\ UNCHANGED requestId
      /\ UNCHANGED <<coordinatorVars, handle, exists, queue, worker, reader, deleted>>
  BY DEF DrainCompletion
<1>2. /\ PhasesMove /\ \A q \in Requests : q # r => phase'[q] = phase[q]
      /\ phase'[r] # "open" /\ (phase'[r] = phase[r] \/ phase'[r] = "finished")
      /\ shown' \in [Requests -> Results \cup {NoResult}]
      /\ result' \in [Requests -> Results \cup {NoResult}]
      /\ \A q \in Requests : q # r => result'[q] = result[q]
      /\ callback' = callback \ {r}
      /\ drainPosted' \in {drainPosted, drainPosted \ {r}}
  <2>1. CASE Drains(r)
    BY <2>1, ResponseTypes DEF DrainCompletion, Drains, PhasesMove, Phases
  <2>2. CASE ~Drains(r)
    <3>1. phase[r] # "open"
      BY <1>1, <2>2 DEF Drains, Provided, CompletionsAreDrained
    <3>2. callback \ {r} = callback
      BY <3>1 DEF Provided, CompletionsAreDrained
    <3> QED BY <2>2, <3>1, <3>2, ResponseTypes DEF DrainCompletion, PhasesMove
  <2> QED BY <2>1, <2>2
<1>3. UNCHANGED <<bound, requestKeys>>
  BY <1>1, CoordinatorStays
<1>4. (\A i \in 1..Len(queue) : MayRun(queue[i]))' /\ RequestedOnce'
  BY <1>1, <1>2, <1>3, WorkerStays, QueueStays
<1>5. phase[r] # "unused" /\ (phase[r] = "cancelled" => phase'[r] = "cancelled")
  BY <1>1, <1>2 DEF Provided, CompletionsAreDrained, PhasesMove
<1>6. IdsAreRecorded'
  BY <1>1, <1>2, <1>3, <1>5, ResponseTypes DEF Provided, IdsAreRecorded, TypeOK
<1>7. CompletionsAreDrained'
  <2>1. callback' = {q \in Requests : phase'[q] = "open"}
    BY <1>2 DEF Provided, CompletionsAreDrained
  <2>2. \A q \in deleted' : phase'[q] \in {"cancelled", "finished"}
    BY <1>1, <1>2, <1>5 DEF Provided, CompletionsAreDrained, TypeOK
  <2>3. ASSUME NEW q \in Requests
        PROVE  /\ phase'[q] = "open" => (result'[q] # NoResult <=> q \in drains')
                                          /\ (q \in drainPosted' <=> q \in drains')
               /\ phase'[q] = "unused" =>
                    result'[q] = NoResult /\ q \notin drains' /\ q \notin drainPosted'
    <3>1. CASE q = r
      BY <1>2, <1>5, <3>1
    <3>2. CASE q # r
      BY <1>1, <1>2, <3>2 DEF Provided, CompletionsAreDrained
    <3> QED BY <3>1, <3>2
  <2> QED BY <2>1, <2>2, <2>3 DEF CompletionsAreDrained
<1>8. CancelReaches'
  BY <1>1, <1>2, <1>3, <1>5 DEF Provided, CancelReaches
<1> QED BY <1>1, <1>2, <1>4, <1>6, <1>7, <1>8, ReaderKeeps DEF Provided, TypeOK, NothingDangles

-----------------------------------------------------------------------------
(* The worker                                                              *)

\* A request that had its answer from the coordinator, and whose response is
\* open, has a result that will be drained.
LEMMA ResultsAreDrained ==
  ASSUME Provided, CompleteStates, \A r \in Requests : RequestMoves(r)
  PROVE  /\ CompletionsAreDrained' /\ drains' \cap deleted' = {}
         /\ result' \in [Requests -> Results \cup {NoResult}]
         /\ drains' \subseteq Requests /\ drainPosted' \subseteq Requests
         /\ UNCHANGED <<phase, deleted, callback, requestId, shown>>
<1> DEFINE C == {r \in Requests : /\ answer'[r] # answer[r]
                                  /\ phase[r] = "open" /\ result[r] = NoResult}
<1>1. /\ result' = [r \in Requests |-> IF r \in C THEN answer'[r] ELSE result[r]]
      /\ drains' = drains \cup (C \ drainPosted) /\ drainPosted' = drainPosted \cup C
      /\ UNCHANGED <<phase, deleted, callback, requestId, shown>>
  BY DEF CompleteStates
<1>2. \A r \in C : answer'[r] \in Results /\ answer'[r] # NoResult
  BY ResponseTypes DEF RequestMoves, Results
<1>3. \A r \in C : r \notin drains /\ r \notin drainPosted /\ r \notin deleted
  BY DEF Provided, CompletionsAreDrained
<1>4. drains' = drains \cup C
  BY <1>1, <1>3
<1>5. /\ result' \in [Requests -> Results \cup {NoResult}]
      /\ drains' \subseteq Requests /\ drainPosted' \subseteq Requests
  BY <1>1, <1>2, <1>4 DEF Provided, TypeOK
<1>6. \A r \in Requests : r \in C => phase[r] = "open"
  OBVIOUS
<1> HIDE DEF C
<1>7. CompletionsAreDrained'
  BY <1>1, <1>2, <1>4, <1>6 DEF Provided, CompletionsAreDrained
<1>8. drains' \cap deleted' = {}
  BY <1>1, <1>3, <1>4 DEF Provided, NothingDangles
<1> QED BY <1>1, <1>5, <1>7, <1>8

\* The responses stay as they are.
LEMMA ResponsesStay ==
  ASSUME Provided, UNCHANGED <<phase, deleted, result, drains, drainPosted, callback, shown>>
  PROVE  /\ CompletionsAreDrained' /\ drains' \cap deleted' = {}
         /\ result' \in [Requests -> Results \cup {NoResult}]
         /\ drains' \subseteq Requests /\ drainPosted' \subseteq Requests
BY DEF Provided, TypeOK, CompletionsAreDrained, NothingDangles

\* What is left to show of a step of the worker or of the GUI thread.
LEMMA WorkerKeeps ==
  ASSUME Provided, UNCHANGED <<reader, phase, deleted, callback, shown>>,
         Coordinator!Sharing', Coordinator!TypeOK', handle' \in BOOLEAN, exists' \in BOOLEAN,
         handle' => exists', worker' # Idle => exists', queue' # << >> => exists',
         worker' \in {Idle} \cup Closures \cup [step : {"record"}, r : Requests],
         queue' \in Seq(Closures \cup {ClosingDown}), requestId' \subseteq Requests,
         MayRun(worker)', (\A i \in 1..Len(queue) : MayRun(queue[i]))', RequestedOnce',
         result' \in [Requests -> Results \cup {NoResult}],
         drains' \subseteq Requests, drainPosted' \subseteq Requests,
         drains' \cap deleted' = {}, CompletionsAreDrained', IdsAreRecorded', CancelReaches'
  PROVE  Provided'
<1>1. TypeOK'
  BY DEF Provided, TypeOK
<1>2. NothingDangles'
  BY DEF NothingDangles
<1> QED BY <1>1, <1>2 DEF Provided

\* What the worker is about to do.
LEMMA WorkerKnown ==
  ASSUME Provided, worker # Idle
  PROVE  /\ worker \in Works /\ MayRun(worker) /\ exists
         /\ worker.step # "cancelAll"
BY WorkFields DEF Provided, TypeOK, Works, NothingDangles, Closures, ClosingDown

\* Nothing that may run may not, when no id begins to be used but the one that
\* the worker requests.
LEMMA QueueStillRuns ==
  ASSUME Provided, UNCHANGED phase, handle' => handle,
         \A r \in Requests : bound[r] # Coordinator!NoBound => bound'[r] # Coordinator!NoBound,
         \A r \in Requests : bound'[r] = bound[r] \/ Asks(worker, r)
  PROVE  \A i \in 1..Len(queue) : MayStillRun(queue[i])
<1> SUFFICES ASSUME NEW i \in 1..Len(queue) PROVE MayStillRun(queue[i])
  OBVIOUS
<1>1. queue[i] \in Works /\ MayRun(queue[i]) /\ queue[i].step # "record"
  BY WorkFields DEF Provided, TypeOK, Works, Closures, ClosingDown
<1>2. \A r \in Requests : Asks(queue[i], r) => ~Asks(worker, r)
  BY DEF Provided, RequestedOnce
<1> QED BY <1>1, <1>2, WorkFields DEF MayRun, MayStillRun, Asks

\* A closure begins.
LEMMA TakeKeeps == ASSUME Provided, Take PROVE Provided'
<1>1. /\ worker = Idle /\ queue # << >> /\ Head(queue) # ClosingDown /\ queue' = Tail(queue)
      /\ worker' = IF handle THEN Head(queue) ELSE Idle
      /\ UNCHANGED <<coordinatorVars, handle, exists, reader, responseVars>>
  BY DEF Take
<1>2. /\ Coordinator!Sharing' /\ Coordinator!TypeOK' /\ UNCHANGED <<bound, requestKeys>>
  BY <1>1, CoordinatorStays
<1>3. \A i \in 1..Len(queue) : MayStillRun(queue[i])
  BY <1>1, <1>2, QueueStillRuns DEF responseVars
<1>4. /\ (\A i \in 1..Len(queue) : MayRun(queue[i]))' /\ RequestedOnce'
      /\ queue' \in Seq(Closures \cup {ClosingDown})
      /\ Head(queue) \in Closures /\ MayStillRun(Head(queue))
      /\ \A d : (\E i \in DOMAIN queue : queue[i] = d)
                     => d = Head(queue) \/ \E i \in DOMAIN queue' : queue'[i] = d
  BY <1>1, <1>3, QueueTakes
<1>5. MayRun(worker)'
  <2>1. MayStillRun(Idle)
    BY DEF MayStillRun, Idle, ClosingDown
  <2>2. MayStillRun(worker')
    BY <1>1, <1>4, <2>1
  <2> QED BY <2>2 DEF MayRun, MayStillRun
<1>6. IdsAreRecorded'
  BY <1>1, <1>2 DEF Provided, IdsAreRecorded, responseVars, Idle, At
<1>7. CancelReaches'
  <2> SUFFICES ASSUME NEW q \in Requests, phase'[q] = "cancelled",
                      requestKeys'[q] # Coordinator!NoUrl
               PROVE  \/ reader' \in {At("readId", q), At("post", q)} /\ q \in requestId'
                      \/ worker' \in {At("record", q), At("cancel", q)}
                      \/ \E i \in DOMAIN queue' : queue'[i] = At("cancel", q)
                      \/ ~handle'
    BY DEF CancelReaches
  <2>1. worker \notin {At("record", q), At("cancel", q)}
    BY <1>1 DEF Idle, At
  <2>2. \/ reader \in {At("readId", q), At("post", q)} /\ q \in requestId
        \/ \E i \in DOMAIN queue : queue[i] = At("cancel", q)
        \/ ~handle
    BY <1>1, <1>2, <2>1 DEF Provided, CancelReaches, responseVars
  <2> QED BY <1>1, <1>4, <2>2 DEF responseVars
<1>8. exists /\ handle' \in BOOLEAN /\ exists' \in BOOLEAN /\ requestId' \subseteq Requests
  BY <1>1 DEF Provided, NothingDangles, TypeOK, responseVars
<1>9. /\ CompletionsAreDrained' /\ drains' \cap deleted' = {}
      /\ result' \in [Requests -> Results \cup {NoResult}]
      /\ drains' \subseteq Requests /\ drainPosted' \subseteq Requests
  BY <1>1, ResponsesStay DEF responseVars
<1> QED BY <1>1, <1>2, <1>4, <1>5, <1>6, <1>7, <1>8, <1>9, WorkerKeeps DEF responseVars

\* The worker has nothing to do, or the id of a request to record.
LEMMA QuietRuns ==
  /\ \A r \in Requests :
       At("record", r).r = r /\ At("record", r).step = "record" /\ At("record", r) # Idle
         /\ At("record", r) \in [step : {"record"}, r : Requests]
         /\ At("record", r) # ClosingDown /\ ~Asks(At("record", r), r)
         /\ At("cancel", r).r = r /\ At("cancel", r).step = "cancel" /\ At("cancel", r) # Idle
         /\ At("cancel", r) \in Closures /\ At("cancel", r) # ClosingDown
         /\ \A q \in Requests : /\ ~Asks(At("record", r), q) /\ ~Asks(At("cancel", r), q)
                                /\ ~Asks(Idle, q)
                                /\ At("record", r) # At("cancel", q)
                                /\ q # r => At("record", r) # At("record", q)
                                              /\ At("cancel", r) # At("cancel", q)
  /\ MayRun(Idle) /\ MayStillRun(Idle)
BY DEF At, Idle, ClosingDown, Closures, Asks, MayRun, MayStillRun

\* Between closures the worker is idle; the last one cancels all.
LEMMA QuietSteps == Idle.step = "idle" /\ ClosingDown.step = "cancelAll"
BY DEF Idle, ClosingDown

\* The coordinator is asked: the id is then on its way to be recorded.
LEMMA DoRequestKeeps ==
  ASSUME Provided, DoRequest
  PROVE  Provided' /\ Coordinator!Next
<1> DEFINE r == worker.r
<1>1. /\ worker.step = "request" /\ Coordinator!RequestCardImage(r, worker.k, worker.b)
      /\ CompleteStates /\ worker' = At("record", r)
      /\ UNCHANGED <<handle, exists, queue, reader>>
  BY DEF DoRequest
<1>2. worker # Idle
  BY <1>1 DEF Idle
<1>3. /\ r \in Requests /\ worker.k \in Keys /\ worker.b \in Bounds /\ exists
      /\ phase[r] # "unused" /\ bound[r] = Coordinator!NoBound /\ Asks(worker, r)
  BY <1>1, <1>2, WorkerKnown, WorkFields DEF MayRun, Asks
<1>4. Coordinator!Next
  BY <1>1, <1>3 DEF Coordinator!Next
<1>5. /\ Coordinator!Sharing' /\ Coordinator!TypeOK' /\ \A q \in Requests : RequestMoves(q)
  BY <1>4, CoordinatorKeeps DEF Provided
<1>6. \A q \in Requests : q # r => bound'[q] = bound[q]
  BY <1>1, <1>3 DEF Coordinator!RequestCardImage, Provided, TypeOK, Coordinator!TypeOK
<1>7. bound'[r] # Coordinator!NoBound
  BY <1>1, <1>3, CoordinatorAssumption
     DEF Coordinator!RequestCardImage, Provided, TypeOK, Coordinator!TypeOK,
         Coordinator!NoBoundAssumption
<1>8. /\ CompletionsAreDrained' /\ drains' \cap deleted' = {}
      /\ result' \in [Requests -> Results \cup {NoResult}]
      /\ drains' \subseteq Requests /\ drainPosted' \subseteq Requests
      /\ UNCHANGED <<phase, deleted, callback, requestId, shown>>
  BY <1>1, <1>5, ResultsAreDrained
<1> HIDE DEF r
<1>9. (\A i \in 1..Len(queue) : MayRun(queue[i]))' /\ RequestedOnce'
  BY <1>1, <1>3, <1>6, <1>7, <1>8, QueueStillRuns, QueueStays, QuietRuns
<1>10. MayRun(worker)'
  <2>1. MayStillRun(At("record", r))
    BY <1>3, <1>7, <1>8, QuietRuns DEF MayStillRun
  <2> QED BY <1>1, <2>1 DEF MayRun, MayStillRun
<1>11. ASSUME NEW q \in Requests, requestKeys'[q] # Coordinator!NoUrl, q # r
       PROVE  requestKeys[q] # Coordinator!NoUrl
  BY <1>5, <1>6, <1>11 DEF RequestMoves
<1>12. \A q \in Requests : worker \notin {At("record", q), At("cancel", q)}
  BY <1>1 DEF At
<1>13. IdsAreRecorded'
  <2>1. \A q \in Requests : requestKeys'[q] # Coordinator!NoUrl =>
          q \in requestId' \/ worker' \in {At("record", q), At("cancel", q)}
    BY <1>1, <1>8, <1>11, <1>12 DEF Provided, IdsAreRecorded
  <2>2. /\ \A q \in requestId' : bound'[q] # Coordinator!NoBound
        /\ \A q \in Requests : phase'[q] = "unused" => bound'[q] = Coordinator!NoBound
        /\ reader' # Idle => phase'[reader'.r] = "cancelled"
        /\ reader'.step = "post" => reader'.r \in requestId'
    BY <1>1, <1>3, <1>6, <1>7, <1>8 DEF Provided, IdsAreRecorded, TypeOK
  <2> QED BY <2>1, <2>2 DEF IdsAreRecorded
<1>14. CancelReaches'
  BY <1>1, <1>8, <1>11, <1>12 DEF Provided, CancelReaches
<1>15. /\ handle' \in BOOLEAN /\ exists' \in BOOLEAN /\ requestId' \subseteq Requests
       /\ queue' \in Seq(Closures \cup {ClosingDown})
       /\ worker' \in [step : {"record"}, r : Requests]
  BY <1>1, <1>3, <1>8, QuietRuns DEF Provided, TypeOK
<1> QED BY <1>1, <1>3, <1>4, <1>5, <1>8, <1>9, <1>10, <1>13, <1>14, <1>15, WorkerKeeps
        DEF Provided

\* The id is recorded, or its request cancelled.
LEMMA RecordKeeps == ASSUME Provided, Record PROVE Provided'
<1> DEFINE r == worker.r
<1>1. /\ worker.step = "record"
      /\ IF phase[r] = "open"
         THEN requestId' = requestId \cup {r} /\ worker' = Idle
         ELSE worker' = At("cancel", r) /\ UNCHANGED requestId
      /\ UNCHANGED <<coordinatorVars, handle, exists, queue, reader, phase, deleted,
                     result, drains, drainPosted, callback, shown>>
  BY DEF Record
<1>2. worker # Idle
  BY <1>1 DEF Idle
<1>3. /\ r \in Requests /\ worker = At("record", r) /\ exists
      /\ phase[r] # "unused" /\ bound[r] # Coordinator!NoBound
  BY <1>1, <1>2, WorkerKnown, WorkFields DEF MayRun
<1>4. /\ Coordinator!Sharing' /\ Coordinator!TypeOK' /\ UNCHANGED <<bound, requestKeys>>
  BY <1>1, CoordinatorStays
<1> HIDE DEF r
<1>5. (\A i \in 1..Len(queue) : MayRun(queue[i]))' /\ RequestedOnce'
  BY <1>1, <1>3, <1>4, QueueStillRuns, QueueStays, QuietRuns
<1>6. MayRun(worker)'
  <2>1. phase[r] # "open" => MayStillRun(At("cancel", r))
    BY <1>1, <1>3, <1>4, QuietRuns, ResponseTypes DEF MayStillRun
  <2>2. MayStillRun(worker')
    BY <1>1, <2>1, QuietRuns
  <2> QED BY <2>2 DEF MayRun, MayStillRun
<1>7. \A q \in Requests : q # r => worker \notin {At("record", q), At("cancel", q)}
  BY <1>3, QuietRuns
<1>8. IdsAreRecorded'
  <2>1. \A q \in Requests : requestKeys'[q] # Coordinator!NoUrl =>
          q \in requestId' \/ worker' \in {At("record", q), At("cancel", q)}
    BY <1>1, <1>4, <1>7 DEF Provided, IdsAreRecorded
  <2>2. /\ \A q \in requestId' : bound'[q] # Coordinator!NoBound
        /\ \A q \in Requests : phase'[q] = "unused" => bound'[q] = Coordinator!NoBound
        /\ reader' # Idle => phase'[reader'.r] = "cancelled"
        /\ reader'.step = "post" => reader'.r \in requestId'
    BY <1>1, <1>3, <1>4 DEF Provided, IdsAreRecorded
  <2> QED BY <2>1, <2>2 DEF IdsAreRecorded
<1>9. CancelReaches'
  <2> SUFFICES ASSUME NEW q \in Requests, phase'[q] = "cancelled",
                      requestKeys'[q] # Coordinator!NoUrl
               PROVE  \/ reader' \in {At("readId", q), At("post", q)} /\ q \in requestId'
                      \/ worker' \in {At("record", q), At("cancel", q)}
                      \/ \E i \in DOMAIN queue' : queue'[i] = At("cancel", q)
                      \/ ~handle'
    BY DEF CancelReaches
  <2>1. CASE q = r
    BY <1>1, <2>1
  <2>2. CASE q # r
    BY <1>1, <1>4, <1>7, <2>2 DEF Provided, CancelReaches
  <2> QED BY <2>1, <2>2
<1>10. /\ handle' \in BOOLEAN /\ exists' \in BOOLEAN /\ requestId' \subseteq Requests
       /\ queue' \in Seq(Closures \cup {ClosingDown})
       /\ worker' \in {Idle} \cup Closures
  BY <1>1, <1>3, QuietRuns DEF Provided, TypeOK
<1>11. /\ CompletionsAreDrained' /\ drains' \cap deleted' = {}
       /\ result' \in [Requests -> Results \cup {NoResult}]
       /\ drains' \subseteq Requests /\ drainPosted' \subseteq Requests
  BY <1>1, ResponsesStay
<1> QED BY <1>1, <1>3, <1>4, <1>5, <1>6, <1>8, <1>9, <1>10, <1>11, WorkerKeeps DEF Provided

\* Between two closures, or as one, the coordinator cancels a request, has
\* another base URL, ends a download or delivers its result: no id begins to
\* be used, and who waits is one who waited.
LEMMA OperationKeeps ==
  ASSUME Provided, Coordinator!Next, UNCHANGED <<bound, handle, exists, queue, reader>>,
         worker' \in {worker, Idle},
         \A q \in Requests : requestKeys'[q] # Coordinator!NoUrl =>
           worker' = worker \/ worker \notin {At("record", q), At("cancel", q)},
         CompleteStates \/ UNCHANGED responseVars
  PROVE  Provided'
<1>1. /\ Coordinator!Sharing' /\ Coordinator!TypeOK' /\ \A q \in Requests : RequestMoves(q)
  BY CoordinatorKeeps DEF Provided
<1>2. /\ CompletionsAreDrained' /\ drains' \cap deleted' = {}
      /\ result' \in [Requests -> Results \cup {NoResult}]
      /\ drains' \subseteq Requests /\ drainPosted' \subseteq Requests
      /\ UNCHANGED <<phase, deleted, callback, requestId, shown>>
  BY <1>1, ResultsAreDrained, ResponsesStay DEF responseVars
<1>3. (\A i \in 1..Len(queue) : MayRun(queue[i]))' /\ RequestedOnce'
  <2>1. \A q \in Requests : Asks(worker', q) => Asks(worker, q)
    BY QuietRuns
  <2> QED BY <1>2, <2>1, QueueStillRuns, QueueStays
<1>4. MayRun(worker)'
  <2>1. MayStillRun(worker)
    BY <1>2 DEF Provided, MayRun, MayStillRun
  <2>2. MayStillRun(Idle)
    BY DEF MayStillRun, Idle, ClosingDown
  <2> QED BY <2>1, <2>2 DEF MayRun, MayStillRun
<1>5. \A q \in Requests : requestKeys'[q] # Coordinator!NoUrl =>
        requestKeys[q] # Coordinator!NoUrl
  BY <1>1 DEF RequestMoves
<1>6. IdsAreRecorded'
  BY <1>2, <1>5 DEF Provided, IdsAreRecorded
<1>7. CancelReaches'
  BY <1>2, <1>5 DEF Provided, CancelReaches
<1>8. /\ handle' \in BOOLEAN /\ exists' \in BOOLEAN /\ requestId' \subseteq Requests
      /\ queue' \in Seq(Closures \cup {ClosingDown})
      /\ worker' \in {Idle} \cup Closures \cup [step : {"record"}, r : Requests]
  BY <1>2 DEF Provided, TypeOK, NothingDangles
<1>9. (handle' => exists') /\ (worker' # Idle => exists') /\ (queue' # << >> => exists')
  BY DEF Provided, NothingDangles
<1> QED BY <1>1, <1>2, <1>3, <1>4, <1>6, <1>7, <1>8, <1>9, WorkerKeeps

\* The worker runs the closure of a cancellation.
LEMMA DoCancelKeeps ==
  ASSUME Provided, DoCancel
  PROVE  Provided' /\ Coordinator!Next
<1> DEFINE r == worker.r
<1>1. /\ worker.step = "cancel" /\ Coordinator!Cancel(r) /\ worker' = Idle
      /\ UNCHANGED <<handle, exists, queue, reader, responseVars>>
  BY DEF DoCancel
<1>2. worker # Idle
  BY <1>1 DEF Idle
<1>3. r \in Requests /\ worker = At("cancel", r) /\ bound[r] # Coordinator!NoBound
  BY <1>1, <1>2, WorkerKnown, WorkFields DEF MayRun
<1>4. Coordinator!Next
  BY <1>1, <1>3 DEF Coordinator!Next
<1>5. UNCHANGED bound /\ requestKeys'[r] = Coordinator!NoUrl
  BY <1>1, <1>3 DEF Coordinator!Cancel, Provided, TypeOK, Coordinator!TypeOK
<1> HIDE DEF r
<1>6. \A q \in Requests : q # r => worker \notin {At("record", q), At("cancel", q)}
  BY <1>3, QuietRuns
<1>7. \A q \in Requests : requestKeys'[q] # Coordinator!NoUrl =>
        worker' = worker \/ worker \notin {At("record", q), At("cancel", q)}
  BY <1>5, <1>6
<1> QED BY <1>1, <1>4, <1>5, <1>7, OperationKeeps

\* The worker runs the closure that sets the base URL.
LEMMA DoSetBaseKeeps ==
  ASSUME Provided, DoSetBase
  PROVE  Provided' /\ Coordinator!Next
<1>1. /\ worker.step = "setBase" /\ Coordinator!SetAssetBaseUrl /\ worker' = Idle
      /\ UNCHANGED <<handle, exists, queue, reader, responseVars>>
  BY DEF DoSetBase
<1>2. Coordinator!Next /\ UNCHANGED bound
  BY <1>1 DEF Coordinator!Next, Coordinator!SetAssetBaseUrl
<1>3. \A q \in Requests : worker \notin {At("record", q), At("cancel", q)}
  BY <1>1 DEF At
<1> QED BY <1>1, <1>2, <1>3, OperationKeeps

\* A download ends, and its result is handed to the coordinator.
LEMMA DownloadKeeps ==
  ASSUME Provided, FetchCompletes \/ Deliver
  PROVE  Provided' /\ Coordinator!Next
<1>1. UNCHANGED <<handle, exists, queue, reader, worker>>
      /\ (CompleteStates \/ UNCHANGED responseVars)
  BY DEF FetchCompletes, Deliver
<1>2. Coordinator!Next /\ UNCHANGED bound
  BY DEF FetchCompletes, Deliver, Coordinator!Next, Coordinator!FetchCompletes,
         Coordinator!HandleFetchFinished
<1> QED BY <1>1, <1>2, OperationKeeps

\* The end of the thread: nobody waits, and nothing is queued.
LEMMA CloseDownKeeps ==
  ASSUME Provided, CloseDown
  PROVE  Provided' /\ Coordinator!Next
<1>1. /\ worker = Idle /\ queue # << >> /\ Head(queue) = ClosingDown
      /\ Coordinator!CancelAll /\ queue' = << >> /\ exists' = FALSE
      /\ UNCHANGED <<handle, worker, reader, responseVars>>
  BY DEF CloseDown
<1>2. Coordinator!Next
  BY <1>1 DEF Coordinator!Next
<1>3. Coordinator!Sharing' /\ Coordinator!TypeOK'
  BY <1>2, CoordinatorKeeps DEF Provided
<1>4. UNCHANGED bound /\ \A q \in Requests : requestKeys'[q] = Coordinator!NoUrl
  BY <1>1 DEF Coordinator!CancelAll
<1>5. ~handle
  <2>1. 1 \in 1..Len(queue) /\ queue[1] = ClosingDown
    BY <1>1 DEF Provided, TypeOK
  <2> QED BY <2>1 DEF Provided, MayRun
<1>6. (\A i \in 1..Len(queue) : MayRun(queue[i]))' /\ RequestedOnce'
  BY <1>1 DEF RequestedOnce
<1>7. MayRun(worker)' /\ queue' \in Seq(Closures \cup {ClosingDown})
  BY <1>1, QuietRuns DEF MayRun, MayStillRun, Idle, ClosingDown
<1>8. IdsAreRecorded' /\ CancelReaches'
  BY <1>1, <1>4 DEF Provided, IdsAreRecorded, CancelReaches, responseVars
<1>9. handle' \in BOOLEAN /\ exists' \in BOOLEAN /\ requestId' \subseteq Requests
  BY <1>1 DEF Provided, TypeOK, responseVars
<1>10. /\ CompletionsAreDrained' /\ drains' \cap deleted' = {}
       /\ result' \in [Requests -> Results \cup {NoResult}]
       /\ drains' \subseteq Requests /\ drainPosted' \subseteq Requests
  BY <1>1, ResponsesStay DEF responseVars
<1> QED BY <1>1, <1>2, <1>3, <1>5, <1>6, <1>7, <1>8, <1>9, <1>10, WorkerKeeps DEF responseVars

\* The GUI thread queues another base URL, or the end.
LEMMA GuiKeeps ==
  ASSUME Provided, Destroy \/ \E b \in Bases : SetAssetBaseUrl(b)
  PROVE  Provided'
<1>1. PICK c \in Closures \cup {ClosingDown} :
        /\ queue' = Append(queue, c) /\ handle /\ handle' \in BOOLEAN
        /\ c = ClosingDown => ~handle'
        /\ c.step \in {"setBase", "cancelAll"}
  <2>1. CASE Destroy
    <3>1. /\ queue' = Append(queue, ClosingDown) /\ handle /\ handle' = FALSE
          /\ ClosingDown.step = "cancelAll" /\ ClosingDown \in Closures \cup {ClosingDown}
      BY <2>1, QuietSteps DEF Destroy
    <3> QED BY <3>1
  <2>2. ASSUME NEW b \in Bases, SetAssetBaseUrl(b)
        PROVE  /\ queue' = Append(queue, Rebasing(b)) /\ handle /\ handle' \in BOOLEAN
               /\ Rebasing(b) # ClosingDown /\ Rebasing(b).step = "setBase"
               /\ Rebasing(b) \in Closures
    BY <2>2 DEF SetAssetBaseUrl, Rebasing, ClosingDown, Closures, Provided, TypeOK
  <2> QED BY <2>1, <2>2
<1>2. UNCHANGED <<coordinatorVars, exists, worker, reader, responseVars>>
  BY DEF Destroy, SetAssetBaseUrl
<1>3. /\ Coordinator!Sharing' /\ Coordinator!TypeOK' /\ UNCHANGED <<bound, requestKeys>>
  BY <1>2, CoordinatorStays
<1>4. MayStillRun(c) /\ \A q \in Requests : ~Asks(c, q)
  BY <1>1 DEF MayStillRun, Asks
<1>5. \A i \in 1..Len(queue) : MayStillRun(queue[i])
  BY <1>1, <1>2, <1>3, QueueStillRuns DEF responseVars
<1>6. /\ (\A i \in 1..Len(queue) : MayRun(queue[i]))' /\ RequestedOnce'
      /\ queue' \in Seq(Closures \cup {ClosingDown})
      /\ \A d : (\E i \in DOMAIN queue : queue[i] = d) => \E i \in DOMAIN queue' : queue'[i] = d
  BY <1>1, <1>2, <1>4, <1>5, QueueAppends
<1>7. MayRun(worker)'
  <2>1. worker # ClosingDown
    BY QuietRuns DEF Provided, TypeOK, Idle, ClosingDown, Closures
  <2> QED BY <1>2, <1>3, <2>1 DEF Provided, MayRun, responseVars
<1>8. IdsAreRecorded' /\ CancelReaches'
  BY <1>1, <1>2, <1>3, <1>6 DEF Provided, IdsAreRecorded, CancelReaches, responseVars
<1>9. /\ exists' \in BOOLEAN /\ exists /\ requestId' \subseteq Requests
      /\ worker' \in {Idle} \cup Closures \cup [step : {"record"}, r : Requests]
  BY <1>1, <1>2 DEF Provided, TypeOK, responseVars
<1>10. /\ CompletionsAreDrained' /\ drains' \cap deleted' = {}
       /\ result' \in [Requests -> Results \cup {NoResult}]
       /\ drains' \subseteq Requests /\ drainPosted' \subseteq Requests
  BY <1>2, ResponsesStay DEF responseVars
<1> QED BY <1>1, <1>2, <1>3, <1>6, <1>7, <1>8, <1>9, <1>10, WorkerKeeps DEF responseVars

-----------------------------------------------------------------------------
(* The theorems                                                            *)

\* Nothing has been asked for yet.
LEMMA InitProvides == Init => Provided
<1> SUFFICES ASSUME Init PROVE Provided
  OBVIOUS
<1>1. Coordinator!Sharing /\ Coordinator!TypeOK
  <2>1. Alone!Init
    BY SameConstants DEF Init, Coordinator!Init, Alone!Init
  <2>2. Coordinator!Sharing
    BY <2>1, Alone!InitShares, SameConstants, SameSharing
  <2> QED BY <2>2 DEF Coordinator!Sharing
<1>2. TypeOK
  BY <1>1 DEF Init, TypeOK, Phases
<1>3. MayRun(worker) /\ RequestedOnce /\ \A i \in 1..Len(queue) : MayRun(queue[i])
  BY QuietRuns DEF Init, RequestedOnce
<1>4. IdsAreRecorded /\ CompletionsAreDrained /\ CancelReaches /\ NothingDangles
  BY DEF Init, Coordinator!Init, IdsAreRecorded, CompletionsAreDrained, CancelReaches,
         NothingDangles, Idle
<1> QED BY <1>1, <1>2, <1>3, <1>4 DEF Init, Provided

\* Each critical section keeps what is provided, and is to the coordinator one
\* of its operations or nothing.
LEMMA NextProvides ==
  ASSUME Provided, [Next]_vars
  PROVE  Provided' /\ (Coordinator!Next \/ UNCHANGED coordinatorVars)
<1>1. ASSUME NEW r \in Requests, NEW k \in Keys, NEW b \in Bounds, Request(r, k, b)
      PROVE  Provided' /\ UNCHANGED coordinatorVars
  BY <1>1, RequestKeeps DEF Request
<1>2. ASSUME NEW r \in Requests,
             RequestFails(r) \/ Cancel(r) \/ Delete(r) \/ DrainCompletion(r)
      PROVE  Provided' /\ UNCHANGED coordinatorVars
  BY <1>2, RequestFailsKeeps, CancelKeeps, DeleteKeeps, DrainKeeps
     DEF RequestFails, Cancel, Delete, DrainCompletion
<1>3. ASSUME ReadId \/ PostCancel PROVE Provided' /\ UNCHANGED coordinatorVars
  BY <1>3, CallbackKeeps DEF ReadId, PostCancel
<1>4. ASSUME Take \/ Record PROVE Provided' /\ UNCHANGED coordinatorVars
  BY <1>4, TakeKeeps, RecordKeeps DEF Take, Record
<1>5. ASSUME DoRequest \/ DoCancel \/ DoSetBase \/ CloseDown \/ FetchCompletes \/ Deliver
      PROVE  Provided' /\ Coordinator!Next
  BY <1>5, DoRequestKeeps, DoCancelKeeps, DoSetBaseKeeps, CloseDownKeeps, DownloadKeeps
<1>6. ASSUME Destroy \/ \E b \in Bases : SetAssetBaseUrl(b)
      PROVE  Provided' /\ UNCHANGED coordinatorVars
  BY <1>6, GuiKeeps DEF Destroy, SetAssetBaseUrl
<1>7. CASE UNCHANGED vars
  <2>1. Coordinator!Sharing' /\ Coordinator!TypeOK' /\ UNCHANGED coordinatorVars
    BY <1>7, CoordinatorStays DEF vars
  <2> QED BY <1>7, <2>1 DEF vars, coordinatorVars, responseVars, Provided, TypeOK, MayRun,
             RequestedOnce, Asks, IdsAreRecorded, CompletionsAreDrained, CancelReaches,
             NothingDangles
<1> QED BY <1>1, <1>2, <1>3, <1>4, <1>5, <1>6, <1>7 DEF Next, WorkerStep

\* The inductive invariant: closures rely on nothing that changes before they
\* run, ids are on record or on their way, each result has its drain.
THEOREM ProviderInvariant == Spec => []Provided
<1>1. Provided /\ [Next]_vars => Provided'
  BY NextProvides
<1> QED BY InitProvides, <1>1, PTL DEF Spec

\* A response that was cancelled at any point of its request does not keep its
\* download alive: it waits no more, or is about to be taken off.
THEOREM CancelledIsTakenOff == Spec => []CancelReaches
<1>1. Provided => CancelReaches
  BY DEF Provided
<1> QED BY ProviderInvariant, <1>1, PTL

\* The worker never runs or has queued anything for a coordinator that has been
\* deleted, and no completion is queued for a response that has.
THEOREM NothingDeletedIsUsed == Spec => []NothingDangles
<1>1. Provided => NothingDangles
  BY DEF Provided
<1> QED BY ProviderInvariant, <1>1, PTL

\* To the coordinator the provider is a caller as it expects: every critical
\* section is one of its operations, for an id it may be called with.
THEOREM CoordinatorIsUsedRight ==
  Spec => Coordinator!Init /\ [][Coordinator!Next]_coordinatorVars
<1>1. Init => Coordinator!Init
  BY DEF Init
<1>2. Provided /\ [Next]_vars => [Coordinator!Next]_coordinatorVars
  BY NextProvides
<1> QED BY ProviderInvariant, <1>1, <1>2, PTL DEF Spec

\* What a critical section may do to a response, as its owner sees it.
ResponseMoves(r) ==
  \/ phase'[r] = phase[r] /\ shown'[r] = shown[r]
  \/ phase[r] = "unused" /\ phase'[r] = "open" /\ shown'[r] = shown[r]
  \/ phase[r] \in {"unused", "open"} /\ phase'[r] = "finished" /\ shown'[r] \in Results
  \/ phase[r] = "open" /\ phase'[r] = "cancelled" /\ shown'[r] = shown[r]

\* A step moves a response one phase on, or leaves it where it is.
LEMMA ResponsesMove ==
  ASSUME Provided, [Next]_vars
  PROVE  \A r \in Requests : ResponseMoves(r)
<1> USE DEF ResponseMoves
<1>1. ASSUME NEW q \in Requests,
             RequestFails(q) \/ Cancel(q) \/ (\E k \in Keys, b \in Bounds : Request(q, k, b)),
             NEW r \in Requests
      PROVE  ResponseMoves(r)
  BY <1>1, ResponseTypes DEF RequestFails, Cancel, Request
<1>2. ASSUME NEW q \in Requests, DrainCompletion(q), NEW r \in Requests
      PROVE  ResponseMoves(r)
  BY <1>2, ResponseTypes DEF DrainCompletion, Drains
<1>3. ASSUME UNCHANGED <<phase, shown>> PROVE \A r \in Requests : ResponseMoves(r)
  BY <1>3
<1>4. ASSUME \/ \E r \in Requests : Delete(r)
             \/ ReadId \/ PostCancel \/ WorkerStep \/ FetchCompletes \/ Deliver
             \/ \E b \in Bases : SetAssetBaseUrl(b)
             \/ Destroy \/ UNCHANGED vars
      PROVE  UNCHANGED <<phase, shown>>
  BY <1>4 DEF Delete, ReadId, PostCancel, WorkerStep, Take, DoRequest, Record, DoCancel,
              DoSetBase, CloseDown, FetchCompletes, Deliver, CompleteStates, SetAssetBaseUrl,
              Destroy, vars, responseVars
<1> QED BY <1>1, <1>2, <1>3, <1>4 DEF Next

\* A response finishes at most once, with what it was given, and not after it
\* was cancelled.
THEOREM AtMostOneFinish == Spec => FinishesOnce
<1>1. Init => Response!Init
  BY DEF Init, Response!Init
<1>2. ASSUME Provided, [Next]_vars
      PROVE  [Response!Next]_(Response!vars)
  <2>1. /\ phase' \in [Requests -> Phases] /\ shown' \in [Requests -> Results \cup {NoResult}]
    BY <1>2, NextProvides DEF Provided, TypeOK
  <2>2. \A r \in Requests :
          \/ phase'[r] = phase[r] /\ shown'[r] = shown[r]
          \/ phase[r] = "unused" /\ phase'[r] = "open" /\ shown'[r] = shown[r]
          \/ phase[r] \in {"unused", "open"} /\ phase'[r] = "finished" /\ shown'[r] \in Results
          \/ phase[r] = "open" /\ phase'[r] = "cancelled" /\ shown'[r] = shown[r]
    BY <1>2, ResponsesMove DEF ResponseMoves
  <2> QED BY <2>1, <2>2, <1>2, ResponseTypes
          DEF Response!Next, Response!Keep, Response!Issue, Response!Answer, Response!Withdraw
<1> QED BY ProviderInvariant, <1>1, <1>2, PTL DEF Spec, FinishesOnce, Response!Spec
=============================================================================
