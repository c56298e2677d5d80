------------------------- MODULE AssetImageProvider -------------------------
(***************************************************************************)
(* AssetCardImageProvider and its responses.  Three threads share them:    *)
(* the image reader asks for an image, cancels and deletes responses and   *)
(* runs their queued completions; a worker runs the coordinator of         *)
(* AssetImageRequests, fed by a queue of closures; the GUI thread sets the *)
(* base URL and destroys the provider.  One action is one critical section *)
(* of a response's or of the coordinator handle's mutex, with what its     *)
(* thread does up to the next one.  What the engine does with a response   *)
(* is external: it may cancel or delete it whenever the reader is free.    *)
(***************************************************************************)
EXTENDS Naturals, Sequences, FiniteSets

CONSTANTS Requests,    \* the responses; a request id is that of its response
          Keys, Bases, Bounds, Endings, Ttl, NegativeMax

VARIABLES base, flights, requestKeys, bound, fetching, posted, negative, answer,
          handle,      \* CoordinatorHandle::alive
          exists,      \* the coordinator has not been deleted
          queue,       \* closures queued for the coordinator
          worker,      \* what the worker is about to do
          reader,      \* what the image reader is about to do
          phase,       \* of each response: see Phases
          deleted,     \* responses that are gone
          result,      \* AssetCardImageResponseState::result
          drains,      \* responses with a queued drainCompletion()
          drainPosted, \* those with drainPosted set
          callback,    \* those with cancelCallback set
          requestId,   \* those with requestId set
          shown        \* m_image or m_errorString

coordinatorVars == <<base, flights, requestKeys, bound, fetching, posted,
                     negative, answer>>
responseVars == <<phase, deleted, result, drains, drainPosted, callback,
                  requestId, shown>>
vars == <<coordinatorVars, handle, exists, queue, worker, reader, responseVars>>

Coordinator == INSTANCE AssetImageRequests
ASSUME CoordinatorAssumption ==
  /\ Coordinator!NegativeAssumption
  /\ Coordinator!EndingsAssumption
  /\ Coordinator!NoBoundAssumption

\* alive is phase open, and so is a response pointer that is not null.
Phases == {"unused", "open", "cancelled", "finished"}
NoResult == "none"
Results == Coordinator!ImageOutcomes \cup {"unavailable"}
Idle == [step |-> "idle"]
At(step, r) == [step |-> step, r |-> r]
Asking(step, r, k, b) == [step |-> step, r |-> r, k |-> k, b |-> b]
Rebasing(b) == [step |-> "setBase", base |-> b]
ClosingDown == [step |-> "cancelAll"]

Init ==
  /\ Coordinator!Init
  /\ handle = TRUE /\ exists = TRUE
  /\ queue = << >> /\ worker = Idle /\ reader = Idle
  /\ phase = [r \in Requests |-> "unused"]
  /\ deleted = {} /\ drains = {} /\ drainPosted = {}
  /\ callback = {} /\ requestId = {}
  /\ result = [r \in Requests |-> NoResult]
  /\ shown = [r \in Requests |-> NoResult]

-----------------------------------------------------------------------------
(* The image reader: requestImageResponse(), cancel(), ~Response()         *)

\* setCancelCallback(), then a closure is posted under the handle's mutex.
Request(r, k, b) ==
  /\ reader = Idle /\ phase[r] = "unused" /\ handle
  /\ phase' = [phase EXCEPT ![r] = "open"]
  /\ callback' = callback \cup {r}
  /\ queue' = Append(queue, Asking("request", r, k, b))
  /\ UNCHANGED <<coordinatorVars, handle, exists, worker, reader, deleted,
                 result, drains, drainPosted, requestId, shown>>

\* complete(): a bad id, or no provider any more.  The completion is drained
\* at once; the one that was queued for it finds nothing.
RequestFails(r) ==
  /\ reader = Idle /\ phase[r] = "unused"
  /\ phase' = [phase EXCEPT ![r] = "finished"]
  /\ drains' = drains \cup {r}
  /\ drainPosted' = drainPosted \cup {r}
  /\ shown' = [shown EXCEPT ![r] = IF handle THEN "invalidKey" ELSE "unavailable"]
  /\ UNCHANGED <<coordinatorVars, handle, exists, queue, worker, reader, deleted,
                 result, callback, requestId>>

\* cancel(): the callback is taken under the mutex and run after it.
Cancel(r) ==
  /\ reader = Idle /\ phase[r] = "open"
  /\ phase' = [phase EXCEPT ![r] = "cancelled"]
  /\ callback' = callback \ {r}
  /\ reader' = At("readId", r)
  /\ UNCHANGED <<coordinatorVars, handle, exists, queue, worker, deleted, result,
                 drains, drainPosted, requestId, shown>>

\* The cancel callback reads the request id, if there is one yet ...
ReadId ==
  /\ reader.step = "readId"
  /\ reader' = IF reader.r \in requestId THEN At("post", reader.r) ELSE Idle
  /\ UNCHANGED <<coordinatorVars, handle, exists, queue, worker, responseVars>>

\* ... and posts a closure.
PostCancel ==
  /\ reader.step = "post"
  /\ reader' = Idle
  /\ queue' = IF handle THEN Append(queue, At("cancel", reader.r)) ELSE queue
  /\ UNCHANGED <<coordinatorVars, handle, exists, worker, responseVars>>

\* Mutant: what is queued for the response is not dropped.
DeleteKeepingEvents(r) ==
  /\ reader = Idle /\ phase[r] \in {"cancelled", "finished"} /\ r \notin deleted
  /\ deleted' = deleted \cup {r}
  /\ UNCHANGED <<coordinatorVars, handle, exists, queue, worker, reader, phase,
                 result, drains, drainPosted, callback, requestId, shown>>

\* ~AssetCardImageResponse() after its cancel(); its events go with it.
Delete(r) ==
  /\ reader = Idle /\ phase[r] \in {"cancelled", "finished"} /\ r \notin deleted
  /\ deleted' = deleted \cup {r}
  /\ drains' = drains \ {r}
  /\ UNCHANGED <<coordinatorVars, handle, exists, queue, worker, reader, phase,
                 result, drainPosted, callback, requestId, shown>>

\* Mutant: finished() is emitted for a cancelled response.
Drained(r) == result[r] # NoResult
\* drainCompletion() has something to finish.
Drains(r) == phase[r] = "open" /\ result[r] # NoResult

DrainCompletion(r) ==
  /\ reader = Idle /\ r \in drains
  /\ drains' = drains \ {r}
  /\ IF Drains(r)
     THEN /\ phase' = [phase EXCEPT ![r] = "finished"]
          /\ shown' = [shown EXCEPT ![r] = result[r]]
          /\ result' = [result EXCEPT ![r] = NoResult]
          /\ callback' = callback \ {r}
          /\ UNCHANGED drainPosted
     ELSE /\ drainPosted' = drainPosted \ {r}
          /\ UNCHANGED <<phase, shown, result, callback>>
  /\ UNCHANGED <<coordinatorVars, handle, exists, queue, worker, reader, deleted,
                 requestId>>

-----------------------------------------------------------------------------
(* The worker                                                              *)

\* completeState() of all that the coordinator has just answered.
CompleteStates ==
  LET C == {r \in Requests : /\ answer'[r] # answer[r]
                             /\ phase[r] = "open" /\ result[r] = NoResult}
  IN  /\ result' = [r \in Requests |-> IF r \in C THEN answer'[r] ELSE result[r]]
      /\ drains' = drains \cup (C \ drainPosted)
      /\ drainPosted' = drainPosted \cup C
      /\ UNCHANGED <<phase, deleted, callback, requestId, shown>>

\* A closure begins; without a coordinator it is dropped.
Take ==
  /\ worker = Idle /\ queue # << >> /\ Head(queue) # ClosingDown
  /\ queue' = Tail(queue)
  /\ worker' = IF handle THEN Head(queue) ELSE Idle
  /\ UNCHANGED <<coordinatorVars, handle, exists, reader, responseVars>>

\* The coordinator answers at once, or later.
DoRequest ==
  /\ worker.step = "request"
  /\ Coordinator!RequestCardImage(worker.r, worker.k, worker.b)
  /\ CompleteStates
  /\ worker' = At("record", worker.r)
  /\ UNCHANGED <<handle, exists, queue, reader>>

\* Mutant: the id is recorded whether or not the response was cancelled.
RecordAlways ==
  /\ worker.step = "record"
  /\ requestId' = requestId \cup {worker.r}
  /\ worker' = Idle
  /\ UNCHANGED <<coordinatorVars, handle, exists, queue, reader, phase, deleted,
                 result, drains, drainPosted, callback, shown>>

\* The id is recorded, unless the response was cancelled meanwhile.
Record ==
  /\ worker.step = "record"
  /\ IF phase[worker.r] = "open"
     THEN requestId' = requestId \cup {worker.r} /\ worker' = Idle
     ELSE worker' = At("cancel", worker.r) /\ UNCHANGED requestId
  /\ UNCHANGED <<coordinatorVars, handle, exists, queue, reader, phase, deleted,
                 result, drains, drainPosted, callback, shown>>

DoCancel ==
  /\ worker.step = "cancel"
  /\ Coordinator!Cancel(worker.r)
  /\ worker' = Idle
  /\ UNCHANGED <<handle, exists, queue, reader, responseVars>>

DoSetBase ==
  /\ worker.step = "setBase"
  /\ Coordinator!SetAssetBaseUrl /\ base' = worker.base
  /\ worker' = Idle
  /\ UNCHANGED <<handle, exists, queue, reader, responseVars>>

\* A download ends, or its result is delivered, between two closures.
FetchCompletes ==
  /\ exists /\ Coordinator!FetchCompletes
  /\ UNCHANGED <<handle, exists, queue, worker, reader, responseVars>>

Deliver ==
  /\ worker = Idle /\ exists
  /\ \E p \in posted : Coordinator!HandleFetchFinished(p)
  /\ CompleteStates
  /\ UNCHANGED <<handle, exists, queue, worker, reader>>

\* The worker's part of ~AssetCardImageProvider(): cancelAll(), for which the
\* destructor waits, then the end of the thread, which deletes the coordinator
\* with all that is queued for it.
CloseDown ==
  /\ worker = Idle /\ queue # << >> /\ Head(queue) = ClosingDown
  /\ Coordinator!CancelAll
  /\ queue' = << >>
  /\ exists' = FALSE
  /\ UNCHANGED <<handle, worker, reader, responseVars>>

-----------------------------------------------------------------------------
(* The GUI thread: setAssetBaseUrl(), ~AssetCardImageProvider()            *)

SetAssetBaseUrl(b) ==
  /\ handle /\ \A i \in DOMAIN queue : queue[i].step # "setBase"
  /\ queue' = Append(queue, Rebasing(b))
  /\ UNCHANGED <<coordinatorVars, handle, exists, worker, reader, responseVars>>

\* Mutant: the destructor does not wait for the worker.
DestroyAtOnce ==
  /\ handle
  /\ handle' = FALSE
  /\ exists' = FALSE
  /\ queue' = << >>
  /\ UNCHANGED <<coordinatorVars, worker, reader, responseVars>>

Destroy ==
  /\ handle
  /\ handle' = FALSE
  /\ queue' = Append(queue, ClosingDown)
  /\ UNCHANGED <<coordinatorVars, exists, worker, reader, responseVars>>

-----------------------------------------------------------------------------

WorkerStep == Take \/ DoRequest \/ Record \/ DoCancel \/ DoSetBase \/ CloseDown

Next ==
  \/ \E r \in Requests :
       \/ \E k \in Keys, b \in Bounds : Request(r, k, b)
       \/ RequestFails(r) \/ Cancel(r) \/ Delete(r) \/ DrainCompletion(r)
  \/ ReadId \/ PostCancel
  \/ WorkerStep \/ FetchCompletes \/ Deliver
  \/ \E b \in Bases : SetAssetBaseUrl(b)
  \/ Destroy

\* Both threads run, the worker's event loop serves its events in order, so
\* closures cannot keep a result away for ever, and a download settles, see
\* AssetFetcher.
Fairness ==
  /\ WF_vars(WorkerStep) /\ SF_vars(Deliver) /\ WF_vars(FetchCompletes)
  /\ WF_vars(ReadId \/ PostCancel)
  /\ \A r \in Requests : WF_vars(DrainCompletion(r))

Spec == Init /\ [][Next]_vars /\ Fairness

-----------------------------------------------------------------------------
(* Properties                                                              *)

Closures ==
  [step : {"request"}, r : Requests, k : Keys, b : Bounds]
    \cup [step : {"cancel"}, r : Requests] \cup [step : {"setBase"}, base : Bases]

TypeOK ==
  /\ Coordinator!TypeOK
  /\ handle \in BOOLEAN /\ exists \in BOOLEAN
  /\ queue \in Seq(Closures \cup {ClosingDown})
  /\ worker \in {Idle} \cup Closures \cup [step : {"record"}, r : Requests]
  /\ reader \in {Idle} \cup [step : {"readId", "post"}, r : Requests]
  /\ phase \in [Requests -> Phases]
  /\ result \in [Requests -> Results \cup {NoResult}]
  /\ shown \in [Requests -> Results \cup {NoResult}]
  /\ deleted \subseteq Requests /\ drains \subseteq Requests
  /\ drainPosted \subseteq Requests /\ callback \subseteq Requests
  /\ requestId \subseteq Requests

\* A response that was cancelled, at whatever point of its request, no longer
\* waits at the coordinator, or somebody is about to take it away: else its
\* download would go on for nobody.
CancelReaches ==
  \A r \in Requests : phase[r] = "cancelled" /\ requestKeys[r] # Coordinator!NoUrl =>
    \/ reader \in {At("readId", r), At("post", r)} /\ r \in requestId
    \/ worker \in {At("record", r), At("cancel", r)}
    \/ \E i \in DOMAIN queue : queue[i] = At("cancel", r)
    \/ ~handle

\* No thread is left with a coordinator or a response that has been deleted.
NothingDangles ==
  /\ worker # Idle => exists
  /\ queue # << >> => exists
  /\ drains \cap deleted = {}

\* finished() is emitted once, and never for a response that was cancelled.
Response ==
  INSTANCE OneAnswer WITH
    Calls <- Requests, Outcomes <- Results, NoOutcome <- NoResult,
    AtOnce <- TRUE, outcome <- shown,
    phase <- [r \in Requests |->
                CASE phase[r] = "finished" -> "answered"
                  [] phase[r] = "cancelled" -> "withdrawn"
                  [] OTHER -> phase[r]]
FinishesOnce == Response!Spec

\* As long as the provider is there, nobody waits for an image for ever.
EveryResponseSettles ==
  \A r \in Requests : phase[r] = "open" ~> phase[r] # "open" \/ ~handle

-----------------------------------------------------------------------------
(* Why that is                                                             *)

\* What a closure, running or queued, relies on: a request has a new id, what
\* is cancelled was requested and has no response that waits, and the
\* coordinator is closed down only after nobody can queue for it any more.
MayRun(c) ==
  /\ c.step = "request" => phase[c.r] # "unused" /\ bound[c.r] = Coordinator!NoBound
  /\ c.step = "record" => phase[c.r] # "unused" /\ bound[c.r] # Coordinator!NoBound
  /\ c.step = "cancel" => phase[c.r] \in {"cancelled", "finished"}
                             /\ bound[c.r] # Coordinator!NoBound
  /\ c = ClosingDown => ~handle

\* No response is requested twice.
Asks(c, r) == c.step = "request" /\ c.r = r
RequestedOnce ==
  \A r \in Requests, i \in 1..Len(queue) : Asks(queue[i], r) =>
    ~Asks(worker, r) /\ \A j \in 1..Len(queue) : Asks(queue[j], r) => i = j

\* A request that waits has its id on record, or is about to have it or to be
\* cancelled without it; the reader works for a response that it cancelled.
IdsAreRecorded ==
  /\ \A r \in Requests : requestKeys[r] # Coordinator!NoUrl =>
       r \in requestId \/ worker \in {At("record", r), At("cancel", r)}
  /\ \A r \in requestId : bound[r] # Coordinator!NoBound
  /\ \A r \in Requests : phase[r] = "unused" => bound[r] = Coordinator!NoBound
  /\ reader # Idle => phase[reader.r] = "cancelled"
  /\ reader.step = "post" => reader.r \in requestId

\* A response that is open has a result exactly when a drain is queued for it,
\* so that none is lost; and cancel() finds a callback as long as it is open.
CompletionsAreDrained ==
  /\ \A r \in Requests :
       /\ phase[r] = "open" => (result[r] # NoResult <=> r \in drains)
                                /\ (r \in drainPosted <=> r \in drains)
       /\ phase[r] = "unused" =>
            result[r] = NoResult /\ r \notin drains /\ r \notin drainPosted
  /\ callback = {r \in Requests : phase[r] = "open"}
  /\ \A r \in deleted : phase[r] \in {"cancelled", "finished"}

\* Responses, closures and the coordinator agree.
Provided ==
  /\ TypeOK /\ Coordinator!Sharing
  /\ handle => exists
  /\ MayRun(worker) /\ \A i \in 1..Len(queue) : MayRun(queue[i])
  /\ RequestedOnce /\ IdsAreRecorded /\ CompletionsAreDrained
  /\ CancelReaches /\ NothingDangles
=============================================================================
