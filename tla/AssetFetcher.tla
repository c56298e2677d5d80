---------------------------- MODULE AssetFetcher ----------------------------
(***************************************************************************)
(* AssetNetworkFetcher: downloads one image per request, following         *)
(* redirects by hand under a single deadline, with a cap on the bytes, and *)
(* posts one result.  The caller may cancel, and the network manager it    *)
(* borrows, or one of its replies, may be destroyed at any time.           *)
(***************************************************************************)
EXTENDS HttpReply

CONSTANTS Requests,       \* identities of the fetches a run makes
          Cap,            \* maxResponseBytes, in the units of MaxBody
          MaxRedirects,   \* maxRedirects
          Sites,          \* origins: what a URL is abstracted to
          Https,          \* those with scheme https
          Loopback        \* those whose host is a loopback host

ASSUME LimitsAssumption == Cap \in Nat \ {0} /\ MaxRedirects \in Nat
ASSUME SitesAssumption == Https \subseteq Sites /\ Loopback \subseteq Sites

VARIABLES alive,     \* the fetcher exists
          manager,   \* m_networkAccessManager still exists
          stage,     \* of each request: see Stages
          original,  \* originalUrl
          site,      \* the URL of the present reply
          hops,      \* redirectCount
          reply,     \* the present reply
          bytes,     \* PendingRequest::bytes
          late,      \* requests whose deadline has passed
          result     \* what is, or will be, given to the callback

vars == <<alive, manager, stage, original, site, hops, reply, bytes, late, result>>

Stages == {"unused", "pending", "posted", "answered", "withdrawn"}
FetchOutcomes == {"success", "invalidUrl", "timeout", "network", "tooLarge",
                  "notModified", "missingLocation", "tooManyRedirects",
                  "redirectRejected", "notFound", "httpError",
                  "unsupportedType"}
NoResult == "none"

Init ==
  /\ alive = TRUE /\ manager = TRUE
  /\ stage = [r \in Requests |-> "unused"]
  /\ original \in [Requests -> Sites]
  /\ site = original
  /\ hops = [r \in Requests |-> 0]
  /\ reply = [r \in Requests |-> NewReply]
  /\ bytes = [r \in Requests |-> 0]
  /\ late = {}
  /\ result = [r \in Requests |-> NoResult]

\* deliver(): queued, and not withdrawn by a cancel() that comes after it.
Deliver(r, o) ==
  /\ stage' = [stage EXCEPT ![r] = "posted"]
  /\ result' = [result EXCEPT ![r] = o]

\* validateFetchUrl(): https, or a loopback host.
FetchAllowed(s) == s \in Https \/ s \in Loopback

\* Mutant: the target alone is looked at.
AnySecureTarget(o, from, to) == to \in Https \/ to \in Loopback

\* redirectTargetAllowed(): cleartext only to a loopback host, and only for a
\* fetch that began at one.
RedirectAllowed(o, from, to) ==
  \/ from = to
  \/ to \in Https
  \/ to \in Loopback /\ o \in Loopback

-----------------------------------------------------------------------------

\* fetch().
Fetch(r) ==
  /\ alive /\ stage[r] = "unused"
  /\ IF ~manager THEN Deliver(r, "network")
     ELSE IF ~FetchAllowed(original[r]) THEN Deliver(r, "invalidUrl")
     ELSE stage' = [stage EXCEPT ![r] = "pending"] /\ UNCHANGED result
  /\ UNCHANGED <<alive, manager, original, site, hops, reply, bytes, late>>

\* cancel(): nothing if the result is already posted.
Cancel(r) ==
  /\ alive /\ stage[r] = "pending"
  /\ stage' = [stage EXCEPT ![r] = "withdrawn"]
  /\ UNCHANGED <<alive, manager, original, site, hops, reply, bytes, late, result>>

\* The result reaches the callback.
Delivered(r) ==
  /\ alive /\ stage[r] = "posted"
  /\ stage' = [stage EXCEPT ![r] = "answered"]
  /\ UNCHANGED <<alive, manager, original, site, hops, reply, bytes, late, result>>

-----------------------------------------------------------------------------
(* Handlers of a pending reply                                             *)

\* metaDataChanged: checkContentLength().
Headers(r) ==
  /\ stage[r] = "pending" /\ reply[r].stage = "waiting"
  /\ reply' \in {[reply EXCEPT ![r] = p] : p \in WithHeaders(reply[r])}
  /\ IF reply'[r].declared /\ reply'[r].length > Cap THEN Deliver(r, "tooLarge")
     ELSE UNCHANGED <<stage, result>>
  /\ UNCHANGED <<alive, manager, original, site, hops, bytes, late>>

Arrives(r) ==
  /\ stage[r] = "pending" /\ HasHeaders(reply[r])
  /\ reply' \in {[reply EXCEPT ![r] = p] : p \in WithBytes(reply[r])}
  /\ UNCHANGED <<alive, manager, stage, original, site, hops, bytes, late, result>>

\* handleReadyRead(): the chunk does not fit.
TooLarge(r, p) == bytes[r] + p.unread > Cap

ReadyRead(r) ==
  /\ stage[r] = "pending" /\ IsOpen(reply[r]) /\ reply[r].unread > 0
  /\ reply' = [reply EXCEPT ![r] = Drained(@)]
  /\ IF TooLarge(r, reply[r]) THEN Deliver(r, "tooLarge") /\ UNCHANGED bytes
     ELSE /\ bytes' = [bytes EXCEPT ![r] = @ + reply[r].unread]
          /\ UNCHANGED <<stage, result>>
  /\ UNCHANGED <<alive, manager, original, site, hops, late>>

\* Mutant: every hop gets a new deadline.
RestartAnew(r, to) ==
  /\ site' = [site EXCEPT ![r] = to]
  /\ hops' = [hops EXCEPT ![r] = @ + 1]
  /\ reply' = [reply EXCEPT ![r] = NewReply]
  /\ bytes' = [bytes EXCEPT ![r] = 0]
  /\ UNCHANGED <<stage, late, result>>

\* startRequest() for a redirect, under the deadline of the whole fetch.
Restart(r, to) ==
  IF r \in late \/ ~manager
  THEN /\ Deliver(r, IF r \in late THEN "timeout" ELSE "network")
       /\ UNCHANGED <<site, hops, reply, bytes, late>>
  ELSE /\ site' = [site EXCEPT ![r] = to]
       /\ hops' = [hops EXCEPT ![r] = @ + 1]
       /\ reply' = [reply EXCEPT ![r] = NewReply]
       /\ bytes' = [bytes EXCEPT ![r] = 0]
       /\ UNCHANGED <<stage, late, result>>

\* The branch of handleFinished() for a status of 3xx other than 304; the
\* Location header names any site, or is missing.
Redirected(r) ==
  IF hops[r] >= MaxRedirects
  THEN /\ \E o \in {"missingLocation", "tooManyRedirects"} : Deliver(r, o)
       /\ UNCHANGED <<site, hops, reply, bytes, late>>
  ELSE \/ Deliver(r, "missingLocation") /\ UNCHANGED <<site, hops, reply, bytes, late>>
       \/ \E to \in Sites :
            IF FetchAllowed(to) /\ RedirectAllowed(original[r], site[r], to)
            THEN Restart(r, to)
            ELSE /\ Deliver(r, "redirectRejected")
                 /\ UNCHANGED <<site, hops, reply, bytes, late>>

\* The other outcomes of a reply that has finished as |p|.
Classified(p) ==
  CASE p.status = NoStatus      -> {"network"}
    [] p.status = "notModified" -> {"notModified"}
    [] p.status = "notFound"    -> {"notFound"}
    [] p.status \in {"unauthorized", "unavailable", "other"} -> {"httpError"}
    [] OTHER -> IF p.error THEN {"network"} ELSE {"success", "unsupportedType"}

\* handleFinished(): the last bytes are read first, and may be too many.
Finishes(r) ==
  LET p == Finished(reply[r])
  IN  /\ stage[r] = "pending" /\ IsOpen(reply[r])
      /\ IF TooLarge(r, p)
         THEN Deliver(r, "tooLarge") /\ UNCHANGED <<site, hops, reply, bytes, late>>
         ELSE IF p.status = "redirect" THEN Redirected(r)
         ELSE /\ \E o \in Classified(p) : Deliver(r, o)
              /\ reply' = [reply EXCEPT ![r] = Drained(p)]
              /\ bytes' = [bytes EXCEPT ![r] = @ + p.unread]
              /\ UNCHANGED <<site, hops, late>>
      /\ UNCHANGED <<alive, manager, original>>

-----------------------------------------------------------------------------
(* Time, and the objects around the fetcher                                *)

\* The deadline passes; its timer event comes later.
DeadlinePasses(r) ==
  /\ stage[r] = "pending" /\ r \notin late
  /\ late' = late \cup {r}
  /\ UNCHANGED <<alive, manager, stage, original, site, hops, reply, bytes, result>>

\* Mutant: only the reply of the first hop is timed.
TimerFiresOnFirst(r) ==
  /\ stage[r] = "pending" /\ r \in late /\ hops[r] = 0
  /\ Deliver(r, "timeout")
  /\ UNCHANGED <<alive, manager, original, site, hops, reply, bytes, late>>

TimerFires(r) ==
  /\ stage[r] = "pending" /\ r \in late
  /\ Deliver(r, "timeout")
  /\ UNCHANGED <<alive, manager, original, site, hops, reply, bytes, late>>

\* handleReplyDestroyed().
ReplyDestroyed(r) ==
  /\ stage[r] = "pending"
  /\ Deliver(r, "network")
  /\ UNCHANGED <<alive, manager, original, site, hops, reply, bytes, late>>

\* handleNetworkManagerDestroyed().
ManagerDestroyed ==
  /\ manager
  /\ manager' = FALSE
  /\ stage' = [r \in Requests |->
                 IF stage[r] = "pending" THEN "posted" ELSE stage[r]]
  /\ result' = [r \in Requests |->
                 IF stage[r] = "pending" THEN "network" ELSE result[r]]
  /\ UNCHANGED <<alive, original, site, hops, reply, bytes, late>>

\* ~AssetNetworkFetcher(): what was posted goes with the object.
Destroy ==
  /\ alive
  /\ alive' = FALSE
  /\ stage' = [r \in Requests |->
       IF stage[r] \in {"pending", "posted"} THEN "withdrawn" ELSE stage[r]]
  /\ UNCHANGED <<manager, original, site, hops, reply, bytes, late, result>>

-----------------------------------------------------------------------------

Next ==
  \/ \E r \in Requests :
       \/ Fetch(r) \/ Cancel(r) \/ Delivered(r)
       \/ Headers(r) \/ Arrives(r) \/ ReadyRead(r) \/ Finishes(r)
       \/ DeadlinePasses(r) \/ TimerFires(r) \/ ReplyDestroyed(r)
  \/ ManagerDestroyed \/ Destroy

\* Time passes, timers fire and the event loop runs; the server need not
\* answer.
Fairness ==
  \A r \in Requests :
    WF_vars(DeadlinePasses(r)) /\ WF_vars(TimerFires(r)) /\ WF_vars(Delivered(r))

Spec == Init /\ [][Next]_vars /\ Fairness

-----------------------------------------------------------------------------
(* Properties                                                              *)

\* However many redirects, timers, chunks and destroyed objects a fetch goes
\* through, its callback runs once, or never if it was cancelled while
\* pending or the fetcher is gone.  It ends whatever the server does; in
\* particular a chain of redirects cannot prolong it.
Fetcher ==
  INSTANCE OneAnswer WITH
    Calls <- Requests, Outcomes <- FetchOutcomes, NoOutcome <- NoResult, AtOnce <- FALSE,
    phase <- [r \in Requests |->
                IF stage[r] \in {"pending", "posted"} THEN "open" ELSE stage[r]],
    outcome <- [r \in Requests |->
                IF stage[r] = "answered" THEN result[r] ELSE NoResult]
AnswersOnce == Fetcher!Promise

\* No hop of a fetch is cleartext to another host than the user's own, and
\* no server elsewhere can send a fetch to the user's own host in cleartext.
NoHopIsExposed ==
  \A r \in Requests : stage[r] = "pending" =>
    /\ site[r] \in Https \/ site[r] \in Loopback
    /\ site[r] \in Https \/ original[r] \in Loopback

\* Why that is, and what an answer is: a fetch starts at its own URL, and has
\* a result from when that is posted.
HopsAreKnown ==
  /\ stage \in [Requests -> Stages]
  /\ original \in [Requests -> Sites] /\ site \in [Requests -> Sites]
  /\ hops \in [Requests -> Nat]
  /\ result \in [Requests -> FetchOutcomes \cup {NoResult}]
  /\ NoHopIsExposed
  /\ \A r \in Requests : stage[r] = "unused" => site[r] = original[r]
  /\ \A r \in Requests : stage[r] \in {"posted", "answered"} => result[r] # NoResult

\* Once the deadline has passed, a fetch makes no further request.
NoHopAfterDeadline ==
  [][\A r \in Requests : r \in late => hops'[r] = hops[r]]_vars
=============================================================================
