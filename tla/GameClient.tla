----------------------------- MODULE GameClient -----------------------------
(***************************************************************************)
(* GameClient: authenticated GET requests for the games list, one game and *)
(* the card catalog.  Each has a deadline and a response cap.  The catalog *)
(* is decoded on a pool of one worker thread and its answer posted back.   *)
(* One action is one slot of the client's thread, one step of the worker,  *)
(* or one event of the network.  A completion ends by calling back; what   *)
(* the callback does to the client (issue, destroy) is the next action.    *)
(***************************************************************************)
EXTENDS HttpReply, Sequences

CONSTANTS Requests,   \* identities of the requests a run issues
          Cap         \* m_maxResponseBytes, in the units of MaxBody

ASSUME CapAssumption == Cap \in Nat \ {0}

VARIABLES alive,    \* the client exists
          stage,    \* of each request, see Stages
          kind,     \* what each request asks for
          reply,    \* the reply of each request
          body,     \* bytes of PendingReply::body
          timer,    \* requests whose deadline is armed
          pool,     \* m_decodePool: catalog requests, the running one first
          answer    \* what the callback of each request was given

vars == <<alive, stage, kind, reply, body, timer, pool, answer>>

\* rejected and posted: a queued invocation on the client's thread.
Stages == {"unused", "rejected", "pending", "decoding", "posted", "answered",
           "dropped"}
Kinds == {"list", "game", "catalog"}
GameOutcomes == {"success", "unauthorized", "notFound", "maintenance",
                 "httpError", "transport", "oversized", "decodeFailed",
                 "invalidRequest"}
NoAnswer == "none"

Init ==
  /\ alive = TRUE
  /\ stage = [r \in Requests |-> "unused"]
  /\ kind \in [Requests -> Kinds]
  /\ reply = [r \in Requests |-> NewReply]
  /\ body = [r \in Requests |-> 0]
  /\ timer = {}
  /\ pool = << >>
  /\ answer = [r \in Requests |-> NoAnswer]

\* The callback of r runs with |o|.
CallBack(r, o) ==
  /\ stage' = [stage EXCEPT ![r] = "answered"]
  /\ answer' = [answer EXCEPT ![r] = o]

-----------------------------------------------------------------------------
(* issue() and rejectQueued()                                              *)

Send(r) ==
  /\ alive /\ stage[r] = "unused"
  /\ stage' = [stage EXCEPT ![r] = "pending"]
  /\ timer' = timer \cup {r}
  /\ UNCHANGED <<alive, kind, reply, body, pool, answer>>

\* A profile, token, transport or game id that cannot be used.
Reject(r) ==
  /\ alive /\ stage[r] = "unused"
  /\ stage' = [stage EXCEPT ![r] = "rejected"]
  /\ UNCHANGED <<alive, kind, reply, body, timer, pool, answer>>

RejectionDelivered(r) ==
  /\ stage[r] = "rejected"
  /\ CallBack(r, "invalidRequest")
  /\ UNCHANGED <<alive, kind, reply, body, timer, pool>>

-----------------------------------------------------------------------------
(* Handlers of a pending reply                                             *)

\* Mutant: a reply that is no longer pending completes again.
CompleteAgain(r, o) ==
  /\ timer' = timer
  /\ IF o = "success" /\ kind[r] = "catalog"
     THEN /\ stage' = [stage EXCEPT ![r] = "decoding"]
          /\ pool' = Append(pool, r)
          /\ UNCHANGED answer
     ELSE CallBack(r, o) /\ UNCHANGED pool

\* complete(): the request is forgotten, its deadline stopped and its reply
\* disconnected before the callback runs.  A catalog goes to the pool.
Complete(r, o) ==
  /\ stage[r] = "pending"
  /\ timer' = timer \ {r}
  /\ IF o = "success" /\ kind[r] = "catalog"
     THEN /\ stage' = [stage EXCEPT ![r] = "decoding"]
          /\ pool' = Append(pool, r)
          /\ UNCHANGED answer
     ELSE CallBack(r, o) /\ UNCHANGED pool

\* contentLengthExceedsCap().
DeclaredTooLong(p) == p.declared /\ p.length > Cap

\* readAvailable(): the buffered bytes do not fit.
TooLong(r, p) == body[r] + p.unread > Cap

\* What handleFinished() makes of a reply read to its end; a decoder may
\* reject a list or a game, and a truncated notice is no maintenance.
Classified(r, p) ==
  CASE p.status = NoStatus       -> {"transport"}
    [] p.status = "unauthorized" -> {"unauthorized"}
    [] p.status = "notFound"     -> {"notFound"}
    [] p.status = "unavailable"  ->
         {"httpError"} \cup (IF p.arrived = p.length THEN {"maintenance"} ELSE {})
    [] p.status \notin {"ok", "unauthorized", "notFound", "unavailable", NoStatus} ->
         {"httpError"}
    [] p.status = "ok" /\ p.error -> {"transport"}
    [] OTHER -> IF kind[r] = "catalog" THEN {"success"}
                ELSE {"success", "decodeFailed"}

\* metaDataChanged.
Headers(r) ==
  /\ stage[r] = "pending" /\ reply[r].stage = "waiting"
  /\ reply' \in {[reply EXCEPT ![r] = p] : p \in WithHeaders(reply[r])}
  /\ IF DeclaredTooLong(reply'[r]) THEN Complete(r, "oversized")
     ELSE UNCHANGED <<stage, timer, pool, answer>>
  /\ UNCHANGED <<alive, kind, body>>

\* Bytes arrive; readyRead is delivered later, or not before the end.
Arrives(r) ==
  /\ stage[r] = "pending" /\ HasHeaders(reply[r])
  /\ reply' \in {[reply EXCEPT ![r] = p] : p \in WithBytes(reply[r])}
  /\ UNCHANGED <<alive, stage, kind, body, timer, pool, answer>>

ReadyRead(r) ==
  /\ stage[r] = "pending" /\ IsOpen(reply[r]) /\ reply[r].unread > 0
  /\ IF TooLong(r, reply[r])
     THEN Complete(r, "oversized") /\ UNCHANGED <<reply, body>>
     ELSE /\ body' = [body EXCEPT ![r] = @ + reply[r].unread]
          /\ reply' = [reply EXCEPT ![r] = Drained(@)]
          /\ UNCHANGED <<stage, timer, pool, answer>>
  /\ UNCHANGED <<alive, kind>>

\* Mutant: what is still unread is forgotten.
FinishUnread(r, p) ==
  /\ body' = body
  /\ reply' = [reply EXCEPT ![r] = Drained(p)]
  /\ \E o \in Classified(r, p) : Complete(r, o)

\* handleFinished() with the reply |p|: its last bytes are read first.
Finish(r, p) ==
  IF DeclaredTooLong(p) \/ TooLong(r, p)
  THEN /\ Complete(r, "oversized")
       /\ reply' = [reply EXCEPT ![r] = p]
       /\ UNCHANGED body
  ELSE /\ body' = [body EXCEPT ![r] = @ + p.unread]
       /\ reply' = [reply EXCEPT ![r] = Drained(p)]
       /\ \E o \in Classified(r, p) : Complete(r, o)

Finishes(r) ==
  /\ stage[r] = "pending" /\ IsOpen(reply[r])
  /\ Finish(r, Finished(reply[r]))
  /\ UNCHANGED <<alive, kind>>

\* The deadline of the request.
TimesOut(r) ==
  /\ alive /\ r \in timer
  /\ Complete(r, "transport")
  /\ UNCHANGED <<alive, kind, reply, body>>

-----------------------------------------------------------------------------
(* The decode pool                                                         *)

\* The worker decodes the first catalog and posts the answer.
Decodes ==
  /\ pool # << >>
  /\ stage' = [stage EXCEPT ![Head(pool)] = "posted"]
  /\ pool' = Tail(pool)
  /\ UNCHANGED <<alive, kind, reply, body, timer, answer>>

DecodeDelivered(r) ==
  /\ stage[r] = "posted"
  /\ \E o \in {"success", "decodeFailed"} : CallBack(r, o)
  /\ UNCHANGED <<alive, kind, reply, body, timer, pool>>

-----------------------------------------------------------------------------
(* ~GameClient()                                                           *)

\* Queued decodes are dropped and a running one is waited for; an answer it
\* posted, like a queued rejection, goes with the object; replies are aborted.
Destroy ==
  /\ alive
  /\ alive' = FALSE
  /\ stage' = [r \in Requests |->
       IF stage[r] \in {"unused", "answered"} THEN stage[r] ELSE "dropped"]
  /\ timer' = {}
  /\ pool' = << >>
  /\ UNCHANGED <<kind, reply, body, answer>>

-----------------------------------------------------------------------------

Next ==
  \/ \E r \in Requests :
       \/ Send(r) \/ Reject(r) \/ RejectionDelivered(r)
       \/ Headers(r) \/ Arrives(r) \/ ReadyRead(r) \/ Finishes(r)
       \/ TimesOut(r) \/ DecodeDelivered(r)
  \/ Decodes
  \/ Destroy

\* The event loop delivers what is queued, timers fire and the worker runs;
\* nothing is assumed of the network.
Fairness ==
  /\ WF_vars(Decodes)
  /\ \A r \in Requests :
       WF_vars(TimesOut(r)) /\ WF_vars(RejectionDelivered(r))
         /\ WF_vars(DecodeDelivered(r))

Spec == Init /\ [][Next]_vars /\ Fairness

-----------------------------------------------------------------------------
(* Properties                                                              *)

TypeOK ==
  /\ alive \in BOOLEAN
  /\ stage \in [Requests -> Stages]
  /\ kind \in [Requests -> Kinds]
  /\ reply \in [Requests -> Replies]
  /\ body \in [Requests -> 0..Cap]
  /\ timer \subseteq Requests
  /\ pool \in Seq(Requests)
  /\ answer \in [Requests -> GameOutcomes \cup {NoAnswer}]

\* "Every callback runs exactly once, asynchronously, unless this client is
\* destroyed first": a timeout, an oversized header, the last bytes and the
\* end of a reply, and a decode that outlives its request, never answer the
\* same call twice, nor one of a client that is gone; and every call is
\* answered, or dropped with the client, whatever the server does or fails to.
Client ==
  INSTANCE OneAnswer WITH
    Calls <- Requests, Outcomes <- GameOutcomes, NoOutcome <- NoAnswer, AtOnce <- FALSE,
    phase <- [r \in Requests |->
                CASE stage[r] = "unused" -> "unused"
                  [] stage[r] \in {"rejected", "pending", "decoding", "posted"} -> "open"
                  [] stage[r] = "answered" -> "answered"
                  [] stage[r] = "dropped" -> "withdrawn"],
    outcome <- answer
AnswersOnce == Client!Promise

\* A game or catalog is taken from the whole body, which is within the cap
\* and came without an error; no body of more than the cap is ever used.
SuccessIsWhole ==
  \A r \in Requests : answer[r] = "success" =>
    /\ reply[r].status = "ok" /\ ~reply[r].error
    /\ body[r] = reply[r].length
    /\ body[r] <= Cap

\* Why that is: no byte is lost or counted twice between the network's buffer
\* and the body, and nothing arrives before the headers or beyond what the
\* server means to send.
BytesAddUp ==
  \A r \in Requests :
    /\ body[r] + reply[r].unread = reply[r].arrived
    /\ reply[r].arrived <= reply[r].length
    /\ reply[r].stage = "waiting" => reply[r].arrived = 0

IsWhole(r) ==
  /\ reply[r].status = "ok" /\ ~reply[r].error
  /\ body[r] = reply[r].length

\* Each call has a deadline exactly while its reply is pending, an answer
\* exactly once it was called back, and what waits for the decoder or for its
\* answer is a whole catalog; a client that is gone has no call left.
CallsAreKnown ==
  \A r \in Requests :
    /\ r \in timer <=> stage[r] = "pending"
    /\ answer[r] # NoAnswer <=> stage[r] = "answered"
    /\ stage[r] \in {"decoding", "posted"} => IsWhole(r)
    /\ alive \/ stage[r] \in {"unused", "answered", "dropped"}

\* The pool holds the catalogs to be decoded, each of them once.
DecodedOnce ==
  /\ \A r \in Requests : stage[r] = "decoding" <=> \E i \in 1..Len(pool) : pool[i] = r
  /\ \A i, j \in 1..Len(pool) : pool[i] = pool[j] => i = j

\* All calls, their replies and the pool agree.
Bookkeeping == TypeOK /\ SuccessIsWhole /\ BytesAddUp /\ CallsAreKnown /\ DecodedOnce

=============================================================================
