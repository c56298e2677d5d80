------------------------ MODULE AuthenticationClient ------------------------
(***************************************************************************)
(* NetworkAuthenticationClient: authenticate, register and whoAmI.  A call *)
(* is pending until its reply finishes, its deadline passes or its caller  *)
(* cancels it, whichever is first; that step forgets it and queues its     *)
(* callback.  From then on neither of the others finds it.  Each step is a *)
(* function of what the client keeps, since its caller may cancel a call   *)
(* and issue another within one slot.                                      *)
(***************************************************************************)
EXTENDS HttpReply

CONSTANTS Calls,     \* identities of requests (the handles)
          NoCall     \* the handle of no request, 0

VARIABLES stage,     \* of each call, see Stages
          result     \* what its queued callback will be given

Stages == {"unused", "pending", "posted", "answered", "dropped"}

\* failed: UnexpectedStatus, Transport, NonHttpResponse and MalformedPayload.
Outcomes == {"success", "unauthorized", "maintenance", "failed", "cancelled",
             "invalidInput"}
NoResult == "none"

\* What the client keeps, as one value.
Calling == [stage |-> stage, result |-> result]
Becomes(s) == stage' = s.stage /\ result' = s.result

Init ==
  /\ stage = [c \in Calls |-> "unused"]
  /\ result = [c \in Calls |-> NoResult]

\* emitAsync(): the call is forgotten and its callback queued.
Posted(s, c, o) ==
  [stage |-> [s.stage EXCEPT ![c] = "posted"],
   result |-> [s.result EXCEPT ![c] = o]]

\* issueTokenRequest() and whoAmI().
Issued(s, c) == [s EXCEPT !.stage[c] = "pending"]

\* rejectInvalidInput(): no request is made, and no handle given for it.
Rejected(s, c) == Posted(s, c, "invalidInput")

\* cancel(): nothing for a call that is no longer pending.
Cancelled(s, c) ==
  IF c # NoCall /\ s.stage[c] = "pending" THEN Posted(s, c, "cancelled") ELSE s

\* The queued callback runs.
Delivered(s, c) ==
  [s EXCEPT !.stage[c] = "answered", !.result[c] = NoResult]

\* ~NetworkAuthenticationClient(): what is queued goes with the object.
Dropped(s) ==
  [stage |-> [c \in Calls |-> IF s.stage[c] \in {"pending", "posted"}
                              THEN "dropped" ELSE s.stage[c]],
   result |-> [c \in Calls |-> NoResult]]

\* classifyReply(): a body may be no JSON object or lack a field.
Classified(p) ==
  CASE p.status = "unauthorized" -> {"unauthorized"}
    [] p.status = "unavailable"  ->
         {"failed"} \cup (IF p.arrived = p.length THEN {"maintenance"} ELSE {})
    [] p.status = "ok" /\ ~p.error -> {"success", "failed"}
    [] OTHER -> {"failed"}

Finishes(c) ==
  /\ stage[c] = "pending"
  /\ \E o \in UNION {Classified(p) : p \in FinishedReplies} :
       Becomes(Posted(Calling, c, o))

\* Mutant: the deadline of a call that was answered still counts.
TimesOutLate(c) ==
  /\ stage[c] \in {"pending", "answered"}
  /\ Becomes(Posted(Calling, c, "failed"))

\* The deadline of the request.
TimesOut(c) ==
  /\ stage[c] = "pending"
  /\ Becomes(Posted(Calling, c, "failed"))

\* "invokes |callback| exactly once, asynchronously, while the client is
\* alive": which result it was is not compared.
Once ==
  INSTANCE OneAnswer WITH
    Outcomes <- {"given"}, NoOutcome <- NoResult, AtOnce <- FALSE,
    phase <- [c \in Calls |->
                CASE stage[c] = "unused"   -> "unused"
                  [] stage[c] = "answered" -> "answered"
                  [] stage[c] = "dropped"  -> "withdrawn"
                  [] OTHER                 -> "open"],
    outcome <- [c \in Calls |->
                  IF stage[c] = "answered" THEN "given" ELSE NoResult]
=============================================================================
