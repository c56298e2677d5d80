----------------------------- MODULE HttpReply -----------------------------
(***************************************************************************)
(* A reply of the network library, as operators on the record of one       *)
(* reply, and the server behind it, which may answer anything at any time, *)
(* or never.  The client sees three kinds of events: the headers are       *)
(* known, bytes can be read, and the reply has finished (once).  Bytes may *)
(* still be unread when the reply finishes.  Lengths are in units of the   *)
(* client's response cap; what a body says is abstracted to readable or    *)
(* not, and only a body that was received whole is readable.               *)
(***************************************************************************)
EXTENDS Naturals

CONSTANTS MaxBody,       \* bound: the longest body a server sends
          Statuses       \* classes of HTTP status a server answers with

\* unavailable is 503, which is maintenance when its body says so.
ASSUME StatusesAssumption ==
  Statuses \subseteq {"ok", "redirect", "unauthorized", "notFound",
                      "notModified", "unavailable", "other"}
ASSUME BodyAssumption == MaxBody \in Nat

NoStatus == "noStatus"

Replies == [stage : {"waiting", "headers", "finished"},
            status : Statuses \cup {NoStatus},
            length : 0..MaxBody,     \* of the body the server means to send
            declared : BOOLEAN,      \* whether Content-Length says so
            arrived : 0..MaxBody,    \* how much of it the client has
            unread : 0..MaxBody,     \* how much of that is still unread
            error : BOOLEAN]         \* QNetworkReply::error()

NewReply == [stage |-> "waiting", status |-> NoStatus, length |-> 0,
             declared |-> FALSE, arrived |-> 0, unread |-> 0, error |-> FALSE]

\* metaDataChanged: status, length and whether that is declared.
Announced(r, s, n, d) ==
  [r EXCEPT !.stage = "headers", !.status = s, !.length = n, !.declared = d]
WithHeaders(r) ==
  {Announced(r, s, n, d) : s \in Statuses, n \in 0..MaxBody, d \in BOOLEAN}

\* More of the body arrives.
WithBytes(r) ==
  {[r EXCEPT !.arrived = n, !.unread = @ + (n - r.arrived)] :
     n \in (r.arrived + 1)..r.length}

\* The client has read all there is.
Drained(r) == [r EXCEPT !.unread = 0]

\* finished: the connection may break at any point, and a status of 400 or
\* more is an error, too.
Finished(r) ==
  [r EXCEPT !.stage = "finished",
            !.error = r.stage = "waiting" \/ r.arrived < r.length
                        \/ r.status \notin {"ok", "redirect", "notModified"}]

\* Every reply that a client may find when it looks at finished replies only.
FinishedReplies ==
  {Finished(NewReply)}
    \cup {Finished(p) : p \in UNION {{h} \cup WithBytes(h) : h \in WithHeaders(NewReply)}}

IsOpen(r) == r.stage # "finished"
HasHeaders(r) == r.stage = "headers"
=============================================================================
