----------------------------- MODULE TokenStore -----------------------------
(***************************************************************************)
(* What ITokenStore keeps under one profile's key, and what a call may do  *)
(* to it.  An entry is either absent, the envelope of one token bound to   *)
(* one endpoint, or text that is not such an envelope (a token of an older *)
(* format, or a corrupt one).  At most one call per profile is outstanding *)
(* (see TokenFifo), so a call is one atomic step, taken when it answers.   *)
(***************************************************************************)
EXTENDS TokenFifo

NoEntry == [form |-> "absent", endpoint |-> NoEndpoint, token |-> NoToken]

\* LegacyUnbound and Malformed: the coordinator treats them alike.
UnboundEntry == [form |-> "unbound", endpoint |-> NoEndpoint, token |-> NoToken]

BoundEntry(endpoint, token) ==
  [form |-> "bound", endpoint |-> endpoint, token |-> token]

Entries == {NoEntry, UnboundEntry}
             \cup [form : {"bound"}, endpoint : Endpoints, token : Tokens]

\* Mutants: the binding is not compared; an entry of no use counts as absent.
ReadAnyBinding(entry, endpoint) ==
  CASE entry.form = "absent"  -> "notFound"
    [] entry.form = "unbound" -> "untrusted"
    [] OTHER -> "success"
ReadLeniently(entry, endpoint) ==
  IF entry.form = "bound" /\ entry.endpoint = endpoint THEN "success"
  ELSE "notFound"

\* readToken(): the outcome of a read that reached the backend.
ReadOutcome(entry, endpoint) ==
  CASE entry.form = "absent"  -> "notFound"
    [] entry.form = "unbound" -> "untrusted"
    [] OTHER -> IF entry.endpoint = endpoint THEN "success" ELSE "untrusted"

\* saveToken() and deleteToken(): what the entry may be afterwards.  A call
\* that reports an error may still have taken effect in the backend.
AfterSave(entry, op, ok) ==
  IF ok THEN {BoundEntry(op.endpoint, op.token)}
        ELSE {entry, BoundEntry(op.endpoint, op.token)}

AfterDelete(entry, ok) == IF ok THEN {NoEntry} ELSE {entry, NoEntry}
=============================================================================
