------------------------- MODULE KeychainTokenStore -------------------------
(***************************************************************************)
(* QtKeychainTokenStore: a read, save or deletion is a job of the keychain *)
(* daemon.  The daemon performs it at some time, the job finishes, and the *)
(* answer is queued: three steps where its user sees one (TokenStore).  No *)
(* deadline ends a job.  At most one call per profile is outstanding (see  *)
(* TokenFifo), so the job of a profile names it.                           *)
(***************************************************************************)
EXTENDS TokenStore

VARIABLES entries,    \* what the daemon keeps for each profile
          job         \* the outstanding call of each profile

Stages == {"idle", "running", "performed", "posted"}

\* otherError: denied, unavailable, and what the backend calls an error.
Errors == {"noError", "entryNotFound", "otherError"}

NoStoreCall == [kind |-> "none", endpoint |-> NoEndpoint, token |-> NoToken]

Idle == [stage |-> "idle", call |-> NoStoreCall, error |-> "noError",
         raw |-> NoEntry, outcome |-> "none"]

\* readToken(), saveToken() and deleteToken() start a job.
Started(op) ==
  [Idle EXCEPT !.stage = "running",
               !.call = [kind |-> op.kind, endpoint |-> op.endpoint,
                         token |-> op.token]]

\* What the daemon may do with a job, and report of it.
Performance(entry, call) ==
  LET bound == BoundEntry(call.endpoint, call.token)
      absence == IF entry = NoEntry THEN {"entryNotFound"} ELSE {}
  IN  CASE call.kind = "read" ->
             {entry} \X ({"otherError"} \cup
                (IF entry = NoEntry THEN absence ELSE {"noError"}))
        [] call.kind = "save" ->
             {<<bound, "noError">>} \cup ({bound, entry} \X {"otherError"})
        [] call.kind = "delete" ->
             ({NoEntry} \X ({"noError"} \cup absence))
               \cup ({NoEntry, entry} \X {"otherError"})

Performs(p) ==
  /\ job[p].stage = "running"
  /\ \E done \in Performance(entries[p], job[p].call) :
       /\ entries' = [entries EXCEPT ![p] = done[1]]
       /\ job' = [job EXCEPT ![p].stage = "performed", ![p].error = done[2],
                             ![p].raw = entries[p]]

\* A read of an entry checks the endpoint that it is bound to.
OutcomeOfRead(j) ==
  CASE j.error = "noError"       -> ReadOutcome(j.raw, j.call.endpoint)
    [] j.error = "entryNotFound" -> "notFound"
    [] OTHER                     -> "failed"

OutcomeOfSave(j) == IF j.error = "noError" THEN "success" ELSE "failed"

\* Mutant: a deletion counts as done, whatever the daemon reports.
DeletedAnyway(j) == "success"

\* An entry that is not there need not be deleted.
OutcomeOfDelete(j) == IF j.error = "otherError" THEN "failed" ELSE "success"

OutcomeOf(j) ==
  CASE j.call.kind = "read"   -> OutcomeOfRead(j)
    [] j.call.kind = "save"   -> OutcomeOfSave(j)
    [] j.call.kind = "delete" -> OutcomeOfDelete(j)

\* The job's finished signal: the answer is queued.
Finishes(p) ==
  /\ job[p].stage = "performed"
  /\ job' = [job EXCEPT ![p].stage = "posted", ![p].outcome = OutcomeOf(job[p])]
  /\ UNCHANGED entries
=============================================================================
