--------------------------- MODULE CapabilityProbe ---------------------------
(***************************************************************************)
(* NetworkCapabilityProbe: one GET of a server's capabilities, by an       *)
(* object that its owner makes for it and destroys when the result is of   *)
(* no more use.  finished() is emitted within the slot of the reply, but   *)
(* queued when the deadline passes.  What the server says is compared with *)
(* the contract this client is built for (CompatibilityEvaluator).         *)
(***************************************************************************)
EXTENDS HttpReply

CONSTANTS Probes,     \* identities of probe objects
          NoProbe     \* m_probe without one

VARIABLE stage        \* of each probe, see Stages

Stages == {"unused", "pending", "posted", "answered", "dropped"}

\* failed: NetworkError, HttpError, MalformedJson and InvalidProfile.
Outcomes == {"compatible", "legacyFallback", "incompatible", "maintenance",
             "failed"}

Init == stage = [o \in Probes |-> "unused"]

\* m_probe.reset(): what is queued for the object goes with it.
Destroyed(s, o) ==
  IF o # NoProbe /\ s[o] \in {"pending", "posted"}
  THEN [s EXCEPT ![o] = "dropped"] ELSE s

\* probe().
Probing(s, o) == [s EXCEPT ![o] = "pending"]

-----------------------------------------------------------------------------
(* CompatibilityEvaluator                                                  *)

\* Schema revisions of the contract, in order: older than this client accepts
\* of a server, the oldest it accepts, its own, and newer.
Revisions == 0..3
Pin == [minimumServerSchemaRevision |-> 1, supportedSchemaRevision |-> 2]

\* ServerCapabilities, as far as they are compared.
Capabilities == [schemaRevision : Revisions,
                 nativeClientMinimumRevision : Revisions,
                 isExpectedApiBasePath : BOOLEAN,
                 isLegacyFallback : BOOLEAN]

LegacyFallback == [schemaRevision |-> 0, nativeClientMinimumRevision |-> 0,
                   isExpectedApiBasePath |-> TRUE, isLegacyFallback |-> TRUE]

\* evaluate(): the first rule that applies decides.
Evaluate(server) ==
  CASE server.isLegacyFallback -> "legacyFallback"
    [] ~server.isLegacyFallback
         /\ Pin.supportedSchemaRevision >= server.nativeClientMinimumRevision
         /\ server.schemaRevision >= Pin.minimumServerSchemaRevision
         /\ server.isExpectedApiBasePath -> "compatible"
    [] OTHER -> "incompatible"

\* handleReply(): a server without the endpoint answers 404; a body may be no
\* JSON, or lack a capability.
Classified(p) ==
  CASE p.status = "notFound"    -> {Evaluate(LegacyFallback)}
    [] p.status = "unavailable" ->
         {"failed"} \cup (IF p.arrived = p.length THEN {"maintenance"} ELSE {})
    [] p.status = "ok" /\ ~p.error ->
         {"failed"} \cup {Evaluate(s) : s \in {x \in Capabilities : ~x.isLegacyFallback}}
    [] OTHER -> {"failed"}

-----------------------------------------------------------------------------

\* The reply finishes, and finished() is emitted at once.
Finishes(o, r) ==
  /\ stage[o] = "pending"
  /\ r \in UNION {Classified(p) : p \in FinishedReplies}
  /\ stage' = [stage EXCEPT ![o] = "answered"]

\* The deadline: finished() is queued, with a NetworkError.
TimesOut(o) ==
  /\ stage[o] = "pending"
  /\ stage' = [stage EXCEPT ![o] = "posted"]

Delivers(o, r) ==
  /\ stage[o] = "posted"
  /\ r = "failed"
  /\ stage' = [stage EXCEPT ![o] = "answered"]

\* "Emits finished() exactly once per call while the probe is alive."
Once ==
  INSTANCE OneAnswer WITH
    Calls <- Probes, Outcomes <- {"given"}, NoOutcome <- "none", AtOnce <- FALSE,
    phase <- [o \in Probes |->
                CASE stage[o] = "unused"   -> "unused"
                  [] stage[o] = "answered" -> "answered"
                  [] stage[o] = "dropped"  -> "withdrawn"
                  [] OTHER                 -> "open"],
    outcome <- [o \in Probes |->
                  IF stage[o] = "answered" THEN "given" ELSE "none"]
=============================================================================
