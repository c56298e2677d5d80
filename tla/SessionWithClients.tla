------------------------- MODULE SessionWithClients -------------------------
(***************************************************************************)
(* SessionCoordinator together with the clients it calls.  Its own module  *)
(* takes a call as one step that answers; here the call is one of          *)
(* AuthenticationClient, CapabilityProbe or KeychainTokenStore, which goes *)
(* on after the session has moved on.  Each action is a slot of the        *)
(* session together with what it does to the clients: it cancels by        *)
(* handle, destroys the probe object, and refuses the callbacks of an      *)
(* earlier generation.  What the session believes outstanding (request,    *)
(* probe, fifo, vault) is compared with what is.                           *)
(***************************************************************************)
EXTENDS SessionCoordinator

CONSTANTS Calls, NoCall, Probes, NoProbe,
          MaxBody, Statuses     \* of HttpReply

\* Identities of calls and of probes are told apart.
ASSUME IdentitiesAssumption ==
  /\ Calls \cap Probes = {}
  /\ NoCall \notin Calls /\ NoProbe \notin Probes

VARIABLES
  callStage, callResult,    \* AuthenticationClient
  sent,                     \* what each of its open calls asked for
  handle,                   \* m_pendingAuthHandle
  probeStage,               \* CapabilityProbe
  probeObject,              \* m_probe, the object
  current,                  \* calls and probes of the present m_generation
  entries, job              \* KeychainTokenStore

clientVars == <<callStage, callResult, sent, handle, probeStage, probeObject,
                current, entries, job>>

Auth == INSTANCE AuthenticationClient
          WITH stage <- callStage, result <- callResult
Probing == INSTANCE CapabilityProbe
             WITH stage <- probeStage
Keychain == INSTANCE KeychainTokenStore

InitAll ==
  /\ Init
  /\ Auth!Init
  /\ sent = [c \in Calls |-> NoRequest]
  /\ handle = NoCall
  /\ Probing!Init
  /\ probeObject = NoProbe
  /\ current = {}
  /\ entries = vault
  /\ job = [p \in Profiles |-> Keychain!Idle]

-----------------------------------------------------------------------------
(* What a slot of the session does to the clients                          *)

Fresh == {c \in Calls : callStage[c] = "unused"}
FreshProbes == {o \in Probes : probeStage[o] = "unused"}

\* Bounds: a sign-in makes two calls and any other flow one, at most; those,
\* and a probe, are left when it begins.
CallsLeft(n) == Cardinality(Fresh) >= n
Left == CallsLeft(1) /\ FreshProbes # {}

KeepCalls == UNCHANGED <<callStage, callResult, sent, handle>>
KeepProbes == UNCHANGED <<probeStage, probeObject>>

\* cancelPendingAuthRequest().
CancelPending ==
  /\ Auth!Becomes(Auth!Cancelled(Auth!Calling, handle))
  /\ handle' = NoCall
  /\ UNCHANGED sent

\* A call is made in the slot that leaves the client as |calling|: an
\* outstanding one is cancelled first, and the client may refuse.
MakesCall(calling, pending, gone) ==
  LET c == CHOOSE x \in Fresh : TRUE
      left == Auth!Cancelled(calling, pending)
  IN  /\ \/ Auth!Becomes(Auth!Issued(left, c)) /\ handle' = c
         \/ Auth!Becomes(Auth!Rejected(left, c)) /\ handle' = NoCall
      /\ sent' = [x \in Calls |-> IF x = c THEN request'
                                   ELSE IF x \in gone THEN NoRequest ELSE sent[x]]
      /\ current' = (current \ gone) \cup {c}

\* m_probe.reset(), and in startProbe() a new object that probes.
ReplacesProbe ==
  LET left == Probing!Destroyed(probeStage, probeObject)
      o == CHOOSE x \in FreshProbes : TRUE
  IN  IF probe' = "running"
      THEN probeStage' = Probing!Probing(left, o) /\ probeObject' = o
      ELSE probeStage' = left /\ probeObject' = NoProbe

\* The probe object, if there is one, has the generation of its start.
Present == IF probeObject' = NoProbe THEN {} ELSE {probeObject'}

\* start(), switchProfile() and signOut() begin a generation.
Supersedes ==
  /\ CancelPending
  /\ ReplacesProbe
  /\ current' = Present

\* startFrontTokenOp() starts a job for each head that was dispatched.
StartsJobs(answered) ==
  /\ job' = [p \in Profiles |->
       IF fifo'[p].busy /\ (~fifo[p].busy \/ p \in answered)
       THEN Keychain!Started(Head(fifo'[p].ops))
       ELSE IF p \in answered THEN Keychain!Idle ELSE job[p]]
  /\ UNCHANGED entries

KeepStore == UNCHANGED <<entries, job>>

-----------------------------------------------------------------------------
(* Inputs                                                                  *)

Starting == Left /\ Start /\ Supersedes /\ StartsJobs({})

\* The client is told only of a switch that was saved.
SwitchEffects ==
  IF selected' # selected THEN Supersedes ELSE KeepCalls /\ KeepProbes /\ UNCHANGED current

Switching(p) == Left /\ SwitchProfile(p) /\ SwitchEffects /\ StartsJobs({})

SendingCredentials ==
  /\ CallsLeft(2)
  /\ handle = NoCall
  /\ SignIn \/ Register
  /\ MakesCall(Auth!Calling, NoCall, {})
  /\ KeepProbes /\ KeepStore

SigningOut == SignOut /\ Supersedes /\ StartsJobs({})

\* retry(): as the action it runs.
RetryEffects ==
  \/ retryAction.kind = "start" /\ Supersedes
  \/ retryAction.kind = "switch" /\ SwitchEffects
  \/ /\ retryAction.kind = "probe"
     /\ ReplacesProbe
     /\ current' = current \cup Present
     /\ KeepCalls
  \/ retryAction.kind \in {"restore", "save"} /\ KeepCalls /\ KeepProbes /\ UNCHANGED current
  \/ retryAction.kind = "whoami" /\ MakesCall(Auth!Calling, handle, {}) /\ KeepProbes

Retrying ==
  /\ \/ RetryDeletion /\ KeepCalls /\ KeepProbes /\ UNCHANGED current
     \/ Left /\ RetryAction /\ RetryEffects
  /\ StartsJobs({})

AskingForToken ==
  /\ RequestAccessToken
  /\ KeepCalls /\ KeepProbes /\ UNCHANGED current /\ StartsJobs({})

-----------------------------------------------------------------------------
(* The clients, by themselves                                              *)

Quiet == UNCHANGED <<vars, sent, handle, probeObject, current>>

CallFinishes(c) ==
  (Auth!Finishes(c) \/ Auth!TimesOut(c))
    /\ Quiet /\ KeepProbes /\ KeepStore
ProbeTimesOut(o) ==
  Probing!TimesOut(o) /\ Quiet /\ KeepCalls /\ KeepStore
JobAdvances(p) ==
  (Keychain!Performs(p) \/ Keychain!Finishes(p))
    /\ Quiet /\ KeepCalls /\ KeepProbes

-----------------------------------------------------------------------------
(* Answers                                                                 *)

AuthOutcome(r) == IF r \in AuthOutcomes THEN r ELSE "failed"
ProbeOutcome(r) ==
  CASE r \in {"compatible", "legacyFallback"} -> "usable" [] OTHER -> r

\* Mutant: the handle is cleared before the generations are compared.
ClearsFirst == handle' = NoCall

\* The callback of an earlier generation: the handle is not its own any more.
IgnoresStale == UNCHANGED handle

\* A queued callback: nothing for one of an earlier generation; otherwise the
\* handle is cleared before the result is handled, which may call again.
CallAnswered(c) ==
  /\ callStage[c] = "posted"
  /\ LET calling == Auth!Delivered(Auth!Calling, c)
         o == AuthOutcome(callResult[c])
     IN  IF c \notin current
         THEN /\ Auth!Becomes(calling)
              /\ IgnoresStale
              /\ sent' = [sent EXCEPT ![c] = NoRequest]
              /\ UNCHANGED <<vars, current, job>>
         ELSE /\ AuthAnsweredWith(o) \/ WhoAmIAnsweredWith(o)
              /\ IF request' # NoRequest THEN MakesCall(calling, NoCall, {c})
                 ELSE /\ Auth!Becomes(calling)
                      /\ handle' = NoCall
                      /\ current' = current \ {c}
                      /\ sent' = [sent EXCEPT ![c] = NoRequest]
              /\ StartsJobs({})
  /\ KeepProbes /\ UNCHANGED entries

\* finished() reaches onProbeFinished().
ProbeAnswered(o) ==
  /\ \E r \in Probing!Outcomes :
       /\ Probing!Finishes(o, r) \/ Probing!Delivers(o, r)
       /\ IF o \notin current THEN UNCHANGED <<vars, current, job>>
          ELSE /\ ProbeFinishedWith(ProbeOutcome(r))
               /\ current' = current \ {o}
               /\ StartsJobs({})
  /\ KeepCalls /\ UNCHANGED <<probeObject, entries>>

\* The store's answer to the head of p's queue.
StoreAnswered(p) ==
  LET j == job[p]
  IN  /\ j.stage = "posted"
      /\ \/ j.call.kind = "read" /\ ReadAnsweredWith(p, j.outcome)
         \/ j.call.kind = "save" /\ SaveAnsweredWith(p, j.outcome = "success")
         \/ j.call.kind = "delete" /\ j.outcome = "success" /\ DeleteSucceeds(p)
         \/ j.call.kind = "delete" /\ j.outcome = "failed" /\ DeleteFails(p)
      /\ vault'[p] = entries[p]
      /\ IF request' # request
         THEN MakesCall(Auth!Calling, handle, {})
         ELSE KeepCalls /\ UNCHANGED current
      /\ StartsJobs({p})
      /\ KeepProbes

\* The process ends: a job the daemon was asked for may still be performed.
Ending ==
  /\ Terminate
  /\ \A p \in Profiles : job[p].stage # "running" => vault'[p] = entries[p]
  /\ entries' = vault'
  /\ job' = [p \in Profiles |-> Keychain!Idle]
  /\ Auth!Becomes(Auth!Dropped(Auth!Calling))
  /\ handle' = NoCall
  /\ probeStage' = Probing!Destroyed(probeStage, probeObject)
  /\ probeObject' = NoProbe
  /\ current' = {}
  /\ sent' = [c \in Calls |-> NoRequest]

-----------------------------------------------------------------------------

NextAll ==
  \/ Starting \/ SendingCredentials \/ SigningOut \/ Retrying \/ AskingForToken
  \/ \E p \in Profiles : Switching(p) \/ JobAdvances(p) \/ StoreAnswered(p)
  \/ \E c \in Calls : CallFinishes(c) \/ CallAnswered(c)
  \/ \E o \in Probes : ProbeTimesOut(o) \/ ProbeAnswered(o)
  \/ Ending

allVars == <<vars, clientVars>>

SpecAll == InitAll /\ [][NextAll]_allVars

-----------------------------------------------------------------------------
(* Properties                                                              *)

Open(c) == callStage[c] \in {"pending", "posted"}
ProbeOpen(o) == probeStage[o] \in {"pending", "posted"}

\* Whatever is cancelled, restarted, timed out or refused meanwhile: a call
\* on the authentication client, and a probe, is answered once, and not after
\* its object is gone.
AnswersOnce == Auth!Once!Spec /\ Probing!Once!Spec

\* The session waits for a call exactly if it is still to be answered and
\* will then be taken: for no other, and not for one that never comes.  The
\* handle it could cancel, which also locks out a sign-in, is that call's
\* until its callback runs, and nobody's otherwise.
WaitsForWhatIsOutstanding ==
  /\ {sent[c] : c \in {x \in current \cap Calls : Open(x)}}
       = IF request = NoRequest THEN {} ELSE {request}
  /\ handle # NoCall => Open(handle) /\ handle \in current
  /\ \A c \in Calls : callStage[c] = "pending" => c = handle
  /\ (probe = "running") <=> (\E o \in Probes : ProbeOpen(o))
  /\ \A o \in Probes : ProbeOpen(o) => o = probeObject /\ o \in current

\* The daemon's steps are one step to the session: while no call is
\* outstanding the entry is what the session last learnt, and an answer that
\* is on its way is one that the call may give of the entry as it is now.
StoreCallsAreAtomic ==
  \A p \in Profiles :
    LET j == job[p]  op == Head(fifo[p].ops)
    IN  /\ (j.stage = "idle") <=> ~fifo[p].busy
        /\ j.stage \in {"idle", "running"} => entries[p] = vault[p]
        /\ j.stage # "idle" =>
             /\ j.call.kind = op.kind /\ j.call.token = op.token
             /\ j.call.endpoint = op.endpoint
        /\ j.stage = "posted" =>
             CASE op.kind = "read"   -> j.outcome \in ReadOutcomes(p)
                                          /\ entries[p] = vault[p]
               [] op.kind = "save"   ->
                    entries[p] \in AfterSave(vault[p], op, j.outcome = "success")
               [] op.kind = "delete" ->
                    entries[p] \in AfterDelete(vault[p], j.outcome = "success")

-----------------------------------------------------------------------------
(* The inductive invariants behind them, beside IInv and Course            *)

\* A job that was performed did to the entry what its call may do, and has
\* read what the session believes to be there.
Jobs == [stage : Keychain!Stages,
         call : [kind : Kinds \cup {"none"}, endpoint : MaybeEndpoint,
                 token : MaybeToken],
         error : Keychain!Errors, raw : Entries,
         outcome : {"none", "success", "notFound", "untrusted", "failed"}]
JobsOK ==
  /\ entries \in [Profiles -> Entries]
  /\ job \in [Profiles -> Jobs]
  /\ \A p \in Profiles : job[p].stage = "performed" =>
       /\ <<entries[p], job[p].error>> \in Keychain!Performance(vault[p], job[p].call)
       /\ job[p].raw = vault[p]

\* The one call of the present generation is what the session waits for; the
\* handle is its, or nobody's.
CallsOK ==
  /\ callStage \in [Calls -> Auth!Stages]
  /\ callResult \in [Calls -> Auth!Outcomes \cup {Auth!NoResult}]
  /\ sent \in [Calls -> Requests]
  /\ current \subseteq Calls \cup Probes
  /\ \A c \in current \cap Calls :
       /\ Open(c) /\ sent[c] = request /\ request # NoRequest
       /\ \A d \in current \cap Calls : c = d
  /\ request # NoRequest => current \cap Calls # {}
  /\ handle # NoCall => handle \in current \cap Calls
  /\ \A c \in Calls : callStage[c] = "pending" => c = handle

\* The one probe that is open is the object that the session keeps.
ProbesOK ==
  /\ probeStage \in [Probes -> Probing!Stages]
  /\ probeObject \in Probes \cup {NoProbe}
  /\ \A o \in Probes :
       ProbeOpen(o) => o = probeObject /\ o \in current /\ probe = "running"
  /\ probe = "running" => probeObject # NoProbe /\ ProbeOpen(probeObject)

\* A flow that may still have to make a call finds one unused.
ReadsCredential == \E op \in SelectedOps : IsRestoreRead(op) /\ op.live
MayCall ==
  probe = "running" \/ request.kind \in {"authenticate", "register"} \/ ReadsCredential
CallsLast == MayCall => Fresh # {}

Outstanding == JobsOK /\ StoreCallsAreAtomic /\ CallsOK /\ ProbesOK /\ CallsLast
=============================================================================
