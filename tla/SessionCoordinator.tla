------------------------- MODULE SessionCoordinator -------------------------
(***************************************************************************)
(* SessionCoordinator: the state machine that loads the server profiles,   *)
(* probes the selected server, restores a stored credential, signs in,     *)
(* registers, signs out and switches profiles, with every secure-store     *)
(* call serialised per profile (TokenFifo).                                *)
(*                                                                         *)
(* One action is one slot or one asynchronous completion of the class, run *)
(* to its end.  Completions of an earlier generation return at once in the *)
(* code, so only those of the present one are kept pending here.           *)
(***************************************************************************)
EXTENDS TokenStore, FiniteSets

CONSTANTS Origin,          \* the endpoint whose server issues a token
          Hosted,          \* the profile seeded on first run ...
          HostedEndpoint,  \* ... and its endpoint
          MaxQueue         \* bound: no input while more operations are queued

ASSUME OriginAssumption == Origin \in [Tokens -> Endpoints]
ASSUME HostedAssumption == Hosted \in Profiles /\ HostedEndpoint \in Endpoints

VARIABLES
  state,        \* m_state, the raw one (see Exposed)
  user,         \* m_currentUser: the token whose /whoami it came from
  profiles,     \* m_profiles: each loaded profile's endpoint
  selected,     \* m_selectedProfileId and m_currentProfile
  probe,        \* m_probe: running or not
  request,      \* the outstanding call on IAuthenticationClient
  retryAction,  \* m_retryAction
  fifo,         \* m_tokenQueues, m_tokenDispatch and the two epochs
  stalled,      \* m_stalledProfileOrder and m_profileFifoStalled
  vault,        \* the secure store, which outlives the process
  grant         \* the last access token handed to a caller

vars == <<state, user, profiles, selected, probe, request, retryAction,
          fifo, stalled, vault, grant>>

States == {"Loading", "ProbingCapabilities", "RestoringCredential",
           "SignedOut", "Authenticating", "Registering", "SignedIn",
           "SigningOut", "Incompatible", "SecureStorageUnavailable",
           "ProfileStorageFailure", "RecoverableFailure", "ServerMaintenance"}

MaybeToken == Tokens \cup {NoToken}
MaybeEndpoint == Endpoints \cup {NoEndpoint}

Request(kind, token) ==
  [kind |-> kind, token |-> token, endpoint |-> profiles[selected]]
NoRequest == [kind |-> "none", token |-> NoToken, endpoint |-> NoEndpoint]

RetryWith(kind) == [kind |-> kind, profile |-> NoProfile, token |-> NoToken]
RetrySwitchTo(p) == [kind |-> "switch", profile |-> p, token |-> NoToken]
RetryWithToken(kind, t) == [kind |-> kind, profile |-> NoProfile, token |-> t]
NoRetry == RetryWith("none")

NoGrant == [endpoint |-> NoEndpoint, token |-> NoToken]

IsStalled(p) == \E i \in DOMAIN stalled : stalled[i] = p

\* state(): a failed required deletion of any profile masks the rest.
Exposed == IF stalled # << >> THEN "SecureStorageUnavailable" ELSE state

\* The settings file as a load may find it: each profile's endpoint and the
\* selection.  It is edited by hand and by other processes, so what one run
\* saved says nothing about what the next load returns.
SettingsImages ==
  [profiles : [Profiles -> MaybeEndpoint], selected : Profiles \cup {NoProfile}]

Loaded(image) == {p \in Profiles : image[p] # NoEndpoint}

Init ==
  /\ state = "Loading"
  /\ user = NoToken
  /\ profiles = [p \in Profiles |-> NoEndpoint]
  /\ selected = NoProfile
  /\ probe = "none"
  /\ request = NoRequest
  /\ retryAction = NoRetry
  /\ fifo = [p \in Profiles |-> EmptyFifo]
  /\ stalled = << >>
  /\ vault \in [Profiles -> {NoEntry, UnboundEntry}
                              \cup {BoundEntry(Origin[t], t) : t \in Tokens}]
  /\ grant = NoGrant

QueuedOps == UNION {{p} \X DOMAIN fifo[p].ops : p \in Profiles}
Room == Cardinality(QueuedOps) <= MaxQueue

-----------------------------------------------------------------------------
(* Steps that the handlers share                                           *)

\* The queues after invalidateProfileCredential(selected) and ++m_generation.
Abandoned ==
  [p \in Profiles |->
     DropLive(IF p = selected THEN Invalidate(fifo[p]) ELSE fifo[p])]

\* reconcileAllProfileCredentialsOnReload(): a loaded profile that the new
\* list drops or gives another endpoint loses its stored credential.
Reconciled(queues, new) ==
  [p \in Profiles |->
     IF profiles[p] # NoEndpoint /\ new[p] # profiles[p]
     THEN InvalidateForEndpointChange(queues[p])
     ELSE queues[p]]

\* startProbe(); the factory may fail to make a probe.
StartProbe ==
  \/ /\ probe' = "running"
     /\ state' = "ProbingCapabilities"
     /\ retryAction' = NoRetry
  \/ /\ probe' = "none"
     /\ state' = "RecoverableFailure"
     /\ retryAction' = RetryWith("probe")

\* startCredentialRestore().
StartRestore ==
  /\ state' = IF IsStalled(selected) THEN "SecureStorageUnavailable"
              ELSE "RestoringCredential"
  /\ fifo' = [fifo EXCEPT ![selected] =
                RequestRestoreRead(@, profiles[selected])]

\* issueWhoAmI(), which would cancel a request still outstanding.
SendWhoAmI(kind, token) == request' = Request(kind, token)

\* saveFreshlyObtainedToken().
SaveFreshToken(token) ==
  fifo' = [fifo EXCEPT ![selected] =
             Enqueue(@, SaveOp(token, profiles[selected]))]

\* clearCurrentUserAndSetStateIfCurrent().
Settle(target) == state' = target /\ user' = NoToken

-----------------------------------------------------------------------------
(* start()                                                                 *)

\* A load or a save failed, or the selection names no loaded profile.
StartFails ==
  /\ state' = "ProfileStorageFailure"
  /\ retryAction' = RetryWith("start")
  /\ probe' = "none"
  /\ fifo' = Abandoned
  /\ UNCHANGED <<profiles, selected>>

\* Empty settings are seeded with the hosted profile, and a missing selection
\* falls on the first profile of the list.
StartLoads(image) ==
  LET seeded == IF Loaded(image.profiles) = {}
                THEN [image.profiles EXCEPT ![Hosted] = HostedEndpoint]
                ELSE image.profiles
      choice == IF Loaded(image.profiles) = {} \/ image.selected = NoProfile
                THEN Loaded(seeded)
                ELSE {image.selected} \cap Loaded(seeded)
  IN  /\ selected' \in choice
      /\ profiles' = seeded
      /\ fifo' = Reconciled(Abandoned, seeded)
      /\ StartProbe

DoStart ==
  /\ Room
  /\ request' = NoRequest
  /\ user' = NoToken
  /\ StartFails \/ \E image \in SettingsImages : StartLoads(image)
  /\ UNCHANGED <<stalled, vault>>

Start == DoStart /\ grant' = NoGrant

-----------------------------------------------------------------------------
(* switchProfile()                                                         *)

SwitchUnknown(p) ==
  /\ profiles[p] = NoEndpoint
  /\ state' = "ProfileStorageFailure"
  /\ retryAction' = NoRetry
  /\ UNCHANGED <<user, selected, probe, request, fifo>>

\* saveSelectedProfileId() failed: nothing of the session is touched.
SwitchNotSaved(p) ==
  /\ profiles[p] # NoEndpoint
  /\ state' = "ProfileStorageFailure"
  /\ retryAction' = RetrySwitchTo(p)
  /\ UNCHANGED <<user, selected, probe, request, fifo>>

SwitchSaved(p) ==
  /\ profiles[p] # NoEndpoint
  /\ selected' = p
  /\ user' = NoToken
  /\ request' = NoRequest
  /\ fifo' = Abandoned
  /\ StartProbe

DoSwitch(p) ==
  /\ Room
  /\ p # selected
  /\ SwitchUnknown(p) \/ SwitchNotSaved(p) \/ SwitchSaved(p)
  /\ UNCHANGED <<profiles, stalled, vault>>

SwitchProfile(p) == DoSwitch(p) /\ grant' = NoGrant

-----------------------------------------------------------------------------
(* The capability probe answers: onProbeFinished()                         *)

\* usable: Compatible and LegacyFallback; failed: every outcome without a
\* state of its own.
ProbeOutcomes == {"usable", "incompatible", "maintenance", "failed"}

AfterProbe(o) ==
  CASE o = "incompatible" -> "Incompatible"
    [] o = "maintenance"  -> "ServerMaintenance"
    [] OTHER              -> "RecoverableFailure"

ProbeFinishedWith(o) ==
  /\ probe = "running"
  /\ probe' = "none"
  /\ \/ o = "usable" /\ StartRestore /\ UNCHANGED retryAction
     \/ /\ o # "usable"
        /\ state' = AfterProbe(o)
        /\ retryAction' = RetryWith("probe")
        /\ UNCHANGED fifo
  /\ grant' = NoGrant
  /\ UNCHANGED <<user, profiles, selected, request, stalled, vault>>

ProbeFinished == \E o \in ProbeOutcomes : ProbeFinishedWith(o)

-----------------------------------------------------------------------------
(* The authentication client                                               *)

\* Mutant: usable while a credential is being restored.
SendCredentialsEarly(kind, busyState) ==
  /\ state \in {"SignedOut", "RestoringCredential"}
  /\ state' = busyState
  /\ request' = Request(kind, NoToken)
  /\ grant' = NoGrant
  /\ UNCHANGED <<user, profiles, selected, probe, retryAction, fifo, stalled,
                 vault>>

\* signIn() and registerAccount() test the raw state.
SendCredentials(kind, busyState) ==
  /\ state = "SignedOut"
  /\ request = NoRequest
  /\ state' = busyState
  /\ request' = Request(kind, NoToken)
  /\ grant' = NoGrant
  /\ UNCHANGED <<user, profiles, selected, probe, retryAction, fifo, stalled,
                 vault>>

SignIn == SendCredentials("authenticate", "Authenticating")
Register == SendCredentials("register", "Registering")

\* enterServerMaintenance().
EnterMaintenance ==
  /\ Settle("ServerMaintenance")
  /\ retryAction' = RetryWith("probe")
  /\ request' = NoRequest

\* What the coordinator tells apart; failed: every other outcome.
AuthOutcomes == {"success", "unauthorized", "maintenance", "failed"}

\* handleFreshTokenResult(): a server issues only tokens of its own.
AuthAnsweredWith(o) ==
  /\ request.kind \in {"authenticate", "register"}
  /\ \/ o = "maintenance" /\ EnterMaintenance
     \/ /\ o \in {"unauthorized", "failed"}
        /\ Settle("SignedOut")
        /\ request' = NoRequest
        /\ UNCHANGED retryAction
     \/ /\ o = "success"
        /\ \E t \in Tokens : /\ Origin[t] = request.endpoint
                             /\ SendWhoAmI("freshWhoAmI", t)
        /\ UNCHANGED <<state, user, retryAction>>
  /\ grant' = NoGrant
  /\ UNCHANGED <<profiles, selected, probe, fifo, stalled, vault>>

AuthAnswered == \E o \in AuthOutcomes : AuthAnsweredWith(o)

\* handleWhoAmIResult() for a restored token.
RestoredWhoAmIAnswered(o) ==
  /\ request.kind = "restoredWhoAmI"
  /\ \/ /\ o = "success"
        /\ state' = "SignedIn"
        /\ user' = request.token
        /\ request' = NoRequest
        /\ UNCHANGED <<retryAction, fifo>>
     \/ /\ o = "unauthorized"
        /\ fifo' = [fifo EXCEPT ![selected] = Enqueue(@, DeleteOp("untrusted"))]
        /\ request' = NoRequest
        /\ UNCHANGED <<state, user, retryAction>>
     \/ o = "maintenance" /\ EnterMaintenance /\ UNCHANGED fifo
     \/ /\ o = "failed"
        /\ state' = "RecoverableFailure"
        /\ retryAction' = RetryWithToken("whoami", request.token)
        /\ request' = NoRequest
        /\ UNCHANGED <<user, fifo>>
  /\ grant' = NoGrant
  /\ UNCHANGED <<profiles, selected, probe, stalled, vault>>

\* handleWhoAmIResult() for a token just issued.
FreshWhoAmIAnswered(o) ==
  /\ request.kind = "freshWhoAmI"
  /\ \/ /\ o = "success"
        /\ user' = request.token
        /\ SaveFreshToken(request.token)
        /\ request' = NoRequest
        /\ UNCHANGED <<state, retryAction>>
     \/ /\ o \in {"unauthorized", "failed"}
        /\ Settle("SignedOut")
        /\ request' = NoRequest
        /\ UNCHANGED <<retryAction, fifo>>
     \/ o = "maintenance" /\ EnterMaintenance /\ UNCHANGED fifo
  /\ grant' = NoGrant
  /\ UNCHANGED <<profiles, selected, probe, stalled, vault>>

WhoAmIAnsweredWith(o) == RestoredWhoAmIAnswered(o) \/ FreshWhoAmIAnswered(o)
WhoAmIAnswered == \E o \in AuthOutcomes : WhoAmIAnsweredWith(o)

-----------------------------------------------------------------------------
(* signOut(), retry() and requestAccessToken()                             *)

\* Mutant: signed out already while the deletion is still to be carried out.
SignOutAtOnce ==
  /\ state = "SignedIn"
  /\ Settle("SignedOut")
  /\ request' = NoRequest
  /\ probe' = "none"
  /\ retryAction' = IF retryAction.kind \in {"whoami", "save"} THEN NoRetry
                    ELSE retryAction
  /\ fifo' = [Abandoned EXCEPT ![selected] = Enqueue(@, DeleteOp("signOut"))]
  /\ grant' = NoGrant
  /\ UNCHANGED <<profiles, selected, stalled, vault>>

\* The retry actions that captured the generation do nothing from now on.
SignOut ==
  /\ state = "SignedIn"
  /\ state' = "SigningOut"
  /\ request' = NoRequest
  /\ probe' = "none"
  /\ retryAction' = IF retryAction.kind \in {"whoami", "save"} THEN NoRetry
                    ELSE retryAction
  /\ fifo' = [Abandoned EXCEPT ![selected] = Enqueue(@, DeleteOp("signOut"))]
  /\ grant' = NoGrant
  /\ UNCHANGED <<user, profiles, selected, stalled, vault>>

\* Mutant: the newest stalled deletion first.
RetryNewest ==
  /\ stalled # << >>
  /\ fifo' = [fifo EXCEPT ![stalled[Len(stalled)]] = StartFront(@)]
  /\ grant' = NoGrant
  /\ UNCHANGED <<state, user, profiles, selected, probe, request, retryAction,
                 stalled, vault>>

\* retry() on the oldest stalled deletion: startFrontTokenOp().
RetryDeletion ==
  /\ stalled # << >>
  /\ fifo' = [fifo EXCEPT ![Head(stalled)] = StartFront(@)]
  /\ grant' = NoGrant
  /\ UNCHANGED <<state, user, profiles, selected, probe, request, retryAction,
                 stalled, vault>>

\* retry() with nothing stalled: m_retryAction is taken and run.
RetryAction ==
  /\ stalled = << >>
  /\ \/ retryAction.kind = "start" /\ DoStart
     \/ retryAction.kind = "switch" /\ DoSwitch(retryAction.profile)
     \/ /\ retryAction.kind = "probe"
        /\ StartProbe
        /\ UNCHANGED <<user, profiles, selected, request, fifo, stalled, vault>>
     \/ /\ retryAction.kind = "restore"
        /\ StartRestore
        /\ retryAction' = NoRetry
        /\ UNCHANGED <<user, profiles, selected, probe, request, stalled, vault>>
     \/ /\ retryAction.kind = "whoami"
        /\ SendWhoAmI("restoredWhoAmI", retryAction.token)
        /\ retryAction' = NoRetry
        /\ UNCHANGED <<state, user, profiles, selected, probe, fifo, stalled,
                       vault>>
     \/ /\ retryAction.kind = "save"
        /\ SaveFreshToken(retryAction.token)
        /\ retryAction' = NoRetry
        /\ UNCHANGED <<state, user, profiles, selected, probe, request, stalled,
                       vault>>
  /\ grant' = NoGrant

Retry == RetryDeletion \/ RetryAction

\* requestAccessToken() tests the exposed state.
RequestAccessToken ==
  /\ Room
  /\ Exposed = "SignedIn"
  /\ fifo' = [fifo EXCEPT ![selected] =
                Enqueue(@, ReadOp("access", profiles[selected]))]
  /\ grant' = NoGrant
  /\ UNCHANGED <<state, user, profiles, selected, probe, request, retryAction,
                 stalled, vault>>

-----------------------------------------------------------------------------
(* The secure store answers the head of p's queue                          *)

Answering(p, kind) == fifo[p].busy /\ Head(fifo[p].ops).kind = kind

\* The head leaves the queue, and the next operation starts.
Advance(p) == fifo' = [fifo EXCEPT ![p] = StartFront(Dequeue(@))]

\* The same when the continuation of the head enqueues |op| first.
AdvanceWith(p, op) ==
  fifo' = [fifo EXCEPT ![p] = StartFront(Enqueue(Dequeue(@), op))]

\* clearProfileCleanupStalled().
Unstall(p) ==
  stalled' = IF ~IsStalled(p) THEN stalled
             ELSE LET i == CHOOSE j \in DOMAIN stalled : stalled[j] = p
                  IN  SubSeq(stalled, 1, i - 1)
                        \o SubSeq(stalled, i + 1, Len(stalled))

\* A continuation of an older generation is not run.
DeadAnswered(p) ==
  /\ ~Head(fifo[p].ops).live
  /\ Advance(p)
  /\ grant' = NoGrant
  /\ UNCHANGED <<state, user, request, retryAction>>

\* handleRestoreReadResult().
RestoreReadAnswered(p, outcome) ==
  /\ IsRestoreRead(Head(fifo[p].ops)) /\ Head(fifo[p].ops).live
  /\ \/ /\ outcome = "notFound"
        /\ Settle("SignedOut")
        /\ Advance(p)
        /\ UNCHANGED <<request, retryAction>>
     \/ /\ outcome = "success"
        /\ SendWhoAmI("restoredWhoAmI", vault[p].token)
        /\ Advance(p)
        /\ UNCHANGED <<state, user, retryAction>>
     \/ /\ outcome = "untrusted"
        /\ AdvanceWith(p, DeleteOp("untrusted"))
        /\ UNCHANGED <<state, user, request, retryAction>>
     \/ /\ outcome = "failed"
        /\ state' = "SecureStorageUnavailable"
        /\ retryAction' = RetryWith("restore")
        /\ Advance(p)
        /\ UNCHANGED <<user, request>>
  /\ grant' = NoGrant

\* The continuation of requestAccessToken(): a token or a refusal.  No
\* profile is stalled while a read of its own is answered.
AccessReadAnswered(p, outcome) ==
  /\ Head(fifo[p].ops).purpose = "access" /\ Head(fifo[p].ops).live
  /\ grant' = IF Exposed = "SignedIn" /\ outcome = "success"
              THEN [endpoint |-> profiles[selected], token |-> vault[p].token]
              ELSE NoGrant
  /\ Advance(p)
  /\ UNCHANGED <<state, user, request, retryAction>>

\* The read itself may fail.
ReadOutcomes(p) == {ReadOutcome(vault[p], Head(fifo[p].ops).endpoint), "failed"}

ReadAnsweredWith(p, outcome) ==
  /\ Answering(p, "read")
  /\ \/ DeadAnswered(p)
     \/ RestoreReadAnswered(p, outcome)
     \/ AccessReadAnswered(p, outcome)
  /\ Unstall(p)
  /\ UNCHANGED <<profiles, selected, probe, vault>>

ReadAnswered(p) ==
  Answering(p, "read") /\ \E o \in ReadOutcomes(p) : ReadAnsweredWith(p, o)

\* Mutant: the outcome of the save is not looked at.
SaveContinuesRegardless(p, ok) ==
  /\ Head(fifo[p].ops).live
  /\ state' = "SignedIn"
  /\ Advance(p)
  /\ grant' = NoGrant
  /\ UNCHANGED <<user, request, retryAction>>

\* The continuation of saveFreshlyObtainedToken().
SaveContinues(p, ok) ==
  LET op == Head(fifo[p].ops)
  IN  /\ op.live
      /\ IF ok THEN state' = "SignedIn" /\ UNCHANGED retryAction
         ELSE /\ state' = "SecureStorageUnavailable"
              /\ retryAction' = RetryWithToken("save", op.token)
      /\ Advance(p)
      /\ grant' = NoGrant
      /\ UNCHANGED <<user, request>>

SaveAnsweredWith(p, ok) ==
  /\ Answering(p, "save")
  /\ \E entry \in AfterSave(vault[p], Head(fifo[p].ops), ok) :
       vault' = [vault EXCEPT ![p] = entry]
  /\ DeadAnswered(p) \/ SaveContinues(p, ok)
  /\ Unstall(p)
  /\ UNCHANGED <<profiles, selected, probe>>

SaveAnswered(p) == \E ok \in BOOLEAN : SaveAnsweredWith(p, ok)

\* The continuations of signOut() and deleteUntrustedRestoredToken().
DeleteContinues(p) ==
  /\ Head(fifo[p].ops).live
  /\ Settle("SignedOut")
  /\ Advance(p)
  /\ grant' = NoGrant
  /\ UNCHANGED <<request, retryAction>>

DeleteSucceeds(p) ==
  /\ Answering(p, "delete")
  /\ \E entry \in AfterDelete(vault[p], TRUE) :
       vault' = [vault EXCEPT ![p] = entry]
  /\ DeadAnswered(p) \/ DeleteContinues(p)
  /\ Unstall(p)
  /\ UNCHANGED <<profiles, selected, probe>>

\* A failed deletion stays at the head and blocks the profile until retried.
DeleteFails(p) ==
  /\ Answering(p, "delete")
  /\ \E entry \in AfterDelete(vault[p], FALSE) :
       vault' = [vault EXCEPT ![p] = entry]
  /\ fifo' = [fifo EXCEPT ![p].busy = FALSE]
  /\ stalled' = IF IsStalled(p) THEN stalled ELSE Append(stalled, p)
  /\ state' = IF p = selected THEN "SecureStorageUnavailable" ELSE state
  /\ grant' = NoGrant
  /\ UNCHANGED <<user, profiles, selected, probe, request, retryAction>>

-----------------------------------------------------------------------------
(* The process ends                                                        *)

\* Nothing but the secure store survives, and a call outstanding at that
\* moment may or may not have taken effect.
CrashedEntries(p) ==
  LET op == Head(fifo[p].ops)
  IN  IF ~fifo[p].busy THEN {vault[p]}
      ELSE CASE op.kind = "read"   -> {vault[p]}
             [] op.kind = "save"   -> AfterSave(vault[p], op, FALSE)
             [] op.kind = "delete" -> AfterDelete(vault[p], FALSE)

Terminate ==
  /\ state # "Loading"
  /\ vault' \in {v \in [Profiles -> Entries] :
                   \A p \in Profiles : v[p] \in CrashedEntries(p)}
  /\ state' = "Loading"
  /\ user' = NoToken
  /\ profiles' = [p \in Profiles |-> NoEndpoint]
  /\ selected' = NoProfile
  /\ probe' = "none"
  /\ request' = NoRequest
  /\ retryAction' = NoRetry
  /\ fifo' = [p \in Profiles |-> EmptyFifo]
  /\ stalled' = << >>
  /\ grant' = NoGrant

-----------------------------------------------------------------------------

\* What the user, or the process's environment, asks for.
Input ==
  \/ Start
  \/ \E p \in Profiles : SwitchProfile(p)
  \/ SignIn \/ Register \/ SignOut \/ Retry \/ RequestAccessToken

\* What answers an outstanding call.
StoreAnswers(p) ==
  ReadAnswered(p) \/ SaveAnswered(p) \/ DeleteSucceeds(p) \/ DeleteFails(p)

Answer ==
  \/ ProbeFinished \/ AuthAnswered \/ WhoAmIAnswered
  \/ \E p \in Profiles : StoreAnswers(p)

Next == Input \/ Answer \/ Terminate

Spec == Init /\ [][Next]_vars

-----------------------------------------------------------------------------
(* Properties                                                              *)

Requests == [kind : {"none", "authenticate", "register", "restoredWhoAmI",
                     "freshWhoAmI"},
             token : MaybeToken, endpoint : MaybeEndpoint]

RetryActions == [kind : {"none", "start", "switch", "probe", "restore",
                         "whoami", "save"},
                 profile : Profiles \cup {NoProfile}, token : MaybeToken]

\* Every variable has its type.
TypeOK ==
  /\ state \in States
  /\ user \in MaybeToken
  /\ profiles \in [Profiles -> MaybeEndpoint]
  /\ selected \in Profiles \cup {NoProfile}
  /\ probe \in {"none", "running"}
  /\ request \in Requests
  /\ retryAction \in RetryActions
  /\ fifo \in [Profiles -> Fifos]
  /\ stalled \in Seq(Profiles)
  /\ vault \in [Profiles -> Entries]
  /\ grant \in [endpoint : MaybeEndpoint, token : MaybeToken]

\* A bearer token leaves the process only for the endpoint that issued it,
\* whatever profiles are edited, switched or restarted meanwhile.
NoTokenToForeignEndpoint ==
  /\ request.token # NoToken => Origin[request.token] = request.endpoint
  /\ grant.token # NoToken => Origin[grant.token] = grant.endpoint

\* SignedIn means that the token of the shown account is durably stored for
\* the selected profile: "the coordinator becomes SignedIn only after both
\* the whoami validation and the secure save succeed".
SignedInIsDurable ==
  state = "SignedIn" =>
    user # NoToken /\ vault[selected] = BoundEntry(profiles[selected], user)

\* And SignedOut is never claimed "while a token might still remain in the
\* secure store", and the interactive flows start from there.
SignedOutIsClean ==
  state \in {"SignedOut", "Authenticating", "Registering"} =>
    vault[selected] = NoEntry
StateTellsTheStore == SignedInIsDurable /\ SignedOutIsClean

\* An access token is handed out only to the session that asked for it, and
\* it is the token of the account shown.
AccessTokenIsCurrentSession ==
  grant.token # NoToken =>
    /\ state = "SignedIn" /\ grant.token = user
    /\ grant.endpoint = profiles[selected]

\* A Save that was overtaken by a restart or a switch is compensated by the
\* very next operation, before anything else is read or saved.
AbandonedSaveIsCompensated ==
  \A p \in Profiles : \A i \in DOMAIN fifo[p].ops :
    IsStaleSave(fifo[p].ops[i]) =>
      i < Len(fifo[p].ops) /\ fifo[p].ops[i + 1].kind = "delete"

\* "old-Read -> required-Delete -> fresh-Read": a Read queued before the
\* endpoint changed is followed by a Delete before any newer Read.
EndpointChangeSeparatesReads ==
  \A p \in Profiles : \A i, j \in DOMAIN fifo[p].ops :
    LET ops == fifo[p].ops
    IN  /\ i < j /\ IsRestoreRead(ops[i]) /\ IsRestoreRead(ops[j])
        /\ ~ops[i].sameEndpoint /\ ops[j].sameEndpoint
        => \E k \in i..j : ops[k].kind = "delete"

\* The continuations of the present generation that are still to come.
Flows ==
  (IF probe = "running" THEN {<<"probe">>} ELSE {})
    \cup (IF request # NoRequest THEN {<<"request">>} ELSE {})
    \cup {q \in QueuedOps :
            LET op == fifo[q[1]].ops[q[2]] IN op.live /\ op.purpose # "access"}

\* States that promise progress.
Transitional == {"ProbingCapabilities", "RestoringCredential",
                 "Authenticating", "Registering", "SigningOut"}

\* One flow at a time drives the state machine, and none does in a settled
\* state: no restore ever races a sign-in ("the two flows would race to set
\* the final state"), and no credential is read while a probe runs.  Nor is a
\* continuation ever lost: a transitional state has the flow that will leave it.
SingleFlow ==
  /\ \A f, g \in Flows : f = g
  /\ state \in {"SignedIn", "SignedOut"} => Flows = {}
  /\ state \in Transitional => Flows # {}

\* A required deletion leaves its queue only by succeeding, or with the
\* process.
Deletions(f) == Cardinality({i \in DOMAIN f.ops : f.ops[i].kind = "delete"})
DeletionIsNeverDropped ==
  [][\A p \in Profiles :
       Deletions(fifo'[p]) < Deletions(fifo[p]) =>
         vault'[p] = NoEntry \/ state' = "Loading"]_vars

-----------------------------------------------------------------------------
(* The inductive invariant behind TypeOK and NoTokenToForeignEndpoint      *)

\* The operations that may be queued for a profile whose endpoint is e: a
\* Save carries a token for its own issuer; what can still be continued or
\* rebound is for e; and only the selected profile's are continued.
GoodOps(e, isSelected) ==
  {op \in Ops :
     /\ op.kind = "save" => op.token \in Tokens /\ Origin[op.token] = op.endpoint
     /\ op.kind = "read" => op.endpoint \in Endpoints
     /\ op.kind \in {"read", "save"} /\ op.live => op.endpoint = e
     /\ IsRestoreRead(op) /\ op.sameEndpoint => op.endpoint = e
     /\ op.live => isSelected}

QueuesOK ==
  \A p \in Profiles : fifo[p] \in FifosOf(GoodOps(profiles[p], p = selected))

\* Nothing happens before a profile is selected, and it has an endpoint.
SelectionOK ==
  /\ selected = NoProfile =>
       /\ probe = "none" /\ request = NoRequest
       /\ state \in {"Loading", "ProfileStorageFailure"}
       /\ retryAction.kind \in {"none", "start"}
       /\ profiles = [p \in Profiles |-> NoEndpoint]
  /\ selected # NoProfile => profiles[selected] \in Endpoints

\* An outstanding request went to the selected profile, and a retained token
\* is one of its server.
RequestOK ==
  /\ request # NoRequest => request.endpoint = profiles[selected]
  /\ request.kind \in {"restoredWhoAmI", "freshWhoAmI"} => request.token \in Tokens
  /\ request.token \in Tokens => Origin[request.token] = request.endpoint

RetryOK ==
  /\ retryAction.kind = "switch" => retryAction.profile \in Profiles
  /\ retryAction.kind \in {"whoami", "save"} =>
       /\ retryAction.token \in Tokens
       /\ Origin[retryAction.token] = profiles[selected]

\* Envelopes are written only with the endpoint that issued their token.
VaultOK ==
  \A p \in Profiles : vault[p].form = "bound" =>
    vault[p].token \in Tokens /\ Origin[vault[p].token] = vault[p].endpoint

GrantOK == grant.token \in Tokens => Origin[grant.token] = grant.endpoint

\* All of it is inductive.
IInv == /\ TypeOK /\ QueuesOK /\ SelectionOK
        /\ RequestOK /\ RetryOK /\ VaultOK /\ GrantOK

-----------------------------------------------------------------------------
(* The inductive invariant behind SingleFlow, StateTellsTheStore,          *)
(* AccessTokenIsCurrentSession, AbandonedSaveIsCompensated and             *)
(* EndpointChangeSeparatesReads                                            *)

\* An operation whose answer a flow of the session waits for, and one that a
\* flow waits for or may be rebound to.
Drives(op) == op.live /\ op.purpose # "access"
Awaited(op) == Drives(op) \/ (IsRestoreRead(op) /\ op.sameEndpoint)
\* What each operation is for.  No Save is dispatched after its session.
Shaped(op) ==
  /\ op.kind = "save" => op.purpose = "save" /\ (op.fresh <=> op.live)
  /\ op.kind = "read" => op.purpose \in {"restore", "access"}
  /\ op.purpose = "access" => op.kind = "read"

\* A Save of the present credential epoch is the head of its queue, a Save of
\* an earlier one has its compensation right behind it, and a Read of an
\* earlier endpoint has a Delete somewhere behind it.
SavesFirst(f) ==
  \A i \in DOMAIN f.ops : f.ops[i].kind = "save" /\ f.ops[i].fresh => i = 1
Compensated(f) ==
  \A i \in DOMAIN f.ops : IsStaleSave(f.ops[i]) =>
    i + 1 \in DOMAIN f.ops /\ f.ops[i + 1].kind = "delete"
Separated(f) ==
  \A i \in DOMAIN f.ops : IsRestoreRead(f.ops[i]) /\ ~f.ops[i].sameEndpoint =>
    \E k \in DOMAIN f.ops : i < k /\ f.ops[k].kind = "delete"
Covered(f) == SavesFirst(f) /\ Compensated(f) /\ Separated(f)

\* Nothing is ever queued behind an operation that is awaited.
Placed(f) ==
  \A i \in DOMAIN f.ops :
    Shaped(f.ops[i]) /\ (Awaited(f.ops[i]) => i = Len(f.ops))
Orderly(f) == Placed(f) /\ Covered(f)
QueuesOrderly == \A p \in Profiles : Orderly(fifo[p])

\* The operations of the selected profile, and whether a flow waits for one.
OpsOf(f) == {f.ops[i] : i \in DOMAIN f.ops}
SelectedOps == IF selected \in Profiles THEN OpsOf(fifo[selected]) ELSE {}
Driven == \E op \in SelectedOps : Drives(op)

\* The flow that is outstanding, and what it leaves no room for: another
\* flow, operations in the store, or a retry but that of a failed switch.
Interactive == {"authenticate", "register", "freshWhoAmI"}
Active == probe = "running" \/ request # NoRequest \/ Driven
FlowsOK ==
  /\ probe = "running" => request = NoRequest /\ ~Driven
  /\ request # NoRequest \/ retryAction.kind \in {"restore", "whoami", "save"}
       => SelectedOps = {}
  /\ Active \/ state \in {"SignedIn", "SignedOut", "Authenticating", "Registering"}
       => retryAction.kind \in {"none", "switch"}

\* Which flow each state is waiting for, or that it waits for none.
StateOK ==
  /\ state = "ProbingCapabilities" => probe = "running"
  /\ state = "RestoringCredential" => request # NoRequest \/ Driven
  /\ state = "SigningOut" =>
       Driven /\ \A op \in SelectedOps : Drives(op) => op.kind = "delete"
  /\ state \in {"Authenticating", "Registering"} =>
       /\ probe = "none"
       /\ \/ request.kind \in Interactive
          \/ /\ request = NoRequest /\ Driven
             /\ \A op \in SelectedOps : Drives(op) /\ op.kind = "save"
  /\ state = "SignedOut" =>
       probe = "none" /\ request = NoRequest /\ SelectedOps = {}
  /\ state = "SignedIn" =>
       /\ probe = "none" /\ request = NoRequest
       /\ \A op \in SelectedOps : op.purpose = "access"

\* A session that is being signed out does not touch what is stored before the
\* deletion that it waits for.
LeavingOK ==
  state = "SigningOut" => \A op \in SelectedOps : Drives(op) \/ op.kind = "read"

\* What the flow that is outstanding knows of the store.
StoreOK ==
  /\ request.kind \in Interactive => vault[selected] = NoEntry
  /\ request.kind = "restoredWhoAmI" =>
       vault[selected] = BoundEntry(profiles[selected], request.token)
  /\ retryAction.kind = "whoami" =>
       vault[selected] = BoundEntry(profiles[selected], retryAction.token)
  /\ retryAction.kind = "save" => user = retryAction.token
  /\ \A op \in SelectedOps : Drives(op) /\ op.kind = "save" => user = op.token

Course == /\ QueuesOrderly /\ FlowsOK /\ StateOK /\ StoreOK
          /\ StateTellsTheStore /\ AccessTokenIsCurrentSession

-----------------------------------------------------------------------------
(* The session that its users see                                          *)

\* Where a session is.  The raw state tells, since a failed deletion of some
\* other profile masks it only.
Phase ==
  CASE state = "SignedOut"  -> "out"
    [] state = "SignedIn"   -> "in"
    [] state = "SigningOut" -> "leaving"
    [] state \in {"Authenticating", "Registering"} -> "entering"
    [] OTHER -> "away"

Promised == INSTANCE StoredSession WITH
  Absent   <- NoEntry,
  EntryOf  <- [t \in Tokens |-> BoundEntry(Origin[t], t)],
  Unusable <- {UnboundEntry},
  phase    <- Phase,
  account  <- IF Phase \in {"in", "leaving"} THEN user ELSE NoToken,
  profile  <- selected,
  server   <- IF selected = NoProfile THEN NoEndpoint ELSE profiles[selected],
  store    <- vault

\* The coordinator keeps the promise: nobody is signed in but by credentials
\* or by what is stored, nobody changes account or server without leaving, and
\* neither a restart nor a switch nor a crash costs them what is stored.
KeepsThePromise == Promised!Spec

-----------------------------------------------------------------------------
(* What the documentation says and the code does not do                    *)

\* The state underneath a failed deletion "becomes visible again
\* automatically ... the instant the last such obligation clears": with no
\* deletion stalled, SecureStorageUnavailable stands for a read or a save
\* that failed.
UnderlyingStateReturns ==
  Exposed = "SecureStorageUnavailable" =>
    stalled # << >> \/ Flows # {} \/ retryAction.kind \in {"restore", "save"}
=============================================================================
