---------------------------- MODULE SessionProofs ----------------------------
(***************************************************************************)
(* IInv is inductive, whatever the profiles, endpoints and tokens; hence   *)
(* the types, and that no token is ever sent to a server that did not      *)
(* issue it.  First comes what the operators of TokenFifo preserve: from   *)
(* the queues of which operations to those of which others each one leads. *)
(* Given IInv, Course is inductive, too: one flow at a time drives a       *)
(* session, SignedIn and SignedOut tell what the store holds, and an       *)
(* access token is that of the session which asked for it.  Last come the  *)
(* obligations: a save that was abandoned is compensated next, a changed   *)
(* endpoint parts old reads from new, and no deletion is dropped; and what *)
(* all of it comes to for a user: the session implements StoredSession.    *)
(*                                                                         *)
(* The session with its clients behaves as the session alone, so that what *)
(* is proved of the one holds of the other: the three steps of a call to   *)
(* the store are one to the session, and what it waits for is what is      *)
(* outstanding, whatever is cancelled, refused, late or lost meanwhile.    *)
(***************************************************************************)
EXTENDS SessionWithClients, SequenceTheorems, FiniteSetTheorems, WellFoundedInduction, TLAPS

-----------------------------------------------------------------------------
(* The operators of TokenFifo                                              *)

\* A nonempty set of natural numbers has a least one.
LEMMA NatSetHasMinimum ==
  ASSUME NEW T, T \subseteq Nat, T # {}
  PROVE  \E i \in T : \A j \in T : i <= j
  <1> DEFINE R == OpToRel(<, Nat)
  <1>1. IsWellFoundedOn(R, Nat)
    BY NatLessThanWellFounded
  <1>2. PICK i \in T : \A j \in T : ~(<<j, i>> \in R)
    <2> HIDE DEF R
    <2> QED BY <1>1, WFMin
  <1>3. i \in Nat /\ \A j \in T : j \in Nat /\ ~(j < i)
    BY <1>2 DEF OpToRel
  <1> QED BY <1>3

\* The empty queue is a queue of any operations.
LEMMA EmptyFifoType == ASSUME NEW S PROVE EmptyFifo \in FifosOf(S)
  BY EmptySeq DEF EmptyFifo, FifosOf

\* Membership, field by field.
LEMMA FifoFields ==
  ASSUME NEW S, NEW f \in FifosOf(S)
  PROVE  /\ f = [ops |-> f.ops, busy |-> f.busy]
         /\ f.ops \in Seq(S) /\ f.busy \in BOOLEAN
         /\ f.busy => f.ops # << >>
         /\ DOMAIN f.ops = 1..Len(f.ops) /\ Len(f.ops) \in Nat
         /\ \A i \in DOMAIN f.ops : f.ops[i] \in S
  <1>1. f \in [ops : Seq(S), busy : BOOLEAN] /\ (f.busy => f.ops # << >>)
    BY DEF FifosOf
  <1>2. f.ops \in Seq(S)
    BY <1>1
  <1>3. DOMAIN f.ops = 1..Len(f.ops) /\ Len(f.ops) \in Nat
    BY <1>2, LenProperties
  <1>4. \A i \in DOMAIN f.ops : f.ops[i] \in S
    BY <1>2, <1>3, ElementOfSeq
  <1> QED BY <1>1, <1>2, <1>3, <1>4

\* Membership from the fields.
LEMMA FifoIntro ==
  ASSUME NEW S, NEW ops \in Seq(S), NEW busy \in BOOLEAN,
         busy => ops # << >>
  PROVE  [ops |-> ops, busy |-> busy] \in FifosOf(S)
  BY DEF FifosOf

\* A queue of S is a queue of every superset of S.
LEMMA FifosMonotonic ==
  ASSUME NEW S, NEW T, S \subseteq T, NEW f \in FifosOf(S)
  PROVE  f \in FifosOf(T)
  <1>1. f.ops \in Seq(T)
    BY FifoFields, SeqMonotonic
  <1> QED BY <1>1, FifoFields DEF FifosOf

\* Rewriting every operation of a queue.
LEMMA MappedOps ==
  ASSUME NEW S, NEW T, NEW f \in FifosOf(S), NEW new,
         new = [i \in DOMAIN f.ops |-> new[i]],
         \A i \in DOMAIN f.ops : new[i] \in T
  PROVE  [f EXCEPT !.ops = new] \in FifosOf(T)
  <1>1. DOMAIN f.ops = 1..Len(f.ops) /\ Len(f.ops) \in Nat
    BY FifoFields
  <1>2. new \in [1..Len(f.ops) -> T]
    BY <1>1
  <1>3. new \in Seq(T)
    BY <1>1, <1>2, SeqDef
  <1>4. f.ops # << >> => new # << >>
    BY <1>1, <1>2, <1>3, FifoFields, EmptySeq, LenProperties
  <1>5. f = [ops |-> f.ops, busy |-> f.busy]
    BY FifoFields
  <1>6. [f EXCEPT !.ops = new] = [ops |-> new, busy |-> f.busy]
    BY <1>5
  <1> QED BY <1>3, <1>4, <1>6, FifoFields, FifoIntro

\* The answered head of a failed deletion stays queued.
LEMMA StoppedType ==
  ASSUME NEW S, NEW f \in FifosOf(S)
  PROVE  [f EXCEPT !.busy = FALSE] \in FifosOf(S)
  BY DEF FifosOf

\* The operators of TokenFifo, one by one.
LEMMA EnqueueType ==
  ASSUME NEW S, NEW f \in FifosOf(S), NEW op \in S
  PROVE  Enqueue(f, op) \in FifosOf(S)
  <1>1. Append(f.ops, op) \in Seq(S) /\ Append(f.ops, op) # << >>
    BY FifoFields, AppendProperties
  <1>2. (f.busy \/ f.ops = << >>) \in BOOLEAN
    OBVIOUS
  <1> QED BY <1>1, <1>2, FifoIntro DEF Enqueue

\* What is left in front of the queue once stale Saves are skipped.
LEMMA StartFrontType ==
  ASSUME NEW S, NEW f \in FifosOf(S)
  PROVE  StartFront(f) \in FifosOf(S)
  <1> DEFINE kept == {i \in DOMAIN f.ops : ~IsStaleSave(f.ops[i])}
             first == CHOOSE i \in kept : \A j \in kept : i <= j
  <1>1. CASE f.busy \/ f.ops = << >>
    BY <1>1 DEF StartFront
  <1>2. CASE ~(f.busy \/ f.ops = << >>) /\ kept = {}
    BY <1>2, EmptyFifoType DEF StartFront
  <1>3. CASE ~(f.busy \/ f.ops = << >>) /\ kept # {}
    <2>1. kept \subseteq 1..Len(f.ops) /\ Len(f.ops) \in Nat
      BY FifoFields
    <2>2. \E i \in kept : \A j \in kept : i <= j
      <3>1. kept \subseteq Nat /\ kept # {}
        BY <2>1, <1>3
      <3> HIDE DEF kept
      <3> QED BY <3>1, NatSetHasMinimum
    <2>3. first \in 1..Len(f.ops)
      BY <2>1, <2>2
    <2>4. \A i \in first..Len(f.ops) : f.ops[i] \in S
      BY <2>1, <2>3, FifoFields
    <2>5. /\ SubSeq(f.ops, first, Len(f.ops)) \in Seq(S)
          /\ Len(SubSeq(f.ops, first, Len(f.ops))) # 0
      <3>1. first \in Int /\ Len(f.ops) \in Int /\ first <= Len(f.ops)
        BY <2>1, <2>3
      <3> HIDE DEF first
      <3>2. /\ SubSeq(f.ops, first, Len(f.ops)) \in Seq(S)
            /\ Len(SubSeq(f.ops, first, Len(f.ops))) = Len(f.ops) - first + 1
        BY <2>4, <3>1, SubSeqProperties
      <3> QED BY <3>1, <3>2
    <2>6. SubSeq(f.ops, first, Len(f.ops)) # << >>
      BY <2>5, EmptySeq
    <2>7. StartFront(f) = [ops |-> SubSeq(f.ops, first, Len(f.ops)), busy |-> TRUE]
      BY <1>3 DEF StartFront
    <2> QED BY <2>5, <2>6, <2>7, FifoIntro
  <1> QED BY <1>1, <1>2, <1>3

\* A completion takes the head off a queue that is not empty.
LEMMA DequeueType ==
  ASSUME NEW S, NEW f \in FifosOf(S), f.ops # << >>
  PROVE  Dequeue(f) \in FifosOf(S)
  <1>1. Tail(f.ops) \in Seq(S)
    BY FifoFields, HeadTailProperties
  <1> QED BY <1>1, FifoIntro DEF Dequeue

\* Ending a credential epoch marks Saves and adds at most a Delete.
LEMMA InvalidateType ==
  ASSUME NEW S, NEW T, NEW f \in FifosOf(S), S \subseteq T,
         DeleteOp("cleanup") \in T,
         \A op \in S : [op EXCEPT !.fresh = FALSE] \in T
  PROVE  Invalidate(f) \in FifosOf(T)
  <1> DEFINE new == [i \in DOMAIN f.ops |->
                       IF f.ops[i].kind = "save"
                       THEN [f.ops[i] EXCEPT !.fresh = FALSE]
                       ELSE f.ops[i]]
             marked == [f EXCEPT !.ops = new]
  <1>1. new = [i \in DOMAIN f.ops |-> new[i]]
    OBVIOUS
  <1>2. \A i \in DOMAIN f.ops : new[i] \in T
    BY FifoFields
  <1>3. Invalidate(f) \in {marked, Enqueue(marked, DeleteOp("cleanup"))}
    BY DEF Invalidate
  <1> HIDE DEF new
  <1>4. marked \in FifosOf(T)
    BY <1>1, <1>2, MappedOps
  <1> HIDE DEF marked
  <1> QED BY <1>3, <1>4, EnqueueType

\* The marking that ends the endpoint epoch, then Invalidate and a Delete.
LEMMA InvalidateForEndpointChangeType ==
  ASSUME NEW S, NEW M, NEW T, NEW f \in FifosOf(S),
         \A op \in S : (IF IsRestoreRead(op)
                        THEN [op EXCEPT !.sameEndpoint = FALSE] ELSE op) \in M,
         M \subseteq T, DeleteOp("cleanup") \in T,
         \A op \in M : [op EXCEPT !.fresh = FALSE] \in T
  PROVE  InvalidateForEndpointChange(f) \in FifosOf(T)
  <1> DEFINE new == [i \in DOMAIN f.ops |->
                       IF IsRestoreRead(f.ops[i])
                       THEN [f.ops[i] EXCEPT !.sameEndpoint = FALSE]
                       ELSE f.ops[i]]
             marked == [f EXCEPT !.ops = new]
  <1>1. new = [i \in DOMAIN f.ops |-> new[i]]
    OBVIOUS
  <1>2. \A i \in DOMAIN f.ops : new[i] \in M
    BY FifoFields
  <1>3. InvalidateForEndpointChange(f) =
          Enqueue(Invalidate(marked), DeleteOp("cleanup"))
    BY DEF InvalidateForEndpointChange
  <1> HIDE DEF new
  <1>4. marked \in FifosOf(M)
    BY <1>1, <1>2, MappedOps
  <1> HIDE DEF marked
  <1> QED BY <1>3, <1>4, InvalidateType, EnqueueType

\* A new generation leaves the queue with no continuation to run.
LEMMA DropLiveType ==
  ASSUME NEW S, NEW T, NEW f \in FifosOf(S),
         \A op \in S : [op EXCEPT !.live = FALSE] \in T
  PROVE  DropLive(f) \in FifosOf(T)
  <1> DEFINE new == [i \in DOMAIN f.ops |-> [f.ops[i] EXCEPT !.live = FALSE]]
  <1>1. new = [i \in DOMAIN f.ops |-> new[i]]
    OBVIOUS
  <1>2. \A i \in DOMAIN f.ops : new[i] \in T
    BY FifoFields
  <1>3. DropLive(f) = [f EXCEPT !.ops = new]
    BY DEF DropLive
  <1> HIDE DEF new
  <1> QED BY <1>1, <1>2, <1>3, MappedOps

\* A restore rebinds a Read of the queue or adds one.
LEMMA RequestRestoreReadType ==
  ASSUME NEW S, NEW f \in FifosOf(S), NEW endpoint,
         ReadOp("restore", endpoint) \in S,
         \A op \in S : IsRestoreRead(op) /\ op.sameEndpoint =>
                        [op EXCEPT !.live = TRUE] \in S
  PROVE  RequestRestoreRead(f, endpoint) \in FifosOf(S)
  <1> DEFINE mine == {i \in DOMAIN f.ops :
                        IsRestoreRead(f.ops[i]) /\ f.ops[i].sameEndpoint}
             first == CHOOSE i \in mine : \A j \in mine : i <= j
             rebound == [f.ops[first] EXCEPT !.live = TRUE]
  <1>1. CASE mine = {}
    BY <1>1, EnqueueType DEF RequestRestoreRead
  <1>2. CASE mine # {}
    <2>1. mine \subseteq 1..Len(f.ops) /\ Len(f.ops) \in Nat
      BY FifoFields
    <2>2. \E i \in mine : \A j \in mine : i <= j
      <3>1. mine \subseteq Nat
        BY <2>1
      <3> HIDE DEF mine
      <3> QED BY <3>1, <1>2, NatSetHasMinimum
    <2>3. first \in mine
      BY <2>2
    <2>4. first \in 1..Len(f.ops) /\ rebound \in S
      BY <2>1, <2>3, FifoFields
    <2> DEFINE new == [f.ops EXCEPT ![first] = rebound]
    <2>5. RequestRestoreRead(f, endpoint) = [f EXCEPT !.ops = new]
      BY <1>2 DEF RequestRestoreRead
    <2> HIDE DEF rebound, first, mine
    <2>6. new = [i \in DOMAIN f.ops |-> new[i]]
      BY <2>4, FifoFields, LenProperties
    <2>7. \A i \in DOMAIN f.ops : new[i] \in S
      BY <2>4, FifoFields
    <2> HIDE DEF new
    <2> QED BY <2>5, <2>6, <2>7, MappedOps
  <1> QED BY <1>1, <1>2

-----------------------------------------------------------------------------
(* The operations that may be queued                                       *)

\* Each operation the coordinator makes is one of them.
LEMMA NewOps ==
  ASSUME NEW e \in Endpoints
  PROVE  /\ ReadOp("restore", e) \in GoodOps(e, TRUE)
         /\ ReadOp("access", e) \in GoodOps(e, TRUE)
         /\ DeleteOp("signOut") \in GoodOps(e, TRUE)
         /\ DeleteOp("untrusted") \in GoodOps(e, TRUE)
         /\ \A t \in Tokens : Origin[t] = e => SaveOp(t, e) \in GoodOps(e, TRUE)
  BY NoValueAssumption
     DEF GoodOps, Ops, Kinds, Purposes, ReadOp, DeleteOp, SaveOp, IsRestoreRead

\* A compensating Delete may be queued for any profile.
LEMMA CleanupOp ==
  ASSUME NEW e, NEW b \in BOOLEAN
  PROVE  DeleteOp("cleanup") \in GoodOps(e, b)
  BY DEF GoodOps, Ops, Kinds, Purposes, DeleteOp, IsRestoreRead

\* The end of a credential epoch makes no operation a bad one.
LEMMA FreshFlag ==
  ASSUME NEW e, NEW b \in BOOLEAN, NEW op \in GoodOps(e, b)
  PROVE  [op EXCEPT !.fresh = FALSE] \in GoodOps(e, b)
  BY DEF GoodOps, Ops, IsRestoreRead

\* What no session continues any more may be any profile's.
LEMMA LiveFlag ==
  ASSUME NEW e, NEW b \in BOOLEAN, NEW op \in GoodOps(e, b)
  PROVE  [op EXCEPT !.live = FALSE] \in GoodOps(e, FALSE)
  BY DEF GoodOps, Ops, IsRestoreRead

\* A Read of the present endpoint may be continued by a new restore.
LEMMA ReboundFlag ==
  ASSUME NEW e, NEW op \in GoodOps(e, TRUE), IsRestoreRead(op), op.sameEndpoint
  PROVE  [op EXCEPT !.live = TRUE] \in GoodOps(e, TRUE)
  BY DEF GoodOps, Ops, IsRestoreRead

\* What no session continues may be queued for the selected profile, too.
LEMMA DeadOps ==
  ASSUME NEW e, NEW b \in BOOLEAN
  PROVE  GoodOps(e, FALSE) \subseteq GoodOps(e, b)
  BY DEF GoodOps

\* A profile without an endpoint has no Read that could be rebound.
LEMMA NoEndpointOps ==
  ASSUME NEW e
  PROVE  GoodOps(NoEndpoint, FALSE) \subseteq GoodOps(e, FALSE)
  BY NoValueAssumption DEF GoodOps, IsRestoreRead

\* Once the endpoint epoch has ended, the profile may have any endpoint.
LEMMA EndpointFlag ==
  ASSUME NEW e, NEW d, NEW op \in GoodOps(e, FALSE)
  PROVE  (IF IsRestoreRead(op) THEN [op EXCEPT !.sameEndpoint = FALSE] ELSE op)
           \in GoodOps(d, FALSE)
  <1>1. op \in Ops /\ ~op.live
    BY DEF GoodOps, Ops
  <1>2. CASE IsRestoreRead(op)
    BY <1>1, <1>2 DEF GoodOps, Ops, IsRestoreRead
  <1>3. CASE ~IsRestoreRead(op)
    BY <1>1, <1>3 DEF GoodOps, IsRestoreRead
  <1> QED BY <1>2, <1>3

-----------------------------------------------------------------------------
(* The queues                                                              *)

\* QueuesOK, for one profile.
LEMMA QueueOf ==
  ASSUME NEW p \in Profiles, QueuesOK
  PROVE  fifo[p] \in FifosOf(GoodOps(profiles[p], p = selected))
  BY DEF QueuesOK

\* A step that replaces one queue by another such queue.
LEMMA ReplaceQueue ==
  ASSUME NEW p \in Profiles, TypeOK, QueuesOK, UNCHANGED <<profiles, selected>>,
         NEW f \in FifosOf(GoodOps(profiles[p], p = selected)),
         fifo' = [fifo EXCEPT ![p] = f]
  PROVE  fifo' \in [Profiles -> Fifos] /\ QueuesOK'
  <1>1. GoodOps(profiles[p], p = selected) \subseteq Ops
    BY DEF GoodOps
  <1>2. f \in Fifos
    BY <1>1, FifosMonotonic DEF Fifos
  <1>3. fifo \in [Profiles -> Fifos]
    BY DEF TypeOK
  <1>4. fifo' \in [Profiles -> Fifos]
    BY <1>2, <1>3
  <1>5. ASSUME NEW q \in Profiles
        PROVE  fifo'[q] \in FifosOf(GoodOps(profiles'[q], q = selected'))
    <2>1. CASE q = p
      BY <1>3, <2>1
    <2>2. CASE q # p
      BY <1>3, <2>2, QueueOf
    <2> QED BY <2>1, <2>2
  <1> QED BY <1>4, <1>5 DEF QueuesOK

\* The queues of an abandoned session have no continuation of any session.
LEMMA AbandonedQueues ==
  ASSUME TypeOK, QueuesOK, NEW p \in Profiles
  PROVE  Abandoned[p] \in FifosOf(GoodOps(profiles[p], FALSE))
  <1> DEFINE b == p = selected
             f == IF p = selected THEN Invalidate(fifo[p]) ELSE fifo[p]
  <1>1. fifo[p] \in FifosOf(GoodOps(profiles[p], b)) /\ b \in BOOLEAN
    BY QueueOf
  <1>2. Invalidate(fifo[p]) \in FifosOf(GoodOps(profiles[p], b))
    <2> HIDE DEF b
    <2> QED BY <1>1, InvalidateType, CleanupOp, FreshFlag
  <1>3. f \in FifosOf(GoodOps(profiles[p], b))
    BY <1>1, <1>2
  <1>4. DropLive(f) \in FifosOf(GoodOps(profiles[p], FALSE))
    <2> HIDE DEF b, f
    <2> QED BY <1>1, <1>3, DropLiveType, LiveFlag
  <1>5. Abandoned[p] = DropLive(f)
    BY DEF Abandoned
  <1> QED BY <1>4, <1>5

\* After a reload the queues suit the new endpoints.
LEMMA ReconciledQueues ==
  ASSUME TypeOK, QueuesOK, NEW new, NEW p \in Profiles
  PROVE  Reconciled(Abandoned, new)[p] \in FifosOf(GoodOps(new[p], FALSE))
  <1>1. Abandoned[p] \in FifosOf(GoodOps(profiles[p], FALSE))
    BY AbandonedQueues
  <1>2. CASE profiles[p] # NoEndpoint /\ new[p] # profiles[p]
    <2>1. InvalidateForEndpointChange(Abandoned[p])
            \in FifosOf(GoodOps(new[p], FALSE))
      BY <1>1, EndpointFlag, CleanupOp, FreshFlag,
         InvalidateForEndpointChangeType
    <2> QED BY <1>2, <2>1 DEF Reconciled
  <1>3. CASE profiles[p] = NoEndpoint
    BY <1>1, <1>3, NoEndpointOps, FifosMonotonic DEF Reconciled
  <1>4. CASE profiles[p] # NoEndpoint /\ new[p] = profiles[p]
    BY <1>1, <1>4 DEF Reconciled
  <1> QED BY <1>2, <1>3, <1>4

\* A step that puts such queues in place of all of them.
LEMMA ReplaceQueues ==
  ASSUME NEW queues,
         queues = [p \in Profiles |-> queues[p]],
         \A p \in Profiles : queues[p] \in FifosOf(GoodOps(profiles'[p], FALSE)),
         fifo' = queues
  PROVE  fifo' \in [Profiles -> Fifos] /\ QueuesOK'
  <1>1. \A p \in Profiles :
          queues[p] \in FifosOf(GoodOps(profiles'[p], p = selected'))
    BY DeadOps, FifosMonotonic
  <1>2. \A p \in Profiles : queues[p] \in Fifos
    <2>1. \A p \in Profiles : GoodOps(profiles'[p], FALSE) \subseteq Ops
      BY DEF GoodOps
    <2> QED BY <2>1, FifosMonotonic DEF Fifos
  <1> QED BY <1>1, <1>2 DEF QueuesOK

-----------------------------------------------------------------------------
(* Every step preserves the invariant                                      *)

\* The invariant but for the queues.
Rest == /\ state \in States /\ user \in MaybeToken
        /\ profiles \in [Profiles -> MaybeEndpoint]
        /\ selected \in Profiles \cup {NoProfile}
        /\ probe \in {"none", "running"}
        /\ request \in Requests /\ retryAction \in RetryActions
        /\ stalled \in Seq(Profiles)
        /\ vault \in [Profiles -> Entries]
        /\ grant \in [endpoint : MaybeEndpoint, token : MaybeToken]
        /\ SelectionOK /\ RequestOK /\ RetryOK /\ VaultOK /\ GrantOK

\* The two parts together are the invariant.
LEMMA Parts ==
  /\ IInv => Rest /\ TypeOK /\ QueuesOK
  /\ Rest' /\ fifo' \in [Profiles -> Fifos] /\ QueuesOK' => IInv'
  BY DEF IInv, Rest, TypeOK

\* start() alone, and start() as a retry.
LEMMA StartStep ==
  ASSUME IInv, DoStart, grant' = NoGrant
  PROVE  IInv'
  <1> USE Parts
  <1>1. CASE StartFails
    <2>1. fifo' \in [Profiles -> Fifos] /\ QueuesOK'
      <3>1. Abandoned = [p \in Profiles |-> Abandoned[p]]
        BY DEF Abandoned
      <3>2. \A p \in Profiles :
              Abandoned[p] \in FifosOf(GoodOps(profiles'[p], FALSE))
        BY <1>1, AbandonedQueues DEF StartFails
      <3>3. fifo' = Abandoned
        BY <1>1 DEF StartFails
      <3> QED BY <3>1, <3>2, <3>3, ReplaceQueues
    <2>2. Rest'
      BY <1>1, NoValueAssumption
         DEF Rest, StartFails, DoStart, SelectionOK, RequestOK, RetryOK, VaultOK,
             GrantOK, NoRequest, NoGrant, RetryWith, RetrySwitchTo, RetryWithToken, Requests, RetryActions,
             States, MaybeToken, MaybeEndpoint
    <2> QED BY <2>1, <2>2
  <1>2. ASSUME NEW image \in SettingsImages, StartLoads(image)
        PROVE  IInv'
    <2> DEFINE seeded == IF Loaded(image.profiles) = {}
                         THEN [image.profiles EXCEPT ![Hosted] = HostedEndpoint]
                         ELSE image.profiles
    <2>1. seeded \in [Profiles -> MaybeEndpoint]
      BY HostedAssumption DEF SettingsImages, MaybeEndpoint
    <2>2. /\ profiles' = seeded
          /\ selected' \in Loaded(seeded)
          /\ fifo' = Reconciled(Abandoned, seeded)
          /\ StartProbe
      BY <1>2 DEF StartLoads
    <2> HIDE DEF seeded
    <2>3. fifo' \in [Profiles -> Fifos] /\ QueuesOK'
      <3> DEFINE queues == Reconciled(Abandoned, seeded)
      <3>1. queues = [p \in Profiles |-> queues[p]]
        BY DEF Reconciled
      <3>2. \A p \in Profiles :
              queues[p] \in FifosOf(GoodOps(profiles'[p], FALSE))
        BY <2>2, ReconciledQueues
      <3> HIDE DEF queues
      <3>3. fifo' = queues
        BY <2>2 DEF queues
      <3> QED BY <3>1, <3>2, <3>3, ReplaceQueues
    <2>4. selected' \in Profiles /\ profiles'[selected'] \in Endpoints
      BY <2>1, <2>2 DEF Loaded, MaybeEndpoint
    <2>5. Rest'
      BY <2>1, <2>2, <2>4, NoValueAssumption
         DEF Rest, StartProbe, DoStart, SelectionOK, RequestOK, RetryOK, VaultOK,
             GrantOK, NoRequest, NoRetry, NoGrant, RetryWith, RetrySwitchTo, RetryWithToken, Requests,
             RetryActions, States, MaybeToken, MaybeEndpoint
    <2> QED BY <2>3, <2>5
  <1> QED BY <1>1, <1>2 DEF DoStart

\* switchProfile() alone, and as a retry.
LEMMA SwitchStep ==
  ASSUME IInv, NEW p \in Profiles, DoSwitch(p), grant' = NoGrant
  PROVE  IInv'
  <1> USE Parts
  <1>1. CASE SwitchUnknown(p) \/ SwitchNotSaved(p)
    <2>1. UNCHANGED <<profiles, selected, fifo>>
      BY <1>1 DEF SwitchUnknown, SwitchNotSaved, DoSwitch
    <2>2. fifo' \in [Profiles -> Fifos] /\ QueuesOK'
      BY <2>1 DEF TypeOK, QueuesOK
    <2>3. Rest'
      BY <1>1, NoValueAssumption
         DEF Rest, SwitchUnknown, SwitchNotSaved, DoSwitch, SelectionOK,
             RequestOK, RetryOK, VaultOK, GrantOK, NoRequest, NoRetry, NoGrant,
             RetryWith, RetrySwitchTo, RetryWithToken, Requests, RetryActions, States, MaybeToken, MaybeEndpoint
    <2> QED BY <2>2, <2>3
  <1>2. CASE SwitchSaved(p)
    <2>1. fifo' \in [Profiles -> Fifos] /\ QueuesOK'
      <3>1. Abandoned = [q \in Profiles |-> Abandoned[q]]
        BY DEF Abandoned
      <3>2. \A q \in Profiles :
              Abandoned[q] \in FifosOf(GoodOps(profiles'[q], FALSE))
        BY AbandonedQueues DEF DoSwitch
      <3>3. fifo' = Abandoned
        BY <1>2 DEF SwitchSaved
      <3> QED BY <3>1, <3>2, <3>3, ReplaceQueues
    <2>2. Rest'
      BY <1>2, NoValueAssumption
         DEF Rest, SwitchSaved, StartProbe, DoSwitch, SelectionOK, RequestOK,
             RetryOK, VaultOK, GrantOK, NoRequest, NoRetry, NoGrant, RetryWith, RetrySwitchTo, RetryWithToken,
             Requests, RetryActions, States, MaybeToken, MaybeEndpoint
    <2> QED BY <2>1, <2>2
  <1> QED BY <1>1, <1>2 DEF DoSwitch

\* startCredentialRestore(), for a selected profile.
LEMMA RestoreQueues ==
  ASSUME TypeOK, QueuesOK, SelectionOK, selected # NoProfile, StartRestore,
         UNCHANGED <<profiles, selected>>
  PROVE  fifo' \in [Profiles -> Fifos] /\ QueuesOK'
  <1> DEFINE e == profiles[selected]
             f == RequestRestoreRead(fifo[selected], e)
  <1>1. selected \in Profiles /\ e \in Endpoints
    BY DEF TypeOK, SelectionOK
  <1>2. fifo[selected] \in FifosOf(GoodOps(e, TRUE))
    BY <1>1, QueueOf
  <1>3. fifo' = [fifo EXCEPT ![selected] = f]
    BY DEF StartRestore
  <1>4. f \in FifosOf(GoodOps(e, TRUE))
    <2> HIDE DEF e
    <2> QED BY <1>1, <1>2, NewOps, ReboundFlag, RequestRestoreReadType
  <1> HIDE DEF f
  <1> QED BY <1>1, <1>3, <1>4, ReplaceQueue

\* A step that enqueues one operation for the selected profile.
LEMMA EnqueueQueues ==
  ASSUME TypeOK, QueuesOK, SelectionOK, selected # NoProfile,
         UNCHANGED <<profiles, selected>>,
         NEW op \in GoodOps(profiles[selected], TRUE),
         fifo' = [fifo EXCEPT ![selected] = Enqueue(@, op)]
  PROVE  fifo' \in [Profiles -> Fifos] /\ QueuesOK'
  <1> DEFINE f == Enqueue(fifo[selected], op)
  <1>1. selected \in Profiles
    BY DEF TypeOK
  <1>2. fifo[selected] \in FifosOf(GoodOps(profiles[selected], TRUE))
    BY <1>1, QueueOf
  <1>3. f \in FifosOf(GoodOps(profiles[selected], TRUE))
    BY <1>2, EnqueueType
  <1>4. fifo' = [fifo EXCEPT ![selected] = f]
    OBVIOUS
  <1> HIDE DEF f
  <1> QED BY <1>1, <1>3, <1>4, ReplaceQueue

\* A step that leaves the queues alone.
LEMMA SameQueues ==
  ASSUME TypeOK, QueuesOK, UNCHANGED <<profiles, selected, fifo>>
  PROVE  fifo' \in [Profiles -> Fifos] /\ QueuesOK'
  BY DEF TypeOK, QueuesOK

\* The capability probe answers.
LEMMA ProbeStep == ASSUME IInv, ProbeFinished PROVE IInv'
  <1> USE Parts
  <1>0. PICK o \in ProbeOutcomes : ProbeFinishedWith(o)
    BY DEF ProbeFinished
  <1>1. selected # NoProfile
    BY <1>0 DEF ProbeFinishedWith, Rest, SelectionOK
  <1>2. fifo' \in [Profiles -> Fifos] /\ QueuesOK'
    <2>1. CASE StartRestore
      BY <1>0, <1>1, <2>1, RestoreQueues DEF ProbeFinishedWith, Rest
    <2>2. CASE UNCHANGED fifo
      BY <1>0, <2>2, SameQueues DEF ProbeFinishedWith
    <2> QED BY <1>0, <2>1, <2>2 DEF ProbeFinishedWith
  <1>3. Rest'
    BY <1>0, <1>1, NoValueAssumption
       DEF Rest, ProbeFinishedWith, AfterProbe, StartRestore, SelectionOK, RequestOK, RetryOK,
           VaultOK, GrantOK, NoGrant, RetryWith, RetrySwitchTo, RetryWithToken, RetryActions, States,
           MaybeToken, MaybeEndpoint
  <1> QED BY <1>2, <1>3

\* signIn() and registerAccount().
LEMMA CredentialsStep == ASSUME IInv, SignIn \/ Register PROVE IInv'
  <1> USE Parts
  <1>1. fifo' \in [Profiles -> Fifos] /\ QueuesOK'
    BY SameQueues DEF SignIn, Register, SendCredentials
  <1>2. PICK kind \in {"authenticate", "register"},
             busyState \in {"Authenticating", "Registering"} :
          SendCredentials(kind, busyState)
    BY DEF SignIn, Register
  <1>3. selected \in Profiles /\ profiles[selected] \in Endpoints
    BY <1>2 DEF SendCredentials, Rest, SelectionOK
  <1>4. Rest'
    BY <1>2, <1>3, NoValueAssumption
       DEF Rest, SendCredentials, SelectionOK, RequestOK, RetryOK, VaultOK,
           GrantOK, NoGrant, Request, Requests, States, MaybeToken, MaybeEndpoint
  <1> QED BY <1>1, <1>4

\* A request is outstanding only for a selected profile.
LEMMA Requesting ==
  ASSUME IInv, request.kind # "none"
  PROVE  /\ selected \in Profiles /\ profiles[selected] \in Endpoints
         /\ request.endpoint = profiles[selected]
  BY Parts DEF Rest, SelectionOK, RequestOK, NoRequest

\* The server answers a sign-in or a registration.
LEMMA AuthStep == ASSUME IInv, AuthAnswered PROVE IInv'
  <1> USE Parts
  <1>0. PICK o \in AuthOutcomes : AuthAnsweredWith(o)
    BY DEF AuthAnswered
  <1>1. fifo' \in [Profiles -> Fifos] /\ QueuesOK'
    BY <1>0, SameQueues DEF AuthAnsweredWith
  <1>2. /\ selected \in Profiles /\ profiles[selected] \in Endpoints
        /\ request.endpoint = profiles[selected]
    BY <1>0, Requesting DEF AuthAnsweredWith
  <1>3. Rest'
    BY <1>0, <1>2, NoValueAssumption
       DEF Rest, AuthAnsweredWith, EnterMaintenance, Settle, SendWhoAmI, Request,
           SelectionOK, RequestOK, RetryOK, VaultOK, GrantOK, NoRequest, NoGrant,
           RetryWith, RetrySwitchTo, RetryWithToken, Requests, RetryActions, States, MaybeToken, MaybeEndpoint
  <1> QED BY <1>1, <1>3

\* The server answers a /whoami, of a restored token or of a new one.
LEMMA WhoAmIStep == ASSUME IInv, WhoAmIAnswered PROVE IInv'
  <1> USE Parts
  <1>0. PICK o \in AuthOutcomes : WhoAmIAnsweredWith(o)
    BY DEF WhoAmIAnswered
  <1>1. /\ selected \in Profiles /\ profiles[selected] \in Endpoints
        /\ request.endpoint = profiles[selected] /\ selected # NoProfile
    BY <1>0, Requesting, NoValueAssumption
       DEF WhoAmIAnsweredWith, RestoredWhoAmIAnswered, FreshWhoAmIAnswered
  <1>2. /\ UNCHANGED <<profiles, selected>>
        /\ request.token \in Tokens
        /\ Origin[request.token] = profiles[selected]
    BY <1>0, <1>1 DEF WhoAmIAnsweredWith, RestoredWhoAmIAnswered, FreshWhoAmIAnswered,
                Rest, RequestOK
  <1>3. fifo' \in [Profiles -> Fifos] /\ QueuesOK'
    <2>1. CASE UNCHANGED fifo
      BY <1>2, <2>1, SameQueues
    <2>2. CASE fifo' = [fifo EXCEPT ![selected] =
                          Enqueue(@, DeleteOp("untrusted"))]
      BY <1>1, <1>2, <2>2, NewOps, EnqueueQueues DEF Rest
    <2>3. CASE SaveFreshToken(request.token)
      <3>1. SaveOp(request.token, profiles[selected])
              \in GoodOps(profiles[selected], TRUE)
        BY <1>1, <1>2, NewOps
      <3> QED BY <1>1, <1>2, <2>3, <3>1, EnqueueQueues DEF Rest, SaveFreshToken
    <2> QED BY <1>0, <2>1, <2>2, <2>3
            DEF WhoAmIAnsweredWith, RestoredWhoAmIAnswered, FreshWhoAmIAnswered
  <1>4. Rest'
    BY <1>0, <1>1, <1>2, NoValueAssumption
       DEF Rest, WhoAmIAnsweredWith, RestoredWhoAmIAnswered, FreshWhoAmIAnswered,
           EnterMaintenance, Settle, SelectionOK, RequestOK, RetryOK, VaultOK,
           GrantOK, NoRequest, NoGrant, RetryWith, RetrySwitchTo, RetryWithToken, Requests, RetryActions,
           States, MaybeToken, MaybeEndpoint
  <1> QED BY <1>3, <1>4

\* signOut().
LEMMA SignOutStep == ASSUME IInv, SignOut PROVE IInv'
  <1> USE Parts
  <1>1. selected \in Profiles /\ profiles[selected] \in Endpoints
    BY DEF SignOut, Rest, SelectionOK
  <1> DEFINE e == profiles[selected]
             f == Enqueue(Abandoned[selected], DeleteOp("signOut"))
             queues == [Abandoned EXCEPT ![selected] = f]
  <1>2. \A p \in Profiles : Abandoned[p] \in FifosOf(GoodOps(profiles[p], FALSE))
    BY AbandonedQueues
  <1>3. f \in FifosOf(GoodOps(e, TRUE))
    <2>1. Abandoned[selected] \in FifosOf(GoodOps(e, TRUE))
      <3> HIDE DEF e
      <3>1. Abandoned[selected] \in FifosOf(GoodOps(e, FALSE))
        BY <1>1, <1>2 DEF e
      <3>2. GoodOps(e, FALSE) \subseteq GoodOps(e, TRUE)
        BY DeadOps
      <3> QED BY <3>1, <3>2, FifosMonotonic
    <2> QED BY <1>1, <2>1, NewOps, EnqueueType
  <1> HIDE DEF f
  <1>4. /\ Abandoned = [p \in Profiles |-> Abandoned[p]]
        /\ queues = [p \in Profiles |-> queues[p]]
    BY DEF Abandoned
  <1>5. ASSUME NEW p \in Profiles
        PROVE  queues[p] \in FifosOf(GoodOps(profiles[p], p = selected))
    <2>1. CASE p = selected
      BY <1>1, <1>3, <1>4, <2>1
    <2>2. CASE p # selected
      BY <1>2, <1>4, <2>2
    <2> QED BY <2>1, <2>2
  <1>6. UNCHANGED <<profiles, selected>> /\ fifo' = queues
    BY DEF SignOut, f
  <1>7. fifo' \in [Profiles -> Fifos] /\ QueuesOK'
    <2> HIDE DEF queues
    <2>1. \A p \in Profiles : queues[p] \in Fifos
      <3>1. \A p \in Profiles : GoodOps(profiles[p], p = selected) \subseteq Ops
        BY DEF GoodOps
      <3> QED BY <3>1, <1>5, FifosMonotonic DEF Fifos
    <2> QED BY <1>4, <1>5, <1>6, <2>1 DEF QueuesOK
  <1>8. Rest'
    BY <1>1, NoValueAssumption
       DEF Rest, SignOut, SelectionOK, RequestOK, RetryOK, VaultOK, GrantOK,
           NoRequest, NoRetry, NoGrant, RetryWith, Requests, RetryActions, States,
           MaybeToken, MaybeEndpoint
  <1> QED BY <1>7, <1>8

\* retry() of a stalled deletion.
LEMMA RetryDeletionStep == ASSUME IInv, RetryDeletion PROVE IInv'
  <1> USE Parts
  <1> DEFINE p == Head(stalled)
             f == StartFront(fifo[p])
  <1>1. p \in Profiles
    BY HeadTailProperties DEF RetryDeletion, Rest
  <1>2. f \in FifosOf(GoodOps(profiles[p], p = selected))
    BY <1>1, QueueOf, StartFrontType
  <1>3. fifo' = [fifo EXCEPT ![p] = f] /\ UNCHANGED <<profiles, selected>>
    BY DEF RetryDeletion
  <1>4. fifo' \in [Profiles -> Fifos] /\ QueuesOK'
    <2> HIDE DEF p, f
    <2> QED BY <1>1, <1>2, <1>3, ReplaceQueue
  <1>5. Rest'
    BY NoValueAssumption
       DEF Rest, RetryDeletion, SelectionOK, RequestOK, RetryOK, VaultOK,
           GrantOK, NoGrant, MaybeToken, MaybeEndpoint
  <1> QED BY <1>4, <1>5

\* retry() of anything else.
LEMMA RetryActionStep == ASSUME IInv, RetryAction PROVE IInv'
  <1> USE Parts
  <1>1. CASE retryAction.kind = "start" /\ DoStart
    BY <1>1, StartStep DEF RetryAction
  <1>2. CASE retryAction.kind = "switch" /\ DoSwitch(retryAction.profile)
    BY <1>2, SwitchStep DEF RetryAction, Rest, RetryOK
  <1>3. CASE /\ retryAction.kind = "probe"
             /\ StartProbe
             /\ UNCHANGED <<user, profiles, selected, request, fifo, stalled, vault>>
    <2>1. fifo' \in [Profiles -> Fifos] /\ QueuesOK'
      BY <1>3, SameQueues
    <2>2. Rest'
      BY <1>3, NoValueAssumption
         DEF RetryAction, Rest, StartProbe, SelectionOK, RequestOK, RetryOK,
             VaultOK, GrantOK, NoRetry, NoGrant, RetryWith, RetryActions, States,
             MaybeToken, MaybeEndpoint
    <2> QED BY <2>1, <2>2
  <1>4. CASE /\ retryAction.kind = "restore"
             /\ StartRestore
             /\ retryAction' = NoRetry
             /\ UNCHANGED <<user, profiles, selected, probe, request, stalled, vault>>
    <2>1. selected # NoProfile
      BY <1>4 DEF Rest, SelectionOK
    <2>2. fifo' \in [Profiles -> Fifos] /\ QueuesOK'
      BY <1>4, <2>1, RestoreQueues DEF Rest
    <2>3. Rest'
      BY <1>4, <2>1, NoValueAssumption
         DEF RetryAction, Rest, StartRestore, SelectionOK, RequestOK, RetryOK,
             VaultOK, GrantOK, NoRetry, NoGrant, RetryWith, RetryActions, States,
             MaybeToken, MaybeEndpoint
    <2> QED BY <2>2, <2>3
  <1>5. CASE /\ retryAction.kind = "whoami"
             /\ SendWhoAmI("restoredWhoAmI", retryAction.token)
             /\ retryAction' = NoRetry
             /\ UNCHANGED <<state, user, profiles, selected, probe, fifo, stalled,
                            vault>>
    <2>1. selected \in Profiles /\ profiles[selected] \in Endpoints
      BY <1>5 DEF Rest, SelectionOK
    <2>2. fifo' \in [Profiles -> Fifos] /\ QueuesOK'
      BY <1>5, SameQueues
    <2>3. Rest'
      BY <1>5, <2>1, NoValueAssumption
         DEF RetryAction, Rest, SendWhoAmI, Request, Requests, SelectionOK,
             RequestOK, RetryOK, VaultOK, GrantOK, NoRetry, NoGrant, RetryWith,
             RetryActions, States, MaybeToken, MaybeEndpoint
    <2> QED BY <2>2, <2>3
  <1>6. CASE /\ retryAction.kind = "save"
             /\ SaveFreshToken(retryAction.token)
             /\ retryAction' = NoRetry
             /\ UNCHANGED <<state, user, profiles, selected, probe, request,
                            stalled, vault>>
    <2>1. /\ selected # NoProfile /\ profiles[selected] \in Endpoints
          /\ SaveOp(retryAction.token, profiles[selected])
               \in GoodOps(profiles[selected], TRUE)
      BY <1>6, NewOps DEF Rest, SelectionOK, RetryOK
    <2>2. fifo' \in [Profiles -> Fifos] /\ QueuesOK'
      BY <1>6, <2>1, EnqueueQueues DEF Rest, SaveFreshToken
    <2>3. Rest'
      BY <1>6, <2>1, NoValueAssumption
         DEF RetryAction, Rest, SelectionOK, RequestOK, RetryOK, VaultOK, GrantOK,
             NoRetry, NoGrant, RetryWith, RetryActions, States, MaybeToken,
             MaybeEndpoint
    <2> QED BY <2>2, <2>3
  <1> QED BY <1>1, <1>2, <1>3, <1>4, <1>5, <1>6 DEF RetryAction

\* requestAccessToken().
LEMMA AccessStep == ASSUME IInv, RequestAccessToken PROVE IInv'
  <1> USE Parts
  <1>1. /\ selected # NoProfile /\ profiles[selected] \in Endpoints
        /\ ReadOp("access", profiles[selected]) \in GoodOps(profiles[selected], TRUE)
    BY NewOps DEF RequestAccessToken, Exposed, Rest, SelectionOK
  <1>2. fifo' \in [Profiles -> Fifos] /\ QueuesOK'
    BY <1>1, EnqueueQueues DEF RequestAccessToken, Rest
  <1>3. Rest'
    BY NoValueAssumption
       DEF Rest, RequestAccessToken, SelectionOK, RequestOK, RetryOK, VaultOK,
           GrantOK, NoGrant, MaybeToken, MaybeEndpoint
  <1> QED BY <1>2, <1>3

-----------------------------------------------------------------------------
(* The answers of the secure store                                         *)

\* The operation a store call answers was made for its profile.
LEMMA HeadOp ==
  ASSUME IInv, NEW p \in Profiles, fifo[p].busy
  PROVE  /\ fifo[p] \in FifosOf(GoodOps(profiles[p], p = selected))
         /\ fifo[p].ops # << >>
         /\ Head(fifo[p].ops) \in GoodOps(profiles[p], p = selected)
  <1>1. fifo[p] \in FifosOf(GoodOps(profiles[p], p = selected))
    BY Parts, QueueOf
  <1> QED BY <1>1, FifoFields, HeadTailProperties

\* A continuation that is run is run for the selected profile.
LEMMA LiveHead ==
  ASSUME IInv, NEW p \in Profiles, fifo[p].busy, Head(fifo[p].ops).live
  PROVE  /\ p = selected /\ selected # NoProfile
         /\ profiles[p] \in Endpoints
         /\ Head(fifo[p].ops).kind = "read" => Head(fifo[p].ops).endpoint = profiles[p]
  <1>1. Head(fifo[p].ops) \in GoodOps(profiles[p], p = selected)
    BY HeadOp
  <1>2. p = selected
    BY <1>1 DEF GoodOps
  <1>3. selected # NoProfile /\ profiles[selected] \in Endpoints
    BY <1>2, Parts, NoValueAssumption DEF Rest, SelectionOK
  <1>4. Head(fifo[p].ops).kind = "read" => Head(fifo[p].ops).endpoint = profiles[p]
    BY <1>1 DEF GoodOps
  <1> QED BY <1>2, <1>3, <1>4

\* A completion that dispatches the next operation.
LEMMA AdvanceQueues ==
  ASSUME IInv, NEW p \in Profiles, fifo[p].busy, Advance(p),
         UNCHANGED <<profiles, selected>>
  PROVE  fifo' \in [Profiles -> Fifos] /\ QueuesOK'
  <1> DEFINE f == StartFront(Dequeue(fifo[p]))
  <1>1. f \in FifosOf(GoodOps(profiles[p], p = selected))
    BY HeadOp, DequeueType, StartFrontType
  <1>2. fifo' = [fifo EXCEPT ![p] = f]
    BY DEF Advance
  <1> HIDE DEF f
  <1> QED BY <1>1, <1>2, Parts, ReplaceQueue

\* The same after its continuation has enqueued another.
LEMMA AdvanceWithQueues ==
  ASSUME IInv, NEW p \in Profiles, fifo[p].busy,
         NEW op \in GoodOps(profiles[p], p = selected), AdvanceWith(p, op),
         UNCHANGED <<profiles, selected>>
  PROVE  fifo' \in [Profiles -> Fifos] /\ QueuesOK'
  <1> DEFINE f == StartFront(Enqueue(Dequeue(fifo[p]), op))
  <1>1. f \in FifosOf(GoodOps(profiles[p], p = selected))
    BY HeadOp, DequeueType, EnqueueType, StartFrontType
  <1>2. fifo' = [fifo EXCEPT ![p] = f]
    BY DEF AdvanceWith
  <1> HIDE DEF f
  <1> QED BY <1>1, <1>2, Parts, ReplaceQueue

\* Removing one profile from the stalled list leaves a list of profiles.
LEMMA UnstallType ==
  ASSUME NEW p \in Profiles, stalled \in Seq(Profiles), Unstall(p)
  PROVE  stalled' \in Seq(Profiles)
  <1> DEFINE i == CHOOSE j \in DOMAIN stalled : stalled[j] = p
  <1>1. CASE ~IsStalled(p)
    BY <1>1 DEF Unstall
  <1>2. CASE IsStalled(p)
    <2>1. i \in 1..Len(stalled) /\ Len(stalled) \in Nat
      BY <1>2, LenProperties DEF IsStalled
    <2> HIDE DEF i
    <2>2. \A k \in 1..Len(stalled) : stalled[k] \in Profiles
      BY ElementOfSeq
    <2>3. SubSeq(stalled, 1, i - 1) \in Seq(Profiles)
      BY <2>1, <2>2, SubSeqProperties
    <2>4. SubSeq(stalled, i + 1, Len(stalled)) \in Seq(Profiles)
      BY <2>1, <2>2, SubSeqProperties
    <2>5. stalled' = SubSeq(stalled, 1, i - 1) \o SubSeq(stalled, i + 1, Len(stalled))
      BY <1>2 DEF Unstall, i
    <2> QED BY <2>3, <2>4, <2>5, ConcatProperties
  <1> QED BY <1>1, <1>2

\* A read that succeeds returns a token of the endpoint it looked for.
LEMMA ReadSuccess ==
  ASSUME VaultOK, vault \in [Profiles -> Entries], NEW p \in Profiles, NEW e,
         ReadOutcome(vault[p], e) = "success"
  PROVE  vault[p].token \in Tokens /\ Origin[vault[p].token] = e
  <1>1. vault[p].form = "bound" /\ vault[p].endpoint = e
    BY DEF ReadOutcome, Entries, NoEntry, UnboundEntry
  <1> QED BY <1>1 DEF VaultOK

\* A read answers.
LEMMA ReadStep == ASSUME IInv, NEW p \in Profiles, ReadAnswered(p) PROVE IInv'
  <1> USE Parts
  <1> DEFINE op == Head(fifo[p].ops)
  <1>0. PICK o \in ReadOutcomes(p) : ReadAnsweredWith(p, o)
    BY DEF ReadAnswered
  <1>1. fifo[p].busy /\ UNCHANGED <<profiles, selected, probe, vault>>
    BY <1>0 DEF ReadAnsweredWith, Answering
  <1>2. stalled' \in Seq(Profiles)
    BY <1>0, UnstallType DEF ReadAnsweredWith, Rest
  <1>3. CASE DeadAnswered(p)
    <2>1. fifo' \in [Profiles -> Fifos] /\ QueuesOK'
      BY <1>1, <1>3, AdvanceQueues DEF DeadAnswered
    <2>2. Rest'
      BY <1>1, <1>2, <1>3, NoValueAssumption
         DEF DeadAnswered, Rest, SelectionOK, RequestOK, RetryOK, VaultOK,
             GrantOK, NoGrant, MaybeToken, MaybeEndpoint
    <2> QED BY <2>1, <2>2
  <1>4. CASE RestoreReadAnswered(p, o)
    <2>1. /\ p = selected /\ selected # NoProfile /\ profiles[p] \in Endpoints
          /\ op.endpoint = profiles[p]
      BY <1>1, <1>4, LiveHead DEF RestoreReadAnswered, IsRestoreRead
    <2>2. o = "success" =>
            vault[p].token \in Tokens /\ Origin[vault[p].token] = profiles[p]
      BY <1>0, <2>1, ReadSuccess DEF Rest, ReadOutcomes
    <2>3. fifo' \in [Profiles -> Fifos] /\ QueuesOK'
      <3>1. DeleteOp("untrusted") \in GoodOps(profiles[p], p = selected)
        BY <2>1, NewOps
      <3>2. CASE Advance(p)
        BY <1>1, <3>2, AdvanceQueues
      <3>3. CASE AdvanceWith(p, DeleteOp("untrusted"))
        BY <1>1, <3>1, <3>3, AdvanceWithQueues
      <3> QED BY <1>4, <3>2, <3>3 DEF RestoreReadAnswered
    <2>4. Rest'
      BY <1>1, <1>2, <1>4, <2>1, <2>2, NoValueAssumption
         DEF RestoreReadAnswered, Settle, SendWhoAmI, Request, Requests, Rest,
             SelectionOK, RequestOK, RetryOK, VaultOK, GrantOK, NoRequest, NoGrant,
             RetryWith, RetryActions, States, MaybeToken, MaybeEndpoint
    <2> QED BY <2>3, <2>4
  <1>5. CASE AccessReadAnswered(p, o)
    <2>1. /\ p = selected /\ selected # NoProfile /\ profiles[p] \in Endpoints
          /\ op.endpoint = profiles[p]
      BY <1>0, <1>1, <1>5, LiveHead DEF AccessReadAnswered, ReadAnsweredWith, Answering
    <2>2. o = "success" =>
            vault[p].token \in Tokens /\ Origin[vault[p].token] = profiles[p]
      BY <1>0, <2>1, ReadSuccess DEF Rest, ReadOutcomes
    <2>3. fifo' \in [Profiles -> Fifos] /\ QueuesOK'
      BY <1>1, <1>5, AdvanceQueues DEF AccessReadAnswered
    <2>4. Rest'
      BY <1>1, <1>2, <1>5, <2>1, <2>2, NoValueAssumption
         DEF AccessReadAnswered, Rest, SelectionOK, RequestOK, RetryOK, VaultOK,
             GrantOK, NoGrant, MaybeToken, MaybeEndpoint
    <2> QED BY <2>3, <2>4
  <1> QED BY <1>0, <1>3, <1>4, <1>5 DEF ReadAnsweredWith

\* A step that replaces one entry of the store by a well bound one.
LEMMA ReplaceEntry ==
  ASSUME VaultOK, vault \in [Profiles -> Entries], NEW p \in Profiles,
         NEW entry \in Entries,
         entry.form = "bound" =>
           entry.token \in Tokens /\ Origin[entry.token] = entry.endpoint,
         vault' = [vault EXCEPT ![p] = entry]
  PROVE  vault' \in [Profiles -> Entries] /\ VaultOK'
  BY DEF VaultOK

\* A save leaves the entry as it was or well bound.
LEMMA SavedEntry ==
  ASSUME IInv, NEW p \in Profiles, Answering(p, "save"), NEW ok \in BOOLEAN,
         NEW entry \in AfterSave(vault[p], Head(fifo[p].ops), ok)
  PROVE  /\ entry \in Entries
         /\ entry.form = "bound" =>
              entry.token \in Tokens /\ Origin[entry.token] = entry.endpoint
  <1> DEFINE op == Head(fifo[p].ops)
  <1>1. op.token \in Tokens /\ Origin[op.token] = op.endpoint
    BY HeadOp DEF Answering, GoodOps
  <1>2. op.endpoint \in Endpoints
    BY <1>1, OriginAssumption
  <1> HIDE DEF op
  <1>3. vault[p] \in Entries /\ VaultOK
    BY Parts DEF Rest
  <1>4. entry = vault[p] \/ entry = BoundEntry(op.endpoint, op.token)
    BY DEF AfterSave, op
  <1>5. CASE entry = vault[p]
    BY <1>3, <1>5 DEF VaultOK
  <1>6. CASE entry = BoundEntry(op.endpoint, op.token)
    BY <1>1, <1>2, <1>6 DEF BoundEntry, Entries
  <1> QED BY <1>4, <1>5, <1>6

\* A save answers.
LEMMA SaveStep == ASSUME IInv, NEW p \in Profiles, SaveAnswered(p) PROVE IInv'
  <1> USE Parts
  <1> DEFINE op == Head(fifo[p].ops)
  <1>1. PICK ok \in BOOLEAN : SaveAnsweredWith(p, ok)
    BY DEF SaveAnswered
  <1>2. PICK entry \in AfterSave(vault[p], op, ok) :
          vault' = [vault EXCEPT ![p] = entry]
    BY <1>1 DEF SaveAnsweredWith
  <1>3. vault' \in [Profiles -> Entries] /\ VaultOK'
    BY <1>1, <1>2, SavedEntry, ReplaceEntry DEF Rest, SaveAnsweredWith
  <1>4. fifo[p].busy /\ op.kind = "save" /\ UNCHANGED <<profiles, selected, probe>>
    BY <1>1 DEF SaveAnsweredWith, Answering
  <1>5. stalled' \in Seq(Profiles)
    BY <1>1, UnstallType DEF SaveAnsweredWith, Rest
  <1>6. fifo' \in [Profiles -> Fifos] /\ QueuesOK'
    BY <1>1, <1>4, AdvanceQueues
    DEF SaveAnsweredWith, DeadAnswered, SaveContinues
  <1>7. CASE DeadAnswered(p)
    <2>1. Rest'
      BY <1>3, <1>4, <1>5, <1>7, NoValueAssumption
         DEF DeadAnswered, Rest, SelectionOK, RequestOK, RetryOK, GrantOK,
             NoGrant, MaybeToken, MaybeEndpoint
    <2> QED BY <1>6, <2>1
  <1>8. CASE SaveContinues(p, ok)
    <2>1. /\ p = selected /\ selected # NoProfile /\ profiles[p] \in Endpoints
          /\ op.live
      BY <1>4, <1>8, LiveHead DEF SaveContinues
    <2>2. op.token \in Tokens /\ Origin[op.token] = profiles[selected]
      BY <1>4, <2>1, HeadOp DEF GoodOps
    <2> HIDE DEF op
    <2>3. Rest'
      BY <1>3, <1>4, <1>5, <1>8, <2>1, <2>2, NoValueAssumption
         DEF SaveContinues, Rest, SelectionOK, RequestOK, RetryOK, GrantOK,
             NoGrant, RetryWithToken, RetryActions, States, MaybeToken,
             MaybeEndpoint, op
    <2> QED BY <1>6, <2>3
  <1> QED BY <1>1, <1>7, <1>8 DEF SaveAnsweredWith

\* A deletion succeeds.
LEMMA DeleteSucceedsStep ==
  ASSUME IInv, NEW p \in Profiles, DeleteSucceeds(p)
  PROVE  IInv'
  <1> USE Parts
  <1>1. vault' = [vault EXCEPT ![p] = NoEntry]
    BY DEF DeleteSucceeds, AfterDelete
  <1>2. vault' \in [Profiles -> Entries] /\ VaultOK'
    BY <1>1, ReplaceEntry DEF Rest, Entries, NoEntry
  <1>3. fifo[p].busy /\ UNCHANGED <<profiles, selected, probe>>
    BY DEF DeleteSucceeds, Answering
  <1>4. stalled' \in Seq(Profiles)
    BY UnstallType DEF DeleteSucceeds, Rest
  <1>5. fifo' \in [Profiles -> Fifos] /\ QueuesOK'
    BY <1>3, AdvanceQueues DEF DeleteSucceeds, DeadAnswered, DeleteContinues
  <1>6. CASE DeadAnswered(p)
    <2>1. Rest'
      BY <1>2, <1>3, <1>4, <1>6, NoValueAssumption
         DEF DeadAnswered, Rest, SelectionOK, RequestOK, RetryOK, GrantOK,
             NoGrant, MaybeToken, MaybeEndpoint
    <2> QED BY <1>5, <2>1
  <1>7. CASE DeleteContinues(p)
    <2>1. selected # NoProfile
      BY <1>3, <1>7, LiveHead DEF DeleteContinues
    <2>2. Rest'
      BY <1>2, <1>3, <1>4, <1>7, <2>1, NoValueAssumption
         DEF DeleteContinues, Settle, Rest, SelectionOK, RequestOK, RetryOK,
             GrantOK, NoGrant, States, MaybeToken, MaybeEndpoint
    <2> QED BY <1>5, <2>2
  <1> QED BY <1>6, <1>7 DEF DeleteSucceeds

\* A deletion fails.
LEMMA DeleteFailsStep ==
  ASSUME IInv, NEW p \in Profiles, DeleteFails(p)
  PROVE  IInv'
  <1> USE Parts
  <1>1. PICK entry \in {vault[p], NoEntry} : vault' = [vault EXCEPT ![p] = entry]
    BY DEF DeleteFails, AfterDelete
  <1>2. vault' \in [Profiles -> Entries] /\ VaultOK'
    <2>1. entry \in Entries
      BY <1>1 DEF Rest, Entries, NoEntry
    <2>2. entry.form = "bound" =>
            entry.token \in Tokens /\ Origin[entry.token] = entry.endpoint
      BY <1>1 DEF Rest, VaultOK, NoEntry
    <2> QED BY <1>1, <2>1, <2>2, ReplaceEntry DEF Rest
  <1> DEFINE f == [fifo[p] EXCEPT !.busy = FALSE]
  <1>3. fifo' \in [Profiles -> Fifos] /\ QueuesOK'
    <2>1. fifo[p] \in FifosOf(GoodOps(profiles[p], p = selected))
      BY QueueOf
    <2>2. f \in FifosOf(GoodOps(profiles[p], p = selected))
      BY <2>1, StoppedType
    <2>3. fifo' = [fifo EXCEPT ![p] = f]
      BY DEF DeleteFails
    <2> HIDE DEF f
    <2> QED BY <2>2, <2>3, ReplaceQueue DEF DeleteFails
  <1>4. stalled' \in Seq(Profiles)
    BY AppendProperties DEF DeleteFails, Rest
  <1>5. p = selected => selected # NoProfile
    BY NoValueAssumption
  <1>6. Rest'
    BY <1>2, <1>4, <1>5, NoValueAssumption
       DEF DeleteFails, Rest, SelectionOK, RequestOK, RetryOK, GrantOK, NoGrant,
           States, MaybeToken, MaybeEndpoint
  <1> QED BY <1>3, <1>6

-----------------------------------------------------------------------------
(* The beginning and the end of the process                                *)

\* A process that has just started, whatever the store contains.
LEMMA StartIsInvariant ==
  ASSUME state = "Loading", user = NoToken,
         profiles = [p \in Profiles |-> NoEndpoint], selected = NoProfile,
         probe = "none", request = NoRequest, retryAction = NoRetry,
         fifo = [p \in Profiles |-> EmptyFifo], stalled = << >>, grant = NoGrant,
         vault \in [Profiles -> Entries], VaultOK
  PROVE  IInv
  <1>1. fifo \in [Profiles -> Fifos] /\ QueuesOK
    BY EmptyFifoType DEF QueuesOK, Fifos
  <1>2. stalled \in Seq(Profiles)
    BY EmptySeq
  <1>3. /\ TypeOK /\ SelectionOK /\ RequestOK /\ RetryOK /\ GrantOK
    BY <1>1, <1>2, NoValueAssumption
       DEF TypeOK, SelectionOK, RequestOK, RetryOK, GrantOK, NoRequest, NoRetry,
           NoGrant, RetryWith, Requests, RetryActions, States, MaybeToken,
           MaybeEndpoint
  <1> QED BY <1>1, <1>3 DEF IInv

\* The invariant holds initially.
LEMMA InitInvariant == Init => IInv
  <1> SUFFICES ASSUME Init PROVE IInv
    OBVIOUS
  <1>1. ASSUME NEW p \in Profiles
        PROVE  vault[p] \in {NoEntry, UnboundEntry}
                              \cup {BoundEntry(Origin[t], t) : t \in Tokens}
    BY DEF Init
  <1>2. /\ vault \in [Profiles -> Entries]
        /\ VaultOK
    BY <1>1, OriginAssumption
       DEF Init, VaultOK, Entries, NoEntry, UnboundEntry, BoundEntry
  <1> QED BY <1>2, StartIsInvariant DEF Init

\* The process ends and starts again with the store it left.
LEMMA TerminateStep == ASSUME IInv, Terminate PROVE IInv'
  <1> USE Parts
  <1>1. ASSUME NEW p \in Profiles
        PROVE  vault'[p].form = "bound" =>
                 vault'[p].token \in Tokens
                   /\ Origin[vault'[p].token] = vault'[p].endpoint
    <2> DEFINE op == Head(fifo[p].ops)
    <2>1. vault'[p] \in CrashedEntries(p)
      BY DEF Terminate
    <2>2. VaultOK /\ vault \in [Profiles -> Entries]
      BY DEF Rest
    <2>3. CASE vault'[p] = vault[p]
      BY <2>2, <2>3 DEF VaultOK
    <2>4. CASE vault'[p] = NoEntry
      BY <2>4 DEF NoEntry
    <2>5. CASE fifo[p].busy /\ op.kind = "save" /\ vault'[p] \in AfterSave(vault[p], op, FALSE)
      BY <2>5, SavedEntry DEF Answering
    <2>6. fifo[p].busy => op.kind \in {"read", "save", "delete"}
      BY HeadOp DEF GoodOps, Ops, Kinds
    <2> QED BY <2>1, <2>3, <2>4, <2>5, <2>6 DEF CrashedEntries, AfterDelete
  <1>2. vault' \in [Profiles -> Entries] /\ VaultOK'
    BY <1>1 DEF Terminate, VaultOK
  <1>3. /\ fifo' = [p \in Profiles |-> EmptyFifo]
        /\ profiles' = [p \in Profiles |-> NoEndpoint]
        /\ stalled' = << >>
    BY DEF Terminate
  <1>4. fifo' \in [Profiles -> Fifos] /\ QueuesOK'
    BY <1>3, EmptyFifoType DEF QueuesOK, Fifos
  <1>5. stalled' \in Seq(Profiles)
    BY <1>3, EmptySeq
  <1>6. Rest'
    BY <1>2, <1>3, <1>5, NoValueAssumption
       DEF Terminate, Rest, SelectionOK, RequestOK, RetryOK, GrantOK, NoRequest,
           NoRetry, NoGrant, RetryWith, Requests, RetryActions, States,
           MaybeToken, MaybeEndpoint
  <1> QED BY <1>4, <1>6

-----------------------------------------------------------------------------
(* The types, and where tokens go                                           *)

\* Every step preserves it, one case per action.
LEMMA InductiveStep == IInv /\ [Next]_vars => IInv'
  <1> SUFFICES ASSUME IInv, [Next]_vars PROVE IInv'
    OBVIOUS
  <1>1. CASE Start
    BY <1>1, StartStep DEF Start
  <1>2. ASSUME NEW p \in Profiles, SwitchProfile(p) PROVE IInv'
    BY <1>2, SwitchStep DEF SwitchProfile
  <1>3. CASE SignIn \/ Register
    BY <1>3, CredentialsStep
  <1>4. CASE SignOut
    BY <1>4, SignOutStep
  <1>5. CASE Retry
    BY <1>5, RetryDeletionStep, RetryActionStep DEF Retry
  <1>6. CASE RequestAccessToken
    BY <1>6, AccessStep
  <1>7. CASE ProbeFinished
    BY <1>7, ProbeStep
  <1>8. CASE AuthAnswered
    BY <1>8, AuthStep
  <1>9. CASE WhoAmIAnswered
    BY <1>9, WhoAmIStep
  <1>10. ASSUME NEW p \in Profiles, StoreAnswers(p) PROVE IInv'
    BY <1>10, ReadStep, SaveStep, DeleteSucceedsStep, DeleteFailsStep
       DEF StoreAnswers
  <1>11. CASE Terminate
    BY <1>11, TerminateStep
  <1>12. CASE UNCHANGED vars
    <2>1. fifo' \in [Profiles -> Fifos] /\ QueuesOK'
      BY <1>12, Parts, SameQueues DEF vars
    <2>2. Rest'
      BY <1>12, Parts
         DEF vars, Rest, SelectionOK, RequestOK, RetryOK, VaultOK, GrantOK
    <2> QED BY <2>1, <2>2, Parts
  <1> QED BY <1>1, <1>2, <1>3, <1>4, <1>5, <1>6, <1>7, <1>8, <1>9, <1>10, <1>11,
             <1>12 DEF Next, Input, Answer

\* The invariant holds in every reachable state.
THEOREM Invariant == Spec => []IInv
  <1> QED BY InitInvariant, InductiveStep, PTL DEF Spec

\* Every variable keeps its type: every queue is a sequence of well formed
\* operations, and an operation is dispatched only when one is queued.
THEOREM TypeCorrect == Spec => []TypeOK
  <1>1. IInv => TypeOK
    BY DEF IInv
  <1> QED BY <1>1, Invariant, PTL

\* A bearer token is sent, or handed to a caller, only for the endpoint whose
\* server issued it, through every restart, reload, switch and retry.
THEOREM TokensStayHome == Spec => []NoTokenToForeignEndpoint
  <1>1. IInv => NoTokenToForeignEndpoint
    <2> SUFFICES ASSUME IInv PROVE NoTokenToForeignEndpoint
      OBVIOUS
    <2>1. request.token \in Tokens \cup {NoToken}
      BY DEF IInv, TypeOK, Requests, MaybeToken
    <2>2. grant.token \in Tokens \cup {NoToken}
      BY DEF IInv, TypeOK, MaybeToken
    <2> QED BY <2>1, <2>2 DEF IInv, RequestOK, GrantOK, NoTokenToForeignEndpoint
  <1> QED BY <1>1, Invariant, PTL

-----------------------------------------------------------------------------
(* Queues                                                                  *)

\* The operations of a queue and their places.
LEMMA OpsOfFifo ==
  ASSUME NEW f \in Fifos
  PROVE  /\ f.ops \in Seq(Ops) /\ f.busy \in BOOLEAN
         /\ Len(f.ops) \in Nat /\ DOMAIN f.ops = 1..Len(f.ops)
         /\ \A i \in DOMAIN f.ops : f.ops[i] \in Ops
         /\ f.ops = << >> <=> Len(f.ops) = 0
         /\ f.ops = << >> <=> OpsOf(f) = {}
  <1>1. /\ f.ops \in Seq(Ops) /\ f.busy \in BOOLEAN
        /\ Len(f.ops) \in Nat /\ DOMAIN f.ops = 1..Len(f.ops)
        /\ \A i \in DOMAIN f.ops : f.ops[i] \in Ops
    BY FifoFields DEF Fifos
  <1>2. f.ops = << >> <=> Len(f.ops) = 0
    BY <1>1, EmptySeq
  <1>3. f.ops = << >> <=> OpsOf(f) = {}
    <2>1. CASE Len(f.ops) = 0
      BY <1>1, <1>2, <2>1 DEF OpsOf
    <2>2. CASE Len(f.ops) # 0
      <3>1. 1 \in DOMAIN f.ops
        BY <1>1, <2>2
      <3>2. f.ops[1] \in OpsOf(f)
        BY <3>1 DEF OpsOf
      <3> QED BY <1>2, <2>2, <3>2
    <2> QED BY <2>1, <2>2
  <1> QED BY <1>1, <1>2, <1>3

\* An operation as it is made, before any of its epochs ends.
New(op) == op.fresh /\ op.sameEndpoint

\* Every operation that the coordinator makes is new.
LEMMA MadeNew ==
  /\ \A purpose, endpoint : New(ReadOp(purpose, endpoint))
  /\ \A token, endpoint : New(SaveOp(token, endpoint))
  /\ \A purpose : New(DeleteOp(purpose))
  BY DEF New, ReadOp, SaveOp, DeleteOp

\* One operation more.
LEMMA EnqueuedOps ==
  ASSUME NEW f \in Fifos, NEW op \in Ops
  PROVE  LET g == Enqueue(f, op)
         IN  /\ g \in Fifos /\ Len(g.ops) = Len(f.ops) + 1
             /\ DOMAIN g.ops = 1..(Len(f.ops) + 1)
             /\ \A i \in DOMAIN f.ops : g.ops[i] = f.ops[i]
             /\ g.ops[Len(f.ops) + 1] = op
  <1>1. f.ops \in Seq(Ops) /\ DOMAIN f.ops = 1..Len(f.ops) /\ Len(f.ops) \in Nat
    BY OpsOfFifo
  <1>2. Enqueue(f, op) \in Fifos
    BY EnqueueType DEF Fifos
  <1>3. Enqueue(f, op).ops = Append(f.ops, op)
    BY DEF Enqueue
  <1> QED BY <1>1, <1>2, <1>3, AppendProperties, LenProperties

\* A new operation at the end of a queue leaves what is due in its place.
LEMMA EnqueueCovered ==
  ASSUME NEW f \in Fifos, NEW op \in Ops, Covered(f), New(op),
         op.kind = "save" => f.ops = << >>
  PROVE  Covered(Enqueue(f, op))
  <1> DEFINE g == Enqueue(f, op)
             n == Len(f.ops)
  <1>1. /\ n \in Nat /\ DOMAIN f.ops = 1..n /\ DOMAIN g.ops = 1..(n + 1)
        /\ \A i \in DOMAIN f.ops : g.ops[i] = f.ops[i]
        /\ g.ops[n + 1] = op
        /\ f.ops = << >> <=> n = 0
    BY EnqueuedOps, OpsOfFifo
  <1> HIDE DEF g, n
  <1>2. SavesFirst(g)
    BY <1>1 DEF Covered, SavesFirst
  <1>3. Compensated(g)
    <2> SUFFICES ASSUME NEW i \in DOMAIN g.ops, IsStaleSave(g.ops[i])
                 PROVE  i + 1 \in DOMAIN g.ops /\ g.ops[i + 1].kind = "delete"
      BY DEF Compensated
    <2>1. i \in DOMAIN f.ops
      BY <1>1 DEF IsStaleSave, New
    <2>2. i + 1 \in DOMAIN f.ops /\ f.ops[i + 1].kind = "delete"
      BY <1>1, <2>1 DEF Covered, Compensated
    <2> QED BY <1>1, <2>2
  <1>4. Separated(g)
    <2> SUFFICES ASSUME NEW i \in DOMAIN g.ops, IsRestoreRead(g.ops[i]),
                        ~g.ops[i].sameEndpoint
                 PROVE  \E k \in DOMAIN g.ops : i < k /\ g.ops[k].kind = "delete"
      BY DEF Separated
    <2>1. i \in DOMAIN f.ops
      BY <1>1 DEF New
    <2>2. PICK k \in DOMAIN f.ops : i < k /\ f.ops[k].kind = "delete"
      BY <1>1, <2>1 DEF Covered, Separated
    <2> QED BY <1>1, <2>2
  <1> QED BY <1>2, <1>3, <1>4 DEF Covered, g

\* A Delete at the end of a queue separates every Read from what comes next.
LEMMA DeleteCovers ==
  ASSUME NEW f \in Fifos, NEW op \in Ops, SavesFirst(f), Compensated(f),
         op.kind = "delete"
  PROVE  Covered(Enqueue(f, op))
  <1> DEFINE g == Enqueue(f, op)
             n == Len(f.ops)
  <1>1. /\ n \in Nat /\ DOMAIN f.ops = 1..n /\ DOMAIN g.ops = 1..(n + 1)
        /\ \A i \in DOMAIN f.ops : g.ops[i] = f.ops[i]
        /\ g.ops[n + 1] = op
    BY EnqueuedOps, OpsOfFifo
  <1> HIDE DEF g, n
  <1>2. SavesFirst(g)
    BY <1>1 DEF SavesFirst
  <1>3. Compensated(g)
    <2> SUFFICES ASSUME NEW i \in DOMAIN g.ops, IsStaleSave(g.ops[i])
                 PROVE  i + 1 \in DOMAIN g.ops /\ g.ops[i + 1].kind = "delete"
      BY DEF Compensated
    <2>1. i \in DOMAIN f.ops
      BY <1>1 DEF IsStaleSave
    <2>2. i + 1 \in DOMAIN f.ops /\ f.ops[i + 1].kind = "delete"
      BY <1>1, <2>1 DEF Compensated
    <2> QED BY <1>1, <2>2
  <1>4. Separated(g)
    <2>1. \A i \in DOMAIN g.ops : IsRestoreRead(g.ops[i]) => i < n + 1
      BY <1>1 DEF IsRestoreRead
    <2> QED BY <1>1, <2>1 DEF Separated
  <1> QED BY <1>2, <1>3, <1>4 DEF Covered, g

\* What is left of a queue when operations leave at its head.
LEMMA ShiftCovered ==
  ASSUME NEW f \in Fifos, NEW g \in Fifos, Covered(f), NEW d \in Nat,
         Len(g.ops) = Len(f.ops) - d,
         \A i \in DOMAIN g.ops : g.ops[i] = f.ops[i + d]
  PROVE  Covered(g)
  <1>1. /\ Len(f.ops) \in Nat /\ DOMAIN f.ops = 1..Len(f.ops)
        /\ Len(g.ops) \in Nat /\ DOMAIN g.ops = 1..Len(g.ops)
    BY OpsOfFifo
  <1>2. \A i \in DOMAIN g.ops : i + d \in DOMAIN f.ops
    BY <1>1
  <1>3. SavesFirst(g)
    <2> SUFFICES ASSUME NEW i \in DOMAIN g.ops, g.ops[i].kind = "save", g.ops[i].fresh
                 PROVE  i = 1
      BY DEF SavesFirst
    <2>1. i + d = 1
      BY <1>2 DEF Covered, SavesFirst
    <2> QED BY <1>1, <2>1
  <1>4. Compensated(g)
    <2> SUFFICES ASSUME NEW i \in DOMAIN g.ops, IsStaleSave(g.ops[i])
                 PROVE  i + 1 \in DOMAIN g.ops /\ g.ops[i + 1].kind = "delete"
      BY DEF Compensated
    <2>1. i + d + 1 \in DOMAIN f.ops /\ f.ops[i + d + 1].kind = "delete"
      BY <1>2 DEF Covered, Compensated
    <2>2. i + 1 \in DOMAIN g.ops /\ (i + 1) + d = i + d + 1
      BY <1>1, <2>1
    <2> QED BY <2>1, <2>2
  <1>5. Separated(g)
    <2> SUFFICES ASSUME NEW i \in DOMAIN g.ops, IsRestoreRead(g.ops[i]),
                        ~g.ops[i].sameEndpoint
                 PROVE  \E k \in DOMAIN g.ops : i < k /\ g.ops[k].kind = "delete"
      BY DEF Separated
    <2>1. PICK k \in DOMAIN f.ops : i + d < k /\ f.ops[k].kind = "delete"
      BY <1>2 DEF Covered, Separated
    <2>2. k - d \in DOMAIN g.ops /\ i < k - d /\ (k - d) + d = k
      BY <1>1, <2>1
    <2> QED BY <2>1, <2>2
  <1> QED BY <1>3, <1>4, <1>5 DEF Covered

\* A queue whose operations are continued by others, or by nobody.
LEMMA RewrittenCovered ==
  ASSUME NEW f, NEW g, Covered(f), DOMAIN g.ops = DOMAIN f.ops,
         \A i \in DOMAIN f.ops :
           /\ g.ops[i].kind = f.ops[i].kind /\ g.ops[i].purpose = f.ops[i].purpose
           /\ g.ops[i].fresh = f.ops[i].fresh
           /\ g.ops[i].sameEndpoint = f.ops[i].sameEndpoint
  PROVE  Covered(g)
  <1>1. SavesFirst(g)
    BY DEF Covered, SavesFirst
  <1>2. Compensated(g)
    BY DEF Covered, Compensated, IsStaleSave
  <1>3. Separated(g)
    BY DEF Covered, Separated, IsRestoreRead
  <1> QED BY <1>1, <1>2, <1>3 DEF Covered

\* A queue whose operations are not continued by any session.
Dead(f) == \A op \in OpsOf(f) : ~op.live

\* g is what is left of f, and no operation that a flow waits for is missing.
Kept(f, g) ==
  /\ OpsOf(g) \subseteq OpsOf(f)
  /\ \A op \in OpsOf(f) : Drives(op) => op \in OpsOf(g)

\* An operation that is awaited, and the only one where it is the head.
LEMMA AwaitedHead ==
  ASSUME NEW f \in Fifos, Orderly(f), f.ops # << >>, Awaited(Head(f.ops))
  PROVE  Len(f.ops) = 1 /\ Tail(f.ops) = << >> /\ OpsOf(f) = {Head(f.ops)}
  <1>1. /\ Len(f.ops) \in Nat /\ Len(f.ops) # 0 /\ DOMAIN f.ops = 1..Len(f.ops)
        /\ f.ops \in Seq(Ops)
    BY OpsOfFifo
  <1>2. Head(f.ops) = f.ops[1]
    BY <1>1, HeadTailProperties
  <1>3. Len(f.ops) = 1
    <2>1. 1 \in DOMAIN f.ops
      BY <1>1
    <2>2. Awaited(f.ops[1])
      BY <1>2
    <2> QED BY <2>1, <2>2 DEF Orderly, Placed
  <1>4. Tail(f.ops) = << >>
    <2>1. Tail(f.ops) \in Seq(Ops) /\ Len(Tail(f.ops)) = 0
      BY <1>1, <1>3, HeadTailProperties
    <2> QED BY <2>1, EmptySeq
  <1>5. OpsOf(f) = {Head(f.ops)}
    BY <1>1, <1>2, <1>3 DEF OpsOf
  <1> QED BY <1>3, <1>4, <1>5

\* Queueing behind operations none of which is awaited.
LEMMA EnqueuePlaced ==
  ASSUME NEW f \in Fifos, NEW op \in Ops, Placed(f), Shaped(op),
         \A o \in OpsOf(f) : ~Awaited(o)
  PROVE  /\ Placed(Enqueue(f, op))
         /\ OpsOf(Enqueue(f, op)) = OpsOf(f) \cup {op}
  <1> DEFINE g == Enqueue(f, op)
  <1>1. /\ f.ops \in Seq(Ops) /\ Len(f.ops) \in Nat
        /\ DOMAIN f.ops = 1..Len(f.ops)
    BY OpsOfFifo
  <1>2. /\ g.ops \in Seq(Ops)
        /\ Len(g.ops) = Len(f.ops) + 1 /\ DOMAIN g.ops = 1..(Len(f.ops) + 1)
        /\ \A i \in 1..Len(f.ops) : g.ops[i] = f.ops[i]
        /\ g.ops[Len(f.ops) + 1] = op
    BY <1>1, AppendProperties, LenProperties DEF Enqueue
  <1>3. Placed(g)
    <2> SUFFICES ASSUME NEW i \in DOMAIN g.ops
                 PROVE  Shaped(g.ops[i]) /\ (Awaited(g.ops[i]) => i = Len(g.ops))
      BY DEF Placed
    <2> HIDE DEF g
    <2>1. CASE i = Len(f.ops) + 1
      BY <1>2, <2>1
    <2>2. CASE i \in 1..Len(f.ops)
      BY <1>1, <1>2, <2>2 DEF Placed, OpsOf
    <2> QED BY <1>1, <1>2, <2>1, <2>2
  <1>4. OpsOf(g) = OpsOf(f) \cup {op}
    <2> HIDE DEF g
    <2>1. ASSUME NEW o \in OpsOf(f) PROVE o \in OpsOf(g)
      BY <1>1, <1>2 DEF OpsOf
    <2>2. op \in OpsOf(g)
      BY <1>1, <1>2 DEF OpsOf
    <2>3. ASSUME NEW o \in OpsOf(g) PROVE o \in OpsOf(f) \cup {op}
      BY <1>1, <1>2 DEF OpsOf
    <2> QED BY <2>1, <2>2, <2>3
  <1> QED BY <1>3, <1>4

\* The same of a new operation, which a Save is only on an empty queue.
LEMMA EnqueueOrderly ==
  ASSUME NEW f \in Fifos, NEW op \in Ops, Orderly(f), Shaped(op), New(op),
         \A o \in OpsOf(f) : ~Awaited(o),
         op.kind = "save" => f.ops = << >>
  PROVE  /\ Orderly(Enqueue(f, op))
         /\ OpsOf(Enqueue(f, op)) = OpsOf(f) \cup {op}
  BY EnqueuePlaced, EnqueueCovered DEF Orderly

\* The end of an orderly queue is one.
LEMMA SuffixOrderly ==
  ASSUME NEW f \in Fifos, Orderly(f), NEW k \in DOMAIN f.ops, NEW g \in Fifos,
         g.ops = SubSeq(f.ops, k, Len(f.ops))
  PROVE  /\ Orderly(g)
         /\ OpsOf(g) = {f.ops[i] : i \in k..Len(f.ops)}
  <1>1. /\ f.ops \in Seq(Ops) /\ Len(f.ops) \in Nat
        /\ DOMAIN f.ops = 1..Len(f.ops)
        /\ \A i \in 1..Len(f.ops) : f.ops[i] \in Ops
    BY OpsOfFifo
  <1>2. /\ Len(g.ops) = Len(f.ops) - k + 1 /\ DOMAIN g.ops = 1..Len(g.ops)
        /\ \A i \in 1..Len(g.ops) : g.ops[i] = f.ops[k + i - 1]
    <2>1. DOMAIN g.ops = 1..Len(g.ops)
      BY OpsOfFifo
    <2>2. \A i \in k..Len(f.ops) : f.ops[i] \in Ops
      BY <1>1
    <2>3. /\ Len(g.ops) = Len(f.ops) - k + 1
          /\ \A i \in 1..(Len(f.ops) - k + 1) : g.ops[i] = f.ops[k + i - 1]
      BY <1>1, <2>2, SubSeqProperties
    <2> QED BY <2>1, <2>3
  <1>3. Orderly(g)
    <2>0. Covered(g)
      <3>1. k - 1 \in Nat /\ Len(g.ops) = Len(f.ops) - (k - 1)
            /\ \A i \in DOMAIN g.ops : g.ops[i] = f.ops[i + (k - 1)]
        BY <1>1, <1>2
      <3> DEFINE d == k - 1
      <3> HIDE DEF d
      <3> QED BY <3>1, ShiftCovered DEF Orderly, d
    <2> SUFFICES ASSUME NEW i \in DOMAIN g.ops
                 PROVE  Shaped(g.ops[i]) /\ (Awaited(g.ops[i]) => i = Len(g.ops))
      BY <2>0 DEF Orderly, Placed
    <2>1. /\ k + i - 1 \in DOMAIN f.ops /\ g.ops[i] = f.ops[k + i - 1]
          /\ k + i - 1 = Len(f.ops) => i = Len(g.ops)
      BY <1>1, <1>2
    <2>2. /\ Shaped(f.ops[k + i - 1])
          /\ Awaited(f.ops[k + i - 1]) => k + i - 1 = Len(f.ops)
      BY <2>1 DEF Orderly, Placed
    <2> QED BY <2>1, <2>2
  <1>4. OpsOf(g) = {f.ops[i] : i \in k..Len(f.ops)}
    <2>1. ASSUME NEW i \in k..Len(f.ops) PROVE f.ops[i] \in OpsOf(g)
      <3> DEFINE j == i - k + 1
      <3>1. j \in 1..Len(g.ops) /\ k + j - 1 = i
        <4>1. k \in Int /\ i \in Int /\ 1 <= k /\ k <= i /\ i <= Len(f.ops)
          BY <1>1
        <4>2. Len(g.ops) = Len(f.ops) - k + 1 /\ Len(f.ops) \in Int
          BY <1>1, <1>2
        <4> QED BY <4>1, <4>2
      <3> HIDE DEF j
      <3>2. g.ops[j] = f.ops[i]
        BY <1>2, <3>1
      <3> QED BY <1>2, <3>1, <3>2 DEF OpsOf
    <2>2. ASSUME NEW o \in OpsOf(g) PROVE o \in {f.ops[i] : i \in k..Len(f.ops)}
      <3>1. PICK i \in 1..Len(g.ops) : o = g.ops[i]
        BY <1>2 DEF OpsOf
      <3>2. k + i - 1 \in k..Len(f.ops) /\ o = f.ops[k + i - 1]
        BY <1>1, <1>2, <3>1
      <3> QED BY <3>2
    <2> QED BY <2>1, <2>2
  <1> QED BY <1>3, <1>4

\* The Saves that are skipped are those of a session that is over.
LEMMA StartFrontKeeps ==
  ASSUME NEW f \in Fifos, Orderly(f)
  PROVE  /\ StartFront(f) \in Fifos /\ Orderly(StartFront(f))
         /\ Kept(f, StartFront(f))
  <1> DEFINE kept == {i \in DOMAIN f.ops : ~IsStaleSave(f.ops[i])}
             first == CHOOSE i \in kept : \A j \in kept : i <= j
             g == StartFront(f)
  <1>0. g \in Fifos
    BY StartFrontType DEF Fifos
  <1>1. CASE f.busy \/ f.ops = << >>
    BY <1>0, <1>1 DEF StartFront, Kept
  <1>2. ASSUME NEW i \in DOMAIN f.ops, Drives(f.ops[i]) PROVE i \in kept
    <2>1. Shaped(f.ops[i])
      BY DEF Orderly, Placed
    <2> QED BY <1>2, <2>1 DEF Shaped, Drives, IsStaleSave
  <1>3. CASE ~(f.busy \/ f.ops = << >>) /\ kept = {}
    <2>1. g = EmptyFifo
      BY <1>3 DEF StartFront
    <2>2. g.ops = << >>
      BY <2>1 DEF EmptyFifo
    <2>3. OpsOf(g) = {}
      BY <1>0, <2>2, OpsOfFifo
    <2>4. Orderly(g)
      BY <2>2 DEF Orderly, Placed, Covered, SavesFirst, Compensated, Separated
    <2>5. \A op \in OpsOf(f) : ~Drives(op)
      BY <1>2, <1>3 DEF OpsOf
    <2> HIDE DEF g
    <2> QED BY <1>0, <2>3, <2>4, <2>5 DEF Kept, g
  <1>4. CASE ~(f.busy \/ f.ops = << >>) /\ kept # {}
    <2>1. kept \subseteq 1..Len(f.ops) /\ Len(f.ops) \in Nat
      BY OpsOfFifo
    <2>2. \E i \in kept : \A j \in kept : i <= j
      <3>1. kept \subseteq Nat /\ kept # {}
        BY <2>1, <1>4
      <3> HIDE DEF kept
      <3> QED BY <3>1, NatSetHasMinimum
    <2>3. first \in kept /\ \A j \in kept : first <= j
      <3> HIDE DEF kept
      <3> QED BY <2>2
    <2>4. first \in DOMAIN f.ops /\ first \in 1..Len(f.ops)
      BY <2>1, <2>3
    <2>5. g.ops = SubSeq(f.ops, first, Len(f.ops))
      BY <1>4 DEF StartFront
    <2>6. \A i \in DOMAIN f.ops : Drives(f.ops[i]) => i \in first..Len(f.ops)
      <3> SUFFICES ASSUME NEW i \in DOMAIN f.ops, Drives(f.ops[i])
                   PROVE  i \in first..Len(f.ops)
        OBVIOUS
      <3>1. i \in kept
        BY <1>2
      <3> HIDE DEF kept, first
      <3> QED BY <2>1, <2>3, <2>4, <3>1
    <2> HIDE DEF g, first, kept
    <2>7. Orderly(g) /\ OpsOf(g) = {f.ops[i] : i \in first..Len(f.ops)}
      BY <1>0, <2>4, <2>5, SuffixOrderly
    <2>8. first..Len(f.ops) \subseteq DOMAIN f.ops
      BY <2>1, <2>4, OpsOfFifo
    <2>9. OpsOf(g) \subseteq OpsOf(f)
      BY <2>7, <2>8 DEF OpsOf
    <2>10. \A op \in OpsOf(f) : Drives(op) => op \in OpsOf(g)
      BY <2>6, <2>7 DEF OpsOf
    <2> QED BY <1>0, <2>7, <2>9, <2>10 DEF Kept, g
  <1> QED BY <1>1, <1>3, <1>4

\* The head leaves, and what is behind it stays.
LEMMA DequeueKeeps ==
  ASSUME NEW f \in Fifos, Orderly(f), f.ops # << >>
  PROVE  /\ Dequeue(f) \in Fifos /\ Orderly(Dequeue(f))
         /\ OpsOf(Dequeue(f)) \subseteq OpsOf(f)
         /\ \A op \in OpsOf(f) : op \in OpsOf(Dequeue(f)) \/ op = Head(f.ops)
  <1> DEFINE g == Dequeue(f)
  <1>1. /\ f.ops \in Seq(Ops) /\ Len(f.ops) \in Nat /\ Len(f.ops) # 0
        /\ DOMAIN f.ops = 1..Len(f.ops)
    BY OpsOfFifo
  <1>2. g \in Fifos
    BY DequeueType DEF Fifos
  <1>3. /\ Len(g.ops) = Len(f.ops) - 1 /\ DOMAIN g.ops = 1..(Len(f.ops) - 1)
        /\ \A i \in 1..(Len(f.ops) - 1) : g.ops[i] = f.ops[i + 1]
        /\ Head(f.ops) = f.ops[1]
    <2>1. g.ops = Tail(f.ops)
      BY DEF Dequeue
    <2> HIDE DEF g
    <2>2. DOMAIN g.ops = 1..Len(g.ops)
      BY <1>2, OpsOfFifo
    <2> QED BY <1>1, <2>1, <2>2, HeadTailProperties
  <1> HIDE DEF g
  <1>4. Orderly(g)
    <2>0. Covered(g)
      BY <1>2, <1>3, ShiftCovered DEF Orderly
    <2> SUFFICES ASSUME NEW i \in DOMAIN g.ops
                 PROVE  Shaped(g.ops[i]) /\ (Awaited(g.ops[i]) => i = Len(g.ops))
      BY <2>0 DEF Orderly, Placed
    <2>1. i + 1 \in DOMAIN f.ops /\ g.ops[i] = f.ops[i + 1]
      BY <1>1, <1>3
    <2>2. Shaped(f.ops[i + 1]) /\ (Awaited(f.ops[i + 1]) => i + 1 = Len(f.ops))
      BY <2>1 DEF Orderly, Placed
    <2> QED BY <1>1, <1>3, <2>1, <2>2
  <1>5. ASSUME NEW op \in OpsOf(g) PROVE op \in OpsOf(f)
    <2>1. PICK i \in 1..(Len(f.ops) - 1) : op = f.ops[i + 1]
      BY <1>3 DEF OpsOf
    <2>2. i + 1 \in DOMAIN f.ops
      BY <1>1
    <2> QED BY <2>1, <2>2 DEF OpsOf
  <1>6. ASSUME NEW op \in OpsOf(f), op # Head(f.ops) PROVE op \in OpsOf(g)
    <2>1. PICK i \in DOMAIN f.ops : op = f.ops[i]
      BY DEF OpsOf
    <2>2. i # 1
      BY <1>3, <1>6, <2>1
    <2>3. i - 1 \in 1..(Len(f.ops) - 1) /\ (i - 1) + 1 = i
      BY <1>1, <2>2
    <2>4. g.ops[i - 1] = op
      BY <1>3, <2>1, <2>3
    <2> QED BY <1>3, <2>3, <2>4 DEF OpsOf
  <1>7. /\ g \in Fifos /\ Orderly(g) /\ OpsOf(g) \subseteq OpsOf(f)
        /\ \A op \in OpsOf(f) : op \in OpsOf(g) \/ op = Head(f.ops)
    BY <1>2, <1>4, <1>5, <1>6
  <1> QED BY <1>7 DEF g

\* A completion whose continuation, if it has one, no flow waits for.
LEMMA AdvanceKeeps ==
  ASSUME NEW f \in Fifos, Orderly(f), f.ops # << >>, ~Drives(Head(f.ops))
  PROVE  /\ Orderly(StartFront(Dequeue(f)))
         /\ Kept(f, StartFront(Dequeue(f)))
  <1> DEFINE g == Dequeue(f)
             h == StartFront(g)
  <1>1. /\ g \in Fifos /\ Orderly(g) /\ OpsOf(g) \subseteq OpsOf(f)
        /\ \A op \in OpsOf(f) : op \in OpsOf(g) \/ op = Head(f.ops)
    BY DequeueKeeps
  <1> HIDE DEF g
  <1>2. Orderly(h) /\ Kept(g, h)
    BY <1>1, StartFrontKeeps
  <1> HIDE DEF h
  <1>3. Kept(f, h)
    BY <1>1, <1>2 DEF Kept
  <1> QED BY <1>2, <1>3 DEF g, h

\* The completion that a flow waits for leaves the queue empty.
LEMMA AdvanceEmpties ==
  ASSUME NEW f \in Fifos, Orderly(f), f.ops # << >>, Drives(Head(f.ops))
  PROVE  /\ Dequeue(f) = EmptyFifo
         /\ StartFront(Dequeue(f)) = EmptyFifo
         /\ OpsOf(f) = {Head(f.ops)}
  <1>1. Tail(f.ops) = << >> /\ OpsOf(f) = {Head(f.ops)}
    BY AwaitedHead DEF Awaited
  <1>2. Dequeue(f) = EmptyFifo
    BY <1>1 DEF Dequeue, EmptyFifo
  <1>3. StartFront(EmptyFifo) = EmptyFifo
    BY DEF StartFront, EmptyFifo
  <1> QED BY <1>1, <1>2, <1>3

\* The empty queue.
LEMMA EmptyOrderly == EmptyFifo \in Fifos /\ Orderly(EmptyFifo) /\ OpsOf(EmptyFifo) = {}
  <1>1. EmptyFifo \in Fifos /\ EmptyFifo.ops = << >>
    BY EmptyFifoType DEF EmptyFifo, Fifos
  <1>2. OpsOf(EmptyFifo) = {}
    BY <1>1, OpsOfFifo
  <1> QED BY <1>1, <1>2 DEF Orderly, Placed, Covered, SavesFirst, Compensated, Separated

\* A flow that queues the next operation it waits for.
LEMMA EnqueueOnEmpty ==
  ASSUME NEW f \in Fifos, OpsOf(f) = {}, NEW op \in Ops, Shaped(op), New(op)
  PROVE  Orderly(Enqueue(f, op)) /\ OpsOf(Enqueue(f, op)) = {op}
  <1>1. f.ops = << >>
    BY OpsOfFifo
  <1>2. Orderly(f)
    BY <1>1 DEF Orderly, Placed, Covered, SavesFirst, Compensated, Separated
  <1> QED BY <1>1, <1>2, EnqueueOrderly

\* What the operations of a queue are when each is rewritten in its place.
LEMMA RewrittenOrderly ==
  ASSUME NEW f \in Fifos, NEW g, Covered(g),
         DOMAIN g.ops = DOMAIN f.ops, Len(g.ops) = Len(f.ops),
         \A i \in DOMAIN f.ops :
           /\ Shaped(g.ops[i])
           /\ Awaited(g.ops[i]) => i = Len(f.ops)
  PROVE  Orderly(g)
  BY DEF Orderly, Placed

\* A restore is continued by the Read that is queued, or by one of its own.
LEMMA RestoreReadAwaited ==
  ASSUME NEW f \in Fifos, Orderly(f), \A op \in OpsOf(f) : ~Drives(op),
         NEW endpoint \in Endpoints
  PROVE  LET g == RequestRestoreRead(f, endpoint)
         IN  /\ Orderly(g)
             /\ \E op \in OpsOf(g) : Drives(op)
             /\ \A op \in OpsOf(g) : Drives(op) => op.kind = "read"
  <1> DEFINE mine == {i \in DOMAIN f.ops :
                        IsRestoreRead(f.ops[i]) /\ f.ops[i].sameEndpoint}
             first == CHOOSE i \in mine : \A j \in mine : i <= j
             read == ReadOp("restore", endpoint)
             g == RequestRestoreRead(f, endpoint)
  <1> SUFFICES /\ Orderly(g)
               /\ \E op \in OpsOf(g) : Drives(op)
               /\ \A op \in OpsOf(g) : Drives(op) => op.kind = "read"
    OBVIOUS
  <1>1. /\ f.ops \in Seq(Ops) /\ Len(f.ops) \in Nat
        /\ DOMAIN f.ops = 1..Len(f.ops)
        /\ \A i \in DOMAIN f.ops : f.ops[i] \in Ops
    BY OpsOfFifo
  <1>2. /\ read \in Ops /\ Shaped(read) /\ New(read) /\ Drives(read)
        /\ read.kind = "read"
    BY DEF Ops, Kinds, Purposes, ReadOp, Shaped, Drives, New
  <1> HIDE DEF read
  <1>3. CASE mine = {}
    <2>1. g = Enqueue(f, read)
      BY <1>3 DEF RequestRestoreRead, read
    <2>2. \A op \in OpsOf(f) : ~Awaited(op)
      BY <1>3 DEF Awaited, OpsOf
    <2>3. Orderly(g) /\ OpsOf(g) = OpsOf(f) \cup {read}
      BY <1>2, <2>1, <2>2, EnqueueOrderly
    <2> QED BY <1>2, <2>3
  <1>4. CASE mine # {}
    <2>1. mine \subseteq 1..Len(f.ops)
      BY <1>1
    <2>2. \E i \in mine : \A j \in mine : i <= j
      <3>1. mine \subseteq Nat
        BY <2>1
      <3> HIDE DEF mine
      <3> QED BY <3>1, <1>4, NatSetHasMinimum
    <2>3. first \in mine
      <3> HIDE DEF mine
      <3> QED BY <2>2
    <2>4. /\ first \in DOMAIN f.ops
          /\ IsRestoreRead(f.ops[first]) /\ f.ops[first].sameEndpoint
      BY <2>3
    <2> DEFINE rebound == [f.ops[first] EXCEPT !.live = TRUE]
    <2>5. /\ rebound \in Ops /\ rebound.kind = "read"
          /\ rebound.purpose = "restore" /\ rebound.live
          /\ rebound.kind = f.ops[first].kind
          /\ rebound.purpose = f.ops[first].purpose
          /\ rebound.fresh = f.ops[first].fresh
          /\ rebound.sameEndpoint = f.ops[first].sameEndpoint
      <3>1. f.ops[first] \in Ops
        BY <1>1, <2>4
      <3> HIDE DEF first, mine
      <3> QED BY <2>4, <3>1 DEF Ops, IsRestoreRead
    <2>6. g = [f EXCEPT !.ops = [f.ops EXCEPT ![first] = rebound]]
      BY <1>4 DEF RequestRestoreRead
    <2> HIDE DEF rebound, first, mine
    <2>7. f = [ops |-> f.ops, busy |-> f.busy]
      BY FifoFields DEF Fifos
    <2>8. g.ops = [f.ops EXCEPT ![first] = rebound]
      <3> HIDE DEF g
      <3> QED BY <2>6, <2>7
    <2> HIDE DEF g
    <2>9. /\ DOMAIN g.ops = DOMAIN f.ops /\ Len(g.ops) = Len(f.ops)
          /\ g.ops[first] = rebound
          /\ \A i \in DOMAIN f.ops : i # first => g.ops[i] = f.ops[i]
      BY <1>1, <2>4, <2>8, LenProperties
    <2>10. first = Len(f.ops)
      BY <2>4 DEF Orderly, Placed, Awaited
    <2>11. Shaped(rebound) /\ Drives(rebound)
      BY <2>5 DEF Shaped, Drives
    <2>12. ASSUME NEW i \in DOMAIN f.ops
           PROVE  Shaped(g.ops[i]) /\ (Awaited(g.ops[i]) => i = Len(f.ops))
      <3>1. CASE i = first
        BY <2>9, <2>10, <2>11, <3>1
      <3>2. CASE i # first
        BY <2>9, <3>2 DEF Orderly, Placed
      <3> QED BY <3>1, <3>2
    <2>13. Orderly(g)
      <3>1. Covered(g)
        BY <2>5, <2>9, RewrittenCovered DEF Orderly
      <3> QED BY <2>9, <2>12, <3>1, RewrittenOrderly
    <2>14. rebound \in OpsOf(g)
      BY <2>4, <2>9 DEF OpsOf
    <2>15. ASSUME NEW op \in OpsOf(g) PROVE op = rebound \/ op \in OpsOf(f)
      BY <2>9 DEF OpsOf
    <2> QED BY <2>5, <2>11, <2>13, <2>14, <2>15
  <1> QED BY <1>3, <1>4

\* An interval tells its length.
LEMMA SameInterval ==
  ASSUME NEW m \in Nat, NEW n \in Nat, 1..m = 1..n PROVE m = n
  <1>1. CASE m < n
    <2>1. n \in 1..n /\ n \notin 1..m
      BY <1>1
    <2> QED BY <2>1
  <1>2. CASE n < m
    <2>1. m \in 1..m /\ m \notin 1..n
      BY <1>2
    <2> QED BY <2>1
  <1> QED BY <1>1, <1>2

\* A queue whose operations are rewritten, and how many there are.
LEMMA MappedQueue ==
  ASSUME NEW f \in Fifos, NEW new,
         new = [i \in DOMAIN f.ops |-> new[i]],
         \A i \in DOMAIN f.ops : new[i] \in Ops
  PROVE  LET g == [f EXCEPT !.ops = new]
         IN  /\ g \in Fifos /\ g.ops = new
             /\ DOMAIN g.ops = DOMAIN f.ops /\ Len(g.ops) = Len(f.ops)
             /\ g.ops = << >> <=> f.ops = << >>
  <1> DEFINE g == [f EXCEPT !.ops = new]
  <1>1. g \in Fifos
    BY MappedOps DEF Fifos
  <1>2. g.ops = new
    <2>1. f = [ops |-> f.ops, busy |-> f.busy]
      BY FifoFields DEF Fifos
    <2> QED BY <2>1
  <1> HIDE DEF g
  <1>3. DOMAIN g.ops = DOMAIN f.ops
    BY <1>2
  <1>4. /\ DOMAIN g.ops = 1..Len(g.ops) /\ Len(g.ops) \in Nat
        /\ DOMAIN f.ops = 1..Len(f.ops) /\ Len(f.ops) \in Nat
        /\ g.ops = << >> <=> Len(g.ops) = 0
        /\ f.ops = << >> <=> Len(f.ops) = 0
    BY <1>1, OpsOfFifo
  <1>5. Len(g.ops) = Len(f.ops)
    <2>1. 1..Len(g.ops) = 1..Len(f.ops)
      BY <1>3, <1>4
    <2> HIDE DEF g
    <2> QED BY <1>4, <2>1, SameInterval
  <1> QED BY <1>1, <1>2, <1>3, <1>4, <1>5 DEF g

\* When a generation ends with no Save of its epoch left, no Save changes.
LEMMA DropLiveOrderly ==
  ASSUME NEW f \in Fifos, Covered(f),
         \A i \in DOMAIN f.ops :
           /\ Shaped([f.ops[i] EXCEPT !.live = FALSE])
           /\ IsRestoreRead(f.ops[i]) /\ f.ops[i].sameEndpoint => i = Len(f.ops)
  PROVE  DropLive(f) \in Fifos /\ Orderly(DropLive(f)) /\ Dead(DropLive(f))
  <1> DEFINE new == [i \in DOMAIN f.ops |-> [f.ops[i] EXCEPT !.live = FALSE]]
             g == DropLive(f)
  <1>1. \A i \in DOMAIN f.ops : f.ops[i] \in Ops
    BY OpsOfFifo
  <1>2. \A i \in DOMAIN f.ops :
          /\ new[i] \in Ops /\ new[i] = [f.ops[i] EXCEPT !.live = FALSE]
          /\ ~new[i].live
          /\ IsRestoreRead(new[i]) <=> IsRestoreRead(f.ops[i])
          /\ new[i].kind = f.ops[i].kind /\ new[i].purpose = f.ops[i].purpose
          /\ new[i].fresh = f.ops[i].fresh
          /\ new[i].sameEndpoint = f.ops[i].sameEndpoint
    BY <1>1 DEF Ops, IsRestoreRead
  <1>3. g = [f EXCEPT !.ops = new] /\ new = [i \in DOMAIN f.ops |-> new[i]]
    BY DEF DropLive
  <1> HIDE DEF new, g
  <1>4. /\ g \in Fifos /\ g.ops = new
        /\ DOMAIN g.ops = DOMAIN f.ops /\ Len(g.ops) = Len(f.ops)
    BY <1>2, <1>3, MappedQueue
  <1>5. \A i \in DOMAIN f.ops :
          Shaped(g.ops[i]) /\ (Awaited(g.ops[i]) => i = Len(f.ops))
    BY <1>2, <1>4 DEF Awaited, Drives
  <1>6. Orderly(g)
    <2>1. Covered(g)
      BY <1>2, <1>4, RewrittenCovered
    <2> QED BY <1>4, <1>5, <2>1, RewrittenOrderly
  <1>7. Dead(g)
    <2>1. \A i \in DOMAIN g.ops : ~g.ops[i].live
      BY <1>2, <1>4
    <2> QED BY <2>1 DEF Dead, OpsOf
  <1> QED BY <1>4, <1>6, <1>7 DEF g

\* The queue of another profile, at the end of a generation.
LEMMA AbandonOther ==
  ASSUME NEW f \in Fifos, Orderly(f), Dead(f)
  PROVE  DropLive(f) \in Fifos /\ Orderly(DropLive(f)) /\ Dead(DropLive(f))
  <1>1. \A i \in DOMAIN f.ops : f.ops[i] \in Ops /\ ~f.ops[i].live
    BY OpsOfFifo DEF Dead, OpsOf
  <1>2. ASSUME NEW i \in DOMAIN f.ops
        PROVE  /\ Shaped([f.ops[i] EXCEPT !.live = FALSE])
               /\ IsRestoreRead(f.ops[i]) /\ f.ops[i].sameEndpoint => i = Len(f.ops)
    <2>1. [f.ops[i] EXCEPT !.live = FALSE] = f.ops[i]
      BY <1>1 DEF Ops
    <2> QED BY <2>1 DEF Orderly, Placed, Awaited
  <1> QED BY <1>2, DropLiveOrderly DEF Orderly

\* The selected profile's queue, at the end of a generation: a Save that was
\* not yet answered is compensated.
LEMMA AbandonSelected ==
  ASSUME NEW f \in Fifos, Orderly(f)
  PROVE  /\ DropLive(Invalidate(f)) \in Fifos
         /\ Orderly(DropLive(Invalidate(f))) /\ Dead(DropLive(Invalidate(f)))
  <1> DEFINE new == [i \in DOMAIN f.ops |->
                       IF f.ops[i].kind = "save"
                       THEN [f.ops[i] EXCEPT !.fresh = FALSE]
                       ELSE f.ops[i]]
             marked == [f EXCEPT !.ops = new]
             cleanup == DeleteOp("cleanup")
             freshSave == /\ f.ops # << >>
                          /\ Head(f.ops).kind = "save" /\ Head(f.ops).fresh
             g == Invalidate(f)
  <1>1. /\ \A i \in DOMAIN f.ops : f.ops[i] \in Ops
        /\ DOMAIN f.ops = 1..Len(f.ops) /\ Len(f.ops) \in Nat
        /\ f.ops \in Seq(Ops)
    BY OpsOfFifo
  <1>2. ASSUME NEW i \in DOMAIN f.ops
        PROVE  /\ new[i] \in Ops
               /\ Shaped([new[i] EXCEPT !.live = FALSE])
               /\ IsRestoreRead(new[i]) /\ new[i].sameEndpoint =>
                    i = Len(f.ops) /\ f.ops[i].kind = "read"
    <2>1. f.ops[i] \in Ops /\ Shaped(f.ops[i])
      BY <1>1 DEF Orderly, Placed
    <2>2. CASE f.ops[i].kind = "save"
      BY <2>1, <2>2 DEF Ops, Shaped, IsRestoreRead
    <2>3. CASE f.ops[i].kind # "save"
      BY <2>1, <2>3 DEF Ops, Shaped, IsRestoreRead, Orderly, Placed, Awaited
    <2> QED BY <2>2, <2>3
  <1>3. new = [i \in DOMAIN f.ops |-> new[i]]
    OBVIOUS
  <1>4. g = IF freshSave THEN Enqueue(marked, cleanup) ELSE marked
    BY DEF Invalidate
  <1> HIDE DEF new
  <1>5. /\ marked \in Fifos /\ marked.ops = new
        /\ DOMAIN marked.ops = DOMAIN f.ops /\ Len(marked.ops) = Len(f.ops)
    BY <1>2, <1>3, MappedQueue
  <1> HIDE DEF marked, g
  <1>6. CASE ~freshSave
    <2>1. g = marked
      BY <1>4, <1>6
    <2>2. ASSUME NEW i \in DOMAIN f.ops PROVE ~(f.ops[i].kind = "save" /\ f.ops[i].fresh)
      <3> SUFFICES ASSUME f.ops[i].kind = "save", f.ops[i].fresh PROVE FALSE
        OBVIOUS
      <3>1. i = 1
        BY DEF Orderly, Covered, SavesFirst
      <3>2. f.ops # << >> /\ Head(f.ops) = f.ops[1]
        BY <1>1, <3>1, HeadTailProperties, OpsOfFifo
      <3> QED BY <1>6, <3>1, <3>2
    <2>3. \A i \in DOMAIN f.ops : new[i] = f.ops[i]
      BY <1>1, <2>2 DEF Ops, new
    <2>4. Covered(marked)
      BY <1>5, <2>3, RewrittenCovered DEF Orderly
    <2> QED BY <1>2, <1>5, <2>1, <2>4, DropLiveOrderly DEF g
  <1>7. CASE freshSave
    <2>1. Head(f.ops) = f.ops[1] /\ 1 \in DOMAIN f.ops
      <3>1. Len(f.ops) # 0
        BY <1>7, OpsOfFifo
      <3> QED BY <1>1, <1>7, <3>1, HeadTailProperties
    <2>2. Shaped(f.ops[1])
      BY <2>1 DEF Orderly, Placed
    <2>3. Awaited(Head(f.ops))
      BY <1>7, <2>1, <2>2 DEF Shaped, Awaited, Drives
    <2>4. Len(f.ops) = 1
      BY <1>7, <2>3, AwaitedHead
    <2>5. cleanup \in Ops /\ Shaped([cleanup EXCEPT !.live = FALSE])
            /\ ~IsRestoreRead(cleanup)
      BY DEF Ops, Kinds, Purposes, DeleteOp, Shaped, IsRestoreRead
    <2> HIDE DEF cleanup
    <2>6. g = [ops |-> Append(marked.ops, cleanup), busy |-> marked.busy \/ marked.ops = << >>]
      BY <1>4, <1>7 DEF Enqueue
    <2>7. g \in Fifos
      BY <1>4, <1>5, <1>7, <2>5, EnqueueType DEF Fifos
    <2>8. /\ DOMAIN g.ops = 1..2 /\ Len(g.ops) = 2
          /\ g.ops[1] = new[1] /\ g.ops[2] = cleanup
      <3>1. marked.ops \in Seq(Ops) /\ Len(marked.ops) = 1
        BY <1>5, <2>4, OpsOfFifo
      <3>2. g.ops = Append(marked.ops, cleanup)
        BY <2>6
      <3>3. DOMAIN g.ops = 1..Len(g.ops)
        BY <2>7, OpsOfFifo
      <3> QED BY <1>5, <2>5, <3>1, <3>2, <3>3, AppendProperties
    <2>9. ASSUME NEW i \in DOMAIN g.ops
          PROVE  /\ Shaped([g.ops[i] EXCEPT !.live = FALSE])
                 /\ IsRestoreRead(g.ops[i]) /\ g.ops[i].sameEndpoint => i = Len(g.ops)
      <3>1. CASE i = 1
        <4>1. f.ops[1].kind = "save"
          BY <1>7, <2>1
        <4> QED BY <1>2, <2>1, <2>8, <3>1, <4>1
      <3>2. CASE i = 2
        BY <2>5, <2>8, <3>2
      <3> QED BY <2>8, <3>1, <3>2
    <2>10. Covered(g)
      <3>1. g.ops[1].kind = "save" /\ ~g.ops[1].fresh /\ g.ops[2].kind = "delete"
        <4>1. new[1] = [f.ops[1] EXCEPT !.fresh = FALSE] /\ f.ops[1] \in Ops
              /\ f.ops[1].kind = "save"
          BY <1>1, <1>7, <2>1 DEF new
        <4>2. new[1].kind = "save" /\ ~new[1].fresh
          BY <4>1 DEF Ops
        <4> QED BY <2>8, <4>2 DEF cleanup, DeleteOp
      <3>2. \A i \in DOMAIN g.ops : i = 1 \/ i = 2
        BY <2>8
      <3>3. SavesFirst(g)
        BY <3>1, <3>2 DEF SavesFirst
      <3>4. Compensated(g)
        BY <2>8, <3>1, <3>2 DEF Compensated, IsStaleSave
      <3>5. Separated(g)
        BY <3>1, <3>2 DEF Separated, IsRestoreRead
      <3> QED BY <3>3, <3>4, <3>5 DEF Covered
    <2> QED BY <2>7, <2>9, <2>10, DropLiveOrderly DEF g
  <1> QED BY <1>6, <1>7

\* A queue that nobody waits for, after the endpoint of its profile changed.
LEMMA EndpointChangeOrderly ==
  ASSUME NEW f \in Fifos, Orderly(f), Dead(f)
  PROVE  /\ Orderly(InvalidateForEndpointChange(f))
         /\ Dead(InvalidateForEndpointChange(f))
  <1> DEFINE new == [i \in DOMAIN f.ops |->
                       IF IsRestoreRead(f.ops[i])
                       THEN [f.ops[i] EXCEPT !.sameEndpoint = FALSE]
                       ELSE f.ops[i]]
             marked == [f EXCEPT !.ops = new]
             again == [i \in DOMAIN marked.ops |->
                         IF marked.ops[i].kind = "save"
                         THEN [marked.ops[i] EXCEPT !.fresh = FALSE]
                         ELSE marked.ops[i]]
             ended == [marked EXCEPT !.ops = again]
             cleanup == DeleteOp("cleanup")
  <1>1. /\ \A i \in DOMAIN f.ops : f.ops[i] \in Ops /\ ~f.ops[i].live
        /\ \A i \in DOMAIN f.ops : Shaped(f.ops[i])
    BY OpsOfFifo DEF Dead, OpsOf, Orderly, Placed
  <1>2. ASSUME NEW i \in DOMAIN f.ops
        PROVE  /\ new[i] \in Ops /\ ~new[i].live /\ Shaped(new[i])
               /\ ~Awaited(new[i])
               /\ new[i].kind = "save" => ~new[i].fresh
    <2>1. f.ops[i] \in Ops /\ ~f.ops[i].live /\ Shaped(f.ops[i])
      BY <1>1
    <2>2. CASE IsRestoreRead(f.ops[i])
      BY <2>1, <2>2 DEF Ops, Shaped, Awaited, Drives, IsRestoreRead
    <2>3. CASE ~IsRestoreRead(f.ops[i])
      BY <2>1, <2>3 DEF Shaped, Awaited, Drives
    <2> QED BY <2>2, <2>3
  <1>3. new = [i \in DOMAIN f.ops |-> new[i]]
    OBVIOUS
  <1>4. InvalidateForEndpointChange(f) = Enqueue(Invalidate(marked), cleanup)
    BY DEF InvalidateForEndpointChange
  <1> HIDE DEF new
  <1>5. /\ marked \in Fifos /\ marked.ops = new
        /\ DOMAIN marked.ops = DOMAIN f.ops
        /\ marked.ops = << >> <=> f.ops = << >>
    BY <1>2, <1>3, MappedQueue
  <1> HIDE DEF marked
  <1>6. /\ again = [i \in DOMAIN marked.ops |-> again[i]]
        /\ \A i \in DOMAIN marked.ops : again[i] = new[i]
    <2>1. ASSUME NEW i \in DOMAIN marked.ops PROVE again[i] = new[i]
      <3>1. marked.ops[i] = new[i] /\ new[i] \in Ops
            /\ (new[i].kind = "save" => ~new[i].fresh)
        BY <1>2, <1>5
      <3>2. CASE new[i].kind = "save"
        BY <3>1, <3>2 DEF Ops
      <3>3. CASE new[i].kind # "save"
        BY <3>1, <3>3
      <3> QED BY <3>2, <3>3
    <2> QED BY <2>1
  <1>7. Invalidate(marked) = ended
    <2>1. marked.ops # << >> => ~(Head(marked.ops).kind = "save" /\ Head(marked.ops).fresh)
      <3>1. SUFFICES ASSUME marked.ops # << >>
                     PROVE  ~(Head(marked.ops).kind = "save" /\ Head(marked.ops).fresh)
        OBVIOUS
      <3>2. marked.ops \in Seq(Ops) /\ 1 \in DOMAIN marked.ops
        BY <1>5, <3>1, OpsOfFifo
      <3>3. Head(marked.ops) = marked.ops[1]
        BY <3>1, <3>2, HeadTailProperties
      <3> QED BY <1>2, <1>5, <3>2, <3>3
    <2> QED BY <2>1 DEF Invalidate
  <1> HIDE DEF again
  <1>8. /\ ended \in Fifos /\ ended.ops = again
        /\ DOMAIN ended.ops = DOMAIN marked.ops
    BY <1>2, <1>5, <1>6, MappedQueue
  <1> HIDE DEF ended
  <1>9. \A i \in DOMAIN ended.ops :
          ~ended.ops[i].live /\ Shaped(ended.ops[i]) /\ ~Awaited(ended.ops[i])
    BY <1>2, <1>5, <1>6, <1>8
  <1>10. Placed(ended) /\ SavesFirst(ended) /\ Compensated(ended)
    <2>1. Placed(ended)
      BY <1>9 DEF Placed
    <2>2. \A i \in DOMAIN f.ops : ended.ops[i] = new[i]
      BY <1>5, <1>6, <1>8
    <2>3. DOMAIN ended.ops = DOMAIN f.ops
      BY <1>5, <1>8
    <2>4. \A i \in DOMAIN f.ops :
            /\ ended.ops[i].kind = f.ops[i].kind
            /\ ended.ops[i].kind = "save" => ~ended.ops[i].fresh /\ ~f.ops[i].fresh
      <3> SUFFICES ASSUME NEW i \in DOMAIN f.ops
                   PROVE  /\ new[i].kind = f.ops[i].kind
                          /\ new[i].kind = "save" => ~new[i].fresh /\ ~f.ops[i].fresh
        BY <2>2
      <3>1. f.ops[i] \in Ops /\ ~f.ops[i].live /\ Shaped(f.ops[i])
        BY <1>1
      <3>2. f.ops[i].kind = "save" => ~f.ops[i].fresh
        BY <3>1 DEF Shaped
      <3>3. new[i].kind = f.ops[i].kind
        BY <3>1 DEF Ops, new
      <3> QED BY <1>2, <3>2, <3>3
    <2> HIDE DEF again
    <2>5. SavesFirst(ended)
      BY <2>3, <2>4 DEF SavesFirst
    <2>6. Compensated(ended)
      BY <2>3, <2>4 DEF Compensated, IsStaleSave, Orderly, Covered
    <2> QED BY <2>1, <2>5, <2>6
  <1>11. \A op \in OpsOf(ended) : ~op.live /\ ~Awaited(op)
    BY <1>9 DEF OpsOf
  <1>12. /\ cleanup \in Ops /\ Shaped(cleanup) /\ ~cleanup.live
         /\ cleanup.kind = "delete"
    BY DEF Ops, Kinds, Purposes, DeleteOp, Shaped
  <1> HIDE DEF cleanup
  <1>13. /\ Orderly(Enqueue(ended, cleanup))
         /\ OpsOf(Enqueue(ended, cleanup)) = OpsOf(ended) \cup {cleanup}
    BY <1>8, <1>10, <1>11, <1>12, EnqueuePlaced, DeleteCovers DEF Orderly
  <1> QED BY <1>4, <1>7, <1>11, <1>12, <1>13 DEF Dead

-----------------------------------------------------------------------------
(* The queues of all profiles                                              *)

\* What the two invariants say of one queue.
LEMMA QueueFacts ==
  ASSUME IInv, QueuesOrderly, NEW p \in Profiles
  PROVE  /\ fifo[p] \in Fifos /\ Orderly(fifo[p])
         /\ \A op \in OpsOf(fifo[p]) : op \in GoodOps(profiles[p], p = selected)
         /\ p # selected => Dead(fifo[p])
         /\ p = selected => SelectedOps = OpsOf(fifo[p])
  <1>1. fifo[p] \in FifosOf(GoodOps(profiles[p], p = selected))
    BY QueueOf DEF IInv
  <1>2. fifo[p] \in Fifos /\ Orderly(fifo[p])
    BY DEF IInv, TypeOK, QueuesOrderly
  <1>3. \A op \in OpsOf(fifo[p]) : op \in GoodOps(profiles[p], p = selected)
    BY <1>1, FifoFields DEF OpsOf
  <1>4. p # selected => Dead(fifo[p])
    BY <1>3 DEF GoodOps, Dead
  <1>5. p = selected => SelectedOps = OpsOf(fifo[p])
    BY DEF SelectedOps
  <1> QED BY <1>2, <1>3, <1>4, <1>5

\* The queues of an abandoned session.
LEMMA AbandonedOrderly ==
  ASSUME IInv, QueuesOrderly, NEW p \in Profiles
  PROVE  Abandoned[p] \in Fifos /\ Orderly(Abandoned[p]) /\ Dead(Abandoned[p])
  <1>1. CASE p = selected
    BY <1>1, QueueFacts, AbandonSelected DEF Abandoned
  <1>2. CASE p # selected
    BY <1>2, QueueFacts, AbandonOther DEF Abandoned
  <1> QED BY <1>1, <1>2

\* The same after a reload.
LEMMA ReconciledOrderly ==
  ASSUME IInv, QueuesOrderly, NEW new, NEW p \in Profiles
  PROVE  /\ Orderly(Reconciled(Abandoned, new)[p])
         /\ Dead(Reconciled(Abandoned, new)[p])
  <1>1. Abandoned[p] \in Fifos /\ Orderly(Abandoned[p]) /\ Dead(Abandoned[p])
    BY AbandonedOrderly
  <1>2. Reconciled(Abandoned, new)[p] \in
          {Abandoned[p], InvalidateForEndpointChange(Abandoned[p])}
    BY DEF Reconciled
  <1> QED BY <1>1, <1>2, EndpointChangeOrderly

\* A step that leaves every queue dead leaves no flow waiting for one.
LEMMA DeadQueues ==
  ASSUME \A p \in Profiles : Orderly(fifo'[p]) /\ Dead(fifo'[p])
  PROVE  QueuesOrderly' /\ (\A op \in SelectedOps' : ~Drives(op)) /\ ~Driven'
  <1>1. \A op \in SelectedOps' : ~op.live
    BY DEF SelectedOps, Dead
  <1> QED BY <1>1 DEF QueuesOrderly, Driven, Drives

\* A step that replaces one queue by an orderly one.
LEMMA ReplaceOrderly ==
  ASSUME IInv, QueuesOrderly, NEW p \in Profiles, NEW f, Orderly(f),
         fifo' = [fifo EXCEPT ![p] = f], UNCHANGED selected
  PROVE  /\ QueuesOrderly'
         /\ p = selected => SelectedOps' = OpsOf(f)
         /\ p # selected => SelectedOps' = SelectedOps
  <1>1. fifo \in [Profiles -> Fifos]
    BY DEF IInv, TypeOK
  <1>2. \A q \in Profiles : fifo'[q] = IF q = p THEN f ELSE fifo[q]
    BY <1>1
  <1> QED BY <1>2 DEF QueuesOrderly, SelectedOps

-----------------------------------------------------------------------------
(* Every step preserves the course of a session                            *)

\* The conditions under which a state is expected to be left, or not.
Halted == {"Loading", "ProfileStorageFailure", "RecoverableFailure",
           "Incompatible", "ServerMaintenance"}

\* Nothing is outstanding, or only a probe that has just been started.
Resting ==
  /\ QueuesOrderly /\ ~Driven /\ request = NoRequest /\ grant = NoGrant
  /\ \/ /\ probe = "none" /\ state \in Halted
        /\ retryAction.kind \in {"none", "start", "probe", "switch"}
     \/ /\ probe = "running" /\ state = "ProbingCapabilities"
        /\ retryAction.kind = "none"

\* A session that rests is on course.
LEMMA RestingCourse == Resting => Course
  <1> SUFFICES ASSUME Resting PROVE Course
    OBVIOUS
  <1>1. FlowsOK
    BY DEF Resting, FlowsOK, Active, Halted
  <1>2. StateOK
    BY DEF Resting, StateOK, Halted
  <1>3. StoreOK
    BY DEF Resting, StoreOK, Driven, Halted, NoRequest, Interactive
  <1>4. StateTellsTheStore /\ AccessTokenIsCurrentSession
    BY DEF Resting, StateTellsTheStore, SignedInIsDurable, SignedOutIsClean,
           AccessTokenIsCurrentSession, Halted, NoGrant
  <1> QED BY <1>1, <1>2, <1>3, <1>4 DEF Resting, Course

\* Hence also of the next state.
LEMMA RestingNext == Resting' => Course'
  BY RestingCourse, PTL

\* startProbe() on queues that no flow waits for.
LEMMA ProbeStarts ==
  ASSUME StartProbe, QueuesOrderly', ~Driven', request' = NoRequest,
         grant' = NoGrant
  PROVE  Course'
  <1>1. Resting'
    BY DEF StartProbe, Resting, NoRetry, RetryWith, Halted
  <1> QED BY <1>1, RestingNext

\* start() alone, and as a retry.
LEMMA StartCourse ==
  ASSUME IInv, Course, DoStart, grant' = NoGrant PROVE Course'
  <1>1. QueuesOrderly
    BY DEF Course
  <1>2. CASE StartFails
    <2>1. \A p \in Profiles : Orderly(fifo'[p]) /\ Dead(fifo'[p])
      BY <1>1, <1>2, AbandonedOrderly DEF StartFails
    <2>2. QueuesOrderly' /\ ~Driven'
      BY <2>1, DeadQueues
    <2>3. Resting'
      BY <1>2, <2>2 DEF StartFails, DoStart, Resting, RetryWith, Halted
    <2> QED BY <2>3, RestingNext
  <1>3. ASSUME NEW image \in SettingsImages, StartLoads(image) PROVE Course'
    <2>1. PICK seeded : fifo' = Reconciled(Abandoned, seeded)
      BY <1>3 DEF StartLoads
    <2>2. \A p \in Profiles : Orderly(fifo'[p]) /\ Dead(fifo'[p])
      BY <1>1, <2>1, ReconciledOrderly
    <2>3. QueuesOrderly' /\ ~Driven'
      BY <2>2, DeadQueues
    <2>4. StartProbe /\ request' = NoRequest
      BY <1>3 DEF StartLoads, DoStart
    <2> QED BY <2>3, <2>4, ProbeStarts
  <1> QED BY <1>2, <1>3 DEF DoStart

\* switchProfile() alone, and as a retry.
LEMMA SwitchCourse ==
  ASSUME IInv, Course, NEW p \in Profiles, DoSwitch(p), grant' = NoGrant
  PROVE  Course'
  <1>1. CASE SwitchUnknown(p) \/ SwitchNotSaved(p)
    <2>1. /\ UNCHANGED <<user, profiles, selected, probe, request, fifo, vault>>
          /\ state' = "ProfileStorageFailure"
          /\ retryAction'.kind \in {"none", "switch"}
      BY <1>1 DEF SwitchUnknown, SwitchNotSaved, DoSwitch, NoRetry, RetryWith,
                  RetrySwitchTo
    <2>2. QueuesOrderly' /\ SelectedOps' = SelectedOps /\ Driven' = Driven
      BY <2>1 DEF Course, QueuesOrderly, SelectedOps, Driven
    <2>3. FlowsOK' /\ StateOK'
      BY <2>1, <2>2 DEF Course, FlowsOK, StateOK, Active
    <2>4. StoreOK'
      BY <2>1, <2>2 DEF Course, StoreOK
    <2>5. StateTellsTheStore' /\ AccessTokenIsCurrentSession'
      BY <2>1 DEF StateTellsTheStore, SignedInIsDurable, SignedOutIsClean,
                  AccessTokenIsCurrentSession, NoGrant
    <2> QED BY <2>2, <2>3, <2>4, <2>5 DEF Course
  <1>2. CASE SwitchSaved(p)
    <2>1. \A q \in Profiles : Orderly(fifo'[q]) /\ Dead(fifo'[q])
      BY <1>2, AbandonedOrderly DEF SwitchSaved, Course
    <2>2. QueuesOrderly' /\ ~Driven'
      BY <2>1, DeadQueues
    <2> QED BY <1>2, <2>2, ProbeStarts DEF SwitchSaved
  <1> QED BY <1>1, <1>2 DEF DoSwitch

\* A step that leaves the queues and the selection alone.
LEMMA QueuesStay ==
  ASSUME QueuesOrderly, UNCHANGED <<selected, fifo>>
  PROVE  QueuesOrderly' /\ SelectedOps' = SelectedOps /\ Driven' = Driven
  BY DEF QueuesOrderly, SelectedOps, Driven

\* A selected profile has an endpoint.
LEMMA SelectedProfile ==
  ASSUME IInv, selected # NoProfile
  PROVE  selected \in Profiles /\ profiles[selected] \in Endpoints
  BY DEF IInv, TypeOK, SelectionOK

\* A credential is read only while nothing else is outstanding.
LEMMA RestoreCourse ==
  ASSUME IInv, Course, StartRestore, selected # NoProfile, ~Driven,
         request = NoRequest, probe' = "none",
         retryAction'.kind \in {"none", "switch"}, grant' = NoGrant,
         UNCHANGED <<user, profiles, selected, request, vault>>
  PROVE  Course'
  <1> DEFINE f == RequestRestoreRead(fifo[selected], profiles[selected])
  <1>1. selected \in Profiles /\ profiles[selected] \in Endpoints
    BY SelectedProfile
  <1>2. QueuesOrderly /\ \A op \in SelectedOps : ~Drives(op)
    BY DEF Course, Driven
  <1>3. /\ Orderly(f)
        /\ \E op \in OpsOf(f) : Drives(op)
        /\ \A op \in OpsOf(f) : Drives(op) => op.kind = "read"
    BY <1>1, <1>2, QueueFacts, RestoreReadAwaited
  <1>4. fifo' = [fifo EXCEPT ![selected] = f]
    BY DEF StartRestore
  <1> HIDE DEF f
  <1>5. QueuesOrderly' /\ SelectedOps' = OpsOf(f)
    BY <1>1, <1>2, <1>3, <1>4, ReplaceOrderly
  <1>6. Driven' /\ \A op \in SelectedOps' : Drives(op) => op.kind = "read"
    BY <1>3, <1>5 DEF Driven
  <1>7. state' \in {"SecureStorageUnavailable", "RestoringCredential"}
    BY DEF StartRestore
  <1>8. FlowsOK' /\ StateOK'
    BY <1>6, <1>7 DEF FlowsOK, StateOK, Active
  <1>9. StoreOK'
    BY <1>6 DEF StoreOK, NoRequest, Interactive
  <1>10. StateTellsTheStore' /\ AccessTokenIsCurrentSession'
    BY <1>7 DEF StateTellsTheStore, SignedInIsDurable, SignedOutIsClean,
                AccessTokenIsCurrentSession, NoGrant
  <1> QED BY <1>5, <1>8, <1>9, <1>10 DEF Course

\* The capability probe answers.
LEMMA ProbeCourse == ASSUME IInv, Course, ProbeFinished PROVE Course'
  <1>0. PICK o \in ProbeOutcomes : ProbeFinishedWith(o)
    BY DEF ProbeFinished
  <1>1. /\ request = NoRequest /\ ~Driven
        /\ retryAction.kind \in {"none", "switch"} /\ selected # NoProfile
    BY <1>0 DEF ProbeFinishedWith, Course, FlowsOK, Active, IInv, SelectionOK
  <1>2. /\ probe' = "none" /\ grant' = NoGrant
        /\ UNCHANGED <<user, profiles, selected, request, vault>>
    BY <1>0 DEF ProbeFinishedWith
  <1>3. CASE StartRestore /\ UNCHANGED retryAction
    BY <1>1, <1>2, <1>3, RestoreCourse
  <1>4. CASE /\ state' = AfterProbe(o) /\ retryAction' = RetryWith("probe")
             /\ UNCHANGED fifo
    <2>1. QueuesOrderly' /\ ~Driven'
      BY <1>1, <1>2, <1>4, QueuesStay DEF Course
    <2>2. Resting'
      BY <1>1, <1>2, <1>4, <2>1 DEF Resting, AfterProbe, Halted, RetryWith
    <2> QED BY <2>2, RestingNext
  <1> QED BY <1>0, <1>3, <1>4 DEF ProbeFinishedWith

\* signIn() and registerAccount().
LEMMA CredentialsCourse == ASSUME IInv, Course, SignIn \/ Register PROVE Course'
  <1>1. PICK kind \in {"authenticate", "register"},
             busyState \in {"Authenticating", "Registering"} :
          SendCredentials(kind, busyState)
    BY DEF SignIn, Register
  <1>2. /\ state' = busyState /\ request' = Request(kind, NoToken)
        /\ grant' = NoGrant /\ state = "SignedOut"
        /\ UNCHANGED <<user, profiles, selected, probe, retryAction, fifo, vault>>
    BY <1>1 DEF SendCredentials
  <1>3. /\ probe = "none" /\ SelectedOps = {}
        /\ retryAction.kind \in {"none", "switch"} /\ vault[selected] = NoEntry
    BY <1>2 DEF Course, StateOK, FlowsOK, StateTellsTheStore, SignedOutIsClean
  <1>4. QueuesOrderly' /\ SelectedOps' = SelectedOps /\ Driven' = Driven
    BY <1>2, QueuesStay DEF Course
  <1>5. request'.kind = kind
    BY <1>2 DEF Request
  <1>6. FlowsOK' /\ StateOK'
    BY <1>2, <1>3, <1>4, <1>5 DEF FlowsOK, StateOK, Active, Interactive
  <1>7. StoreOK'
    BY <1>2, <1>3, <1>4, <1>5 DEF StoreOK, Interactive
  <1>8. StateTellsTheStore' /\ AccessTokenIsCurrentSession'
    BY <1>2, <1>3 DEF StateTellsTheStore, SignedInIsDurable, SignedOutIsClean,
                      AccessTokenIsCurrentSession, NoGrant
  <1> QED BY <1>4, <1>6, <1>7, <1>8 DEF Course

\* What an outstanding request leaves no room for.
LEMMA RequestAlone ==
  ASSUME IInv, Course, request.kind # "none"
  PROVE  /\ request # NoRequest /\ probe = "none" /\ SelectedOps = {} /\ ~Driven
         /\ retryAction.kind \in {"none", "switch"}
         /\ state \notin {"SignedIn", "SignedOut", "SigningOut",
                         "ProbingCapabilities"}
  <1>1. request # NoRequest
    BY DEF NoRequest
  <1>2. probe = "none"
    BY <1>1 DEF Course, FlowsOK, IInv, TypeOK
  <1>3. SelectedOps = {} /\ ~Driven
    BY <1>1 DEF Course, FlowsOK, Driven
  <1>4. retryAction.kind \in {"none", "switch"}
    BY <1>1 DEF Course, FlowsOK, Active
  <1>5. state \notin {"SignedIn", "SignedOut", "SigningOut", "ProbingCapabilities"}
    BY <1>1, <1>2, <1>3 DEF Course, StateOK
  <1> QED BY <1>1, <1>2, <1>3, <1>4, <1>5

\* An outstanding request that is given up for a state of rest.
LEMMA EnterMaintenanceCourse ==
  ASSUME IInv, Course, request.kind # "none", EnterMaintenance, grant' = NoGrant,
         UNCHANGED <<probe, selected, fifo>>
  PROVE  Course'
  <1>1. probe = "none" /\ ~Driven
    BY RequestAlone
  <1>2. QueuesOrderly' /\ ~Driven'
    BY <1>1, QueuesStay DEF Course
  <1>3. Resting'
    BY <1>1, <1>2 DEF EnterMaintenance, Settle, Resting, RetryWith, Halted
  <1> QED BY <1>3, RestingNext

\* A sign-in that is refused leaves a store without a credential.
LEMMA RefusedCourse ==
  ASSUME IInv, Course, request.kind \in Interactive, Settle("SignedOut"),
         request' = NoRequest, grant' = NoGrant,
         UNCHANGED <<retryAction, probe, profiles, selected, fifo, vault>>
  PROVE  Course'
  <1>1. /\ probe = "none" /\ SelectedOps = {} /\ ~Driven
        /\ retryAction.kind \in {"none", "switch"}
    BY RequestAlone DEF Interactive
  <1>2. vault[selected] = NoEntry
    BY DEF Course, StoreOK
  <1>3. QueuesOrderly' /\ SelectedOps' = {} /\ ~Driven'
    BY <1>1, QueuesStay DEF Course
  <1>4. state' = "SignedOut"
    BY DEF Settle
  <1>5. FlowsOK' /\ StateOK'
    BY <1>1, <1>3, <1>4 DEF FlowsOK, StateOK, Active
  <1>6. StoreOK'
    BY <1>1, <1>3 DEF StoreOK, NoRequest, Interactive
  <1>7. StateTellsTheStore' /\ AccessTokenIsCurrentSession'
    BY <1>2, <1>4 DEF StateTellsTheStore, SignedInIsDurable, SignedOutIsClean,
                      AccessTokenIsCurrentSession, NoGrant
  <1> QED BY <1>3, <1>5, <1>6, <1>7 DEF Course

\* The server answers a sign-in or a registration.
LEMMA AuthCourse == ASSUME IInv, Course, AuthAnswered PROVE Course'
  <1>0. PICK o \in AuthOutcomes : AuthAnsweredWith(o)
    BY DEF AuthAnswered
  <1>1. /\ request.kind \in Interactive /\ request.kind # "none" /\ grant' = NoGrant
        /\ UNCHANGED <<profiles, selected, probe, fifo, stalled, vault>>
    BY <1>0 DEF AuthAnsweredWith, Interactive
  <1>2. CASE EnterMaintenance
    BY <1>1, <1>2, EnterMaintenanceCourse
  <1>3. CASE Settle("SignedOut") /\ request' = NoRequest /\ UNCHANGED retryAction
    BY <1>1, <1>3, RefusedCourse
  <1>4. ASSUME NEW t \in Tokens, SendWhoAmI("freshWhoAmI", t),
               UNCHANGED <<state, user, retryAction>>
        PROVE  Course'
    <2>1. /\ probe = "none" /\ SelectedOps = {} /\ ~Driven
          /\ retryAction.kind \in {"none", "switch"}
          /\ state \notin {"SignedIn", "SignedOut", "SigningOut", "ProbingCapabilities"}
      BY <1>1, RequestAlone
    <2>2. request'.kind = "freshWhoAmI"
      BY <1>4 DEF SendWhoAmI, Request
    <2>3. QueuesOrderly' /\ SelectedOps' = {} /\ ~Driven'
      BY <1>1, <2>1, QueuesStay DEF Course
    <2>4. request' # NoRequest
      BY <2>2 DEF NoRequest
    <2>5. FlowsOK' /\ StateOK'
      BY <1>1, <1>4, <2>1, <2>2, <2>3, <2>4 DEF FlowsOK, StateOK, Active, Interactive
    <2>6. vault[selected] = NoEntry
      BY <1>1 DEF Course, StoreOK
    <2>7. StoreOK'
      BY <1>1, <1>4, <2>1, <2>2, <2>3, <2>6 DEF StoreOK
    <2>8. StateTellsTheStore' /\ AccessTokenIsCurrentSession'
      BY <1>1, <1>4, <2>1, <2>6
         DEF StateTellsTheStore, SignedInIsDurable, SignedOutIsClean,
             AccessTokenIsCurrentSession, NoGrant
    <2> QED BY <2>3, <2>5, <2>7, <2>8 DEF Course
  <1> QED BY <1>0, <1>2, <1>3, <1>4 DEF AuthAnsweredWith

\* A step that queues an operation for the selected profile, alone.
LEMMA QueuesNext ==
  ASSUME IInv, Course, selected # NoProfile, SelectedOps = {},
         NEW op \in Ops, Shaped(op), New(op),
         fifo' = [fifo EXCEPT ![selected] = Enqueue(@, op)], UNCHANGED selected
  PROVE  QueuesOrderly' /\ SelectedOps' = {op} /\ Driven' = Drives(op)
  <1> DEFINE f == Enqueue(fifo[selected], op)
  <1>1. selected \in Profiles /\ QueuesOrderly
    BY SelectedProfile DEF Course
  <1>2. Orderly(f) /\ OpsOf(f) = {op}
    BY <1>1, QueueFacts, EnqueueOnEmpty
  <1>3. fifo' = [fifo EXCEPT ![selected] = f]
    OBVIOUS
  <1> HIDE DEF f
  <1>4. QueuesOrderly' /\ SelectedOps' = {op}
    BY <1>1, <1>2, <1>3, ReplaceOrderly
  <1>5. Drives(op) \in BOOLEAN /\ Driven' \in BOOLEAN
    BY DEF Ops, Drives, Driven
  <1>6. Driven' = Drives(op)
    BY <1>4, <1>5 DEF Driven
  <1> QED BY <1>4, <1>6

\* saveFreshlyObtainedToken(), for the account that is shown.
LEMMA SaveCourse ==
  ASSUME IInv, Course, selected # NoProfile, SelectedOps = {}, probe = "none",
         NEW token \in Tokens, SaveFreshToken(token), user' = token,
         request' = NoRequest, retryAction'.kind \in {"none", "switch"},
         state \notin {"SignedIn", "SignedOut", "SigningOut", "ProbingCapabilities"},
         grant' = NoGrant, UNCHANGED <<state, profiles, selected, probe, vault>>
  PROVE  Course'
  <1> DEFINE op == SaveOp(token, profiles[selected])
  <1>1. op \in Ops /\ Shaped(op) /\ Drives(op) /\ op.kind = "save" /\ op.token = token
    BY SelectedProfile DEF Ops, Kinds, Purposes, SaveOp, Shaped, Drives
  <1>0. New(op)
    BY MadeNew
  <1>2. fifo' = [fifo EXCEPT ![selected] = Enqueue(@, op)]
    BY DEF SaveFreshToken
  <1> HIDE DEF op
  <1>3. QueuesOrderly' /\ SelectedOps' = {op} /\ Driven'
    BY <1>0, <1>1, <1>2, QueuesNext
  <1>4. FlowsOK' /\ StateOK'
    BY <1>1, <1>3 DEF FlowsOK, StateOK, Active
  <1>5. StoreOK'
    BY <1>1, <1>3 DEF StoreOK, NoRequest, Interactive
  <1>6. StateTellsTheStore' /\ AccessTokenIsCurrentSession'
    BY DEF Course, StateTellsTheStore, SignedInIsDurable, SignedOutIsClean,
           AccessTokenIsCurrentSession, NoGrant
  <1> QED BY <1>3, <1>4, <1>5, <1>6 DEF Course

\* The server answers a /whoami for a restored token.
LEMMA RestoredWhoAmICourse ==
  ASSUME IInv, Course, NEW o \in AuthOutcomes, RestoredWhoAmIAnswered(o)
  PROVE  Course'
  <1>1. /\ request.kind = "restoredWhoAmI" /\ grant' = NoGrant
        /\ UNCHANGED <<profiles, selected, probe, stalled, vault>>
    BY DEF RestoredWhoAmIAnswered
  <1>2. /\ request # NoRequest /\ probe = "none" /\ SelectedOps = {} /\ ~Driven
        /\ retryAction.kind \in {"none", "switch"}
        /\ state \notin {"SignedIn", "SignedOut", "SigningOut", "ProbingCapabilities"}
    BY <1>1, RequestAlone
  <1>3. /\ request.token \in Tokens /\ selected # NoProfile
        /\ vault[selected] = BoundEntry(profiles[selected], request.token)
    BY <1>1, Requesting, NoValueAssumption DEF IInv, RequestOK, Course, StoreOK
  <1>4. state \notin {"Authenticating", "Registering"}
    BY <1>1, <1>2 DEF Course, StateOK, Interactive
  <1>5. CASE /\ state' = "SignedIn" /\ user' = request.token /\ request' = NoRequest
             /\ UNCHANGED <<retryAction, fifo>>
    <2>1. QueuesOrderly' /\ SelectedOps' = {} /\ ~Driven'
      BY <1>1, <1>2, <1>5, QueuesStay DEF Course
    <2>2. FlowsOK' /\ StateOK'
      BY <1>1, <1>2, <1>5, <2>1 DEF FlowsOK, StateOK, Active
    <2>3. StoreOK'
      BY <1>2, <1>5, <2>1 DEF StoreOK, NoRequest, Interactive
    <2>4. StateTellsTheStore' /\ AccessTokenIsCurrentSession'
      BY <1>1, <1>3, <1>5, NoValueAssumption
         DEF StateTellsTheStore, SignedInIsDurable, SignedOutIsClean,
             AccessTokenIsCurrentSession, NoGrant
    <2> QED BY <2>1, <2>2, <2>3, <2>4 DEF Course
  <1>6. CASE /\ fifo' = [fifo EXCEPT ![selected] = Enqueue(@, DeleteOp("untrusted"))]
             /\ request' = NoRequest /\ UNCHANGED <<state, user, retryAction>>
    <2> DEFINE op == DeleteOp("untrusted")
    <2>1. op \in Ops /\ Shaped(op) /\ New(op) /\ Drives(op) /\ op.kind = "delete"
      BY MadeNew DEF Ops, Kinds, Purposes, DeleteOp, Shaped, Drives
    <2> HIDE DEF op
    <2>2. QueuesOrderly' /\ SelectedOps' = {op} /\ Driven'
      BY <1>1, <1>2, <1>3, <1>6, <2>1, QueuesNext DEF op
    <2>3. FlowsOK' /\ StateOK'
      BY <1>1, <1>2, <1>4, <1>6, <2>1, <2>2 DEF FlowsOK, StateOK, Active
    <2>4. StoreOK'
      BY <1>2, <1>6, <2>1, <2>2 DEF StoreOK, NoRequest, Interactive
    <2>5. StateTellsTheStore' /\ AccessTokenIsCurrentSession'
      BY <1>1, <1>2, <1>4, <1>6
         DEF StateTellsTheStore, SignedInIsDurable, SignedOutIsClean,
             AccessTokenIsCurrentSession, NoGrant
    <2> QED BY <2>2, <2>3, <2>4, <2>5 DEF Course
  <1>7. CASE EnterMaintenance /\ UNCHANGED fifo
    BY <1>1, <1>7, EnterMaintenanceCourse
  <1>8. CASE /\ state' = "RecoverableFailure"
             /\ retryAction' = RetryWithToken("whoami", request.token)
             /\ request' = NoRequest /\ UNCHANGED <<user, fifo>>
    <2>1. QueuesOrderly' /\ SelectedOps' = {} /\ ~Driven'
      BY <1>1, <1>2, <1>8, QueuesStay DEF Course
    <2>2. retryAction'.kind = "whoami" /\ retryAction'.token = request.token
      BY <1>8 DEF RetryWithToken
    <2>3. FlowsOK' /\ StateOK'
      BY <1>1, <1>2, <1>8, <2>1, <2>2 DEF FlowsOK, StateOK, Active
    <2>4. StoreOK'
      BY <1>1, <1>3, <1>8, <2>1, <2>2 DEF StoreOK, NoRequest, Interactive
    <2>5. StateTellsTheStore' /\ AccessTokenIsCurrentSession'
      BY <1>1, <1>8
         DEF StateTellsTheStore, SignedInIsDurable, SignedOutIsClean,
             AccessTokenIsCurrentSession, NoGrant
    <2> QED BY <2>1, <2>3, <2>4, <2>5 DEF Course
  <1> QED BY <1>5, <1>6, <1>7, <1>8 DEF RestoredWhoAmIAnswered

\* The server answers a /whoami for a token just issued.
LEMMA FreshWhoAmICourse ==
  ASSUME IInv, Course, NEW o \in AuthOutcomes, FreshWhoAmIAnswered(o)
  PROVE  Course'
  <1>1. /\ request.kind = "freshWhoAmI" /\ request.kind \in Interactive
        /\ grant' = NoGrant
        /\ UNCHANGED <<profiles, selected, probe, stalled, vault>>
    BY DEF FreshWhoAmIAnswered, Interactive
  <1>2. /\ probe = "none" /\ SelectedOps = {}
        /\ retryAction.kind \in {"none", "switch"}
        /\ state \notin {"SignedIn", "SignedOut", "SigningOut", "ProbingCapabilities"}
    BY <1>1, RequestAlone
  <1>3. request.token \in Tokens /\ selected # NoProfile
    BY <1>1, Requesting, NoValueAssumption DEF IInv, RequestOK
  <1>4. CASE /\ user' = request.token /\ SaveFreshToken(request.token)
             /\ request' = NoRequest /\ UNCHANGED <<state, retryAction>>
    BY <1>1, <1>2, <1>3, <1>4, SaveCourse
  <1>5. CASE Settle("SignedOut") /\ request' = NoRequest /\ UNCHANGED <<retryAction, fifo>>
    BY <1>1, <1>5, RefusedCourse
  <1>6. CASE EnterMaintenance /\ UNCHANGED fifo
    BY <1>1, <1>6, EnterMaintenanceCourse
  <1> QED BY <1>4, <1>5, <1>6 DEF FreshWhoAmIAnswered

\* A step that no flow waits for: it may take operations off a queue, and
\* leaves the entry of the selected profile alone where a state or a flow
\* knows what it is.
LEMMA KeptCourse ==
  ASSUME IInv, Course, NEW p \in Profiles, NEW f, Orderly(f), Kept(fifo[p], f),
         fifo' = [fifo EXCEPT ![p] = f],
         UNCHANGED <<user, profiles, selected, probe, request, retryAction>>,
         state' \in {state, "SecureStorageUnavailable"},
         selected \in Profiles
           /\ (SelectedOps = {} \/ state' \in {"SignedIn", "Authenticating", "Registering"})
           => vault'[selected] = vault[selected],
         AccessTokenIsCurrentSession'
  PROVE  Course'
  <1>1. QueuesOrderly
    BY DEF Course
  <1>2. /\ QueuesOrderly'
        /\ SelectedOps' \subseteq SelectedOps
        /\ \A op \in SelectedOps : Drives(op) => op \in SelectedOps'
    <2>1. /\ QueuesOrderly'
          /\ p = selected => SelectedOps' = OpsOf(f)
          /\ p # selected => SelectedOps' = SelectedOps
      BY <1>1, ReplaceOrderly
    <2>2. CASE p = selected
      BY <1>1, <2>1, <2>2, QueueFacts DEF Kept
    <2>3. CASE p # selected
      BY <2>1, <2>3
    <2> QED BY <2>1, <2>2, <2>3
  <1>3. Driven' <=> Driven
    BY <1>2 DEF Driven
  <1>4. FlowsOK'
    BY <1>2, <1>3 DEF Course, FlowsOK, Active
  <1>5. StateOK'
    BY <1>2, <1>3 DEF Course, StateOK
  <1>6. StoreOK'
    <2>1. request.kind \in Interactive \cup {"restoredWhoAmI"}
            \/ retryAction.kind = "whoami" => vault'[selected] = vault[selected]
      <3> SUFFICES ASSUME request.kind \in Interactive \cup {"restoredWhoAmI"}
                            \/ retryAction.kind = "whoami"
                   PROVE  selected \in Profiles /\ SelectedOps = {}
        OBVIOUS
      <3>1. request # NoRequest \/ retryAction.kind = "whoami"
        BY DEF Interactive, NoRequest
      <3>2. selected # NoProfile /\ SelectedOps = {}
        BY <3>1 DEF Course, FlowsOK, IInv, SelectionOK
      <3> QED BY <3>2, SelectedProfile
    <2> QED BY <1>2, <2>1 DEF Course, StoreOK
  <1>7. StateTellsTheStore'
    <2>1. state' \in {"SignedIn", "SignedOut", "Authenticating", "Registering"} =>
            state' = state /\ vault'[selected] = vault[selected]
      <3> SUFFICES ASSUME state' \in {"SignedIn", "SignedOut", "Authenticating", "Registering"}
                   PROVE  state' = state /\ vault'[selected] = vault[selected]
        OBVIOUS
      <3>1. state' = state
        OBVIOUS
      <3>2. selected \in Profiles
        BY <3>1, SelectedProfile DEF IInv, SelectionOK
      <3>3. state' = "SignedOut" => SelectedOps = {}
        BY <3>1 DEF Course, StateOK
      <3> QED BY <3>1, <3>2, <3>3
    <2> QED BY <2>1 DEF Course, StateTellsTheStore, SignedInIsDurable, SignedOutIsClean
  <1> QED BY <1>2, <1>4, <1>5, <1>6, <1>7 DEF Course

\* No access token is handed out.
LEMMA NothingGranted == ASSUME grant' = NoGrant PROVE AccessTokenIsCurrentSession'
  BY DEF AccessTokenIsCurrentSession, NoGrant

\* What is left of the queue of a session that was signed in: the reads of its
\* access tokens, which nothing waits for any more.
LEMMA AbandonAccess ==
  ASSUME NEW q \in Fifos,
         \A i \in DOMAIN q.ops : q.ops[i].kind = "read" /\ q.ops[i].purpose = "access"
  PROVE  \A o \in OpsOf(DropLive(Invalidate(q))) : ~Awaited(o) /\ o.kind = "read"
  <1>1. q.ops \in Seq(Ops) /\ \A i \in DOMAIN q.ops : q.ops[i] \in Ops
    BY OpsOfFifo
  <1>2. Invalidate(q) = [q EXCEPT !.ops = [i \in DOMAIN q.ops |-> q.ops[i]]]
    <2>1. q.ops # << >> => Head(q.ops).kind # "save"
      <3>1. SUFFICES ASSUME q.ops # << >> PROVE Head(q.ops).kind # "save"
        OBVIOUS
      <3>2. 1 \in DOMAIN q.ops
        BY <3>1, OpsOfFifo
      <3>3. Head(q.ops) = q.ops[1]
        BY <1>1, <3>1, HeadTailProperties
      <3> QED BY <3>2, <3>3
    <2>2. [i \in DOMAIN q.ops |-> IF q.ops[i].kind = "save"
                                  THEN [q.ops[i] EXCEPT !.fresh = FALSE]
                                  ELSE q.ops[i]]
            = [i \in DOMAIN q.ops |-> q.ops[i]]
      OBVIOUS
    <2> QED BY <2>1, <2>2 DEF Invalidate
  <1> DEFINE r == Invalidate(q)
             g == DropLive(r)
  <1>3. r.ops = [i \in DOMAIN q.ops |-> q.ops[i]] /\ r \in Fifos
    <2> DEFINE same == [i \in DOMAIN q.ops |-> q.ops[i]]
    <2>1. q = [ops |-> q.ops, busy |-> q.busy]
      BY FifoFields DEF Fifos
    <2>2. r.ops = same
      BY <1>2, <2>1
    <2>3. same = [i \in DOMAIN q.ops |-> same[i]] /\ \A i \in DOMAIN q.ops : same[i] \in Ops
      BY <1>1
    <2>4. r = [q EXCEPT !.ops = same]
      BY <1>2
    <2> HIDE DEF same, r
    <2>5. r \in Fifos
      BY <2>3, <2>4, MappedQueue
    <2> QED BY <2>2, <2>5 DEF same
  <1> HIDE DEF r
  <1>4. g.ops = [i \in DOMAIN q.ops |-> [q.ops[i] EXCEPT !.live = FALSE]]
    <2>1. r = [ops |-> r.ops, busy |-> r.busy]
      BY <1>3, FifoFields DEF Fifos
    <2> QED BY <1>3, <2>1 DEF DropLive
  <1> HIDE DEF g
  <1>5. \A i \in DOMAIN q.ops : /\ ~Awaited([q.ops[i] EXCEPT !.live = FALSE])
                                /\ [q.ops[i] EXCEPT !.live = FALSE].kind = "read"
    BY <1>1 DEF Ops, Awaited, Drives, IsRestoreRead
  <1>6. \A o \in OpsOf(g) : ~Awaited(o) /\ o.kind = "read"
    <2> SUFFICES ASSUME NEW i \in DOMAIN g.ops
                 PROVE  ~Awaited(g.ops[i]) /\ g.ops[i].kind = "read"
      BY DEF OpsOf
    <2>1. i \in DOMAIN q.ops
      BY <1>4
    <2>2. g.ops[i] = [q.ops[i] EXCEPT !.live = FALSE]
      BY <1>4, <2>1
    <2> QED BY <1>5, <2>1, <2>2
  <1> QED BY <1>6 DEF g, r

\* The queue of a session that is signed in, and what is left when it ends.
LEMMA SignedInQueue ==
  ASSUME IInv, Course, state = "SignedIn"
  PROVE  /\ selected \in Profiles
         /\ \A o \in OpsOf(Abandoned[selected]) : ~Awaited(o) /\ o.kind = "read"
  <1>1. selected \in Profiles /\ QueuesOrderly
    BY SelectedProfile DEF IInv, SelectionOK, Course
  <1>2. \A o \in SelectedOps : o.purpose = "access"
    BY DEF Course, StateOK
  <1>3. /\ fifo[selected] \in Fifos /\ SelectedOps = OpsOf(fifo[selected])
        /\ \A o \in SelectedOps : Shaped(o)
    BY <1>1, QueueFacts DEF Orderly, Placed, OpsOf
  <1>4. \A i \in DOMAIN fifo[selected].ops :
          fifo[selected].ops[i].kind = "read" /\ fifo[selected].ops[i].purpose = "access"
    BY <1>2, <1>3 DEF Shaped, OpsOf
  <1>5. Abandoned[selected] = DropLive(Invalidate(fifo[selected]))
    BY <1>1 DEF Abandoned
  <1> QED BY <1>1, <1>3, <1>4, <1>5, AbandonAccess

\* signOut().
LEMMA SignOutCourse == ASSUME IInv, Course, SignOut PROVE Course'
  <1> DEFINE op == DeleteOp("signOut")
             f == Enqueue(Abandoned[selected], op)
  <1>1. /\ state = "SignedIn" /\ state' = "SigningOut" /\ request' = NoRequest
        /\ probe' = "none" /\ grant' = NoGrant
        /\ fifo' = [Abandoned EXCEPT ![selected] = f]
        /\ UNCHANGED <<user, profiles, selected, vault>>
    BY DEF SignOut
  <1>2. /\ selected \in Profiles /\ QueuesOrderly
        /\ retryAction.kind \in {"none", "switch"}
    BY <1>1, SignedInQueue DEF Course, FlowsOK
  <1>3. \A o \in OpsOf(Abandoned[selected]) : ~Awaited(o)
    BY <1>1, SignedInQueue
  <1>4. op \in Ops /\ Shaped(op) /\ New(op) /\ Drives(op) /\ op.kind = "delete"
    BY MadeNew DEF Ops, Kinds, Purposes, DeleteOp, Shaped, Drives
  <1> HIDE DEF op
  <1>5. Orderly(f) /\ OpsOf(f) = OpsOf(Abandoned[selected]) \cup {op}
    BY <1>2, <1>3, <1>4, AbandonedOrderly, EnqueueOrderly
  <1> HIDE DEF f
  <1>6. /\ QueuesOrderly' /\ SelectedOps' = OpsOf(Abandoned[selected]) \cup {op}
    <2>1. \A p \in Profiles : fifo'[p] = IF p = selected THEN f ELSE Abandoned[p]
      BY <1>1, <1>2 DEF Abandoned
    <2>2. \A p \in Profiles : Orderly(Abandoned[p])
      BY <1>2, AbandonedOrderly
    <2> QED BY <1>1, <1>2, <1>5, <2>1, <2>2 DEF QueuesOrderly, SelectedOps
  <1>7. Driven' /\ \A o \in SelectedOps' : Drives(o) => o.kind = "delete"
    BY <1>3, <1>4, <1>6 DEF Driven, Awaited
  <1>8. retryAction'.kind \in {"none", "switch"}
    BY <1>2 DEF SignOut, NoRetry, RetryWith
  <1>9. FlowsOK' /\ StateOK'
    BY <1>1, <1>7, <1>8 DEF FlowsOK, StateOK, Active
  <1>10. StoreOK'
    BY <1>1, <1>7, <1>8 DEF StoreOK, NoRequest, Interactive
  <1>11. StateTellsTheStore'
    BY <1>1 DEF StateTellsTheStore, SignedInIsDurable, SignedOutIsClean
  <1> QED BY <1>1, <1>6, <1>9, <1>10, <1>11, NothingGranted DEF Course

\* requestAccessToken().
LEMMA AccessCourse == ASSUME IInv, Course, RequestAccessToken PROVE Course'
  <1> DEFINE op == ReadOp("access", profiles[selected])
             f == Enqueue(fifo[selected], op)
  <1>1. /\ state = "SignedIn" /\ grant' = NoGrant
        /\ fifo' = [fifo EXCEPT ![selected] = f]
        /\ UNCHANGED <<state, user, profiles, selected, probe, request, retryAction, vault>>
    BY DEF RequestAccessToken, Exposed
  <1>2. /\ selected \in Profiles /\ profiles[selected] \in Endpoints
        /\ probe = "none" /\ request = NoRequest /\ QueuesOrderly
        /\ retryAction.kind \in {"none", "switch"}
        /\ \A o \in SelectedOps : o.purpose = "access"
    BY <1>1, SelectedProfile DEF IInv, SelectionOK, Course, StateOK, FlowsOK
  <1>3. /\ op \in Ops /\ Shaped(op) /\ New(op) /\ op.purpose = "access"
        /\ op.kind = "read"
    BY <1>2, MadeNew DEF Ops, Kinds, Purposes, ReadOp, Shaped
  <1> HIDE DEF op
  <1>4. SelectedOps = OpsOf(fifo[selected]) /\ \A o \in SelectedOps : ~Awaited(o)
    BY <1>2, QueueFacts DEF Awaited, Drives, IsRestoreRead
  <1>5. Orderly(f) /\ OpsOf(f) = SelectedOps \cup {op}
    BY <1>2, <1>3, <1>4, QueueFacts, EnqueueOrderly
  <1> HIDE DEF f
  <1>6. QueuesOrderly' /\ SelectedOps' = SelectedOps \cup {op}
    BY <1>1, <1>2, <1>5, ReplaceOrderly
  <1>7. \A o \in SelectedOps' : o.purpose = "access" /\ ~Drives(o)
    BY <1>2, <1>3, <1>6 DEF Drives
  <1>8. FlowsOK' /\ StateOK'
    BY <1>1, <1>2, <1>7 DEF FlowsOK, StateOK, Active, Driven
  <1>9. StoreOK'
    BY <1>1, <1>2, <1>7 DEF StoreOK, NoRequest, Interactive
  <1>10. StateTellsTheStore'
    BY <1>1 DEF Course, StateTellsTheStore, SignedInIsDurable, SignedOutIsClean
  <1> QED BY <1>1, <1>6, <1>8, <1>9, <1>10, NothingGranted DEF Course

\* retry() of a stalled deletion.
LEMMA RetryDeletionCourse == ASSUME IInv, Course, RetryDeletion PROVE Course'
  <1> DEFINE p == Head(stalled)
             f == StartFront(fifo[p])
  <1>1. /\ fifo' = [fifo EXCEPT ![p] = f] /\ grant' = NoGrant
        /\ UNCHANGED <<state, user, profiles, selected, probe, request,
                       retryAction, vault>>
    BY DEF RetryDeletion
  <1>2. p \in Profiles
    BY HeadTailProperties DEF RetryDeletion, IInv, TypeOK
  <1>3. Orderly(f) /\ Kept(fifo[p], f)
    BY <1>2, QueueFacts, StartFrontKeeps DEF Course
  <1> HIDE DEF p, f
  <1> QED BY <1>1, <1>2, <1>3, KeptCourse, NothingGranted

\* What a retry that was offered tells: nothing is outstanding.
LEMMA RetryAlone ==
  ASSUME IInv, Course, retryAction.kind \notin {"none", "switch"}
  PROVE  /\ request = NoRequest /\ probe = "none" /\ ~Driven
         /\ state \notin {"SignedIn", "SignedOut", "Authenticating", "Registering",
                         "SigningOut", "ProbingCapabilities"}
         /\ retryAction.kind \in {"restore", "whoami", "save"} =>
              SelectedOps = {} /\ selected # NoProfile
  <1>1. /\ request = NoRequest /\ probe = "none" /\ ~Driven
        /\ state \notin {"SignedIn", "SignedOut", "Authenticating", "Registering"}
    BY DEF Course, FlowsOK, Active, IInv, TypeOK
  <1>2. state \notin {"SigningOut", "ProbingCapabilities"}
    BY <1>1 DEF Course, StateOK
  <1>3. retryAction.kind \in {"restore", "whoami", "save"} =>
          SelectedOps = {} /\ selected # NoProfile
    BY DEF Course, FlowsOK, IInv, SelectionOK
  <1> QED BY <1>1, <1>2, <1>3

\* retry() of anything else.
LEMMA RetryActionCourse == ASSUME IInv, Course, RetryAction PROVE Course'
  <1>1. CASE retryAction.kind = "start" /\ DoStart
    BY <1>1, StartCourse DEF RetryAction
  <1>2. CASE retryAction.kind = "switch" /\ DoSwitch(retryAction.profile)
    BY <1>2, SwitchCourse DEF RetryAction, IInv, RetryOK
  <1>3. CASE /\ retryAction.kind = "probe"
             /\ StartProbe
             /\ UNCHANGED <<user, profiles, selected, request, fifo, stalled, vault>>
    <2>1. request = NoRequest /\ ~Driven
      BY <1>3, RetryAlone
    <2>2. QueuesOrderly' /\ ~Driven' /\ grant' = NoGrant
      BY <1>3, <2>1, QueuesStay DEF Course, RetryAction
    <2> QED BY <1>3, <2>1, <2>2, ProbeStarts
  <1>4. CASE /\ retryAction.kind = "restore"
             /\ StartRestore
             /\ retryAction' = NoRetry
             /\ UNCHANGED <<user, profiles, selected, probe, request, stalled, vault>>
    <2>1. request = NoRequest /\ probe = "none" /\ ~Driven /\ selected # NoProfile
      BY <1>4, RetryAlone
    <2>2. retryAction'.kind = "none" /\ grant' = NoGrant
      BY <1>4 DEF NoRetry, RetryWith, RetryAction
    <2> QED BY <1>4, <2>1, <2>2, RestoreCourse
  <1>5. CASE /\ retryAction.kind = "whoami"
             /\ SendWhoAmI("restoredWhoAmI", retryAction.token)
             /\ retryAction' = NoRetry
             /\ UNCHANGED <<state, user, profiles, selected, probe, fifo, stalled,
                            vault>>
    <2>1. /\ probe = "none" /\ ~Driven /\ SelectedOps = {}
          /\ state \notin {"SignedIn", "SignedOut", "Authenticating", "Registering",
                          "SigningOut", "ProbingCapabilities"}
      BY <1>5, RetryAlone
    <2>2. /\ request'.kind = "restoredWhoAmI" /\ request'.token = retryAction.token
          /\ request' # NoRequest /\ retryAction'.kind = "none"
      BY <1>5 DEF SendWhoAmI, Request, NoRequest, NoRetry, RetryWith
    <2>3. QueuesOrderly' /\ SelectedOps' = {} /\ ~Driven'
      BY <1>5, <2>1, QueuesStay DEF Course
    <2>4. FlowsOK' /\ StateOK'
      BY <1>5, <2>1, <2>2, <2>3 DEF FlowsOK, StateOK, Active
    <2>5. vault[selected] = BoundEntry(profiles[selected], retryAction.token)
      BY <1>5 DEF Course, StoreOK
    <2>6. StoreOK'
      BY <1>5, <2>2, <2>3, <2>5 DEF StoreOK, Interactive
    <2>7. StateTellsTheStore'
      BY <1>5, <2>1 DEF StateTellsTheStore, SignedInIsDurable, SignedOutIsClean
    <2> QED BY <2>3, <2>4, <2>6, <2>7, NothingGranted DEF Course, RetryAction
  <1>6. CASE /\ retryAction.kind = "save"
             /\ SaveFreshToken(retryAction.token)
             /\ retryAction' = NoRetry
             /\ UNCHANGED <<state, user, profiles, selected, probe, request,
                            stalled, vault>>
    <2>1. /\ request = NoRequest /\ probe = "none" /\ SelectedOps = {}
          /\ selected # NoProfile
          /\ state \notin {"SignedIn", "SignedOut", "SigningOut", "ProbingCapabilities"}
      BY <1>6, RetryAlone
    <2>2. retryAction.token \in Tokens /\ user = retryAction.token
      BY <1>6 DEF IInv, RetryOK, Course, StoreOK
    <2>3. retryAction'.kind = "none" /\ grant' = NoGrant
      BY <1>6 DEF NoRetry, RetryWith, RetryAction
    <2> QED BY <1>6, <2>1, <2>2, <2>3, SaveCourse
  <1> QED BY <1>1, <1>2, <1>3, <1>4, <1>5, <1>6 DEF RetryAction

-----------------------------------------------------------------------------
(* The answers of the secure store                                         *)

\* The head of a queue whose call is answered.
LEMMA AnsweredHead ==
  ASSUME IInv, Course, NEW p \in Profiles, fifo[p].busy
  PROVE  /\ fifo[p] \in Fifos /\ Orderly(fifo[p]) /\ fifo[p].ops # << >>
         /\ Head(fifo[p].ops) \in OpsOf(fifo[p]) /\ Shaped(Head(fifo[p].ops))
         /\ Head(fifo[p].ops) \in Ops
         /\ p = selected => SelectedOps = OpsOf(fifo[p])
                              /\ Head(fifo[p].ops) \in SelectedOps
  <1>1. /\ fifo[p] \in Fifos /\ Orderly(fifo[p]) /\ fifo[p].ops # << >>
        /\ p = selected => SelectedOps = OpsOf(fifo[p])
    BY QueueFacts, HeadOp DEF Course
  <1>2. /\ 1 \in DOMAIN fifo[p].ops /\ Head(fifo[p].ops) = fifo[p].ops[1]
        /\ fifo[p].ops[1] \in Ops
    <2>1. /\ fifo[p].ops \in Seq(Ops) /\ 1 \in DOMAIN fifo[p].ops
          /\ fifo[p].ops[1] \in Ops
      BY <1>1, OpsOfFifo
    <2> QED BY <1>1, <2>1, HeadTailProperties
  <1>3. Head(fifo[p].ops) \in OpsOf(fifo[p]) /\ Shaped(Head(fifo[p].ops))
    BY <1>1, <1>2 DEF Orderly, Placed, OpsOf
  <1> QED BY <1>1, <1>2, <1>3

\* The continuation that a flow waits for finds the session waiting for it.
LEMMA DrivingHead ==
  ASSUME IInv, Course, NEW p \in Profiles, fifo[p].busy, Drives(Head(fifo[p].ops))
  PROVE  /\ p = selected /\ selected # NoProfile /\ Driven
         /\ SelectedOps = {Head(fifo[p].ops)}
         /\ StartFront(Dequeue(fifo[p])) = EmptyFifo /\ Dequeue(fifo[p]) = EmptyFifo
         /\ probe = "none" /\ request = NoRequest
         /\ retryAction.kind \in {"none", "switch"}
         /\ state \notin {"SignedIn", "SignedOut", "ProbingCapabilities"}
  <1>1. p = selected /\ selected # NoProfile
    BY LiveHead DEF Drives
  <1>2. /\ SelectedOps = {Head(fifo[p].ops)} /\ Dequeue(fifo[p]) = EmptyFifo
        /\ StartFront(Dequeue(fifo[p])) = EmptyFifo
    BY <1>1, AnsweredHead, AdvanceEmpties
  <1>3. Driven
    BY <1>2 DEF Driven
  <1>4. /\ probe = "none" /\ request = NoRequest
        /\ retryAction.kind \in {"none", "switch"}
    BY <1>2, <1>3 DEF Course, FlowsOK, Active, IInv, TypeOK
  <1>5. state \notin {"SignedIn", "SignedOut", "ProbingCapabilities"}
    BY <1>2, <1>4 DEF Course, StateOK, Drives
  <1> QED BY <1>1, <1>2, <1>3, <1>4, <1>5

\* A completion that no flow waits for, and that leaves the entry alone where
\* a state or a flow knows what it is.
LEMMA UndrivenCourse ==
  ASSUME IInv, Course, NEW p \in Profiles, fifo[p].busy,
         ~Drives(Head(fifo[p].ops)), Advance(p),
         UNCHANGED <<state, user, profiles, selected, probe, request, retryAction>>,
         selected \in Profiles
           /\ (SelectedOps = {} \/ state \in {"SignedIn", "Authenticating", "Registering"})
           => vault'[selected] = vault[selected],
         AccessTokenIsCurrentSession'
  PROVE  Course'
  <1> DEFINE f == StartFront(Dequeue(fifo[p]))
  <1>1. Orderly(f) /\ Kept(fifo[p], f)
    BY AnsweredHead, AdvanceKeeps
  <1>2. fifo' = [fifo EXCEPT ![p] = f]
    BY DEF Advance
  <1> HIDE DEF f
  <1> QED BY <1>1, <1>2, KeptCourse

\* The queue is empty once the operation that a flow waited for is answered.
LEMMA DrivingAdvance ==
  ASSUME IInv, Course, NEW p \in Profiles, fifo[p].busy, Drives(Head(fifo[p].ops)),
         Advance(p), UNCHANGED selected
  PROVE  QueuesOrderly' /\ SelectedOps' = {} /\ ~Driven'
  <1>1. fifo' = [fifo EXCEPT ![p] = EmptyFifo] /\ p = selected
    BY DrivingHead DEF Advance
  <1>2. QueuesOrderly' /\ SelectedOps' = {}
    BY <1>1, EmptyOrderly, ReplaceOrderly DEF Course
  <1> QED BY <1>2 DEF Driven

\* A restore read answers.
LEMMA RestoreReadCourse ==
  ASSUME IInv, Course, NEW p \in Profiles, Answering(p, "read"),
         NEW o \in ReadOutcomes(p), RestoreReadAnswered(p, o),
         UNCHANGED <<profiles, selected, probe, vault>>
  PROVE  Course'
  <1> DEFINE op == Head(fifo[p].ops)
  <1>1. fifo[p].busy /\ Drives(op) /\ op.kind = "read" /\ grant' = NoGrant
    BY DEF Answering, RestoreReadAnswered, IsRestoreRead, Drives
  <1>2. /\ p = selected /\ selected # NoProfile
        /\ SelectedOps = {op} /\ Dequeue(fifo[p]) = EmptyFifo
        /\ probe = "none" /\ request = NoRequest
        /\ retryAction.kind \in {"none", "switch"}
        /\ state \notin {"SignedIn", "SignedOut", "ProbingCapabilities"}
    BY <1>1, DrivingHead
  <1>3. state \notin {"SigningOut", "Authenticating", "Registering"}
    <2>1. NoRequest.kind \notin Interactive
      BY DEF NoRequest, Interactive
    <2> HIDE DEF op
    <2>2. op.kind # "delete" /\ op.kind # "save"
      BY <1>1
    <2> QED BY <1>1, <1>2, <2>1, <2>2 DEF Course, StateOK
  <1>4. vault[p] \in Entries /\ op.endpoint = profiles[p]
    BY <1>1, LiveHead DEF IInv, TypeOK, Drives
  <1>5. Advance(p) => QueuesOrderly' /\ SelectedOps' = {} /\ ~Driven'
    BY <1>1, DrivingAdvance
  <1> HIDE DEF op
  <1>6. CASE o = "notFound" /\ Settle("SignedOut") /\ Advance(p) /\ UNCHANGED <<request, retryAction>>
    <2>1. vault[p] = NoEntry
      BY <1>4, <1>6 DEF ReadOutcomes, ReadOutcome, Entries, UnboundEntry, NoEntry
    <2>2. state' = "SignedOut"
      BY <1>6 DEF Settle
    <2>3. FlowsOK' /\ StateOK'
      BY <1>2, <1>5, <1>6, <2>2 DEF FlowsOK, StateOK, Active
    <2>4. StoreOK'
      BY <1>2, <1>5, <1>6 DEF StoreOK, NoRequest, Interactive
    <2>5. StateTellsTheStore'
      BY <1>2, <2>1, <2>2 DEF StateTellsTheStore, SignedInIsDurable, SignedOutIsClean
    <2> QED BY <1>1, <1>5, <1>6, <2>3, <2>4, <2>5, NothingGranted DEF Course
  <1>7. CASE /\ o = "success" /\ SendWhoAmI("restoredWhoAmI", vault[p].token)
             /\ Advance(p) /\ UNCHANGED <<state, user, retryAction>>
    <2>1. vault[p] = BoundEntry(profiles[p], vault[p].token)
      <3>1. ReadOutcome(vault[p], profiles[p]) = "success"
        BY <1>4, <1>7 DEF ReadOutcomes, op
      <3>2. vault[p].form = "bound" /\ vault[p].endpoint = profiles[p]
        BY <1>4, <3>1 DEF ReadOutcome, Entries, UnboundEntry, NoEntry
      <3> QED BY <1>4, <3>2 DEF Entries, UnboundEntry, NoEntry, BoundEntry
    <2>2. /\ request'.kind = "restoredWhoAmI" /\ request'.token = vault[p].token
          /\ request' # NoRequest
      BY <1>7 DEF SendWhoAmI, Request, NoRequest
    <2>3. FlowsOK' /\ StateOK'
      BY <1>2, <1>3, <1>5, <1>7, <2>2 DEF FlowsOK, StateOK, Active
    <2>4. StoreOK'
      BY <1>2, <1>5, <1>7, <2>1, <2>2 DEF StoreOK, Interactive
    <2>5. StateTellsTheStore'
      BY <1>2, <1>3, <1>7 DEF StateTellsTheStore, SignedInIsDurable, SignedOutIsClean
    <2> QED BY <1>1, <1>5, <1>7, <2>3, <2>4, <2>5, NothingGranted DEF Course
  <1>8. CASE /\ o = "untrusted" /\ AdvanceWith(p, DeleteOp("untrusted"))
             /\ UNCHANGED <<state, user, request, retryAction>>
    <2> DEFINE delete == DeleteOp("untrusted")
               f == Enqueue(EmptyFifo, delete)
    <2>1. /\ delete \in Ops /\ Shaped(delete) /\ New(delete) /\ Drives(delete)
          /\ delete.kind = "delete"
      BY MadeNew DEF Ops, Kinds, Purposes, DeleteOp, Shaped, Drives
    <2> HIDE DEF delete
    <2>2. Orderly(f) /\ OpsOf(f) = {delete}
      BY <2>1, EmptyOrderly, EnqueueOnEmpty
    <2>3. StartFront(f) = f
      BY DEF StartFront, Enqueue, EmptyFifo
    <2>4. fifo' = [fifo EXCEPT ![p] = f]
      BY <1>2, <1>8, <2>3 DEF AdvanceWith, delete
    <2> HIDE DEF f
    <2>5. QueuesOrderly' /\ SelectedOps' = {delete}
      BY <1>2, <2>2, <2>4, ReplaceOrderly DEF Course
    <2>6. Driven'
      BY <2>1, <2>5 DEF Driven
    <2>7. FlowsOK' /\ StateOK'
      BY <1>2, <1>3, <1>8, <2>1, <2>5, <2>6 DEF FlowsOK, StateOK, Active
    <2>8. StoreOK'
      BY <1>2, <1>8, <2>1, <2>5 DEF StoreOK, NoRequest, Interactive
    <2>9. StateTellsTheStore'
      BY <1>2, <1>3, <1>8 DEF StateTellsTheStore, SignedInIsDurable, SignedOutIsClean
    <2> QED BY <1>1, <2>5, <2>7, <2>8, <2>9, NothingGranted DEF Course
  <1>9. CASE /\ o = "failed" /\ state' = "SecureStorageUnavailable"
             /\ retryAction' = RetryWith("restore")
             /\ Advance(p) /\ UNCHANGED <<user, request>>
    <2>1. retryAction'.kind = "restore"
      BY <1>9 DEF RetryWith
    <2>2. FlowsOK' /\ StateOK'
      BY <1>2, <1>5, <1>9, <2>1 DEF FlowsOK, StateOK, Active
    <2>3. StoreOK'
      BY <1>2, <1>5, <1>9, <2>1 DEF StoreOK, NoRequest, Interactive
    <2>4. StateTellsTheStore'
      BY <1>9 DEF StateTellsTheStore, SignedInIsDurable, SignedOutIsClean
    <2> QED BY <1>1, <1>5, <1>9, <2>2, <2>3, <2>4, NothingGranted DEF Course
  <1> QED BY <1>6, <1>7, <1>8, <1>9 DEF RestoreReadAnswered

\* A read for requestAccessToken() answers, with the token of the account
\* shown or with none.
LEMMA AccessReadCourse ==
  ASSUME IInv, Course, NEW p \in Profiles, Answering(p, "read"),
         NEW o \in ReadOutcomes(p), AccessReadAnswered(p, o),
         UNCHANGED <<profiles, selected, probe, vault>>
  PROVE  Course'
  <1>1. /\ fifo[p].busy /\ ~Drives(Head(fifo[p].ops)) /\ Head(fifo[p].ops).live
        /\ Advance(p) /\ UNCHANGED <<state, user, request, retryAction>>
    BY DEF Answering, AccessReadAnswered, Drives
  <1>2. p = selected
    BY <1>1, LiveHead
  <1>3. AccessTokenIsCurrentSession'
    <2>1. CASE Exposed = "SignedIn" /\ o = "success"
      <3>1. state = "SignedIn"
        BY <2>1 DEF Exposed
      <3>2. grant' = [endpoint |-> profiles[selected], token |-> vault[p].token]
        BY <2>1 DEF AccessReadAnswered
      <3>3. vault[p].token = user
        BY <1>2, <3>1 DEF Course, StateTellsTheStore, SignedInIsDurable, BoundEntry
      <3> QED BY <1>1, <3>1, <3>2, <3>3 DEF AccessTokenIsCurrentSession
    <2>2. CASE ~(Exposed = "SignedIn" /\ o = "success")
      BY <2>2, NothingGranted DEF AccessReadAnswered
    <2> QED BY <2>1, <2>2
  <1> QED BY <1>1, <1>3, UndrivenCourse

\* A completion whose generation is over.
LEMMA DeadCourse ==
  ASSUME IInv, Course, NEW p \in Profiles, fifo[p].busy, DeadAnswered(p),
         UNCHANGED <<profiles, selected, probe>>,
         selected \in Profiles
           /\ (SelectedOps = {} \/ state \in {"SignedIn", "Authenticating", "Registering"})
           => vault'[selected] = vault[selected]
  PROVE  Course'
  <1>1. /\ ~Drives(Head(fifo[p].ops)) /\ Advance(p) /\ grant' = NoGrant
        /\ UNCHANGED <<state, user, request, retryAction>>
    BY DEF DeadAnswered, Drives
  <1> QED BY <1>1, NothingGranted, UndrivenCourse

\* A read answers.
LEMMA ReadCourse ==
  ASSUME IInv, Course, NEW p \in Profiles, ReadAnswered(p) PROVE Course'
  <1>1. PICK o \in ReadOutcomes(p) : ReadAnsweredWith(p, o)
    BY DEF ReadAnswered
  <1>2. /\ Answering(p, "read") /\ fifo[p].busy
        /\ UNCHANGED <<profiles, selected, probe, vault>>
    BY <1>1 DEF ReadAnsweredWith, Answering
  <1>3. CASE DeadAnswered(p)
    BY <1>2, <1>3, DeadCourse
  <1>4. CASE RestoreReadAnswered(p, o)
    BY <1>2, <1>4, RestoreReadCourse
  <1>5. CASE AccessReadAnswered(p, o)
    BY <1>2, <1>5, AccessReadCourse
  <1> QED BY <1>1, <1>3, <1>4, <1>5 DEF ReadAnsweredWith

\* A write that no flow waits for reaches the selected profile's entry only
\* in states that do not tell what it is.
LEMMA WriteElsewhere ==
  ASSUME IInv, Course, NEW p \in Profiles, fifo[p].busy,
         Head(fifo[p].ops).kind # "read", ~Drives(Head(fifo[p].ops)),
         NEW entry, vault' = [vault EXCEPT ![p] = entry], UNCHANGED selected
  PROVE  selected \in Profiles
           /\ (SelectedOps = {} \/ state \in {"SignedIn", "Authenticating", "Registering"})
           => vault'[selected] = vault[selected]
  <1> SUFFICES ASSUME selected \in Profiles,
                      SelectedOps = {} \/ state \in {"SignedIn", "Authenticating", "Registering"}
               PROVE  p # selected
    BY DEF IInv, TypeOK
  <1> SUFFICES ASSUME p = selected PROVE FALSE
    OBVIOUS
  <1>1. Head(fifo[p].ops) \in SelectedOps /\ Shaped(Head(fifo[p].ops))
    BY AnsweredHead
  <1>2. state # "SignedIn"
    BY <1>1 DEF Course, StateOK, Shaped
  <1>3. state \notin {"Authenticating", "Registering"}
    <2>1. request.kind \in Interactive => SelectedOps = {}
      BY DEF Course, FlowsOK, Interactive, NoRequest
    <2> QED BY <1>1, <2>1 DEF Course, StateOK
  <1> QED BY <1>1, <1>2, <1>3

\* A save answers.
LEMMA SaveAnsweredCourse ==
  ASSUME IInv, Course, NEW p \in Profiles, SaveAnswered(p) PROVE Course'
  <1> DEFINE op == Head(fifo[p].ops)
  <1>1. PICK ok \in BOOLEAN : SaveAnsweredWith(p, ok)
    BY DEF SaveAnswered
  <1>2. /\ fifo[p].busy /\ op.kind = "save" /\ UNCHANGED <<profiles, selected, probe>>
    BY <1>1 DEF SaveAnsweredWith, Answering
  <1>3. PICK entry \in AfterSave(vault[p], op, ok) : vault' = [vault EXCEPT ![p] = entry]
    BY <1>1 DEF SaveAnsweredWith
  <1>4. CASE DeadAnswered(p)
    <2>1. ~Drives(Head(fifo[p].ops)) /\ Head(fifo[p].ops).kind # "read"
      BY <1>2, <1>4 DEF DeadAnswered, Drives
    <2> HIDE DEF op
    <2> QED BY <1>2, <1>3, <1>4, <2>1, WriteElsewhere, DeadCourse
  <1>5. CASE SaveContinues(p, ok)
    <2>1. Drives(op) /\ Advance(p) /\ grant' = NoGrant /\ UNCHANGED <<user, request>>
      <3>1. Shaped(op)
        BY <1>2, AnsweredHead
      <3>2. op.live
        BY <1>5 DEF SaveContinues
      <3>3. Drives(op)
        BY <1>2, <3>1, <3>2 DEF Shaped, Drives
      <3> QED BY <1>5, <3>3 DEF SaveContinues
    <2>2. /\ p = selected /\ selected # NoProfile /\ SelectedOps = {op}
          /\ probe = "none" /\ request = NoRequest
          /\ retryAction.kind \in {"none", "switch"}
      BY <1>2, <2>1, DrivingHead
    <2>3. QueuesOrderly' /\ SelectedOps' = {} /\ ~Driven'
      BY <1>2, <2>1, DrivingAdvance
    <2>4. op.token \in Tokens /\ op.endpoint = profiles[selected]
      BY <1>2, <2>1, <2>2, HeadOp DEF GoodOps, Drives
    <2>5. user = op.token
      <3> HIDE DEF op
      <3> QED BY <1>2, <2>1, <2>2 DEF Course, StoreOK
    <2> HIDE DEF op
    <2>6. CASE ok
      <3>1. state' = "SignedIn" /\ UNCHANGED retryAction
        BY <1>5, <2>6 DEF SaveContinues
      <3>2. vault'[selected] = BoundEntry(profiles[selected], user)
        BY <1>3, <2>2, <2>4, <2>5, <2>6 DEF AfterSave, IInv, TypeOK
      <3>3. FlowsOK' /\ StateOK'
        BY <1>2, <2>1, <2>2, <2>3, <3>1 DEF FlowsOK, StateOK, Active
      <3>4. StoreOK'
        BY <2>1, <2>2, <2>3, <3>1 DEF StoreOK, NoRequest, Interactive
      <3>5. StateTellsTheStore'
        BY <1>2, <2>1, <2>4, <2>5, <3>1, <3>2, NoValueAssumption
           DEF StateTellsTheStore, SignedInIsDurable, SignedOutIsClean
      <3> QED BY <2>1, <2>3, <3>3, <3>4, <3>5, NothingGranted DEF Course
    <2>7. CASE ~ok
      <3>1. /\ state' = "SecureStorageUnavailable"
            /\ retryAction'.kind = "save" /\ retryAction'.token = op.token
        BY <1>5, <2>7 DEF SaveContinues, RetryWithToken, op
      <3>2. FlowsOK' /\ StateOK'
        BY <1>2, <2>1, <2>2, <2>3, <3>1 DEF FlowsOK, StateOK, Active
      <3>3. StoreOK'
        BY <2>1, <2>2, <2>3, <2>5, <3>1 DEF StoreOK, NoRequest, Interactive
      <3>4. StateTellsTheStore'
        BY <3>1 DEF StateTellsTheStore, SignedInIsDurable, SignedOutIsClean
      <3> QED BY <2>1, <2>3, <3>2, <3>3, <3>4, NothingGranted DEF Course
    <2> QED BY <2>6, <2>7
  <1> QED BY <1>1, <1>4, <1>5 DEF SaveAnsweredWith

\* A deletion succeeds.
LEMMA DeleteSucceedsCourse ==
  ASSUME IInv, Course, NEW p \in Profiles, DeleteSucceeds(p) PROVE Course'
  <1> DEFINE op == Head(fifo[p].ops)
  <1>1. /\ fifo[p].busy /\ op.kind = "delete" /\ UNCHANGED <<profiles, selected, probe>>
        /\ vault' = [vault EXCEPT ![p] = NoEntry]
    BY DEF DeleteSucceeds, Answering, AfterDelete
  <1>2. CASE DeadAnswered(p)
    <2>1. ~Drives(Head(fifo[p].ops)) /\ Head(fifo[p].ops).kind # "read"
      BY <1>1, <1>2 DEF DeadAnswered, Drives
    <2> HIDE DEF op
    <2> QED BY <1>1, <1>2, <2>1, WriteElsewhere, DeadCourse
  <1>3. CASE DeleteContinues(p)
    <2>1. /\ op.live /\ state' = "SignedOut" /\ Advance(p) /\ grant' = NoGrant
          /\ UNCHANGED <<request, retryAction>>
      BY <1>3 DEF DeleteContinues, Settle
    <2>2. Drives(op)
      BY <1>1, <2>1, AnsweredHead DEF Shaped, Drives
    <2>3. /\ p = selected /\ probe = "none" /\ request = NoRequest
          /\ retryAction.kind \in {"none", "switch"}
      BY <1>1, <2>2, DrivingHead
    <2>4. QueuesOrderly' /\ SelectedOps' = {} /\ ~Driven'
      BY <1>1, <2>1, <2>2, DrivingAdvance
    <2> HIDE DEF op
    <2>5. vault'[selected] = NoEntry
      BY <1>1, <2>3 DEF IInv, TypeOK
    <2>6. FlowsOK' /\ StateOK'
      BY <1>1, <2>1, <2>3, <2>4 DEF FlowsOK, StateOK, Active
    <2>7. StoreOK'
      BY <2>1, <2>3, <2>4 DEF StoreOK, NoRequest, Interactive
    <2>8. StateTellsTheStore'
      BY <1>1, <2>1, <2>5 DEF StateTellsTheStore, SignedInIsDurable, SignedOutIsClean
    <2> QED BY <2>1, <2>4, <2>6, <2>7, <2>8, NothingGranted DEF Course
  <1> QED BY <1>2, <1>3 DEF DeleteSucceeds

\* A deletion fails.
LEMMA DeleteFailsCourse ==
  ASSUME IInv, Course, NEW p \in Profiles, DeleteFails(p) PROVE Course'
  <1> DEFINE f == [fifo[p] EXCEPT !.busy = FALSE]
  <1>1. /\ fifo[p].busy /\ grant' = NoGrant
        /\ UNCHANGED <<user, profiles, selected, probe, request, retryAction>>
        /\ state' = IF p = selected THEN "SecureStorageUnavailable" ELSE state
    BY DEF DeleteFails, Answering
  <1>2. PICK entry : vault' = [vault EXCEPT ![p] = entry]
    BY DEF DeleteFails
  <1>3. fifo[p] \in Fifos /\ Orderly(fifo[p])
    BY QueueFacts DEF Course
  <1>4. Orderly(f) /\ Kept(fifo[p], f)
    <2>1. f.ops = fifo[p].ops
      BY <1>3, FifoFields DEF Fifos
    <2>2. Orderly(f)
      <3> HIDE DEF f
      <3> QED BY <1>3, <2>1 DEF Orderly, Placed, Covered, SavesFirst, Compensated,
                                Separated
    <2> HIDE DEF f
    <2> QED BY <2>1, <2>2 DEF Kept, OpsOf
  <1>5. fifo' = [fifo EXCEPT ![p] = f]
    <2>1. fifo \in [Profiles -> Fifos] /\ fifo' = [fifo EXCEPT ![p].busy = FALSE]
      BY DEF DeleteFails, IInv, TypeOK
    <2> QED BY <2>1
  <1> HIDE DEF f
  <1>6. CASE p # selected
    <2>1. selected \in Profiles => vault'[selected] = vault[selected]
      BY <1>2, <1>6 DEF IInv, TypeOK
    <2> QED BY <1>1, <1>4, <1>5, <1>6, <2>1, NothingGranted, KeptCourse
  <1>7. CASE p = selected
    <2>1. SelectedOps # {} /\ state' = "SecureStorageUnavailable"
      BY <1>1, <1>7, AnsweredHead
    <2> QED BY <1>1, <1>4, <1>5, <2>1, NothingGranted, KeptCourse
  <1> QED BY <1>6, <1>7

-----------------------------------------------------------------------------
(* The beginning and the end of the process, and every step between        *)

\* A process that has just started.
LEMMA InitCourse == Init => Course
  <1> SUFFICES ASSUME Init PROVE Course
    OBVIOUS
  <1>1. \A p \in Profiles : fifo[p] = EmptyFifo
    BY DEF Init
  <1>2. QueuesOrderly /\ SelectedOps = {} /\ ~Driven
    BY <1>1, EmptyOrderly DEF QueuesOrderly, SelectedOps, Driven
  <1>3. Resting
    BY <1>2 DEF Init, Resting, NoRetry, RetryWith, Halted
  <1> QED BY <1>3, RestingCourse

\* A process that has ended and started again.
LEMMA TerminateCourse == ASSUME Terminate PROVE Course'
  <1>1. \A p \in Profiles : fifo'[p] = EmptyFifo
    BY DEF Terminate
  <1>2. QueuesOrderly' /\ SelectedOps' = {} /\ ~Driven'
    BY <1>1, EmptyOrderly DEF QueuesOrderly, SelectedOps, Driven
  <1>3. Resting'
    BY <1>2 DEF Terminate, Resting, NoRetry, RetryWith, Halted
  <1> QED BY <1>3, RestingNext

\* Every step preserves it, one case per action.
LEMMA CourseStep == IInv /\ Course /\ [Next]_vars => Course'
  <1> SUFFICES ASSUME IInv, Course, [Next]_vars PROVE Course'
    OBVIOUS
  <1>1. CASE Start
    BY <1>1, StartCourse DEF Start
  <1>2. ASSUME NEW p \in Profiles, SwitchProfile(p) PROVE Course'
    BY <1>2, SwitchCourse DEF SwitchProfile
  <1>3. CASE SignIn \/ Register
    BY <1>3, CredentialsCourse
  <1>4. CASE SignOut
    BY <1>4, SignOutCourse
  <1>5. CASE Retry
    BY <1>5, RetryDeletionCourse, RetryActionCourse DEF Retry
  <1>6. CASE RequestAccessToken
    BY <1>6, AccessCourse
  <1>7. CASE ProbeFinished
    BY <1>7, ProbeCourse
  <1>8. CASE AuthAnswered
    BY <1>8, AuthCourse
  <1>9. CASE WhoAmIAnswered
    <2>1. PICK o \in AuthOutcomes : WhoAmIAnsweredWith(o)
      BY <1>9 DEF WhoAmIAnswered
    <2> QED BY <2>1, RestoredWhoAmICourse, FreshWhoAmICourse DEF WhoAmIAnsweredWith
  <1>10. ASSUME NEW p \in Profiles, StoreAnswers(p) PROVE Course'
    BY <1>10, ReadCourse, SaveAnsweredCourse, DeleteSucceedsCourse,
       DeleteFailsCourse DEF StoreAnswers
  <1>11. CASE Terminate
    BY <1>11, TerminateCourse
  <1>12. CASE UNCHANGED vars
    <2>1. QueuesOrderly' /\ SelectedOps' = SelectedOps /\ Driven' = Driven
      BY <1>12, QueuesStay DEF Course, vars
    <2>2. FlowsOK' /\ StateOK' /\ StoreOK'
      BY <1>12, <2>1 DEF Course, vars, FlowsOK, StateOK, StoreOK, Active
    <2>3. StateTellsTheStore' /\ AccessTokenIsCurrentSession'
      BY <1>12 DEF Course, vars, StateTellsTheStore, SignedInIsDurable,
                   SignedOutIsClean, AccessTokenIsCurrentSession
    <2> QED BY <2>1, <2>2, <2>3 DEF Course
  <1> QED BY <1>1, <1>2, <1>3, <1>4, <1>5, <1>6, <1>7, <1>8, <1>9, <1>10, <1>11,
             <1>12 DEF Next, Input, Answer

-----------------------------------------------------------------------------
(* The theorems                                                            *)

\* The course of a session holds in every reachable state.
THEOREM CourseInvariant == Spec => []Course
  <1> QED BY InitCourse, CourseStep, Invariant, PTL DEF Spec

\* SignedIn means that the token of the account shown is in the secure store,
\* bound to the server of the selected profile; SignedOut, and a sign-in that
\* is under way, that nothing is.
THEOREM StateAndStore == Spec => []StateTellsTheStore
  <1>1. Course => StateTellsTheStore
    BY DEF Course
  <1> QED BY <1>1, CourseInvariant, PTL

\* A caller of requestAccessToken() is given the token of the account that is
\* shown when the answer arrives, or none.
THEOREM GrantsAreCurrent == Spec => []AccessTokenIsCurrentSession
  <1>1. Course => AccessTokenIsCurrentSession
    BY DEF Course
  <1> QED BY <1>1, CourseInvariant, PTL

\* The continuation that a queue holds for a flow is one, at its end.
LEMMA QueuedFlow ==
  ASSUME IInv, Course, NEW q \in QueuedOps,
         fifo[q[1]].ops[q[2]].live, fifo[q[1]].ops[q[2]].purpose # "access"
  PROVE  /\ Driven /\ selected \in Profiles
         /\ q = <<selected, Len(fifo[selected].ops)>>
  <1> DEFINE p == q[1]
             i == q[2]
             op == fifo[p].ops[i]
  <1>1. p \in Profiles /\ i \in DOMAIN fifo[p].ops /\ q = <<p, i>>
    BY DEF QueuedOps
  <1>2. /\ Orderly(fifo[p])
        /\ op \in OpsOf(fifo[p]) /\ (p # selected => Dead(fifo[p]))
        /\ (p = selected => SelectedOps = OpsOf(fifo[p]))
    BY <1>1, QueueFacts DEF Course, OpsOf
  <1>3. Drives(op)
    BY DEF Drives
  <1>4. p = selected
    BY <1>2 DEF Dead
  <1>5. i = Len(fifo[p].ops)
    BY <1>1, <1>2, <1>3 DEF Orderly, Placed, Awaited
  <1>6. Driven
    BY <1>2, <1>3, <1>4 DEF Driven
  <1> QED BY <1>1, <1>4, <1>5, <1>6

\* At most one continuation drives the session, none when it is settled, and
\* one is never missing while a state waits for it.
THEOREM OneFlow == Spec => []SingleFlow
  <1>1. IInv /\ Course => SingleFlow
    <2> SUFFICES ASSUME IInv, Course PROVE SingleFlow
      OBVIOUS
    <2> DEFINE probing == <<"probe">>
               requesting == <<"request">>
               queued == <<selected, Len(fifo[selected].ops)>>
    <2>1. ASSUME NEW f \in Flows
          PROVE  \/ f = probing /\ probe = "running"
                 \/ f = requesting /\ request # NoRequest
                 \/ f = queued /\ Driven
      BY QueuedFlow DEF Flows
    <2>2. /\ probe = "running" => request = NoRequest /\ ~Driven
          /\ request # NoRequest => ~Driven
      BY DEF Course, FlowsOK, Driven
    <2>3. \A f, g \in Flows : f = g
      <3> HIDE DEF queued, probing, requesting
      <3> QED BY <2>1, <2>2
    <2>4. state \in {"SignedIn", "SignedOut"} => Flows = {}
      <3>1. state \in {"SignedIn", "SignedOut"} =>
              probe = "none" /\ request = NoRequest /\ ~Driven
        BY DEF Course, StateOK, Driven, Drives
      <3> QED BY <2>1, <3>1
    <2>5. state \in Transitional => Flows # {}
      <3>1. state \in Transitional =>
              probe = "running" \/ request # NoRequest \/ Driven
        BY DEF Course, StateOK, Transitional, Interactive, NoRequest
      <3>2. Driven => Flows # {}
        <4> SUFFICES ASSUME Driven PROVE Flows # {}
          OBVIOUS
        <4>1. selected \in Profiles /\ SelectedOps = OpsOf(fifo[selected])
          BY DEF Driven, SelectedOps
        <4>2. PICK i \in DOMAIN fifo[selected].ops : Drives(fifo[selected].ops[i])
          BY <4>1 DEF Driven, OpsOf
        <4>3. <<selected, i>> \in QueuedOps
          BY <4>1 DEF QueuedOps
        <4>4. <<selected, i>> \in Flows
          BY <4>2, <4>3 DEF Flows, Drives
        <4> QED BY <4>4
      <3>3. probe = "running" \/ request # NoRequest => Flows # {}
        BY DEF Flows
      <3> QED BY <3>1, <3>2, <3>3
    <2> QED BY <2>3, <2>4, <2>5 DEF SingleFlow
  <1> QED BY <1>1, Invariant, CourseInvariant, PTL

\* A Save that a restart, a switch or a sign-out overtook has its compensating
\* Delete right behind it in the queue, whatever else is queued meanwhile.
THEOREM SavesAreCompensated == Spec => []AbandonedSaveIsCompensated
  <1>1. IInv /\ Course => AbandonedSaveIsCompensated
    <2> SUFFICES ASSUME IInv, Course, NEW p \in Profiles,
                        NEW i \in DOMAIN fifo[p].ops, IsStaleSave(fifo[p].ops[i])
                 PROVE  i < Len(fifo[p].ops) /\ fifo[p].ops[i + 1].kind = "delete"
      BY DEF AbandonedSaveIsCompensated
    <2>1. fifo[p] \in Fifos /\ Orderly(fifo[p])
      BY QueueFacts DEF Course
    <2>2. i + 1 \in DOMAIN fifo[p].ops /\ fifo[p].ops[i + 1].kind = "delete"
      BY <2>1 DEF Orderly, Covered, Compensated
    <2> QED BY <2>1, <2>2, OpsOfFifo
  <1> QED BY <1>1, Invariant, CourseInvariant, PTL

\* Between a Read for the endpoint that a profile had and a Read for the one
\* that it has now, its queue holds a Delete.
THEOREM ReadsAreSeparated == Spec => []EndpointChangeSeparatesReads
  <1>1. IInv /\ Course => EndpointChangeSeparatesReads
    <2> SUFFICES ASSUME IInv, Course, NEW p \in Profiles,
                        NEW i \in DOMAIN fifo[p].ops, NEW j \in DOMAIN fifo[p].ops,
                        i < j, IsRestoreRead(fifo[p].ops[i]),
                        IsRestoreRead(fifo[p].ops[j]),
                        ~fifo[p].ops[i].sameEndpoint, fifo[p].ops[j].sameEndpoint
                 PROVE  \E k \in i..j : fifo[p].ops[k].kind = "delete"
      BY DEF EndpointChangeSeparatesReads
    <2>1. fifo[p] \in Fifos /\ Orderly(fifo[p])
      BY QueueFacts DEF Course
    <2>2. PICK k \in DOMAIN fifo[p].ops : i < k /\ fifo[p].ops[k].kind = "delete"
      BY <2>1 DEF Orderly, Covered, Separated
    <2>3. j = Len(fifo[p].ops)
      BY <2>1 DEF Orderly, Placed, Awaited
    <2>4. k \in i..j
      BY <2>1, <2>2, <2>3, OpsOfFifo
    <2> QED BY <2>2, <2>4
  <1> QED BY <1>1, Invariant, CourseInvariant, PTL

-----------------------------------------------------------------------------
(* Required deletions                                                      *)

\* Every Delete of f is one of g, after d operations have left at the head.
MovedUp(f, g, d) ==
  \A i \in DOMAIN f.ops : f.ops[i].kind = "delete" =>
    i - d \in DOMAIN g.ops /\ g.ops[i - d].kind = "delete"
KeepsDeletions(f, g) == \E d \in Nat : MovedUp(f, g, d)

\* A call that is outstanding for f is outstanding for g; and both.
SameCall(a, b) == a.kind = b.kind /\ a.token = b.token /\ a.endpoint = b.endpoint
KeepsCall(f, g) == f.busy => g.busy /\ SameCall(f.ops[1], g.ops[1])
Stays(f, g) == KeepsDeletions(f, g) /\ KeepsCall(f, g)

\* Then there are no fewer of them.
LEMMA DeletionsKept ==
  ASSUME NEW f \in Fifos, NEW g \in Fifos, KeepsDeletions(f, g)
  PROVE  ~(Deletions(g) < Deletions(f))
  <1> DEFINE S == {i \in DOMAIN f.ops : f.ops[i].kind = "delete"}
             T == {i \in DOMAIN g.ops : g.ops[i].kind = "delete"}
  <1>1. /\ DOMAIN f.ops = 1..Len(f.ops) /\ Len(f.ops) \in Nat
        /\ DOMAIN g.ops = 1..Len(g.ops) /\ Len(g.ops) \in Nat
    BY OpsOfFifo
  <1>2. PICK d \in Nat : MovedUp(f, g, d)
    BY DEF KeepsDeletions
  <1>3. IsFiniteSet(T)
    <2>1. IsFiniteSet(1..Len(g.ops))
      BY <1>1, FS_Interval
    <2>2. T \in SUBSET (1..Len(g.ops))
      BY <1>1
    <2> HIDE DEF T
    <2> QED BY <2>1, <2>2, FS_Subset
  <1> DEFINE up == [i \in S |-> i - d]
  <1>4. up \in Injection(S, T)
    <2>1. \A i \in S : i - d \in T
      BY <1>2 DEF MovedUp
    <2>2. S \subseteq Int
      BY <1>1
    <2> HIDE DEF S, T
    <2>3. up \in [S -> T] /\ \A i, j \in S : up[i] = up[j] => i = j
      BY <2>1, <2>2
    <2> QED BY <2>3 DEF Injection, IsInjective
  <1>5. Cardinality(S) <= Cardinality(T) /\ IsFiniteSet(S)
    <2> HIDE DEF S, T, up
    <2> QED BY <1>3, <1>4, FS_Injection
  <1>6. Cardinality(S) \in Nat /\ Cardinality(T) \in Nat
    <2> HIDE DEF S, T
    <2> QED BY <1>3, <1>5, FS_CardinalityType
  <1>7. ~(Cardinality(T) < Cardinality(S))
    BY <1>5, <1>6
  <1> QED BY <1>7 DEF Deletions

\* One queue after the other.
LEMMA KeptTwice ==
  ASSUME NEW f \in Fifos, NEW g \in Fifos, NEW h,
         KeepsDeletions(f, g), KeepsDeletions(g, h)
  PROVE  KeepsDeletions(f, h)
  <1>1. PICK c \in Nat : MovedUp(f, g, c)
    BY DEF KeepsDeletions
  <1>2. PICK d \in Nat : MovedUp(g, h, d)
    BY DEF KeepsDeletions
  <1>3. c + d \in Nat
    OBVIOUS
  <1>4. MovedUp(f, h, c + d)
    <2> SUFFICES ASSUME NEW i \in DOMAIN f.ops, f.ops[i].kind = "delete"
                 PROVE  i - (c + d) \in DOMAIN h.ops /\ h.ops[i - (c + d)].kind = "delete"
      BY DEF MovedUp
    <2>1. i - c \in DOMAIN g.ops /\ g.ops[i - c].kind = "delete"
      BY <1>1 DEF MovedUp
    <2>2. (i - c) - d \in DOMAIN h.ops /\ h.ops[(i - c) - d].kind = "delete"
      BY <1>2, <2>1 DEF MovedUp
    <2>3. (i - c) - d = i - (c + d)
      BY OpsOfFifo
    <2> QED BY <2>2, <2>3
  <1> QED BY <1>3, <1>4 DEF KeepsDeletions

\* What two changes of a queue each keep, both keep.
LEMMA StaysTwice ==
  ASSUME NEW f \in Fifos, NEW g \in Fifos, NEW h, Stays(f, g), Stays(g, h)
  PROVE  Stays(f, h)
  BY KeptTwice DEF Stays, KeepsCall, SameCall

\* What is queued where it was.
LEMMA KeptInPlace ==
  ASSUME NEW f \in Fifos, NEW g,
         \A i \in DOMAIN f.ops : i \in DOMAIN g.ops /\ SameCall(f.ops[i], g.ops[i])
  PROVE  KeepsDeletions(f, g) /\ ((f.busy => g.busy) => Stays(f, g))
  <1>1. \A i \in DOMAIN f.ops : i - 0 = i
    BY OpsOfFifo
  <1>2. MovedUp(f, g, 0)
    BY <1>1 DEF MovedUp, SameCall
  <1>3. f.busy => 1 \in DOMAIN f.ops
    BY OpsOfFifo, FifoFields DEF Fifos
  <1> QED BY <1>2, <1>3 DEF KeepsDeletions, KeepsCall, Stays

\* Another operation is queued.
LEMMA EnqueueKeepsDeletions ==
  ASSUME NEW f \in Fifos, NEW op \in Ops
  PROVE  Enqueue(f, op) \in Fifos /\ Stays(f, Enqueue(f, op))
  <1> DEFINE g == Enqueue(f, op)
  <1>1. /\ g \in Fifos /\ DOMAIN g.ops = 1..(Len(f.ops) + 1)
        /\ \A i \in DOMAIN f.ops : g.ops[i] = f.ops[i]
    BY EnqueuedOps
  <1> HIDE DEF g
  <1>2. \A i \in DOMAIN f.ops : i \in DOMAIN g.ops /\ SameCall(f.ops[i], g.ops[i])
    BY <1>1, OpsOfFifo DEF SameCall
  <1>3. Stays(f, g)
    <2>1. f.busy => g.busy
      BY DEF Enqueue, g
    <2> QED BY <1>2, <2>1, KeptInPlace
  <1> QED BY <1>1, <1>3 DEF g

\* The operations of a queue are rewritten, each in its place.
LEMMA MappedKeepsDeletions ==
  ASSUME NEW f \in Fifos, NEW new, new = [i \in DOMAIN f.ops |-> new[i]],
         \A i \in DOMAIN f.ops : new[i] \in Ops /\ SameCall(f.ops[i], new[i])
  PROVE  LET g == [f EXCEPT !.ops = new]
         IN  g \in Fifos /\ Stays(f, g)
  <1> DEFINE g == [f EXCEPT !.ops = new]
  <1>1. g \in Fifos /\ g.ops = new /\ DOMAIN g.ops = DOMAIN f.ops
    BY MappedQueue
  <1>0. g.busy = f.busy
    BY FifoFields DEF Fifos
  <1> HIDE DEF g
  <1>2. Stays(f, g)
    BY <1>0, <1>1, KeptInPlace
  <1> QED BY <1>1, <1>2 DEF g

\* The end of a generation, of a credential epoch and of an endpoint epoch.
LEMMA EpochsKeepDeletions ==
  ASSUME NEW f \in Fifos
  PROVE  /\ DropLive(f) \in Fifos /\ Stays(f, DropLive(f))
         /\ Invalidate(f) \in Fifos /\ Stays(f, Invalidate(f))
         /\ Stays(f, InvalidateForEndpointChange(f))
  <1> DEFINE dropped == [i \in DOMAIN f.ops |-> [f.ops[i] EXCEPT !.live = FALSE]]
             moved == [i \in DOMAIN f.ops |->
                         IF IsRestoreRead(f.ops[i])
                         THEN [f.ops[i] EXCEPT !.sameEndpoint = FALSE]
                         ELSE f.ops[i]]
             cleanup == DeleteOp("cleanup")
  <1>1. \A i \in DOMAIN f.ops : f.ops[i] \in Ops
    BY OpsOfFifo
  <1>2. cleanup \in Ops
    BY DEF Ops, Kinds, Purposes, DeleteOp
  <1> HIDE DEF cleanup
  <1>3. DropLive(f) \in Fifos /\ Stays(f, DropLive(f))
    <2>1. /\ dropped = [i \in DOMAIN f.ops |-> dropped[i]]
          /\ \A i \in DOMAIN f.ops :
               dropped[i] \in Ops /\ SameCall(f.ops[i], dropped[i])
      BY <1>1 DEF Ops, SameCall
    <2>2. DropLive(f) = [f EXCEPT !.ops = dropped]
      BY DEF DropLive
    <2> HIDE DEF dropped
    <2> QED BY <2>1, <2>2, MappedKeepsDeletions
  <1>4. ASSUME NEW g \in Fifos
        PROVE  Invalidate(g) \in Fifos /\ Stays(g, Invalidate(g))
    <2> DEFINE ended == [i \in DOMAIN g.ops |->
                           IF g.ops[i].kind = "save"
                           THEN [g.ops[i] EXCEPT !.fresh = FALSE]
                           ELSE g.ops[i]]
               marked == [g EXCEPT !.ops = ended]
    <2>1. \A i \in DOMAIN g.ops : g.ops[i] \in Ops
      BY OpsOfFifo
    <2>2. /\ ended = [i \in DOMAIN g.ops |-> ended[i]]
          /\ \A i \in DOMAIN g.ops : ended[i] \in Ops /\ SameCall(g.ops[i], ended[i])
      BY <2>1 DEF Ops, SameCall
    <2>3. Invalidate(g) = marked \/ Invalidate(g) = Enqueue(marked, cleanup)
      BY DEF Invalidate, cleanup
    <2> HIDE DEF ended
    <2>4. marked \in Fifos /\ Stays(g, marked)
      BY <2>2, MappedKeepsDeletions
    <2> HIDE DEF marked
    <2>5. /\ Enqueue(marked, cleanup) \in Fifos
          /\ Stays(g, Enqueue(marked, cleanup))
      BY <1>2, <2>4, EnqueueKeepsDeletions, StaysTwice
    <2> QED BY <2>3, <2>4, <2>5
  <1>5. Stays(f, InvalidateForEndpointChange(f))
    <2> DEFINE marked == [f EXCEPT !.ops = moved]
    <2>1. /\ moved = [i \in DOMAIN f.ops |-> moved[i]]
          /\ \A i \in DOMAIN f.ops : moved[i] \in Ops /\ SameCall(f.ops[i], moved[i])
      BY <1>1 DEF Ops, SameCall
    <2>2. InvalidateForEndpointChange(f) = Enqueue(Invalidate(marked), cleanup)
      BY DEF InvalidateForEndpointChange, cleanup
    <2> HIDE DEF moved
    <2>3. marked \in Fifos /\ Stays(f, marked)
      BY <2>1, MappedKeepsDeletions
    <2> HIDE DEF marked
    <2>4. Invalidate(marked) \in Fifos /\ Stays(f, Invalidate(marked))
      BY <1>4, <2>3, StaysTwice
    <2>5. Stays(Invalidate(marked), Enqueue(Invalidate(marked), cleanup))
      BY <1>2, <2>4, EnqueueKeepsDeletions
    <2> QED BY <2>2, <2>4, <2>5, StaysTwice
  <1> QED BY <1>3, <1>4, <1>5

\* A restore is asked for.
LEMMA RestoreKeepsDeletions ==
  ASSUME NEW f \in Fifos, NEW endpoint \in Endpoints
  PROVE  Stays(f, RequestRestoreRead(f, endpoint))
  <1> DEFINE mine == {i \in DOMAIN f.ops :
                        IsRestoreRead(f.ops[i]) /\ f.ops[i].sameEndpoint}
             first == CHOOSE i \in mine : \A j \in mine : i <= j
             new == [f.ops EXCEPT ![first].live = TRUE]
  <1>1. CASE mine = {}
    <2>1. ReadOp("restore", endpoint) \in Ops
      BY DEF Ops, Kinds, Purposes, ReadOp
    <2>2. RequestRestoreRead(f, endpoint) = Enqueue(f, ReadOp("restore", endpoint))
      BY <1>1 DEF RequestRestoreRead
    <2> QED BY <2>1, <2>2, EnqueueKeepsDeletions
  <1>2. CASE mine # {}
    <2>1. RequestRestoreRead(f, endpoint) = [f EXCEPT !.ops[first].live = TRUE]
      BY <1>2 DEF RequestRestoreRead
    <2> HIDE DEF first
    <2>2. [f EXCEPT !.ops[first].live = TRUE] = [f EXCEPT !.ops = new]
      <3>1. f = [ops |-> f.ops, busy |-> f.busy]
        BY FifoFields DEF Fifos
      <3> QED BY <3>1
    <2>3. \A i \in DOMAIN f.ops : f.ops[i] \in Ops
      BY OpsOfFifo
    <2>4. DOMAIN f.ops = 1..Len(f.ops) /\ f.ops = [i \in DOMAIN f.ops |-> f.ops[i]]
      <3>1. f.ops \in Seq(Ops)
        BY OpsOfFifo
      <3> QED BY <3>1, OpsOfFifo
    <2>5. \A i \in DOMAIN f.ops :
            new[i] = IF i = first THEN [f.ops[i] EXCEPT !.live = TRUE] ELSE f.ops[i]
      OBVIOUS
    <2>6. \A i \in DOMAIN f.ops : new[i] \in Ops /\ SameCall(f.ops[i], new[i])
      BY <2>3, <2>5 DEF Ops, SameCall
    <2>7. new = [i \in DOMAIN f.ops |-> new[i]]
      BY <2>4
    <2> HIDE DEF new
    <2> QED BY <2>1, <2>2, <2>6, <2>7, MappedKeepsDeletions
  <1> QED BY <1>1, <1>2

\* The next operation is dispatched: only Saves are skipped.
LEMMA StartKeepsDeletions ==
  ASSUME NEW f \in Fifos
  PROVE  StartFront(f) \in Fifos /\ Stays(f, StartFront(f))
  <1> DEFINE kept == {i \in DOMAIN f.ops : ~IsStaleSave(f.ops[i])}
             first == CHOOSE i \in kept : \A j \in kept : i <= j
             g == StartFront(f)
  <1>0. g \in Fifos
    BY StartFrontType DEF Fifos
  <1>1. CASE f.busy \/ f.ops = << >>
    <2>1. g = f
      BY <1>1 DEF StartFront
    <2>2. \A i \in DOMAIN f.ops : SameCall(f.ops[i], f.ops[i])
      BY DEF SameCall
    <2> QED BY <1>0, <2>1, <2>2, KeptInPlace
  <1>2. \A i \in DOMAIN f.ops : f.ops[i].kind = "delete" => i \in kept
    BY DEF IsStaleSave
  <1>3. CASE ~(f.busy \/ f.ops = << >>) /\ kept = {}
    <2>1. MovedUp(f, g, 0)
      BY <1>2, <1>3 DEF MovedUp
    <2> QED BY <1>0, <1>3, <2>1 DEF KeepsDeletions, KeepsCall, Stays
  <1>4. CASE ~(f.busy \/ f.ops = << >>) /\ kept # {}
    <2>1. /\ kept \subseteq 1..Len(f.ops) /\ Len(f.ops) \in Nat
          /\ DOMAIN f.ops = 1..Len(f.ops)
      BY OpsOfFifo
    <2>2. first \in kept /\ \A j \in kept : first <= j
      <3>1. kept \subseteq Nat /\ kept # {}
        BY <2>1, <1>4
      <3> HIDE DEF kept
      <3>2. \E i \in kept : \A j \in kept : i <= j
        BY <3>1, NatSetHasMinimum
      <3> QED BY <3>2
    <2>3. g.ops = SubSeq(f.ops, first, Len(f.ops))
      BY <1>4 DEF StartFront
    <2>4. first \in 1..Len(f.ops)
      BY <2>1, <2>2
    <2>5. \A i \in DOMAIN f.ops : f.ops[i].kind = "delete" => first <= i
      BY <1>2, <2>2
    <2> HIDE DEF g, first, kept
    <2>6. /\ Len(g.ops) = Len(f.ops) - first + 1 /\ DOMAIN g.ops = 1..Len(g.ops)
          /\ \A j \in 1..Len(g.ops) : g.ops[j] = f.ops[first + j - 1]
      <3>1. DOMAIN g.ops = 1..Len(g.ops)
        BY <1>0, OpsOfFifo
      <3>2. \A i \in first..Len(f.ops) : f.ops[i] \in Ops
        BY <2>1, <2>4, OpsOfFifo
      <3> QED BY <2>1, <2>3, <2>4, <3>1, <3>2, SubSeqProperties
    <2>7. first - 1 \in Nat
      BY <2>4
    <2>8. MovedUp(f, g, first - 1)
      <3> SUFFICES ASSUME NEW i \in DOMAIN f.ops, f.ops[i].kind = "delete"
                   PROVE  /\ i - (first - 1) \in DOMAIN g.ops
                          /\ g.ops[i - (first - 1)].kind = "delete"
        BY DEF MovedUp
      <3> DEFINE j == i - (first - 1)
      <3>1. j \in 1..Len(g.ops) /\ first + j - 1 = i
        BY <2>1, <2>4, <2>5, <2>6
      <3> HIDE DEF j
      <3>2. j \in DOMAIN g.ops /\ g.ops[j].kind = "delete"
        BY <2>6, <3>1
      <3> QED BY <3>2 DEF j
    <2>9. Stays(f, g)
      BY <1>4, <2>7, <2>8 DEF KeepsDeletions, KeepsCall, Stays
    <2> QED BY <1>0, <2>9 DEF g
  <1> QED BY <1>1, <1>3, <1>4

\* An operation that is not a Delete leaves the queue.
LEMMA DequeueKeepsDeletions ==
  ASSUME NEW f \in Fifos, f.ops # << >>, Head(f.ops).kind # "delete"
  PROVE  Dequeue(f) \in Fifos /\ KeepsDeletions(f, Dequeue(f))
  <1> DEFINE g == Dequeue(f)
  <1>1. /\ f.ops \in Seq(Ops) /\ Len(f.ops) \in Nat /\ Len(f.ops) # 0
        /\ DOMAIN f.ops = 1..Len(f.ops)
    BY OpsOfFifo
  <1>2. g \in Fifos /\ g.ops = Tail(f.ops)
    BY DequeueType DEF Fifos, Dequeue
  <1> HIDE DEF g
  <1>3. /\ Len(g.ops) = Len(f.ops) - 1 /\ DOMAIN g.ops = 1..(Len(f.ops) - 1)
        /\ \A i \in 1..(Len(f.ops) - 1) : g.ops[i] = f.ops[i + 1]
        /\ Head(f.ops) = f.ops[1]
    BY <1>1, <1>2, OpsOfFifo, HeadTailProperties
  <1>4. MovedUp(f, g, 1)
    <2> SUFFICES ASSUME NEW i \in DOMAIN f.ops, f.ops[i].kind = "delete"
                 PROVE  i - 1 \in DOMAIN g.ops /\ g.ops[i - 1].kind = "delete"
      BY DEF MovedUp
    <2>1. i # 1
      BY <1>3
    <2>2. i - 1 \in 1..(Len(f.ops) - 1) /\ (i - 1) + 1 = i
      BY <1>1, <2>1
    <2>3. g.ops[i - 1] = f.ops[i]
      BY <1>3, <2>2
    <2> QED BY <1>3, <2>2, <2>3
  <1> QED BY <1>2, <1>4 DEF KeepsDeletions, g

\* A step that leaves every queue alone, and one that changes that of one
\* profile and keeps its Deletes.
LEMMA SameQueuesKeep ==
  ASSUME IInv, UNCHANGED fifo
  PROVE  \A p \in Profiles : Stays(fifo[p], fifo'[p])
  <1>1. \A p \in Profiles : fifo[p] \in Fifos
    BY DEF IInv, TypeOK
  <1> QED BY <1>1, KeptInPlace DEF SameCall

\* Where one queue changes the others keep what they have.
LEMMA OneQueueKeeps ==
  ASSUME IInv, NEW q \in Profiles, NEW f, KeepsDeletions(fifo[q], f),
         fifo' = [fifo EXCEPT ![q] = f]
  PROVE  /\ \A p \in Profiles : KeepsDeletions(fifo[p], fifo'[p])
         /\ Stays(fifo[q], f) => \A p \in Profiles : Stays(fifo[p], fifo'[p])
  <1>1. \A p \in Profiles : fifo[p] \in Fifos
    BY DEF IInv, TypeOK
  <1>2. \A p \in Profiles : fifo'[p] = IF p = q THEN f ELSE fifo[p]
    BY DEF IInv, TypeOK
  <1>3. \A p \in Profiles : Stays(fifo[p], fifo[p])
    BY <1>1, KeptInPlace DEF SameCall
  <1> QED BY <1>2, <1>3 DEF Stays

\* An abandoned session leaves its Deletes in the queues.
LEMMA AbandonedKeeps ==
  ASSUME IInv, NEW p \in Profiles
  PROVE  /\ Abandoned[p] \in Fifos /\ Stays(fifo[p], Abandoned[p])
         /\ \A new : Stays(fifo[p], Reconciled(Abandoned, new)[p])
  <1>1. fifo[p] \in Fifos
    BY DEF IInv, TypeOK
  <1>2. Abandoned[p] \in Fifos /\ Stays(fifo[p], Abandoned[p])
    <2>1. CASE p = selected
      <3>1. /\ Invalidate(fifo[p]) \in Fifos
            /\ Stays(fifo[p], Invalidate(fifo[p]))
        BY <1>1, EpochsKeepDeletions
      <3>2. Abandoned[p] = DropLive(Invalidate(fifo[p]))
        BY <2>1 DEF Abandoned
      <3> QED BY <1>1, <3>1, <3>2, EpochsKeepDeletions, StaysTwice
    <2>2. CASE p # selected
      <3>1. Abandoned[p] = DropLive(fifo[p])
        BY <2>2 DEF Abandoned
      <3> QED BY <1>1, <3>1, EpochsKeepDeletions
    <2> QED BY <2>1, <2>2
  <1>3. ASSUME NEW new PROVE Stays(fifo[p], Reconciled(Abandoned, new)[p])
    <2>1. Reconciled(Abandoned, new)[p] \in
            {Abandoned[p], InvalidateForEndpointChange(Abandoned[p])}
      BY DEF Reconciled
    <2>2. Stays(fifo[p], InvalidateForEndpointChange(Abandoned[p]))
      BY <1>1, <1>2, EpochsKeepDeletions, StaysTwice
    <2> QED BY <1>2, <2>1, <2>2
  <1> QED BY <1>2, <1>3

\* start() and switchProfile(), alone and as retries.
LEMMA StartKeeps ==
  ASSUME IInv, DoStart
  PROVE  \A p \in Profiles : Stays(fifo[p], fifo'[p])
  <1>1. fifo' = Abandoned \/ \E new : fifo' = Reconciled(Abandoned, new)
    BY DEF DoStart, StartFails, StartLoads
  <1> QED BY <1>1, AbandonedKeeps

\* A switch of profiles abandons what is queued, and drops no deletion.
LEMMA SwitchKeeps ==
  ASSUME IInv, NEW q \in Profiles, DoSwitch(q)
  PROVE  \A p \in Profiles : Stays(fifo[p], fifo'[p])
  <1>1. fifo' = Abandoned \/ UNCHANGED fifo
    BY DEF DoSwitch, SwitchUnknown, SwitchNotSaved, SwitchSaved
  <1> QED BY <1>1, AbandonedKeeps, SameQueuesKeep

\* A step that queues one operation more for the selected profile.
LEMMA EnqueueKeeps ==
  ASSUME IInv, selected # NoProfile, NEW op \in Ops,
         fifo' = [fifo EXCEPT ![selected] = Enqueue(@, op)]
  PROVE  \A p \in Profiles : Stays(fifo[p], fifo'[p])
  <1>1. selected \in Profiles /\ fifo[selected] \in Fifos
    BY SelectedProfile DEF IInv, TypeOK
  <1>2. Stays(fifo[selected], Enqueue(fifo[selected], op))
    BY <1>1, EnqueueKeepsDeletions
  <1>3. fifo' = [fifo EXCEPT ![selected] = Enqueue(fifo[selected], op)]
    OBVIOUS
  <1> QED BY <1>1, <1>2, <1>3, OneQueueKeeps DEF Stays

\* A credential is read.
LEMMA RestoreKeeps ==
  ASSUME IInv, selected # NoProfile, StartRestore
  PROVE  \A p \in Profiles : Stays(fifo[p], fifo'[p])
  <1> DEFINE f == RequestRestoreRead(fifo[selected], profiles[selected])
  <1>1. selected \in Profiles /\ profiles[selected] \in Endpoints
    BY SelectedProfile
  <1>2. fifo[selected] \in Fifos
    BY <1>1 DEF IInv, TypeOK
  <1>3. Stays(fifo[selected], f)
    BY <1>1, <1>2, RestoreKeepsDeletions
  <1>4. fifo' = [fifo EXCEPT ![selected] = f]
    BY DEF StartRestore
  <1> HIDE DEF f
  <1> QED BY <1>1, <1>3, <1>4, OneQueueKeeps DEF Stays

\* An answer to a Read or a Save.
LEMMA AdvanceKeepsDeletions ==
  ASSUME IInv, NEW q \in Profiles, fifo[q].busy, Head(fifo[q].ops).kind # "delete",
         Advance(q) \/ AdvanceWith(q, DeleteOp("untrusted"))
  PROVE  \A p \in Profiles : KeepsDeletions(fifo[p], fifo'[p])
  <1> DEFINE g == Dequeue(fifo[q])
             delete == DeleteOp("untrusted")
  <1>1. fifo[q] \in Fifos /\ fifo[q].ops # << >>
    BY HeadOp DEF IInv, TypeOK
  <1>2. g \in Fifos /\ KeepsDeletions(fifo[q], g)
    BY <1>1, DequeueKeepsDeletions
  <1>3. delete \in Ops
    BY DEF Ops, Kinds, Purposes, DeleteOp
  <1> HIDE DEF g, delete
  <1>4. Enqueue(g, delete) \in Fifos /\ KeepsDeletions(fifo[q], Enqueue(g, delete))
    BY <1>1, <1>2, <1>3, EnqueueKeepsDeletions, KeptTwice DEF Stays
  <1>5. /\ KeepsDeletions(fifo[q], StartFront(g))
        /\ KeepsDeletions(fifo[q], StartFront(Enqueue(g, delete)))
    BY <1>1, <1>2, <1>4, StartKeepsDeletions, KeptTwice DEF Stays
  <1>6. \/ fifo' = [fifo EXCEPT ![q] = StartFront(g)]
        \/ fifo' = [fifo EXCEPT ![q] = StartFront(Enqueue(g, delete))]
    BY DEF Advance, AdvanceWith, g, delete
  <1> QED BY <1>5, <1>6, OneQueueKeeps

\* retry() of what is not a start or a switch.
LEMMA RetryKeeps ==
  ASSUME IInv, Retry
  PROVE  \A p \in Profiles : Stays(fifo[p], fifo'[p])
  <1>1. CASE RetryDeletion
    <2> DEFINE q == Head(stalled)
    <2>1. q \in Profiles /\ fifo' = [fifo EXCEPT ![q] = StartFront(fifo[q])]
      BY <1>1, HeadTailProperties DEF RetryDeletion, IInv, TypeOK
    <2>2. fifo[q] \in Fifos
      BY <2>1 DEF IInv, TypeOK
    <2> HIDE DEF q
    <2> QED BY <2>1, <2>2, StartKeepsDeletions, OneQueueKeeps DEF Stays
  <1>2. CASE RetryAction
    <2>1. CASE retryAction.kind = "start" /\ DoStart
      BY <2>1, StartKeeps
    <2>2. CASE retryAction.kind = "switch" /\ DoSwitch(retryAction.profile)
      BY <2>2, SwitchKeeps DEF IInv, RetryOK
    <2>3. CASE UNCHANGED fifo
      BY <2>3, SameQueuesKeep
    <2>4. CASE retryAction.kind = "restore" /\ StartRestore
      <3>1. selected # NoProfile
        BY <2>4 DEF IInv, SelectionOK
      <3> QED BY <2>4, <3>1, RestoreKeeps
    <2>5. CASE retryAction.kind = "save" /\ SaveFreshToken(retryAction.token)
      <3>1. selected # NoProfile
        BY <2>5 DEF IInv, SelectionOK
      <3>2. SaveOp(retryAction.token, profiles[selected]) \in Ops
        BY <2>5, <3>1, SelectedProfile
           DEF IInv, RetryOK, Ops, Kinds, Purposes, SaveOp
      <3> QED BY <2>5, <3>1, <3>2, EnqueueKeeps DEF SaveFreshToken
    <2> QED BY <1>2, <2>1, <2>2, <2>3, <2>4, <2>5 DEF RetryAction
  <1> QED BY <1>1, <1>2 DEF Retry

\* The other things that are asked of a session.
LEMMA InputKeeps ==
  ASSUME IInv, SignIn \/ Register \/ SignOut \/ RequestAccessToken
  PROVE  \A p \in Profiles : Stays(fifo[p], fifo'[p])
  <1>1. CASE SignIn \/ Register
    BY <1>1, SameQueuesKeep DEF SignIn, Register, SendCredentials
  <1>2. CASE SignOut
    <2> DEFINE op == DeleteOp("signOut")
    <2>1. /\ selected \in Profiles
          /\ fifo' = [Abandoned EXCEPT ![selected] = Enqueue(@, op)]
      BY <1>2, SelectedProfile DEF SignOut, IInv, SelectionOK
    <2>2. op \in Ops
      BY DEF Ops, Kinds, Purposes, DeleteOp
    <2> HIDE DEF op
    <2>3. \A p \in Profiles :
            fifo'[p] = IF p = selected THEN Enqueue(Abandoned[p], op) ELSE Abandoned[p]
      BY <2>1 DEF Abandoned
    <2>4. ASSUME NEW p \in Profiles
          PROVE  /\ Stays(fifo[p], Abandoned[p])
                 /\ Stays(fifo[p], Enqueue(Abandoned[p], op))
      <3>1. fifo[p] \in Fifos
        BY DEF IInv, TypeOK
      <3>2. Abandoned[p] \in Fifos /\ Stays(fifo[p], Abandoned[p])
        BY AbandonedKeeps
      <3>3. Stays(Abandoned[p], Enqueue(Abandoned[p], op))
        BY <2>2, <3>2, EnqueueKeepsDeletions
      <3> QED BY <3>1, <3>2, <3>3, StaysTwice
    <2> QED BY <2>3, <2>4
  <1>3. CASE RequestAccessToken
    <2>1. selected # NoProfile
      BY <1>3 DEF RequestAccessToken, Exposed, IInv, SelectionOK
    <2>2. ReadOp("access", profiles[selected]) \in Ops
      BY <2>1, SelectedProfile DEF Ops, Kinds, Purposes, ReadOp
    <2> QED BY <1>3, <2>1, <2>2, EnqueueKeeps DEF RequestAccessToken
  <1> QED BY <1>1, <1>2, <1>3

\* The answers of the probe and of the server.
LEMMA AnswerKeeps ==
  ASSUME IInv, ProbeFinished \/ AuthAnswered \/ WhoAmIAnswered
  PROVE  \A p \in Profiles : Stays(fifo[p], fifo'[p])
  <1>1. CASE UNCHANGED fifo
    BY <1>1, SameQueuesKeep
  <1>2. CASE probe = "running" /\ StartRestore
    <2>1. selected # NoProfile
      BY <1>2 DEF IInv, SelectionOK
    <2> QED BY <1>2, <2>1, RestoreKeeps
  <1>3. CASE /\ request.kind = "restoredWhoAmI"
             /\ fifo' = [fifo EXCEPT ![selected] = Enqueue(@, DeleteOp("untrusted"))]
    <2>1. selected # NoProfile /\ DeleteOp("untrusted") \in Ops
      BY <1>3, Requesting, NoValueAssumption DEF Ops, Kinds, Purposes, DeleteOp
    <2> QED BY <1>3, <2>1, EnqueueKeeps
  <1>4. CASE request.kind = "freshWhoAmI" /\ SaveFreshToken(request.token)
    <2>1. /\ selected # NoProfile
          /\ SaveOp(request.token, profiles[selected]) \in Ops
      BY <1>4, Requesting, NoValueAssumption
         DEF IInv, RequestOK, Ops, Kinds, Purposes, SaveOp
    <2> QED BY <1>4, <2>1, EnqueueKeeps DEF SaveFreshToken
  <1>5. ProbeFinished => UNCHANGED fifo \/ (probe = "running" /\ StartRestore)
    BY DEF ProbeFinished, ProbeFinishedWith
  <1>6. AuthAnswered => UNCHANGED fifo
    BY DEF AuthAnswered, AuthAnsweredWith
  <1>7. WhoAmIAnswered =>
          \/ UNCHANGED fifo
          \/ /\ request.kind = "restoredWhoAmI"
             /\ fifo' = [fifo EXCEPT ![selected] = Enqueue(@, DeleteOp("untrusted"))]
          \/ request.kind = "freshWhoAmI" /\ SaveFreshToken(request.token)
    BY DEF WhoAmIAnswered, WhoAmIAnsweredWith, RestoredWhoAmIAnswered,
           FreshWhoAmIAnswered
  <1> QED BY <1>1, <1>2, <1>3, <1>4, <1>5, <1>6, <1>7

\* What is not an answer of the store leaves the calls to it outstanding, and
\* the Deletes in their queues.
LEMMA QueuesKeep ==
  ASSUME IInv, Input \/ ProbeFinished \/ AuthAnswered \/ WhoAmIAnswered \/ UNCHANGED vars
  PROVE  \A p \in Profiles : Stays(fifo[p], fifo'[p])
  <1>1. CASE Start
    BY <1>1, StartKeeps DEF Start
  <1>2. ASSUME NEW q \in Profiles, SwitchProfile(q)
        PROVE  \A p \in Profiles : Stays(fifo[p], fifo'[p])
    BY <1>2, SwitchKeeps DEF SwitchProfile
  <1>3. CASE SignIn \/ Register \/ SignOut \/ RequestAccessToken
    BY <1>3, InputKeeps
  <1>4. CASE Retry
    BY <1>4, RetryKeeps
  <1>5. CASE ProbeFinished \/ AuthAnswered \/ WhoAmIAnswered
    BY <1>5, AnswerKeeps
  <1>6. CASE UNCHANGED vars
    BY <1>6, SameQueuesKeep DEF vars
  <1> QED BY <1>1, <1>2, <1>3, <1>4, <1>5, <1>6 DEF Input

\* The answers of the store, one of which is that a Delete has succeeded.
LEMMA StoreKeeps ==
  ASSUME IInv, NEW q \in Profiles, StoreAnswers(q), NEW p \in Profiles
  PROVE  KeepsDeletions(fifo[p], fifo'[p]) \/ vault'[p] = NoEntry
  <1>1. CASE ReadAnswered(q)
    <2>1. /\ fifo[q].busy /\ Head(fifo[q].ops).kind # "delete"
          /\ Advance(q) \/ AdvanceWith(q, DeleteOp("untrusted"))
      BY <1>1 DEF ReadAnswered, ReadAnsweredWith, Answering, DeadAnswered,
                  RestoreReadAnswered, AccessReadAnswered
    <2> QED BY <2>1, AdvanceKeepsDeletions
  <1>2. CASE SaveAnswered(q)
    <2>1. fifo[q].busy /\ Head(fifo[q].ops).kind # "delete" /\ Advance(q)
      BY <1>2 DEF SaveAnswered, SaveAnsweredWith, Answering, DeadAnswered,
                  SaveContinues
    <2> QED BY <2>1, AdvanceKeepsDeletions
  <1>3. CASE DeleteSucceeds(q)
    <2>1. /\ Advance(q) /\ vault' = [vault EXCEPT ![q] = NoEntry]
      BY <1>3 DEF DeleteSucceeds, DeadAnswered, DeleteContinues, AfterDelete
    <2>2. CASE p = q
      BY <2>1, <2>2 DEF IInv, TypeOK
    <2>3. CASE p # q
      <3>1. fifo'[p] = fifo[p] /\ fifo[p] \in Fifos
        BY <2>1, <2>3 DEF Advance, IInv, TypeOK
      <3> QED BY <3>1, KeptInPlace DEF SameCall
    <2> QED BY <2>2, <2>3
  <1>4. CASE DeleteFails(q)
    <2> DEFINE f == [fifo[q] EXCEPT !.busy = FALSE]
    <2>1. fifo[q] \in Fifos /\ fifo' = [fifo EXCEPT ![q] = f]
      BY <1>4 DEF DeleteFails, IInv, TypeOK
    <2>2. f.ops = fifo[q].ops
      BY <2>1, FifoFields DEF Fifos
    <2> HIDE DEF f
    <2>3. KeepsDeletions(fifo[q], f)
      BY <2>1, <2>2, KeptInPlace DEF SameCall
    <2> QED BY <2>1, <2>3, OneQueueKeeps
  <1> QED BY <1>1, <1>2, <1>3, <1>4 DEF StoreAnswers

\* A required deletion leaves the queue of its profile only once the secure
\* store holds nothing for it, or with the process: no restart, switch,
\* sign-out, retry or skipped Save takes it along.
THEOREM DeletionsStay == Spec => DeletionIsNeverDropped
  <1>1. ASSUME IInv, IInv', [Next]_vars, NEW p \in Profiles
        PROVE  Deletions(fifo'[p]) < Deletions(fifo[p]) =>
                 vault'[p] = NoEntry \/ state' = "Loading"
    <2>1. fifo[p] \in Fifos /\ fifo'[p] \in Fifos
      BY <1>1 DEF IInv, TypeOK
    <2>2. \/ KeepsDeletions(fifo[p], fifo'[p])
          \/ vault'[p] = NoEntry \/ state' = "Loading"
      <3>1. CASE Input \/ ProbeFinished \/ AuthAnswered \/ WhoAmIAnswered \/ UNCHANGED vars
        BY <1>1, <3>1, QueuesKeep DEF Stays
      <3>2. ASSUME NEW q \in Profiles, StoreAnswers(q)
            PROVE  KeepsDeletions(fifo[p], fifo'[p]) \/ vault'[p] = NoEntry
        BY <1>1, <3>2, StoreKeeps
      <3>3. CASE Terminate
        BY <3>3 DEF Terminate
      <3> QED BY <1>1, <3>1, <3>2, <3>3 DEF Next, Answer
    <2> QED BY <2>1, <2>2, DeletionsKept
  <1>2. IInv /\ IInv' /\ [Next]_vars =>
          [\A p \in Profiles :
             Deletions(fifo'[p]) < Deletions(fifo[p]) =>
               vault'[p] = NoEntry \/ state' = "Loading"]_vars
    BY <1>1
  <1> QED BY <1>2, Invariant, PTL DEF Spec, DeletionIsNeverDropped

-----------------------------------------------------------------------------
(* The session that its users see                                          *)

\* A session that is under way has a profile, and the profile an endpoint.
LEMMA UnderWay ==
  ASSUME IInv, Phase # "away"
  PROVE  selected \in Profiles /\ selected # NoProfile /\ profiles[selected] \in Endpoints
  <1>1. state \notin {"Loading", "ProfileStorageFailure"}
    BY DEF Phase
  <1>2. selected # NoProfile
    BY <1>1 DEF IInv, SelectionOK
  <1> QED BY <1>2, SelectedProfile

\* The same after a step.
LEMMA NextUnderWay ==
  ASSUME IInv', Phase' # "away"
  PROVE  selected' \in Profiles /\ selected' # NoProfile
  <1>1. state' \notin {"Loading", "ProfileStorageFailure"}
    BY DEF Phase
  <1> QED BY <1>1 DEF IInv, SelectionOK, TypeOK

\* A step that concerns the queue of another profile.
LEMMA OtherQueue ==
  ASSUME IInv, NEW p \in Profiles, p # selected, NEW f,
         fifo' = [fifo EXCEPT ![p] = f], UNCHANGED selected
  PROVE  SelectedOps' = SelectedOps
  <1>1. \A q \in Profiles : q # p => fifo'[q] = fifo[q]
    BY DEF IInv, TypeOK
  <1> QED BY <1>1 DEF SelectedOps

\* A step that takes operations off a queue that no flow waits for.
LEMMA ShrunkQueue ==
  ASSUME IInv, Course, NEW p \in Profiles, NEW f, Orderly(f), Kept(fifo[p], f),
         fifo' = [fifo EXCEPT ![p] = f], UNCHANGED selected
  PROVE  SelectedOps' \subseteq SelectedOps
  <1>1. CASE p # selected
    BY <1>1, OtherQueue
  <1>2. CASE p = selected
    <2>1. QueuesOrderly
      BY DEF Course
    <2>2. SelectedOps' = OpsOf(f) /\ SelectedOps = OpsOf(fifo[p])
      BY <1>2, <2>1, ReplaceOrderly, QueueFacts
    <2> QED BY <2>2 DEF Kept
  <1> QED BY <1>1, <1>2

\* An entry changes only as the call that is outstanding for it would have it.
Wrote(p) ==
  /\ fifo[p].busy
  /\ LET op == Head(fifo[p].ops)
     IN  \/ op.kind = "save" /\ vault'[p] = BoundEntry(op.endpoint, op.token)
         \/ op.kind = "delete" /\ vault'[p] = NoEntry

\* Whatever the step, the answer of a call or the end of the process.
LEMMA Writing ==
  ASSUME IInv, [Next]_vars, NEW p \in Profiles
  PROVE  vault'[p] = vault[p] \/ Wrote(p)
  <1>1. fifo[p] \in Fifos /\ vault \in [Profiles -> Entries]
    BY DEF IInv, TypeOK
  <1>2. CASE Input \/ ProbeFinished \/ AuthAnswered \/ WhoAmIAnswered \/ UNCHANGED vars
    <2>1. vault' = vault
      BY <1>2 DEF Input, Start, SwitchProfile, SignIn, Register, SignOut, Retry,
         RetryDeletion, RetryAction, RequestAccessToken, DoStart, DoSwitch,
         SendCredentials, ProbeFinished, ProbeFinishedWith, AuthAnswered,
         AuthAnsweredWith, WhoAmIAnswered, WhoAmIAnsweredWith,
         RestoredWhoAmIAnswered, FreshWhoAmIAnswered, vars
    <2> QED BY <2>1
  <1>3. ASSUME NEW q \in Profiles, StoreAnswers(q)
        PROVE  vault'[p] = vault[p] \/ Wrote(p)
    <2>1. CASE ReadAnswered(q)
      BY <2>1 DEF ReadAnswered, ReadAnsweredWith
    <2>2. CASE SaveAnswered(q)
      <3>1. PICK ok \in BOOLEAN : SaveAnsweredWith(q, ok)
        BY <2>2 DEF SaveAnswered
      <3>2. PICK entry \in AfterSave(vault[q], Head(fifo[q].ops), ok) :
              vault' = [vault EXCEPT ![q] = entry]
        BY <3>1 DEF SaveAnsweredWith
      <3>3. fifo[q].busy /\ Head(fifo[q].ops).kind = "save"
        BY <3>1 DEF SaveAnsweredWith, Answering
      <3> QED BY <1>1, <3>2, <3>3 DEF AfterSave, Wrote
    <2>3. CASE DeleteSucceeds(q) \/ DeleteFails(q)
      <3>1. PICK entry \in {vault[q], NoEntry} : vault' = [vault EXCEPT ![q] = entry]
        BY <2>3 DEF DeleteSucceeds, DeleteFails, AfterDelete
      <3>2. fifo[q].busy /\ Head(fifo[q].ops).kind = "delete"
        BY <2>3 DEF DeleteSucceeds, DeleteFails, Answering
      <3> QED BY <1>1, <3>1, <3>2 DEF Wrote
    <2> QED BY <1>3, <2>1, <2>2, <2>3 DEF StoreAnswers
  <1>4. CASE Terminate
    <2>1. vault'[p] \in CrashedEntries(p)
      BY <1>4 DEF Terminate
    <2>2. CASE ~fifo[p].busy
      BY <2>1, <2>2 DEF CrashedEntries
    <2>3. CASE fifo[p].busy
      <3>1. Head(fifo[p].ops).kind \in {"read", "save", "delete"}
        BY <2>3, HeadOp DEF GoodOps, Ops, Kinds
      <3> QED BY <2>1, <2>3, <3>1 DEF CrashedEntries, AfterSave, AfterDelete, Wrote
    <2> QED BY <2>2, <2>3
  <1> QED BY <1>2, <1>3, <1>4 DEF Next, Answer

\* What a step may write is what the promise lets it write.
LEMMA WritesEntries ==
  ASSUME IInv, IInv', [Next]_vars
  PROVE  /\ vault' \in [Profiles -> Promised!Entries]
         /\ \A p \in Profiles : Promised!Written(p)
  <1> DEFINE entryOf == [t \in Tokens |-> BoundEntry(Origin[t], t)]
  <1>1. \A entry \in Entries :
          (entry.form = "bound" => entry.token \in Tokens /\ Origin[entry.token] = entry.endpoint)
            => entry \in Promised!Entries
    <2> SUFFICES ASSUME NEW entry \in Entries,
                        entry.form = "bound" =>
                          entry.token \in Tokens /\ Origin[entry.token] = entry.endpoint
                 PROVE  entry \in Promised!Entries
      OBVIOUS
    <2>1. CASE entry.form # "bound"
      BY <2>1 DEF Entries, Promised!Entries
    <2>2. CASE entry.form = "bound"
      <3>1. entry = BoundEntry(entry.endpoint, entry.token)
        BY <2>2 DEF Entries, NoEntry, UnboundEntry, BoundEntry
      <3>2. entry = entryOf[entry.token]
        BY <2>2, <3>1
      <3> QED BY <2>2, <3>2 DEF Promised!Entries, Promised!Stored
    <2> QED BY <2>1, <2>2
  <1>2. vault' \in [Profiles -> Entries] /\ VaultOK'
    BY DEF IInv, TypeOK
  <1>3. \A p \in Profiles : vault'[p] \in Promised!Entries
    BY <1>1, <1>2 DEF VaultOK
  <1>4. vault' \in [Profiles -> Promised!Entries]
    BY <1>2, <1>3
  <1>5. ASSUME NEW p \in Profiles PROVE Promised!Written(p)
    <2>1. CASE vault'[p] = vault[p]
      BY <2>1 DEF Promised!Written
    <2>2. CASE Wrote(p)
      <3>1. CASE vault'[p] = NoEntry
        BY <3>1 DEF Promised!Written
      <3>2. CASE /\ Head(fifo[p].ops).kind = "save" /\ fifo[p].busy
                 /\ vault'[p] = BoundEntry(Head(fifo[p].ops).endpoint, Head(fifo[p].ops).token)
        <4> DEFINE token == Head(fifo[p].ops).token
        <4>1. token \in Tokens /\ Origin[token] = Head(fifo[p].ops).endpoint
          BY <3>2, HeadOp DEF GoodOps
        <4> HIDE DEF token
        <4>2. vault'[p] = entryOf[token]
          BY <3>2, <4>1 DEF token
        <4> QED BY <4>1, <4>2 DEF Promised!Written, Promised!Stored
      <3> QED BY <2>2, <3>1, <3>2 DEF Wrote
    <2> QED BY <2>1, <2>2, Writing
  <1> QED BY <1>4, <1>5

\* The entry of a session that is under way is left alone, but for the save
\* that ends a sign-in and the deletion that ends a sign-out.
LEMMA WritesOwn ==
  ASSUME IInv, Course, LeavingOK, [Next]_vars
  PROVE  /\ Phase \in {"in", "out"} => vault'[selected] = vault[selected]
         /\ Phase = "leaving" => vault'[selected] \in {vault[selected], NoEntry}
  <1> SUFFICES ASSUME Phase \in {"in", "out", "leaving"}
               PROVE  /\ Phase \in {"in", "out"} => vault'[selected] = vault[selected]
                      /\ Phase = "leaving" => vault'[selected] \in {vault[selected], NoEntry}
    OBVIOUS
  <1>1. selected \in Profiles
    BY UnderWay
  <1>2. CASE vault'[selected] = vault[selected]
    BY <1>2
  <1>3. CASE Wrote(selected)
    <2> DEFINE op == Head(fifo[selected].ops)
    <2>1. op \in SelectedOps /\ Shaped(op)
      BY <1>1, <1>3, AnsweredHead DEF Wrote
    <2>2. op.kind \in {"save", "delete"}
      BY <1>3 DEF Wrote
    <2>3. op.kind = "delete" => vault'[selected] = NoEntry
      BY <1>3 DEF Wrote
    <2> HIDE DEF op
    <2>4. state # "SignedIn" /\ state # "SignedOut"
      BY <2>1, <2>2 DEF Course, StateOK, Shaped
    <2>5. state = "SigningOut"
      BY <2>4 DEF Phase
    <2>6. op.kind = "delete"
      BY <2>1, <2>2, <2>5 DEF Course, StateOK, LeavingOK
    <2>7. Phase = "leaving"
      BY <2>5 DEF Phase
    <2> QED BY <2>3, <2>6, <2>7
  <1> QED BY <1>1, <1>2, <1>3, Writing

\* How a step leaves the session where it is, or takes it further.
Remains ==
  /\ UNCHANGED <<profiles, selected>> /\ Phase' = Phase
  /\ Phase \in {"in", "leaving"} => UNCHANGED user
  /\ Phase = "leaving" => /\ vault'[selected] = vault[selected]
                          /\ SelectedOps' \subseteq SelectedOps
Ends ==
  /\ Phase = "in" /\ Phase' = "leaving" /\ UNCHANGED <<user, vault>>
  /\ \A op \in SelectedOps' : Drives(op) \/ op.kind = "read"
Moves ==
  /\ UNCHANGED <<profiles, selected>>
  /\ \/ Phase = "out" /\ Phase' = "entering"
     \/ Phase \in {"entering", "away"} /\ Phase' = "in"
     \/ Phase \in {"entering", "away", "leaving"} /\ Phase' = "out"
     \/ Ends
Onward == Phase' = "away" \/ Remains \/ Moves

\* The session while a flow other than a sign-out drives it.
LEMMA NotSettled ==
  ASSUME state \notin {"SignedIn", "SignedOut", "SigningOut"}
  PROVE  Phase \in {"entering", "away"}
  BY DEF Phase

\* What is left of a session, where the profile stays and so does the state.
LEMMA SameState ==
  ASSUME UNCHANGED <<state, profiles, selected>>,
         state \in {"SignedIn", "SigningOut"} => UNCHANGED user,
         state = "SigningOut" => /\ vault'[selected] = vault[selected]
                                 /\ SelectedOps' \subseteq SelectedOps
  PROVE  Remains
  BY DEF Remains, Phase

\* start() and switchProfile(), whatever becomes of them.
LEMMA RestartPhase ==
  ASSUME DoStart \/ \E p \in Profiles \cup {NoProfile} : DoSwitch(p)
  PROVE  Phase' = "away"
  BY DEF DoStart, DoSwitch, StartFails, StartLoads, SwitchUnknown, SwitchNotSaved,
         SwitchSaved, StartProbe, Phase

\* signOut().
LEMMA SignOutPhase == ASSUME IInv, Course, SignOut PROVE Moves
  <1> DEFINE op == DeleteOp("signOut")
  <1>1. /\ state = "SignedIn" /\ state' = "SigningOut"
        /\ fifo' = [Abandoned EXCEPT ![selected] = Enqueue(Abandoned[selected], op)]
        /\ UNCHANGED <<user, profiles, selected, vault>>
    BY DEF SignOut
  <1>2. /\ selected \in Profiles /\ QueuesOrderly
        /\ \A o \in OpsOf(Abandoned[selected]) : ~Awaited(o) /\ o.kind = "read"
    BY <1>1, SignedInQueue DEF Course
  <1>3. op \in Ops /\ Shaped(op) /\ New(op) /\ Drives(op) /\ op.kind = "delete"
    BY MadeNew DEF Ops, Kinds, Purposes, DeleteOp, Shaped, Drives
  <1> HIDE DEF op
  <1>4. OpsOf(Enqueue(Abandoned[selected], op)) = OpsOf(Abandoned[selected]) \cup {op}
    BY <1>2, <1>3, AbandonedOrderly, EnqueueOrderly
  <1>5. fifo'[selected] = Enqueue(Abandoned[selected], op)
    BY <1>1, <1>2 DEF Abandoned
  <1>6. SelectedOps' = OpsOf(Abandoned[selected]) \cup {op}
    BY <1>1, <1>2, <1>4, <1>5 DEF SelectedOps
  <1>7. \A o \in SelectedOps' : Drives(o) \/ o.kind = "read"
    BY <1>2, <1>3, <1>6
  <1>8. Phase = "in" /\ Phase' = "leaving"
    BY <1>1 DEF Phase
  <1> QED BY <1>1, <1>7, <1>8 DEF Moves, Ends

\* retry().
LEMMA RetryPhase == ASSUME IInv, Course, Retry PROVE Onward
  <1>1. CASE RetryDeletion
    <2> DEFINE p == Head(stalled)
               f == StartFront(fifo[p])
    <2>1. /\ fifo' = [fifo EXCEPT ![p] = f]
          /\ UNCHANGED <<state, user, profiles, selected, vault>>
      BY <1>1 DEF RetryDeletion
    <2>2. p \in Profiles
      BY <1>1, HeadTailProperties DEF RetryDeletion, IInv, TypeOK
    <2>3. Orderly(f) /\ Kept(fifo[p], f)
      BY <2>2, QueueFacts, StartFrontKeeps DEF Course
    <2> HIDE DEF p, f
    <2>4. SelectedOps' \subseteq SelectedOps
      BY <2>1, <2>2, <2>3, ShrunkQueue
    <2> QED BY <2>1, <2>4, SameState DEF Onward
  <1>2. CASE RetryAction
    <2>1. CASE retryAction.kind = "start" /\ DoStart
      BY <2>1, RestartPhase DEF Onward
    <2>2. CASE retryAction.kind = "switch" /\ DoSwitch(retryAction.profile)
      <3>1. retryAction.profile \in Profiles \cup {NoProfile}
        BY DEF IInv, TypeOK, RetryActions
      <3> QED BY <2>2, <3>1, RestartPhase DEF Onward
    <2>3. CASE retryAction.kind = "probe" /\ StartProbe
      BY <2>3 DEF StartProbe, Phase, Onward
    <2>4. CASE retryAction.kind = "restore" /\ StartRestore
      BY <2>4 DEF StartRestore, Phase, Onward
    <2>5. CASE /\ retryAction.kind \in {"whoami", "save"}
               /\ UNCHANGED <<state, user, profiles, selected>>
      <3>1. state \notin {"SignedIn", "SigningOut"}
        BY <2>5, RetryAlone
      <3> QED BY <2>5, <3>1, SameState DEF Onward
    <2> QED BY <1>2, <2>1, <2>2, <2>3, <2>4, <2>5 DEF RetryAction
  <1> QED BY <1>1, <1>2 DEF Retry

\* The server answers.
LEMMA ServerPhase ==
  ASSUME IInv, Course, AuthAnswered \/ WhoAmIAnswered PROVE Onward
  <1>1. request.kind # "none" /\ UNCHANGED <<profiles, selected>>
    BY DEF AuthAnswered, AuthAnsweredWith, WhoAmIAnswered, WhoAmIAnsweredWith,
           RestoredWhoAmIAnswered, FreshWhoAmIAnswered
  <1>2. state \notin {"SignedIn", "SignedOut", "SigningOut"}
    BY <1>1, RequestAlone
  <1>3. \/ UNCHANGED state
        \/ state' \in {"SignedIn", "SignedOut", "ServerMaintenance", "RecoverableFailure"}
    BY DEF AuthAnswered, AuthAnsweredWith, WhoAmIAnswered, WhoAmIAnsweredWith,
           RestoredWhoAmIAnswered, FreshWhoAmIAnswered, EnterMaintenance, Settle
  <1>4. CASE UNCHANGED state
    BY <1>1, <1>2, <1>4, SameState DEF Onward
  <1>5. CASE state' \in {"SignedIn", "SignedOut", "ServerMaintenance", "RecoverableFailure"}
    <2>1. Phase' \in {"in", "out", "away"}
      BY <1>5 DEF Phase
    <2> QED BY <1>1, <1>2, <2>1, NotSettled DEF Onward, Moves
  <1> QED BY <1>3, <1>4, <1>5

\* A completion that no flow of the session waits for.
LEMMA UndrivenPhase ==
  ASSUME IInv, Course, LeavingOK, NEW p \in Profiles, fifo[p].busy,
         ~Drives(Head(fifo[p].ops)), Advance(p),
         UNCHANGED <<state, user, profiles, selected>>,
         \/ UNCHANGED vault
         \/ /\ Head(fifo[p].ops).kind # "read"
            /\ \E entry : vault' = [vault EXCEPT ![p] = entry]
  PROVE  Onward
  <1> DEFINE f == StartFront(Dequeue(fifo[p]))
  <1>1. Orderly(f) /\ Kept(fifo[p], f)
    BY AnsweredHead, AdvanceKeeps
  <1>2. fifo' = [fifo EXCEPT ![p] = f]
    BY DEF Advance
  <1> HIDE DEF f
  <1>3. SelectedOps' \subseteq SelectedOps
    BY <1>1, <1>2, ShrunkQueue
  <1>4. state = "SigningOut" => vault'[selected] = vault[selected]
    <2> SUFFICES ASSUME state = "SigningOut", Head(fifo[p].ops).kind # "read",
                        NEW entry, vault' = [vault EXCEPT ![p] = entry]
                 PROVE  vault'[selected] = vault[selected]
      OBVIOUS
    <2>1. p # selected
      BY AnsweredHead DEF LeavingOK
    <2>2. selected \in Profiles /\ vault \in [Profiles -> Entries]
      BY UnderWay DEF Phase, IInv, TypeOK
    <2> QED BY <2>1, <2>2
  <1> QED BY <1>3, <1>4, SameState DEF Onward

\* A read answers.
LEMMA ReadPhase ==
  ASSUME IInv, Course, LeavingOK, NEW p \in Profiles, ReadAnswered(p) PROVE Onward
  <1> DEFINE op == Head(fifo[p].ops)
  <1>1. PICK o \in ReadOutcomes(p) : ReadAnsweredWith(p, o)
    BY DEF ReadAnswered
  <1>2. fifo[p].busy /\ op.kind = "read" /\ UNCHANGED <<profiles, selected, vault>>
    BY <1>1 DEF ReadAnsweredWith, Answering
  <1>3. CASE DeadAnswered(p) \/ AccessReadAnswered(p, o)
    <2>1. /\ ~Drives(op) /\ Advance(p) /\ UNCHANGED <<state, user>>
      BY <1>3 DEF DeadAnswered, AccessReadAnswered, Drives
    <2> QED BY <1>2, <2>1, UndrivenPhase
  <1>4. CASE RestoreReadAnswered(p, o)
    <2>1. Drives(op)
      BY <1>4 DEF RestoreReadAnswered, IsRestoreRead, Drives
    <2>2. state \notin {"SignedIn", "SignedOut"} /\ SelectedOps = {op}
      BY <1>2, <2>1, DrivingHead
    <2> HIDE DEF op
    <2>3. state # "SigningOut"
      BY <1>2, <2>1, <2>2 DEF Course, StateOK
    <2>4. CASE UNCHANGED state
      BY <1>2, <2>2, <2>3, <2>4, SameState DEF Onward
    <2>5. CASE state' \in {"SignedOut", "SecureStorageUnavailable"}
      <3>1. Phase' \in {"out", "away"}
        BY <2>5 DEF Phase
      <3> QED BY <1>2, <2>2, <2>3, <3>1, NotSettled DEF Onward, Moves
    <2> QED BY <1>4, <2>4, <2>5 DEF RestoreReadAnswered, Settle
  <1> QED BY <1>1, <1>3, <1>4 DEF ReadAnsweredWith

\* A save answers.
LEMMA SavePhase ==
  ASSUME IInv, Course, LeavingOK, NEW p \in Profiles, SaveAnswered(p) PROVE Onward
  <1> DEFINE op == Head(fifo[p].ops)
  <1>1. PICK ok \in BOOLEAN : SaveAnsweredWith(p, ok)
    BY DEF SaveAnswered
  <1>2. /\ fifo[p].busy /\ op.kind = "save" /\ UNCHANGED <<profiles, selected>>
        /\ \E entry : vault' = [vault EXCEPT ![p] = entry]
    BY <1>1 DEF SaveAnsweredWith, Answering
  <1>3. CASE DeadAnswered(p)
    <2>1. ~Drives(op) /\ Advance(p) /\ UNCHANGED <<state, user>>
      BY <1>3 DEF DeadAnswered, Drives
    <2> QED BY <1>2, <2>1, UndrivenPhase
  <1>4. CASE SaveContinues(p, ok)
    <2>1. Drives(op)
      BY <1>2, <1>4, AnsweredHead DEF SaveContinues, Shaped, Drives
    <2>2. state \notin {"SignedIn", "SignedOut"} /\ SelectedOps = {op}
      BY <1>2, <2>1, DrivingHead
    <2>3. state' \in {"SignedIn", "SecureStorageUnavailable"}
      BY <1>4 DEF SaveContinues
    <2> HIDE DEF op
    <2>4. state # "SigningOut"
      BY <1>2, <2>1, <2>2 DEF Course, StateOK
    <2>5. Phase' \in {"in", "away"}
      BY <2>3 DEF Phase
    <2> QED BY <1>2, <2>2, <2>4, <2>5, NotSettled DEF Onward, Moves
  <1> QED BY <1>1, <1>3, <1>4 DEF SaveAnsweredWith

\* A deletion answers.
LEMMA DeletePhase ==
  ASSUME IInv, Course, LeavingOK, NEW p \in Profiles,
         DeleteSucceeds(p) \/ DeleteFails(p)
  PROVE  Onward
  <1> DEFINE op == Head(fifo[p].ops)
  <1>1. /\ fifo[p].busy /\ op.kind = "delete" /\ UNCHANGED <<profiles, selected>>
        /\ \E entry : vault' = [vault EXCEPT ![p] = entry]
    BY DEF DeleteSucceeds, DeleteFails, Answering
  <1>2. CASE DeleteSucceeds(p) /\ DeadAnswered(p)
    <2>1. ~Drives(op) /\ Advance(p) /\ UNCHANGED <<state, user>>
      BY <1>2 DEF DeadAnswered, Drives
    <2> QED BY <1>1, <2>1, UndrivenPhase
  <1>3. CASE DeleteSucceeds(p) /\ DeleteContinues(p)
    <2>1. Drives(op)
      BY <1>1, <1>3, AnsweredHead DEF DeleteContinues, Shaped, Drives
    <2>2. state \notin {"SignedIn", "SignedOut"}
      BY <1>1, <2>1, DrivingHead
    <2>3. state' = "SignedOut"
      BY <1>3 DEF DeleteContinues, Settle
    <2>4. Phase' = "out" /\ Phase \in {"entering", "away", "leaving"}
      BY <2>2, <2>3 DEF Phase
    <2> QED BY <1>1, <2>4 DEF Onward, Moves
  <1>4. CASE DeleteFails(p)
    <2>1. CASE p = selected
      <3>1. state' = "SecureStorageUnavailable"
        BY <1>4, <2>1 DEF DeleteFails
      <3> QED BY <3>1 DEF Phase, Onward
    <2>2. CASE p # selected
      <3>1. /\ UNCHANGED <<state, user>>
            /\ \E f : fifo' = [fifo EXCEPT ![p] = f]
        BY <1>4, <2>2 DEF DeleteFails
      <3>2. SelectedOps' = SelectedOps
        BY <1>1, <2>2, <3>1, OtherQueue
      <3>3. state = "SigningOut" => vault'[selected] = vault[selected]
        BY <1>1, <2>2, UnderWay DEF Phase, IInv, TypeOK
      <3> QED BY <1>1, <3>1, <3>2, <3>3, SameState DEF Onward
    <2> QED BY <2>1, <2>2
  <1> QED BY <1>2, <1>3, <1>4 DEF DeleteSucceeds

\* Every step, one case per action.
LEMMA PhaseStep == ASSUME IInv, Course, LeavingOK, [Next]_vars PROVE Onward
  <1>1. CASE Start \/ \E p \in Profiles : SwitchProfile(p)
    BY <1>1, RestartPhase DEF Start, SwitchProfile, Onward
  <1>2. CASE SignIn \/ Register
    <2>1. /\ state = "SignedOut" /\ state' \in {"Authenticating", "Registering"}
          /\ UNCHANGED <<profiles, selected>>
      BY <1>2 DEF SignIn, Register, SendCredentials
    <2>2. Phase = "out" /\ Phase' = "entering"
      BY <2>1 DEF Phase
    <2> QED BY <2>1, <2>2 DEF Onward, Moves
  <1>3. CASE SignOut
    BY <1>3, SignOutPhase DEF Onward
  <1>4. CASE Retry
    BY <1>4, RetryPhase
  <1>5. CASE RequestAccessToken
    <2>1. state = "SignedIn" /\ UNCHANGED <<state, user, profiles, selected>>
      BY <1>5 DEF RequestAccessToken, Exposed
    <2> QED BY <2>1, SameState DEF Onward
  <1>6. CASE ProbeFinished
    <2>1. state' \in {"SecureStorageUnavailable", "RestoringCredential",
                      "Incompatible", "ServerMaintenance", "RecoverableFailure"}
      BY <1>6 DEF ProbeFinished, ProbeFinishedWith, ProbeOutcomes, StartRestore, AfterProbe
    <2> QED BY <2>1 DEF Phase, Onward
  <1>7. CASE AuthAnswered \/ WhoAmIAnswered
    BY <1>7, ServerPhase
  <1>8. ASSUME NEW p \in Profiles, StoreAnswers(p) PROVE Onward
    BY <1>8, ReadPhase, SavePhase, DeletePhase DEF StoreAnswers
  <1>9. CASE Terminate
    BY <1>9 DEF Terminate, Phase, Onward
  <1>10. CASE UNCHANGED vars
    <2>1. SelectedOps' = SelectedOps
      BY <1>10 DEF vars, SelectedOps
    <2> QED BY <1>10, <2>1, SameState DEF vars, Onward
  <1> QED BY <1>1, <1>2, <1>3, <1>4, <1>5, <1>6, <1>7, <1>8, <1>9, <1>10
          DEF Next, Input, Answer

\* While a session is signed out, nothing is done to its entry before the
\* deletion that it waits for.
LEMMA LeavingStep == ASSUME IInv, Course, LeavingOK, [Next]_vars PROVE LeavingOK'
  <1> SUFFICES ASSUME state' = "SigningOut"
               PROVE  \A op \in SelectedOps' : Drives(op) \/ op.kind = "read"
    BY DEF LeavingOK
  <1>1. Phase' = "leaving"
    BY DEF Phase
  <1>2. CASE Remains
    <2>1. Phase = "leaving"
      BY <1>1, <1>2 DEF Remains
    <2>2. state = "SigningOut"
      BY <2>1 DEF Phase
    <2> QED BY <1>2, <2>1, <2>2 DEF Remains, LeavingOK
  <1>3. CASE Moves
    BY <1>1, <1>3 DEF Moves, Ends
  <1> QED BY <1>1, <1>2, <1>3, PhaseStep DEF Onward

\* It holds of every reachable state.
LEMMA LeavingInvariant == Spec => []LeavingOK
  <1>1. Init => LeavingOK
    BY DEF Init, LeavingOK
  <1> QED BY <1>1, LeavingStep, Invariant, CourseInvariant, PTL DEF Spec

\* What a step of the session is to those who see the session only.
LEMMA PromiseStep ==
  ASSUME IInv, Course, LeavingOK, IInv', Course', [Next]_vars
  PROVE  [Promised!Next]_(Promised!vars)
  <1> DEFINE Account == IF Phase \in {"in", "leaving"} THEN user ELSE NoToken
             Server == IF selected = NoProfile THEN NoEndpoint ELSE profiles[selected]
             entryOf == [t \in Tokens |-> BoundEntry(Origin[t], t)]
  <1>1. /\ vault' \in [Profiles -> Promised!Entries]
        /\ \A p \in Profiles : Promised!Written(p)
    BY WritesEntries
  <1>2. /\ Phase \in {"in", "out"} => vault'[selected] = vault[selected]
        /\ Phase = "leaving" => vault'[selected] \in {vault[selected], NoEntry}
    BY WritesOwn
  <1>3. /\ selected' \in Profiles \cup {NoProfile}
        /\ Server' \in Endpoints \cup {NoEndpoint}
    BY DEF IInv, TypeOK, MaybeEndpoint
  <1>4. /\ Phase \in {"out", "entering"} => vault[selected] = NoEntry
        /\ Phase' \in {"out", "entering"} => vault'[selected'] = NoEntry
    BY DEF Course, StateTellsTheStore, SignedOutIsClean, Phase
  <1>5. /\ Phase = "in" => vault[selected] = BoundEntry(profiles[selected], user)
        /\ Phase' = "in" => vault'[selected'] = BoundEntry(profiles'[selected'], user')
    BY DEF Course, StateTellsTheStore, SignedInIsDurable, Phase
  <1>6. CASE Phase' = "away"
    <2>1. Account' = NoToken
      BY <1>6
    <2>2. Promised!Leave
      BY <1>2, <1>3, <1>6, <2>1 DEF Promised!Leave, Promised!Undisturbed
    <2> QED BY <1>1, <2>2 DEF Promised!Next
  <1>7. CASE Remains /\ Phase' # "away"
    <2>1. /\ Phase' = Phase /\ Phase # "away" /\ UNCHANGED <<profiles, selected>>
          /\ UNCHANGED Server
      BY <1>7 DEF Remains
    <2>2. UNCHANGED Account
      BY <1>7 DEF Remains
    <2>3. vault'[selected] = vault[selected]
      <3>1. Phase \in {"in", "out", "entering", "leaving"}
        BY <2>1 DEF Phase
      <3> QED BY <1>2, <1>4, <1>7, <2>1, <3>1 DEF Remains
    <2> HIDE DEF Account, Server
    <2>4. Promised!Elsewhere
      BY <2>1, <2>2, <2>3
         DEF Promised!Elsewhere, Promised!Here, Promised!Undisturbed, Account, Server
    <2> QED BY <1>1, <2>4 DEF Promised!Next
  <1>8. CASE Moves /\ Phase' # "away"
    <2>1. UNCHANGED <<profiles, selected, Server>>
      BY <1>8 DEF Moves
    <2>2. CASE Phase = "out" /\ Phase' = "entering"
      <3>1. Promised!Begin
        BY <1>2, <2>1, <2>2 DEF Promised!Begin, Promised!Here, Promised!Undisturbed
      <3> QED BY <1>1, <3>1 DEF Promised!Next
    <2>3. CASE Phase \in {"entering", "away"} /\ Phase' = "in"
      <3>1. vault'[selected] = BoundEntry(profiles[selected], user') /\ Account' = user'
        BY <1>5, <2>1, <2>3
      <3>2. selected \in Profiles /\ Server = profiles[selected]
        BY <2>1, <2>3, NextUnderWay
      <3>3. user' \in Tokens /\ Origin[user'] = profiles[selected]
        <4>1. vault'[selected] \in Entries /\ vault'[selected].form = "bound"
              /\ vault'[selected].token = user'
              /\ vault'[selected].endpoint = profiles[selected]
          BY <3>1, <3>2 DEF BoundEntry, IInv, TypeOK
        <4> QED BY <3>2, <4>1 DEF IInv, VaultOK
      <3>4. vault'[selected] = entryOf[user']
        BY <3>1, <3>3
      <3>5. Promised!Enter
        BY <2>1, <2>3, <3>1, <3>2, <3>3, <3>4 DEF Promised!Enter, Promised!Here
      <3> QED BY <1>1, <3>5 DEF Promised!Next
    <2>4. CASE Phase = "entering" /\ Phase' = "out"
      <3>1. vault'[selected] = vault[selected]
        BY <1>4, <2>1, <2>4
      <3>2. Promised!GiveUp
        BY <2>1, <2>4, <3>1 DEF Promised!GiveUp, Promised!Here, Promised!Undisturbed
      <3> QED BY <1>1, <3>2 DEF Promised!Next
    <2>5. CASE Phase \in {"leaving", "away"} /\ Phase' = "out"
      <3>1. vault'[selected] = NoEntry /\ Account' = NoToken
        BY <1>4, <2>1, <2>5
      <3>2. Promised!Cleared
        BY <2>1, <2>5, <3>1 DEF Promised!Cleared, Promised!Here
      <3> QED BY <1>1, <3>2 DEF Promised!Next
    <2>6. CASE Ends
      <3>1. Promised!SignOut
        BY <1>2, <2>1, <2>6 DEF Ends, Promised!SignOut, Promised!Here, Promised!Undisturbed
      <3> QED BY <1>1, <3>1 DEF Promised!Next
    <2> QED BY <1>8, <2>2, <2>3, <2>4, <2>5, <2>6 DEF Moves
  <1> QED BY <1>6, <1>7, <1>8, PhaseStep DEF Onward

\* Nobody is signed in but by credentials or by what is stored for them;
\* nobody changes account or server without leaving; and while they are signed
\* in, or out, the entry of their profile stays as it is, through a restart, a
\* switch or a crash: the coordinator implements StoredSession.
THEOREM PromiseIsKept == Spec => KeepsThePromise
  <1>1. Init => Promised!Init
    <2> SUFFICES ASSUME Init PROVE Promised!Init
      OBVIOUS
    <2>1. Phase = "away"
      BY DEF Init, Phase
    <2>2. \A t \in Tokens : BoundEntry(Origin[t], t) \in Promised!Entries
      <3> DEFINE entryOf == [t \in Tokens |-> BoundEntry(Origin[t], t)]
      <3>1. \A t \in Tokens : BoundEntry(Origin[t], t) = entryOf[t]
        OBVIOUS
      <3> QED BY <3>1 DEF Promised!Entries, Promised!Stored
    <2>3. vault \in [Profiles -> Promised!Entries]
      <3>1. {NoEntry, UnboundEntry} \cup {BoundEntry(Origin[t], t) : t \in Tokens}
              \subseteq Promised!Entries
        BY <2>2 DEF Promised!Entries
      <3> QED BY <3>1 DEF Init
    <2> QED BY <2>1, <2>3 DEF Init, Promised!Init
  <1>2. IInv /\ Course /\ LeavingOK /\ IInv' /\ Course' /\ [Next]_vars
          => [Promised!Next]_(Promised!vars)
    BY PromiseStep
  <1> QED BY <1>1, <1>2, Invariant, CourseInvariant, LeavingInvariant, PTL
          DEF Spec, KeepsThePromise, Promised!Spec

-----------------------------------------------------------------------------
(* The store                                                               *)

\* The part of the invariant that is about the store.
StoreOutstanding == JobsOK /\ StoreCallsAreAtomic

\* What is known of one profile's call.
CallAt(p, v, e, j, f) ==
  /\ (j.stage = "idle") <=> ~f.busy
  /\ j.stage \in {"idle", "running"} => e = v
  /\ j.stage # "idle" => SameCall(j.call, Head(f.ops))
  /\ j.stage = "performed" =>
       <<e, j.error>> \in Keychain!Performance(v, j.call) /\ j.raw = v
  /\ j.stage = "posted" =>
       LET op == Head(f.ops)
       IN  CASE op.kind = "read"   ->
                  j.outcome \in {ReadOutcome(v, op.endpoint), "failed"} /\ e = v
             [] op.kind = "save"   -> e \in AfterSave(v, op, j.outcome = "success")
             [] op.kind = "delete" -> e \in AfterDelete(v, j.outcome = "success")

\* The same for all of them.
LEMMA StoreByProfile ==
  StoreOutstanding <=>
    /\ entries \in [Profiles -> Entries] /\ job \in [Profiles -> Jobs]
    /\ \A p \in Profiles : CallAt(p, vault[p], entries[p], job[p], fifo[p])
BY DEF StoreOutstanding, JobsOK, StoreCallsAreAtomic, CallAt, SameCall, ReadOutcomes

\* The same after a step.
LEMMA StoreByProfileNext ==
  StoreOutstanding' <=>
    /\ entries' \in [Profiles -> Entries] /\ job' \in [Profiles -> Jobs]
    /\ \A p \in Profiles : CallAt(p, vault'[p], entries'[p], job'[p], fifo'[p])
BY DEF StoreOutstanding, JobsOK, StoreCallsAreAtomic, CallAt, SameCall, ReadOutcomes

\* No job, and one that was just started.
LEMMA IdleJob ==
  ASSUME NEW p, NEW v, NEW f, ~f.busy
  PROVE  Keychain!Idle \in Jobs /\ CallAt(p, v, v, Keychain!Idle, f)
BY DEF CallAt, Jobs, Keychain!Idle, Keychain!NoStoreCall, Keychain!Stages,
       Keychain!Errors, Keychain!NoEntry, Entries, NoEntry, MaybeEndpoint, MaybeToken

\* A job that has just begun fits the operation at the head of the queue.
LEMMA StartedJob ==
  ASSUME NEW p, NEW v, NEW f \in Fifos, f.busy
  PROVE  /\ Keychain!Started(Head(f.ops)) \in Jobs
         /\ CallAt(p, v, v, Keychain!Started(Head(f.ops)), f)
  <1> DEFINE op == Head(f.ops)
  <1>1. op \in Ops
    <2>1. f.ops # << >> /\ f.ops \in Seq(Ops)
      BY FifoFields DEF Fifos
    <2> QED BY <2>1, HeadTailProperties
  <1>0. Head(f.ops) = op
    OBVIOUS
  <1> HIDE DEF op
  <1>2. /\ Keychain!Started(op).stage = "running"
        /\ Keychain!Started(op).call =
             [kind |-> op.kind, endpoint |-> op.endpoint, token |-> op.token]
    BY DEF Keychain!Started, Keychain!Idle
  <1>3. Keychain!Started(op) \in Jobs
    BY <1>1 DEF Keychain!Started, Keychain!Idle, Jobs, Keychain!Stages, Keychain!Errors,
                Keychain!NoEntry, Entries, NoEntry, MaybeEndpoint, MaybeToken, Ops
  <1> DEFINE j == Keychain!Started(op)
  <1>4. j.stage = "running" /\ SameCall(j.call, op)
    BY <1>2 DEF SameCall
  <1> HIDE DEF j
  <1>5. CallAt(p, v, v, j, f)
    BY <1>0, <1>4 DEF CallAt
  <1> QED BY <1>0, <1>3, <1>5 DEF j

\* The call that is outstanding stays so.
LEMMA SameCallAt ==
  ASSUME NEW p, NEW v, NEW e, NEW j, NEW f \in Fifos, NEW g \in Fifos,
         CallAt(p, v, e, j, f), f.busy, KeepsCall(f, g)
  PROVE  CallAt(p, v, e, j, g)
  <1>1. /\ f.ops # << >> /\ f.ops \in Seq(Ops)
        /\ g.ops # << >> /\ g.ops \in Seq(Ops) /\ g.busy
    BY FifoFields DEF Fifos, KeepsCall
  <1>2. Head(f.ops) = f.ops[1] /\ Head(g.ops) = g.ops[1]
    BY <1>1, HeadTailProperties
  <1>3. SameCall(Head(f.ops), Head(g.ops)) /\ g.busy
    BY <1>2 DEF KeepsCall
  <1> QED BY <1>3 DEF CallAt, SameCall, AfterSave, AfterDelete

\* A slot that is no answer of the store.
LEMMA StoreUndisturbed ==
  ASSUME IInv, IInv', StoreOutstanding, UNCHANGED vault,
         \A p \in Profiles : KeepsCall(fifo[p], fifo'[p]),
         StartsJobs({})
  PROVE  StoreOutstanding'
  <1>1. ASSUME NEW p \in Profiles
        PROVE  /\ job'[p] \in Jobs
               /\ CallAt(p, vault'[p], entries'[p], job'[p], fifo'[p])
    <2>1. fifo[p] \in Fifos /\ fifo'[p] \in Fifos
      BY DEF IInv, TypeOK
    <2>2. job'[p] = IF fifo'[p].busy /\ ~fifo[p].busy
                    THEN Keychain!Started(Head(fifo'[p].ops)) ELSE job[p]
      BY DEF StartsJobs
    <2>3. entries'[p] = entries[p] /\ vault'[p] = vault[p]
      BY DEF StartsJobs
    <2>4. job[p] \in Jobs /\ CallAt(p, vault[p], entries[p], job[p], fifo[p])
      BY StoreByProfile
    <2>5. CASE fifo[p].busy
      BY <2>1, <2>2, <2>3, <2>4, <2>5, SameCallAt
    <2>6. CASE ~fifo[p].busy /\ fifo'[p].busy
      <3>1. entries[p] = vault[p]
        BY <2>4, <2>6 DEF CallAt
      <3> QED BY <2>1, <2>2, <2>3, <2>6, <3>1, StartedJob
    <2>7. CASE ~fifo[p].busy /\ ~fifo'[p].busy
      BY <2>2, <2>3, <2>4, <2>7 DEF CallAt
    <2> QED BY <2>5, <2>6, <2>7
  <1>2. job' \in [Profiles -> Jobs] /\ entries' \in [Profiles -> Entries]
    BY <1>1, StoreByProfile DEF StartsJobs
  <1> QED BY <1>1, <1>2, StoreByProfileNext

\* A step of the daemon, of which the session does not know yet.
LEMMA PerformsCall ==
  ASSUME IInv, StoreOutstanding, NEW p \in Profiles, Keychain!Performs(p)
  PROVE  /\ entries'[p] \in Entries /\ job'[p] \in Jobs
         /\ CallAt(p, vault[p], entries'[p], job'[p], fifo[p])
         /\ entries' = [entries EXCEPT ![p] = entries'[p]]
         /\ job' = [job EXCEPT ![p] = job'[p]]
  <1>1. /\ entries \in [Profiles -> Entries] /\ job \in [Profiles -> Jobs]
        /\ CallAt(p, vault[p], entries[p], job[p], fifo[p])
    BY StoreByProfile
  <1>2. PICK done \in Keychain!Performance(entries[p], job[p].call) :
          /\ entries' = [entries EXCEPT ![p] = done[1]]
          /\ job' = [job EXCEPT ![p].stage = "performed", ![p].error = done[2],
                                ![p].raw = entries[p]]
    BY DEF Keychain!Performs
  <1>3. job[p].stage = "running" /\ entries[p] = vault[p] /\ fifo[p].busy
    BY <1>1 DEF CallAt, Keychain!Performs
  <1>4. /\ entries'[p] = done[1]
        /\ job'[p] = [job[p] EXCEPT !.stage = "performed", !.error = done[2],
                                    !.raw = entries[p]]
    BY <1>1, <1>2
  <1>5. Head(fifo[p].ops) \in Ops /\ SameCall(job[p].call, Head(fifo[p].ops))
    BY <1>1, <1>3, HeadOp DEF CallAt, GoodOps
  <1>6. /\ done = <<done[1], done[2]>>
        /\ done[1] \in Entries /\ done[2] \in Keychain!Errors
    <2> DEFINE call == job[p].call
               entry == entries[p]
               bound == Keychain!BoundEntry(call.endpoint, call.token)
    <2>1. entry \in Entries /\ call.kind \in Kinds
      BY <1>1, <1>5 DEF SameCall, Ops
    <2>2. NoEntry \in Entries /\ Keychain!NoEntry = NoEntry
      BY DEF Entries, NoEntry, Keychain!NoEntry
    <2>3. call.kind = "save" => bound \in Entries
      <3>1. call.kind = "save" => call.token \in Tokens /\ call.endpoint = Origin[call.token]
        BY <1>3, <1>5, HeadOp DEF SameCall, GoodOps
      <3> QED BY <3>1, OriginAssumption DEF Entries, Keychain!BoundEntry
    <2>4. Keychain!Performance(entry, call) \subseteq Entries \X Keychain!Errors
      <3>1. CASE call.kind = "read"
        <4>1. Keychain!Performance(entry, call) \subseteq
                {entry} \X {"otherError", "entryNotFound", "noError"}
          BY <3>1 DEF Keychain!Performance
        <4> QED BY <2>1, <4>1 DEF Keychain!Errors
      <3>2. CASE call.kind = "save"
        <4>1. Keychain!Performance(entry, call) \subseteq
                {bound, entry} \X {"otherError", "noError"}
          BY <3>2 DEF Keychain!Performance
        <4> QED BY <2>1, <2>3, <3>2, <4>1 DEF Keychain!Errors
      <3>3. CASE call.kind = "delete"
        <4>1. Keychain!Performance(entry, call) \subseteq
                {NoEntry, entry} \X {"otherError", "entryNotFound", "noError"}
          BY <2>2, <3>3 DEF Keychain!Performance
        <4> QED BY <2>1, <2>2, <4>1 DEF Keychain!Errors
      <3> QED BY <2>1, <3>1, <3>2, <3>3 DEF Kinds
    <2>5. done \in Entries \X Keychain!Errors
      BY <1>2, <2>4
    <2> QED BY <2>5
  <1>7. job'[p] \in Jobs
    BY <1>1, <1>4, <1>6 DEF Jobs, Keychain!Stages
  <1>8. CallAt(p, vault[p], entries'[p], job'[p], fifo[p])
    <2>1. /\ job'[p].stage = "performed" /\ job'[p].call = job[p].call
          /\ job'[p].error = done[2] /\ job'[p].raw = vault[p]
      BY <1>1, <1>3, <1>4 DEF Jobs
    <2>0. SameCall(job'[p].call, Head(fifo[p].ops))
      BY <1>5, <2>1
    <2>2. <<entries'[p], job'[p].error>> \in Keychain!Performance(vault[p], job'[p].call)
      BY <1>2, <1>3, <1>4, <1>6, <2>1
    <2> QED BY <1>3, <2>0, <2>1, <2>2 DEF CallAt
  <1> QED BY <1>1, <1>2, <1>4, <1>6, <1>7, <1>8
\* What the daemon reports of the job becomes the answer.
LEMMA FinishesCall ==
  ASSUME IInv, StoreOutstanding, NEW p \in Profiles, Keychain!Finishes(p)
  PROVE  /\ job'[p] \in Jobs
         /\ CallAt(p, vault[p], entries[p], job'[p], fifo[p])
         /\ job' = [job EXCEPT ![p] = job'[p]]
  <1> DEFINE j == job[p]
             o == Keychain!OutcomeOf(j)
             op == Head(fifo[p].ops)
  <1>1. /\ entries \in [Profiles -> Entries] /\ job \in [Profiles -> Jobs]
        /\ CallAt(p, vault[p], entries[p], j, fifo[p])
    BY StoreByProfile
  <1>2. j.stage = "performed"
    BY DEF Keychain!Finishes
  <1>3. /\ job' = [job EXCEPT ![p] = job'[p]]
        /\ job'[p] = [j EXCEPT !.stage = "posted", !.outcome = o]
    <2>1. job' = [job EXCEPT ![p].stage = "posted", ![p].outcome = o]
      BY DEF Keychain!Finishes
    <2> QED BY <1>1, <2>1
  <1>4. /\ fifo[p].busy /\ SameCall(j.call, op) /\ j.raw = vault[p]
        /\ <<entries[p], j.error>> \in Keychain!Performance(vault[p], j.call)
    BY <1>1, <1>2 DEF CallAt
  <1>5. op.kind \in Kinds /\ vault[p] \in Entries
    BY <1>4, HeadOp DEF GoodOps, Ops, IInv, TypeOK
  <1>6. NoEntry \in Entries /\ Keychain!NoEntry = NoEntry
    BY DEF Entries, NoEntry, Keychain!NoEntry
  <1> DEFINE Answered ==
               /\ o \in {"success", "notFound", "untrusted", "failed"}
               /\ CASE op.kind = "read"   ->
                         o \in {ReadOutcome(vault[p], op.endpoint), "failed"}
                           /\ entries[p] = vault[p]
                    [] op.kind = "save"   -> entries[p] \in AfterSave(vault[p], op, o = "success")
                    [] op.kind = "delete" -> entries[p] \in AfterDelete(vault[p], o = "success")
  <1>7. ASSUME op.kind = "read" PROVE Answered
    <2>1. o = Keychain!OutcomeOfRead(j)
      BY <1>4, <1>7 DEF Keychain!OutcomeOf, SameCall
    <2>2. /\ entries[p] = vault[p] /\ j.error \in {"otherError", "entryNotFound", "noError"}
          /\ j.error = "entryNotFound" => vault[p] = NoEntry
      BY <1>4, <1>6, <1>7 DEF Keychain!Performance, SameCall
    <2>3. Keychain!ReadOutcome(vault[p], op.endpoint) = ReadOutcome(vault[p], op.endpoint)
      BY DEF Keychain!ReadOutcome, ReadOutcome
    <2>4. o \in {ReadOutcome(vault[p], op.endpoint), "failed"}
      <3>1. CASE j.error = "noError"
        BY <1>4, <2>1, <2>3, <3>1 DEF Keychain!OutcomeOfRead, SameCall
      <3>2. CASE j.error = "entryNotFound"
        <4>1. ReadOutcome(vault[p], op.endpoint) = "notFound"
          BY <2>2, <3>2 DEF ReadOutcome, NoEntry
        <4>2. o = "notFound"
          BY <2>1, <3>2 DEF Keychain!OutcomeOfRead
        <4> QED BY <4>1, <4>2
      <3>3. CASE j.error = "otherError"
        BY <2>1, <3>3 DEF Keychain!OutcomeOfRead
      <3> QED BY <2>2, <3>1, <3>2, <3>3
    <2>5. ReadOutcome(vault[p], op.endpoint) \in {"success", "notFound", "untrusted"}
      BY DEF ReadOutcome
    <2> HIDE DEF o, op, j
    <2> QED BY <1>7, <2>2, <2>4, <2>5
  <1>8. ASSUME op.kind = "save" PROVE Answered
    <2>1. /\ o = IF j.error = "noError" THEN "success" ELSE "failed"
      BY <1>4, <1>8 DEF Keychain!OutcomeOf, Keychain!OutcomeOfSave, SameCall
    <2>2. Keychain!BoundEntry(j.call.endpoint, j.call.token) = BoundEntry(op.endpoint, op.token)
      BY <1>4 DEF Keychain!BoundEntry, BoundEntry, SameCall
    <2>3. entries[p] \in AfterSave(vault[p], op, o = "success")
      <3>1. \/ entries[p] = BoundEntry(op.endpoint, op.token)
            \/ j.error = "otherError" /\ entries[p] = vault[p]
        BY <1>4, <1>8, <2>2 DEF Keychain!Performance, SameCall
      <3> QED BY <2>1, <3>1 DEF AfterSave
    <2>4. o \in {"success", "failed"}
      BY <2>1
    <2> HIDE DEF o, op, j
    <2> QED BY <1>8, <2>3, <2>4
  <1>9. ASSUME op.kind = "delete" PROVE Answered
    <2>1. /\ o = IF j.error = "otherError" THEN "failed" ELSE "success"
      BY <1>4, <1>9 DEF Keychain!OutcomeOf, Keychain!OutcomeOfDelete, SameCall
    <2>3. entries[p] \in AfterDelete(vault[p], o = "success")
      <3>1. \/ entries[p] = NoEntry
            \/ j.error = "otherError" /\ entries[p] = vault[p]
        BY <1>4, <1>6, <1>9 DEF Keychain!Performance, SameCall
      <3> QED BY <2>1, <3>1 DEF AfterDelete
    <2>4. o \in {"success", "failed"}
      BY <2>1
    <2> HIDE DEF o, op, j
    <2> QED BY <1>9, <2>3, <2>4
  <1>10. Answered
    BY <1>5, <1>7, <1>8, <1>9 DEF Kinds
  <1> HIDE DEF o, op, j
  <1>11. job'[p] \in Jobs
    BY <1>1, <1>3, <1>10 DEF Jobs, Keychain!Stages, j
  <1>12. job'[p].stage = "posted" /\ job'[p].call = j.call /\ job'[p].outcome = o
    BY <1>1, <1>3 DEF Jobs, j
  <1>13. CallAt(p, vault[p], entries[p], job'[p], fifo[p])
    BY <1>4, <1>10, <1>12 DEF CallAt, op
  <1> QED BY <1>3, <1>11, <1>13

\* Both as steps of the composition.
LEMMA JobStep ==
  ASSUME IInv, StoreOutstanding, NEW p \in Profiles, JobAdvances(p)
  PROVE  StoreOutstanding'
  <1>1. UNCHANGED <<vault, fifo>>
    BY DEF JobAdvances, Quiet, vars
  <1>2. /\ entries \in [Profiles -> Entries] /\ job \in [Profiles -> Jobs]
        /\ \A q \in Profiles : CallAt(q, vault[q], entries[q], job[q], fifo[q])
    BY StoreByProfile
  <1>3. /\ entries'[p] \in Entries /\ job'[p] \in Jobs
        /\ CallAt(p, vault[p], entries'[p], job'[p], fifo[p])
        /\ entries' = [entries EXCEPT ![p] = entries'[p]]
        /\ job' = [job EXCEPT ![p] = job'[p]]
    <2>1. CASE Keychain!Performs(p)
      BY <2>1, PerformsCall
    <2>2. CASE Keychain!Finishes(p)
      <3>1. entries' = entries
        BY <2>2 DEF Keychain!Finishes
      <3>2. entries' = [entries EXCEPT ![p] = entries'[p]] /\ entries'[p] \in Entries
        BY <1>2, <3>1
      <3> QED BY <2>2, <3>1, <3>2, FinishesCall
    <2> QED BY <2>1, <2>2 DEF JobAdvances
  <1>4. ASSUME NEW q \in Profiles
        PROVE  CallAt(q, vault'[q], entries'[q], job'[q], fifo'[q])
    <2>1. CASE q = p
      BY <1>1, <1>3, <2>1
    <2>2. CASE q # p
      <3>1. entries'[q] = entries[q] /\ job'[q] = job[q]
        BY <1>2, <1>3, <2>2
      <3> QED BY <1>1, <1>2, <3>1
    <2> QED BY <2>1, <2>2
  <1>5. entries' \in [Profiles -> Entries] /\ job' \in [Profiles -> Jobs]
    BY <1>2, <1>3
  <1> QED BY <1>4, <1>5, StoreByProfileNext

-----------------------------------------------------------------------------
(* Steps of the composition as steps of the session                        *)

\* What answers the session without the store.
Slot == Input \/ ProbeFinished \/ AuthAnswered \/ WhoAmIAnswered

\* Inputs, and the answers of the two clients.
LEMMA InputSlots ==
  ASSUME Starting \/ SendingCredentials \/ SigningOut \/ Retrying \/ AskingForToken
         \/ \E p \in Profiles : Switching(p)
  PROVE  Input /\ (StartsJobs({}) \/ (KeepStore /\ UNCHANGED fifo))
  <1>1. CASE SendingCredentials
    BY <1>1 DEF SendingCredentials, Input, SignIn, Register, SendCredentials
  <1>2. CASE Starting \/ SigningOut \/ AskingForToken
    BY <1>2 DEF Starting, SigningOut, AskingForToken, Input
  <1>3. CASE Retrying
    BY <1>3 DEF Retrying, Retry, Input
  <1>4. CASE \E p \in Profiles : Switching(p)
    BY <1>4 DEF Switching, Input
  <1> QED BY <1>1, <1>2, <1>3, <1>4

\* To the session, an answer of the authentication client is its own slot's or nothing.
LEMMA CallSlots ==
  ASSUME NEW c \in Calls, CallAnswered(c)
  PROVE  \/ UNCHANGED <<vars, entries, job>>
         \/ (AuthAnswered \/ WhoAmIAnswered) /\ StartsJobs({})
  <1>1. AuthOutcome(callResult[c]) \in AuthOutcomes
    BY DEF AuthOutcome, AuthOutcomes
  <1>2. CASE c \notin current
    BY <1>2 DEF CallAnswered
  <1>3. CASE c \in current
    BY <1>1, <1>3 DEF CallAnswered, AuthAnswered, WhoAmIAnswered
  <1> QED BY <1>2, <1>3

\* And so is a result of a probe.
LEMMA ProbeSlots ==
  ASSUME NEW o \in Probes, ProbeAnswered(o)
  PROVE  \/ UNCHANGED <<vars, entries, job>>
         \/ ProbeFinished /\ StartsJobs({})
  <1>1. \A r \in Probing!Outcomes : ProbeOutcome(r) \in ProbeOutcomes
    BY DEF ProbeOutcome, ProbeOutcomes, Probing!Outcomes
  <1> QED BY <1>1 DEF ProbeAnswered, ProbeFinished

\* Each step of the composition by what it is to the session and the store.
LEMMA StepsByKind ==
  ASSUME NextAll
  PROVE  \/ Slot /\ (StartsJobs({}) \/ (KeepStore /\ UNCHANGED fifo))
         \/ UNCHANGED <<vars, entries, job>>
         \/ \E p \in Profiles : JobAdvances(p) \/ StoreAnswered(p)
         \/ Ending
  <1>1. ASSUME NEW c \in Calls, CallFinishes(c) PROVE UNCHANGED <<vars, entries, job>>
    BY <1>1 DEF CallFinishes, Quiet, KeepStore
  <1>2. ASSUME NEW o \in Probes, ProbeTimesOut(o) PROVE UNCHANGED <<vars, entries, job>>
    BY <1>2 DEF ProbeTimesOut, Quiet, KeepStore
  <1> QED BY <1>1, <1>2, InputSlots, CallSlots, ProbeSlots DEF NextAll, Slot

\* None of the slots writes to the store.
LEMMA SlotsKeepVault == Slot => UNCHANGED vault
  <1>1. Start => UNCHANGED vault
    BY DEF Start, DoStart
  <1>2. \A p \in Profiles : SwitchProfile(p) => UNCHANGED vault
    BY DEF SwitchProfile, DoSwitch
  <1>3. SignIn \/ Register \/ SignOut \/ RequestAccessToken => UNCHANGED vault
    BY DEF SignIn, Register, SendCredentials, SignOut, RequestAccessToken
  <1>4. Retry => UNCHANGED vault
    BY DEF Retry, RetryDeletion, RetryAction, DoStart, DoSwitch
  <1>5. ProbeFinished \/ AuthAnswered \/ WhoAmIAnswered => UNCHANGED vault
    BY DEF ProbeFinished, ProbeFinishedWith, AuthAnswered, AuthAnsweredWith,
           WhoAmIAnswered, WhoAmIAnsweredWith, RestoredWhoAmIAnswered, FreshWhoAmIAnswered
  <1> QED BY <1>1, <1>2, <1>3, <1>4, <1>5 DEF Slot, Input

\* An answer that is on its way is one that the session takes the call to give.
LEMMA AnswersSession ==
  ASSUME IInv, StoreOutstanding, NEW p \in Profiles, StoreAnswered(p)
  PROVE  StoreAnswers(p)
  <1>1. CallAt(p, vault[p], entries[p], job[p], fifo[p])
    BY StoreByProfile
  <1>2. SameCall(job[p].call, Head(fifo[p].ops)) /\ job[p].stage = "posted"
    BY <1>1 DEF StoreAnswered, CallAt
  <1>3. CASE job[p].call.kind = "read" /\ ReadAnsweredWith(p, job[p].outcome)
    <2>1. job[p].outcome \in ReadOutcomes(p)
      BY <1>1, <1>2, <1>3 DEF CallAt, SameCall, ReadOutcomes
    <2> QED BY <1>3, <2>1 DEF StoreAnswers, ReadAnswered, ReadAnsweredWith
  <1> QED BY <1>3 DEF StoreAnswered, StoreAnswers, SaveAnswered

\* Every step of the composition is a step of the session, or none of its.
LEMMA ImplementsStep ==
  ASSUME IInv, StoreOutstanding, [NextAll]_allVars
  PROVE  [Next]_vars
  <1>1. CASE UNCHANGED allVars
    BY <1>1 DEF allVars
  <1>2. ASSUME NEW p \in Profiles, JobAdvances(p) PROVE UNCHANGED vars
    BY <1>2 DEF JobAdvances, Quiet
  <1>3. ASSUME NEW p \in Profiles, StoreAnswered(p) PROVE Next
    BY <1>3, AnswersSession DEF Next, Answer
  <1>4. Slot => Next
    BY DEF Slot, Next, Answer
  <1>5. Ending => Next
    BY DEF Ending, Next
  <1> QED BY <1>1, <1>2, <1>3, <1>4, <1>5, StepsByKind

\* The answer arrives, and the next call begins, if there is one.
LEMMA AnswerStep ==
  ASSUME IInv, IInv', StoreOutstanding, NEW p \in Profiles, StoreAnswered(p)
  PROVE  StoreOutstanding'
  <1>1. /\ entries \in [Profiles -> Entries] /\ job \in [Profiles -> Jobs]
        /\ \A q \in Profiles : CallAt(q, vault[q], entries[q], job[q], fifo[q])
    BY StoreByProfile
  <1>2. /\ fifo[p].busy /\ SameCall(job[p].call, Head(fifo[p].ops))
        /\ job[p].stage = "posted"
    BY <1>1 DEF StoreAnswered, CallAt
  <1>3. StoreAnswers(p)
    BY AnswersSession
  <1>4. \A q \in Profiles \ {p} : fifo'[q] = fifo[q] /\ vault'[q] = vault[q]
    BY <1>3 DEF StoreAnswers, ReadAnswered, ReadAnsweredWith, SaveAnswered, SaveAnsweredWith,
         DeleteSucceeds, DeleteFails, DeadAnswered, RestoreReadAnswered, AccessReadAnswered,
         SaveContinues, DeleteContinues, Advance, AdvanceWith, IInv, TypeOK
  <1>5. /\ vault'[p] = entries[p] /\ entries' = entries
        /\ job' = [q \in Profiles |->
                     IF fifo'[q].busy /\ (~fifo[q].busy \/ q \in {p})
                     THEN Keychain!Started(Head(fifo'[q].ops))
                     ELSE IF q \in {p} THEN Keychain!Idle ELSE job[q]]
    BY DEF StoreAnswered, StartsJobs
  <1>6. ASSUME NEW q \in Profiles
        PROVE  job'[q] \in Jobs /\ CallAt(q, vault'[q], entries'[q], job'[q], fifo'[q])
    <2>0. fifo'[q] \in Fifos
      BY DEF IInv, TypeOK
    <2>1. CASE q = p
      BY <1>5, <2>0, <2>1, StartedJob, IdleJob
    <2>2. CASE q # p
      <3>1. fifo'[q] = fifo[q] /\ vault'[q] = vault[q] /\ job'[q] = job[q]
        BY <1>4, <1>5, <2>2
      <3> QED BY <1>1, <1>5, <3>1
    <2> QED BY <2>1, <2>2
  <1>7. entries' \in [Profiles -> Entries] /\ job' \in [Profiles -> Jobs]
    BY <1>1, <1>5, <1>6
  <1> QED BY <1>6, <1>7, StoreByProfileNext

\* The process ends: what the daemon still does is done by then.
LEMMA EndingStep ==
  ASSUME IInv', Ending
  PROVE  StoreOutstanding'
  <1>1. /\ vault' \in [Profiles -> Entries] /\ entries' = vault'
        /\ job' = [p \in Profiles |-> Keychain!Idle]
        /\ fifo' = [p \in Profiles |-> EmptyFifo]
    BY DEF Ending, Terminate, IInv, TypeOK
  <1>2. ~EmptyFifo.busy
    BY DEF EmptyFifo
  <1> QED BY <1>1, <1>2, IdleJob, StoreByProfileNext

\* All steps.
LEMMA StoreStep ==
  ASSUME IInv, IInv', StoreOutstanding, [NextAll]_allVars
  PROVE  StoreOutstanding'
  <1>1. CASE UNCHANGED <<vars, entries, job>>
    <2>1. UNCHANGED <<vault, fifo, entries, job>>
      BY <1>1 DEF vars
    <2> QED BY <2>1, StoreByProfile, StoreByProfileNext
  <1>2. CASE UNCHANGED allVars
    BY <1>1, <1>2 DEF allVars, clientVars
  <1>3. CASE Slot /\ StartsJobs({})
    <2>1. \A p \in Profiles : KeepsCall(fifo[p], fifo'[p])
      BY <1>3, QueuesKeep DEF Slot, Stays
    <2> QED BY <1>3, <2>1, SlotsKeepVault, StoreUndisturbed
  <1>4. CASE Slot /\ KeepStore /\ UNCHANGED fifo
    <2>1. UNCHANGED <<vault, fifo, entries, job>>
      BY <1>4, SlotsKeepVault DEF KeepStore
    <2> QED BY <2>1, StoreByProfile, StoreByProfileNext
  <1>5. ASSUME NEW p \in Profiles, JobAdvances(p) \/ StoreAnswered(p) PROVE StoreOutstanding'
    BY <1>5, JobStep, AnswerStep
  <1>6. CASE Ending
    BY <1>6, EndingStep
  <1> QED BY <1>1, <1>2, <1>3, <1>4, <1>5, <1>6, StepsByKind

-----------------------------------------------------------------------------

\* At the start the session is its own, and no job runs.
LEMMA InitSession ==
  ASSUME InitAll
  PROVE  IInv /\ Course /\ StoreOutstanding
  <1>1. IInv /\ Course
    BY InitInvariant, InitCourse DEF InitAll
  <1>2. /\ vault \in [Profiles -> Entries] /\ entries = vault
        /\ job = [p \in Profiles |-> Keychain!Idle]
        /\ fifo = [p \in Profiles |-> EmptyFifo]
    BY <1>1 DEF InitAll, Init, IInv, TypeOK
  <1>3. ~EmptyFifo.busy
    BY DEF EmptyFifo
  <1> QED BY <1>1, <1>2, <1>3, IdleJob, StoreByProfile

\* The invariants of the session, and that of its calls to the store, are
\* inductive together: the one tells the other what a call was asked for.
THEOREM SessionInvariant == SpecAll => [](IInv /\ Course /\ StoreOutstanding)
  <1>1. IInv /\ Course /\ StoreOutstanding /\ [NextAll]_allVars
          => (IInv /\ Course /\ StoreOutstanding)'
    <2> SUFFICES ASSUME IInv, Course, StoreOutstanding, [NextAll]_allVars
                 PROVE  IInv' /\ Course' /\ StoreOutstanding'
      OBVIOUS
    <2>1. [Next]_vars
      BY ImplementsStep
    <2>2. IInv' /\ Course'
      BY <2>1, InductiveStep, CourseStep
    <2> QED BY <2>2, StoreStep
  <1>2. InitAll => IInv /\ Course /\ StoreOutstanding
    BY InitSession
  <1> QED BY <1>1, <1>2, PTL DEF SpecAll

\* The daemon performs a job at some time, and its answer takes another: to
\* the session they are one step, also when the process ends in between.
THEOREM StoreIsAtomic == SpecAll => []StoreCallsAreAtomic
  <1>1. StoreOutstanding => StoreCallsAreAtomic
    BY DEF StoreOutstanding
  <1> QED BY <1>1, SessionInvariant, PTL

\* The composition implements the session: whatever the clients do meanwhile,
\* their calls are answered as the session alone takes them to be.
THEOREM ClientsImplementSession == SpecAll => Spec
  <1>1. InitAll => Init
    BY DEF InitAll
  <1>2. IInv /\ Course /\ StoreOutstanding /\ [NextAll]_allVars => [Next]_vars
    BY ImplementsStep
  <1> QED BY <1>1, <1>2, SessionInvariant, PTL DEF SpecAll, Spec

-----------------------------------------------------------------------------
(* The authentication client                                               *)

\* What is left of a type: an unused call is issued or refused; a call that
\* is pending is posted or, if it is a probe, answered at once; one that is
\* posted is answered, and both may be dropped with the client.
CallMoves(old, new) ==
  \/ new = old
  \/ old = "unused" /\ new \in {"pending", "posted"}
  \/ old = "pending" /\ new = "posted"
  \/ old \in {"pending", "posted"} /\ new \in {"answered", "dropped"}
CallsMove == \A c \in Calls : CallMoves(callStage[c], callStage'[c])
Results == Auth!Outcomes \cup {Auth!NoResult}
ClientTyped ==
  /\ callStage \in [Calls -> Auth!Stages] /\ callResult \in [Calls -> Results]

\* A call is posted, delivered or issued.
LEMMA PostedCalls ==
  ASSUME NEW s, s.stage \in [Calls -> Auth!Stages], s.result \in [Calls -> Results],
         NEW c \in Calls, NEW o \in Auth!Outcomes, Auth!Becomes(Auth!Posted(s, c, o))
  PROVE  ClientTyped' /\ callStage' = [s.stage EXCEPT ![c] = "posted"]
BY DEF Auth!Becomes, Auth!Posted, ClientTyped, Results, Auth!Stages

\* cancelPendingAuthRequest() leaves no call pending.
LEMMA CancelsPending ==
  ASSUME ClientTyped, handle # NoCall => handle \in Calls,
         \A c \in Calls : callStage[c] = "pending" => c = handle,
         CancelPending
  PROVE  /\ ClientTyped' /\ CallsMove /\ Fresh' = Fresh
         /\ \A c \in Calls : callStage'[c] # "pending"
         /\ handle' = NoCall /\ sent' = sent
  <1> DEFINE calling == Auth!Calling
  <1>1. calling.stage = callStage /\ calling.result = callResult
    BY DEF Auth!Calling
  <1>2. handle' = NoCall /\ sent' = sent
    BY DEF CancelPending
  <1>3. CASE handle # NoCall /\ callStage[handle] = "pending"
    <2>1. Auth!Becomes(Auth!Posted(calling, handle, "cancelled"))
      BY <1>1, <1>3 DEF CancelPending, Auth!Cancelled
    <2> HIDE DEF calling
    <2>2. "cancelled" \in Auth!Outcomes /\ handle \in Calls
      BY <1>3 DEF Auth!Outcomes
    <2>3. ClientTyped' /\ callStage' = [callStage EXCEPT ![handle] = "posted"]
      BY <1>1, <2>1, <2>2, PostedCalls DEF ClientTyped
    <2> QED BY <1>2, <1>3, <2>2, <2>3 DEF ClientTyped, CallsMove, CallMoves, Fresh
  <1>4. CASE ~(handle # NoCall /\ callStage[handle] = "pending")
    <2>1. callStage' = callStage /\ callResult' = callResult
      BY <1>1, <1>4 DEF CancelPending, Auth!Cancelled, Auth!Becomes
    <2>2. \A c \in Calls : callStage[c] # "pending"
      BY <1>4, IdentitiesAssumption
    <2> QED BY <1>2, <2>1, <2>2 DEF ClientTyped, CallsMove, CallMoves, Fresh
  <1> QED BY <1>3, <1>4

\* A call is made while none is pending: it is the only one.
LEMMA MadeCall ==
  ASSUME NEW s \in [Calls -> Auth!Stages], NEW r \in [Calls -> Results], NEW gone,
         MakesCall([stage |-> s, result |-> r], NoCall, gone), Fresh # {},
         \A x \in Calls : s[x] # "pending",
         \A x \in Calls : s[x] = "unused" <=> callStage[x] = "unused",
         current \subseteq Calls \cup Probes, current \cap Calls \subseteq gone,
         sent \in [Calls -> Requests], request' \in Requests, request' # NoRequest
  PROVE  /\ CallsOK' /\ \E c \in Fresh : Fresh' = Fresh \ {c}
         /\ \A x \in Calls : CallMoves(s[x], callStage'[x])
         /\ current' \cap Probes = (current \ gone) \cap Probes
  <1> DEFINE c == CHOOSE x \in Fresh : TRUE
             calling == [stage |-> s, result |-> r]
  <1>1. c \in Fresh /\ c \in Calls /\ s[c] = "unused"
    BY DEF Fresh
  <1>2. Auth!Cancelled(calling, NoCall) = calling
    BY DEF Auth!Cancelled
  <1>3. /\ sent' = [x \in Calls |-> IF x = c THEN request'
                                    ELSE IF x \in gone THEN NoRequest ELSE sent[x]]
        /\ current' = (current \ gone) \cup {c}
        /\ \/ Auth!Becomes(Auth!Issued(calling, c)) /\ handle' = c
           \/ Auth!Becomes(Auth!Rejected(calling, c)) /\ handle' = NoCall
    BY <1>2 DEF MakesCall
  <1> HIDE DEF c
  <1>4. /\ ClientTyped'
        /\ \/ callStage' = [s EXCEPT ![c] = "pending"] /\ handle' = c
           \/ callStage' = [s EXCEPT ![c] = "posted"] /\ handle' = NoCall
    <2>1. CASE Auth!Becomes(Auth!Issued(calling, c)) /\ handle' = c
      <3>1. callStage' = [s EXCEPT ![c] = "pending"] /\ callResult' = r
        BY <2>1 DEF Auth!Becomes, Auth!Issued
      <3> QED BY <2>1, <3>1 DEF ClientTyped, Auth!Stages
    <2>2. CASE Auth!Becomes(Auth!Rejected(calling, c)) /\ handle' = NoCall
      <3>1. Auth!Becomes(Auth!Posted(calling, c, "invalidInput"))
        BY <2>2 DEF Auth!Rejected
      <3>2. "invalidInput" \in Auth!Outcomes
        BY DEF Auth!Outcomes
      <3> QED BY <1>1, <2>2, <3>1, <3>2, PostedCalls
    <2> QED BY <1>3, <2>1, <2>2
  <1>5. sent' \in [Calls -> Requests] /\ sent'[c] = request'
    BY <1>1, <1>3 DEF Requests, NoRequest, MaybeToken, MaybeEndpoint
  <1>6. current' \cap Calls = {c} /\ current' \subseteq Calls \cup Probes
    BY <1>1, <1>3
  <1>7. callStage'[c] \in {"pending", "posted"}
        /\ \A x \in Calls \ {c} : callStage'[x] = s[x]
    BY <1>1, <1>4
  <1>8. CallsOK'
    <2>1. \A x \in Calls : callStage'[x] = "pending" => x = handle'
      BY <1>1, <1>4
    <2>2. handle' # NoCall => handle' \in current' \cap Calls
      BY <1>4, <1>6
    <2> QED BY <1>4, <1>5, <1>6, <1>7, <2>1, <2>2 DEF CallsOK, ClientTyped, Results, Open
  <1>9. \A x \in Calls : CallMoves(s[x], callStage'[x])
    BY <1>1, <1>7 DEF CallMoves
  <1>10. Fresh' = Fresh \ {c}
    BY <1>1, <1>7 DEF Fresh
  <1>11. current' \cap Probes = (current \ gone) \cap Probes
    BY <1>1, <1>3, IdentitiesAssumption
  <1> QED BY <1>1, <1>8, <1>9, <1>10, <1>11

\* A slot that leaves the client and what the session waits for alone.
LEMMA KeptCalls ==
  ASSUME CallsOK, KeepCalls, current' \cap Calls = current \cap Calls,
         current' \subseteq Calls \cup Probes, UNCHANGED request
  PROVE  CallsOK' /\ CallsMove /\ Fresh' = Fresh
BY DEF CallsOK, KeepCalls, CallsMove, CallMoves, Fresh, Open

-----------------------------------------------------------------------------
(* The probe                                                               *)

ProbesMove == \A o \in Probes : CallMoves(probeStage[o], probeStage'[o])

\* startProbe() and the ends of a generation.
LEMMA ReplacedProbe ==
  ASSUME ProbesOK, ReplacesProbe, FreshProbes # {} \/ probe' # "running",
         Present \subseteq current'
  PROVE  ProbesOK' /\ ProbesMove /\ Present \subseteq Probes
  <1> DEFINE left == Probing!Destroyed(probeStage, probeObject)
             o == CHOOSE x \in FreshProbes : TRUE
  <1>1. /\ left \in [Probes -> Probing!Stages]
        /\ \A x \in Probes : /\ left[x] \notin {"pending", "posted"}
                             /\ CallMoves(probeStage[x], left[x])
                             /\ left[x] = "unused" <=> probeStage[x] = "unused"
    <2>1. CASE probeObject # NoProbe /\ probeStage[probeObject] \in {"pending", "posted"}
      <3>1. left = [probeStage EXCEPT ![probeObject] = "dropped"]
        BY <2>1 DEF Probing!Destroyed
      <3> QED BY <2>1, <3>1 DEF ProbesOK, ProbeOpen, CallMoves, Probing!Stages
    <2>2. CASE ~(probeObject # NoProbe /\ probeStage[probeObject] \in {"pending", "posted"})
      <3>1. left = probeStage
        BY <2>2 DEF Probing!Destroyed
      <3> QED BY <2>2, <3>1, IdentitiesAssumption DEF ProbesOK, ProbeOpen, CallMoves
    <2> QED BY <2>1, <2>2
  <1>2. CASE probe' = "running"
    <2>1. probeStage' = Probing!Probing(left, o) /\ probeObject' = o
      BY <1>2 DEF ReplacesProbe
    <2>2. o \in Probes /\ probeStage[o] = "unused"
      BY <1>2 DEF FreshProbes
    <2> HIDE DEF left, o
    <2>3. probeStage' = [left EXCEPT ![o] = "pending"]
      BY <2>1 DEF Probing!Probing
    <2>4. o # NoProbe /\ o \in current' /\ Present \subseteq Probes
      BY <2>1, <2>2, IdentitiesAssumption DEF Present
    <2> QED BY <1>1, <1>2, <2>1, <2>2, <2>3, <2>4
            DEF ProbesOK, ProbeOpen, ProbesMove, CallMoves, Probing!Stages
  <1>3. CASE probe' # "running"
    <2>1. probeStage' = left /\ probeObject' = NoProbe
      BY <1>3 DEF ReplacesProbe
    <2> HIDE DEF left
    <2> QED BY <1>1, <1>3, <2>1 DEF ProbesOK, ProbeOpen, ProbesMove, Present
  <1> QED BY <1>2, <1>3

\* A step that keeps the probes and those that are current.
LEMMA KeptProbes ==
  ASSUME ProbesOK, KeepProbes, UNCHANGED probe, current \cap Probes \subseteq current'
  PROVE  ProbesOK' /\ ProbesMove
BY DEF ProbesOK, KeepProbes, ProbesMove, CallMoves, ProbeOpen

\* start(), switchProfile() and signOut() leave no call and at most one probe.
LEMMA SupersededCalls ==
  ASSUME CallsOK, ProbesOK, Supersedes, request' = NoRequest,
         FreshProbes # {} \/ probe' # "running"
  PROVE  CallsOK' /\ ProbesOK' /\ CallsMove /\ ProbesMove /\ Fresh' = Fresh
  <1>1. CancelPending /\ ReplacesProbe /\ current' = Present
    BY DEF Supersedes
  <1>2. ProbesOK' /\ ProbesMove /\ Present \subseteq Probes
    BY <1>1, ReplacedProbe
  <1>3. /\ ClientTyped' /\ CallsMove /\ Fresh' = Fresh
        /\ \A c \in Calls : callStage'[c] # "pending"
        /\ handle' = NoCall /\ sent' = sent
    BY <1>1, CancelsPending DEF CallsOK, ClientTyped, Results
  <1>4. current' \cap Calls = {} /\ current' \subseteq Calls \cup Probes
    BY <1>1, <1>2, IdentitiesAssumption
  <1>5. CallsOK'
    BY <1>3, <1>4 DEF CallsOK, ClientTyped, Results
  <1> QED BY <1>2, <1>3, <1>5

-----------------------------------------------------------------------------
(* The flows that may still have to make a call                            *)

\* A bound on the calls that are left leaves one, and two leave another.
LEMMA LeftCalls ==
  /\ CallsLeft(1) => Fresh # {}
  /\ CallsLeft(2) => Fresh # {} /\ \A c \in Fresh : Fresh \ {c} # {}
  <1>1. Cardinality({}) = 0
    BY FS_EmptySet
  <1>2. ASSUME NEW c \in Fresh, Fresh \ {c} = {} PROVE Cardinality(Fresh) = 1
    <2>1. Fresh = {c}
      BY <1>2
    <2> QED BY <2>1, FS_Singleton
  <1>3. Fresh = {} => Cardinality(Fresh) = 0
    BY <1>1
  <1> HIDE DEF Fresh
  <1> QED BY <1>2, <1>3 DEF CallsLeft

\* A session that asks who it is makes no other call.
LEMMA AskingIsLast ==
  ASSUME Course, request.kind \in {"restoredWhoAmI", "freshWhoAmI"}
  PROVE  ~MayCall
  <1>1. request # NoRequest
    BY DEF NoRequest
  <1>2. probe # "running" /\ SelectedOps = {}
    BY <1>1 DEF Course, FlowsOK
  <1> QED BY <1>2 DEF MayCall, ReadsCredential

\* Nobody else calls after a step that leaves a whoami outstanding.
LEMMA AskingIsLastNext ==
  ASSUME Course', request'.kind \in {"restoredWhoAmI", "freshWhoAmI"}
  PROVE  ~MayCall'
  <1>1. request' # NoRequest
    BY DEF NoRequest
  <1>2. probe' # "running" /\ SelectedOps' = {}
    BY <1>1 DEF Course, FlowsOK
  <1> QED BY <1>2 DEF MayCall, ReadsCredential

\* No step but a restore makes a session read its credential.
LEMMA WhoAmIReadsNothing ==
  ASSUME IInv, Course, WhoAmIAnswered
  PROVE  ~MayCall'
  <1>1. /\ request # NoRequest /\ selected \in Profiles /\ SelectedOps = {}
        /\ probe # "running" /\ request' = NoRequest /\ UNCHANGED <<probe, selected>>
    <2>1. request # NoRequest /\ request.kind # "none"
      BY DEF WhoAmIAnswered, WhoAmIAnsweredWith, RestoredWhoAmIAnswered,
             FreshWhoAmIAnswered, NoRequest
    <2>2. selected \in Profiles
      BY <2>1, Requesting
    <2> QED BY <2>1, <2>2 DEF Course, FlowsOK, WhoAmIAnswered, WhoAmIAnsweredWith,
          RestoredWhoAmIAnswered, FreshWhoAmIAnswered, EnterMaintenance
  <1>2. OpsOf(fifo[selected]) = {} /\ fifo[selected] \in Fifos /\ fifo \in [Profiles -> Fifos]
    BY <1>1 DEF SelectedOps, IInv, TypeOK
  <1>3. ~ReadsCredential'
    <2>1. CASE UNCHANGED fifo
      BY <1>1, <1>2, <2>1 DEF ReadsCredential, SelectedOps
    <2>2. ASSUME NEW op \in Ops, Shaped(op), New(op), op.kind # "read",
                 fifo' = [fifo EXCEPT ![selected] = Enqueue(@, op)]
          PROVE  ~ReadsCredential'
      <3>1. OpsOf(Enqueue(fifo[selected], op)) = {op}
        BY <1>2, <2>2, EnqueueOnEmpty
      <3>2. SelectedOps' = {op}
        BY <1>1, <1>2, <2>2, <3>1 DEF SelectedOps
      <3> QED BY <2>2, <3>2 DEF ReadsCredential, IsRestoreRead
    <2>3. CASE fifo' = [fifo EXCEPT ![selected] = Enqueue(@, DeleteOp("untrusted"))]
      <3> DEFINE op == DeleteOp("untrusted")
      <3>1. op \in Ops /\ Shaped(op) /\ New(op) /\ op.kind # "read"
        BY MadeNew DEF Ops, Kinds, Purposes, DeleteOp, Shaped
      <3>2. fifo' = [fifo EXCEPT ![selected] = Enqueue(@, op)]
        BY <2>3
      <3> HIDE DEF op
      <3> QED BY <2>2, <3>1, <3>2
    <2>4. CASE request.kind = "freshWhoAmI" /\ SaveFreshToken(request.token)
      <3> DEFINE op == SaveOp(request.token, profiles[selected])
      <3>1. op \in Ops /\ Shaped(op) /\ New(op) /\ op.kind # "read"
        BY <1>1, <2>4, Requesting, MadeNew, NoValueAssumption
           DEF IInv, RequestOK, Ops, Kinds, Purposes, SaveOp, Shaped
      <3>2. fifo' = [fifo EXCEPT ![selected] = Enqueue(@, op)]
        BY <2>4 DEF SaveFreshToken
      <3> HIDE DEF op
      <3> QED BY <2>2, <3>1, <3>2
    <2> QED BY <2>1, <2>3, <2>4 DEF WhoAmIAnswered, WhoAmIAnsweredWith,
          RestoredWhoAmIAnswered, FreshWhoAmIAnswered
  <1> QED BY <1>1, <1>3 DEF MayCall, NoRequest

\* The operations that are left when a head was answered.
LEMMA AnswerReadsNothing ==
  ASSUME IInv, Course, NEW p \in Profiles, StoreAnswers(p)
  PROVE  /\ UNCHANGED <<probe, selected>>
         /\ request' # request =>
              request = NoRequest /\ request'.kind = "restoredWhoAmI" /\ MayCall
         /\ ReadsCredential' => ReadsCredential
  <1> DEFINE head == Head(fifo[p].ops)
  <1>1. fifo[p].busy /\ UNCHANGED <<probe, selected>>
    BY DEF StoreAnswers, ReadAnswered, ReadAnsweredWith, SaveAnswered, SaveAnsweredWith,
           DeleteSucceeds, DeleteFails, Answering
  <1>2. /\ fifo[p] \in Fifos /\ fifo \in [Profiles -> Fifos] /\ Orderly(fifo[p])
        /\ fifo[p].ops # << >>
        /\ p = selected => SelectedOps = OpsOf(fifo[p])
    BY <1>1, AnsweredHead DEF IInv, TypeOK
  <1>3. request' # request =>
          request = NoRequest /\ request'.kind = "restoredWhoAmI" /\ MayCall
    <2> SUFFICES ASSUME request' # request
                 PROVE  request = NoRequest /\ request'.kind = "restoredWhoAmI" /\ MayCall
      OBVIOUS
    <2>1. IsRestoreRead(head) /\ head.live /\ request'.kind = "restoredWhoAmI"
      <3>1. CASE ReadAnswered(p)
        <4>1. PICK o : ReadAnsweredWith(p, o)
          BY <3>1 DEF ReadAnswered
        <4>2. RestoreReadAnswered(p, o)
          BY <4>1 DEF ReadAnsweredWith, DeadAnswered, AccessReadAnswered
        <4> QED BY <4>2 DEF RestoreReadAnswered, SendWhoAmI, Request
      <3>2. ~(SaveAnswered(p) \/ DeleteSucceeds(p) \/ DeleteFails(p))
        BY DEF SaveAnswered, SaveAnsweredWith, DeleteSucceeds, DeleteFails, DeadAnswered,
               SaveContinues, DeleteContinues
      <3> QED BY <3>1, <3>2 DEF StoreAnswers
    <2>2. Drives(head)
      BY <2>1 DEF Drives, IsRestoreRead
    <2>3. request = NoRequest /\ head \in SelectedOps
      BY <1>1, <2>2, DrivingHead
    <2> QED BY <2>1, <2>3 DEF MayCall, ReadsCredential
  <1>4. CASE p # selected
    <2>1. \A q \in Profiles \ {p} : fifo'[q] = fifo[q]
      BY <1>2 DEF StoreAnswers, ReadAnswered, ReadAnsweredWith, SaveAnswered, SaveAnsweredWith,
         DeleteSucceeds, DeleteFails, DeadAnswered, RestoreReadAnswered, AccessReadAnswered,
         SaveContinues, DeleteContinues, Advance, AdvanceWith
    <2>2. SelectedOps' = SelectedOps
      BY <1>1, <1>4, <2>1 DEF SelectedOps
    <2> QED BY <1>1, <1>3, <2>2 DEF ReadsCredential
  <1>5. CASE p = selected /\ Advance(p)
    <2>1. OpsOf(fifo'[p]) \subseteq OpsOf(fifo[p])
      <3>1. fifo'[p] = StartFront(Dequeue(fifo[p]))
        BY <1>2, <1>5 DEF Advance
      <3>2. CASE Drives(head)
        BY <1>1, <3>1, <3>2, DrivingHead, EmptyOrderly
      <3>3. CASE ~Drives(head)
        <4>1. Kept(fifo[p], StartFront(Dequeue(fifo[p])))
          BY <1>2, <3>3, AdvanceKeeps
        <4> QED BY <3>1, <4>1 DEF Kept
      <3> QED BY <3>2, <3>3
    <2>2. SelectedOps' \subseteq SelectedOps
      BY <1>1, <1>2, <1>5, <2>1 DEF SelectedOps
    <2> QED BY <1>1, <1>3, <2>2 DEF ReadsCredential
  <1>6. CASE p = selected /\ IsRestoreRead(head) /\ head.live
               /\ AdvanceWith(p, DeleteOp("untrusted"))
    <2>1. head \in SelectedOps
      BY <1>1, <1>6, DrivingHead DEF Drives, IsRestoreRead
    <2> QED BY <1>1, <1>3, <1>6, <2>1 DEF ReadsCredential
  <1>7. CASE p = selected /\ fifo' = [fifo EXCEPT ![p].busy = FALSE]
    <2>1. OpsOf(fifo'[p]) = OpsOf(fifo[p])
      BY <1>2, <1>7, FifoFields DEF OpsOf, Fifos
    <2>2. SelectedOps' = SelectedOps
      BY <1>1, <1>2, <1>7, <2>1 DEF SelectedOps
    <2> QED BY <1>1, <1>3, <2>2 DEF ReadsCredential
  <1>8. Advance(p) \/ fifo' = [fifo EXCEPT ![p].busy = FALSE]
          \/ (IsRestoreRead(head) /\ head.live /\ AdvanceWith(p, DeleteOp("untrusted")))
    BY DEF StoreAnswers, ReadAnswered, ReadAnsweredWith, SaveAnswered, SaveAnsweredWith,
         DeleteSucceeds, DeleteFails, DeadAnswered, RestoreReadAnswered, AccessReadAnswered,
         SaveContinues, DeleteContinues
  <1> QED BY <1>4, <1>5, <1>6, <1>7, <1>8

\* An access token is read, a session signs out, and a failed deletion is
\* tried again.
LEMMA InputReadsNothing ==
  ASSUME IInv, Course, Course', RequestAccessToken \/ SignOut \/ RetryDeletion
  PROVE  MayCall' => MayCall
  <1>1. CASE RequestAccessToken
    <2>1. state' = "SignedIn"
      BY <1>1 DEF RequestAccessToken, Exposed
    <2>2. ~ReadsCredential' /\ request' = NoRequest /\ probe' = "none"
      BY <2>1 DEF Course, StateOK, ReadsCredential, IsRestoreRead
    <2> QED BY <2>2 DEF MayCall, NoRequest
  <1>2. CASE SignOut
    <2>1. state' = "SigningOut" /\ probe' = "none" /\ request' = NoRequest
      BY <1>2 DEF SignOut
    <2>2. ~ReadsCredential'
      BY <2>1 DEF Course, StateOK, ReadsCredential, IsRestoreRead, Drives
    <2> QED BY <2>1, <2>2 DEF MayCall, NoRequest
  <1>3. CASE RetryDeletion
    <2> DEFINE q == Head(stalled)
    <2>1. /\ q \in Profiles /\ fifo' = [fifo EXCEPT ![q] = StartFront(fifo[q])]
          /\ UNCHANGED <<probe, request, selected>>
      BY <1>3, HeadTailProperties DEF RetryDeletion, IInv, TypeOK
    <2> HIDE DEF q
    <2>2. /\ fifo[q] \in Fifos /\ fifo \in [Profiles -> Fifos] /\ Orderly(fifo[q])
      BY <2>1 DEF IInv, TypeOK, Course, QueuesOrderly
    <2>3. OpsOf(StartFront(fifo[q])) \subseteq OpsOf(fifo[q])
      BY <2>2, StartFrontKeeps DEF Kept
    <2>4. SelectedOps' \subseteq SelectedOps
      BY <2>1, <2>2, <2>3 DEF SelectedOps
    <2> QED BY <2>1, <2>4 DEF MayCall, ReadsCredential
  <1> QED BY <1>1, <1>2, <1>3

-----------------------------------------------------------------------------
(* What is outstanding, step by step                                       *)

\* The part of the invariant that is about the two clients.
ClientsOutstanding == CallsOK /\ ProbesOK /\ CallsLast
ClientsMove == CallsMove /\ ProbesMove

\* A slot that leaves both clients, and what the session waits for, alone.
LEMMA KeptOutstanding ==
  ASSUME ClientsOutstanding, KeepCalls, KeepProbes,
         UNCHANGED <<current, request, probe>>, MayCall' => Fresh # {}
  PROVE  ClientsOutstanding' /\ ClientsMove
  <1>1. CallsOK' /\ CallsMove /\ Fresh' = Fresh
    BY KeptCalls DEF ClientsOutstanding, CallsOK
  <1>2. ProbesOK' /\ ProbesMove
    BY KeptProbes DEF ClientsOutstanding
  <1> QED BY <1>1, <1>2 DEF ClientsOutstanding, ClientsMove, CallsLast

\* A slot that begins a generation.
LEMMA SupersededOutstanding ==
  ASSUME ClientsOutstanding, Supersedes, request' = NoRequest,
         FreshProbes # {} \/ probe' # "running", MayCall' => Fresh # {}
  PROVE  ClientsOutstanding' /\ ClientsMove
  <1>1. CallsOK' /\ ProbesOK' /\ CallsMove /\ ProbesMove /\ Fresh' = Fresh
    BY SupersededCalls DEF ClientsOutstanding
  <1> QED BY <1>1 DEF ClientsOutstanding, ClientsMove, CallsLast

\* A slot that makes the one call: none is outstanding before.
LEMMA MadeOutstanding ==
  ASSUME IInv', ClientsOutstanding, request = NoRequest, request' # NoRequest,
         MakesCall(Auth!Calling, handle, {}), KeepProbes, UNCHANGED probe, Fresh # {},
         MayCall' => \A c \in Fresh : Fresh \ {c} # {}
  PROVE  ClientsOutstanding' /\ ClientsMove
  <1>1. /\ callStage \in [Calls -> Auth!Stages] /\ callResult \in [Calls -> Results]
        /\ current \subseteq Calls \cup Probes /\ current \cap Calls \subseteq {}
        /\ sent \in [Calls -> Requests]
    BY DEF ClientsOutstanding, CallsOK, Results
  <1>2. handle = NoCall /\ \A x \in Calls : callStage[x] # "pending"
    BY <1>1, IdentitiesAssumption DEF ClientsOutstanding, CallsOK
  <1>3. MakesCall([stage |-> callStage, result |-> callResult], NoCall, {})
    BY <1>2 DEF Auth!Calling
  <1>4. request' \in Requests
    BY DEF IInv, TypeOK
  <1>5. /\ CallsOK' /\ \E c \in Fresh : Fresh' = Fresh \ {c}
        /\ CallsMove /\ current' \cap Probes = current \cap Probes
    BY <1>1, <1>2, <1>3, <1>4, MadeCall DEF CallsMove
  <1>6. ProbesOK' /\ ProbesMove
    <2>1. current \cap Probes \subseteq current'
      BY <1>5
    <2> QED BY <2>1, KeptProbes DEF ClientsOutstanding
  <1> QED BY <1>5, <1>6 DEF ClientsOutstanding, ClientsMove, CallsLast

\* start().
LEMMA StartOutstanding ==
  ASSUME ClientsOutstanding, DoStart, Left, Supersedes
  PROVE  ClientsOutstanding' /\ ClientsMove
BY LeftCalls, SupersededOutstanding DEF DoStart, Left

\* And switchProfile(), whether or not the switch is saved.
LEMMA SwitchOutstanding ==
  ASSUME ClientsOutstanding, NEW p, DoSwitch(p), Left, SwitchEffects
  PROVE  ClientsOutstanding' /\ ClientsMove
  <1>1. Fresh # {} /\ FreshProbes # {}
    BY LeftCalls DEF Left
  <1>2. CASE SwitchSaved(p)
    <2>1. Supersedes /\ request' = NoRequest
      BY <1>2 DEF SwitchSaved, DoSwitch, SwitchEffects
    <2> QED BY <1>1, <2>1, SupersededOutstanding
  <1>3. CASE SwitchUnknown(p) \/ SwitchNotSaved(p)
    <2>1. KeepCalls /\ KeepProbes /\ UNCHANGED <<current, request, probe>>
      BY <1>3 DEF SwitchUnknown, SwitchNotSaved, SwitchEffects
    <2> QED BY <1>1, <2>1, KeptOutstanding
  <1> QED BY <1>2, <1>3 DEF DoSwitch

\* signIn() and registerAccount().
LEMMA CredentialsOutstanding ==
  ASSUME IInv', ClientsOutstanding, SendingCredentials
  PROVE  ClientsOutstanding' /\ ClientsMove
  <1>1. /\ request = NoRequest /\ UNCHANGED probe
        /\ request'.kind \in {"authenticate", "register"}
    BY DEF SendingCredentials, SignIn, Register, SendCredentials, Request
  <1>2. request' # NoRequest
    BY <1>1 DEF NoRequest
  <1>3. Fresh # {} /\ \A c \in Fresh : Fresh \ {c} # {}
    BY LeftCalls DEF SendingCredentials
  <1>4. MakesCall(Auth!Calling, handle, {}) /\ KeepProbes
    BY DEF SendingCredentials
  <1> QED BY <1>1, <1>2, <1>3, <1>4, MadeOutstanding

\* signOut().
LEMMA SignOutOutstanding ==
  ASSUME IInv, Course, Course', ClientsOutstanding, SigningOut
  PROVE  ClientsOutstanding' /\ ClientsMove
  <1>1. MayCall' => Fresh # {}
    BY InputReadsNothing DEF SigningOut, ClientsOutstanding, CallsLast
  <1>2. Supersedes /\ request' = NoRequest /\ probe' # "running"
    BY DEF SigningOut, SignOut
  <1> QED BY <1>1, <1>2, SupersededOutstanding

\* requestAccessToken().
LEMMA AccessOutstanding ==
  ASSUME IInv, Course, Course', ClientsOutstanding, AskingForToken
  PROVE  ClientsOutstanding' /\ ClientsMove
  <1>1. MayCall' => Fresh # {}
    BY InputReadsNothing DEF AskingForToken, ClientsOutstanding, CallsLast
  <1>2. KeepCalls /\ KeepProbes /\ UNCHANGED <<current, request, probe>>
    BY DEF AskingForToken, RequestAccessToken
  <1> QED BY <1>1, <1>2, KeptOutstanding

\* retry(), as what it runs.
LEMMA RetryOutstanding ==
  ASSUME IInv, IInv', Course, Course', ClientsOutstanding, Retrying
  PROVE  ClientsOutstanding' /\ ClientsMove
  <1>1. CASE RetryDeletion /\ KeepCalls /\ KeepProbes /\ UNCHANGED current
    <2>1. MayCall' => Fresh # {}
      BY <1>1, InputReadsNothing DEF ClientsOutstanding, CallsLast
    <2>2. UNCHANGED <<current, request, probe>>
      BY <1>1 DEF RetryDeletion
    <2> QED BY <1>1, <2>1, <2>2, KeptOutstanding
  <1>2. ASSUME Left, RetryAction, RetryEffects
        PROVE  ClientsOutstanding' /\ ClientsMove
    <2>0. Fresh # {} /\ FreshProbes # {}
      BY <1>2, LeftCalls DEF Left
    <2>1. CASE retryAction.kind = "start"
      BY <1>2, <2>1, StartOutstanding DEF RetryAction, RetryEffects
    <2>2. CASE retryAction.kind = "switch"
      BY <1>2, <2>2, SwitchOutstanding DEF RetryAction, RetryEffects
    <2>3. CASE retryAction.kind = "probe"
      <3>1. /\ ReplacesProbe /\ current' = current \cup Present /\ KeepCalls
            /\ UNCHANGED request
        BY <1>2, <2>3 DEF RetryAction, RetryEffects
      <3>2. ProbesOK' /\ ProbesMove /\ Present \subseteq Probes
        BY <2>0, <3>1, ReplacedProbe DEF ClientsOutstanding
      <3>3. CallsOK' /\ CallsMove /\ Fresh' = Fresh
        <4>1. current' \cap Calls = current \cap Calls /\ current' \subseteq Calls \cup Probes
          BY <3>1, <3>2, IdentitiesAssumption DEF ClientsOutstanding, CallsOK
        <4> QED BY <3>1, <4>1, KeptCalls DEF ClientsOutstanding
      <3> QED BY <2>0, <3>2, <3>3 DEF ClientsOutstanding, ClientsMove, CallsLast
    <2>4. CASE retryAction.kind \in {"restore", "save"}
      <3>1. KeepCalls /\ KeepProbes /\ UNCHANGED <<current, request, probe>>
        BY <1>2, <2>4 DEF RetryAction, RetryEffects
      <3> QED BY <2>0, <3>1, KeptOutstanding
    <2>5. CASE retryAction.kind = "whoami"
      <3>1. /\ MakesCall(Auth!Calling, handle, {}) /\ KeepProbes /\ UNCHANGED probe
            /\ request'.kind = "restoredWhoAmI"
        BY <1>2, <2>5 DEF RetryAction, RetryEffects, SendWhoAmI, Request
      <3>2. request = NoRequest /\ request' # NoRequest /\ ~MayCall'
        BY <2>5, <3>1, RetryAlone, AskingIsLastNext DEF NoRequest
      <3> QED BY <2>0, <3>1, <3>2, MadeOutstanding
    <2> QED BY <1>2, <2>1, <2>2, <2>3, <2>4, <2>5 DEF RetryEffects
  <1> QED BY <1>1, <1>2 DEF Retrying
\* A reply or a deadline: the call is still outstanding, with its callback
\* queued and its handle the session's.
LEMMA FinishedOutstanding ==
  ASSUME ClientsOutstanding, NEW c \in Calls, CallFinishes(c)
  PROVE  ClientsOutstanding' /\ ClientsMove
  <1> DEFINE calling == Auth!Calling
  <1>1. calling.stage = callStage /\ calling.result = callResult
    BY DEF Auth!Calling
  <1>2. PICK o \in Auth!Outcomes : Auth!Becomes(Auth!Posted(calling, c, o))
    <2>1. UNION {Auth!Classified(x) : x \in Auth!FinishedReplies} \subseteq Auth!Outcomes
      BY DEF Auth!Classified, Auth!Outcomes
    <2> QED BY <2>1 DEF CallFinishes, Auth!Finishes, Auth!TimesOut, Auth!Outcomes
  <1>3. /\ callStage[c] = "pending" /\ KeepProbes
        /\ UNCHANGED <<request, probe, selected, fifo, sent, handle, current>>
    BY DEF CallFinishes, Auth!Finishes, Auth!TimesOut, Quiet, vars
  <1> HIDE DEF calling
  <1>4. ClientTyped' /\ callStage' = [callStage EXCEPT ![c] = "posted"]
    BY <1>1, <1>2, PostedCalls DEF ClientsOutstanding, CallsOK, ClientTyped, Results
  <1>5. CallsMove /\ Fresh' = Fresh /\ \A x \in Calls : Open(x)' <=> Open(x)
    BY <1>3, <1>4
       DEF CallsMove, CallMoves, Fresh, Open, ClientsOutstanding, CallsOK
  <1>6. \A x \in Calls : callStage'[x] = "pending" => callStage[x] = "pending"
    BY <1>3, <1>4 DEF ClientsOutstanding, CallsOK
  <1>7. CallsOK'
    BY <1>3, <1>4, <1>5, <1>6 DEF ClientsOutstanding, CallsOK, ClientTyped, Results
  <1>8. ProbesOK' /\ ProbesMove
    BY <1>3, KeptProbes DEF ClientsOutstanding
  <1>9. CallsLast'
    BY <1>3, <1>5 DEF ClientsOutstanding, CallsLast, MayCall, ReadsCredential, SelectedOps
  <1> QED BY <1>5, <1>7, <1>8, <1>9 DEF ClientsOutstanding, ClientsMove

\* The deadline of a probe.
LEMMA ProbeLateOutstanding ==
  ASSUME ClientsOutstanding, NEW o \in Probes, ProbeTimesOut(o)
  PROVE  ClientsOutstanding' /\ ClientsMove
  <1>1. /\ KeepCalls /\ UNCHANGED <<request, probe, selected, fifo, probeObject, current>>
        /\ probeStage[o] = "pending" /\ probeStage' = [probeStage EXCEPT ![o] = "posted"]
    BY DEF ProbeTimesOut, Quiet, vars, Probing!TimesOut
  <1>2. CallsOK' /\ CallsMove /\ Fresh' = Fresh
    BY <1>1, KeptCalls DEF ClientsOutstanding, CallsOK
  <1>3. ProbesOK' /\ ProbesMove
    <2>1. /\ \A x \in Probes : ProbeOpen(x)' <=> ProbeOpen(x)
          /\ probeStage' \in [Probes -> Probing!Stages] /\ ProbesMove
      BY <1>1 DEF ClientsOutstanding, ProbesOK, ProbeOpen, ProbesMove, CallMoves, Probing!Stages
    <2>2. probeObject # NoProbe => probeObject \in Probes
      BY DEF ClientsOutstanding, ProbesOK
    <2>3. probe = "running" => /\ probeObject # NoProbe
                               /\ probeStage'[probeObject] \in {"pending", "posted"}
      BY <2>1, <2>2 DEF ClientsOutstanding, ProbesOK, ProbeOpen
    <2> QED BY <1>1, <2>1, <2>3 DEF ClientsOutstanding, ProbesOK, ProbeOpen
  <1>4. CallsLast'
    BY <1>1, <1>2 DEF ClientsOutstanding, CallsLast, MayCall, ReadsCredential, SelectedOps
  <1> QED BY <1>2, <1>3, <1>4 DEF ClientsOutstanding, ClientsMove

\* finished() of a probe: it is the session's, since that of an earlier
\* generation is destroyed with it.
LEMMA ProbeAnsweredOutstanding ==
  ASSUME ClientsOutstanding, NEW o \in Probes, ProbeAnswered(o)
  PROVE  ClientsOutstanding' /\ ClientsMove
  <1>1. /\ probeStage[o] \in {"pending", "posted"}
        /\ probeStage' = [probeStage EXCEPT ![o] = "answered"]
        /\ KeepCalls /\ UNCHANGED probeObject
    BY DEF ProbeAnswered, Probing!Finishes, Probing!Delivers
  <1>2. ProbeOpen(o) /\ o = probeObject /\ o \in current /\ probe = "running"
    BY <1>1 DEF ClientsOutstanding, ProbesOK, ProbeOpen
  <1>3. probe' = "none" /\ UNCHANGED request /\ current' = current \ {o}
    BY <1>2 DEF ProbeAnswered, ProbeFinishedWith
  <1>4. CallsOK' /\ CallsMove /\ Fresh' = Fresh
    <2>1. current' \cap Calls = current \cap Calls /\ current' \subseteq Calls \cup Probes
      BY <1>3, IdentitiesAssumption DEF ClientsOutstanding, CallsOK
    <2> QED BY <1>1, <1>3, <2>1, KeptCalls DEF ClientsOutstanding
  <1>5. ProbesOK' /\ ProbesMove
    <2>0. /\ probeStage \in [Probes -> Probing!Stages]
          /\ \A x \in Probes \ {o} : probeStage[x] \notin {"pending", "posted"}
      BY <1>2 DEF ClientsOutstanding, ProbesOK, ProbeOpen
    <2>1. /\ probeStage' \in [Probes -> Probing!Stages]
          /\ \A x \in Probes : probeStage'[x] \notin {"pending", "posted"}
          /\ \A x \in Probes \ {o} : probeStage'[x] = probeStage[x]
          /\ probeStage'[o] = "answered"
      BY <1>1, <2>0 DEF Probing!Stages
    <2>2. ProbesMove
      <3>1. CallMoves(probeStage[o], probeStage'[o])
        BY <1>1, <2>1 DEF CallMoves
      <3> QED BY <2>1, <3>1 DEF ProbesMove, CallMoves
    <2> QED BY <1>1, <1>3, <2>1, <2>2 DEF ClientsOutstanding, ProbesOK, ProbeOpen
  <1>6. Fresh # {}
    BY <1>2 DEF ClientsOutstanding, CallsLast, MayCall
  <1> QED BY <1>4, <1>5, <1>6 DEF ClientsOutstanding, ClientsMove, CallsLast

\* The callback of an earlier generation.
LEMMA StaleOutstanding ==
  ASSUME ClientsOutstanding, NEW c \in Calls \ current, CallAnswered(c)
  PROVE  ClientsOutstanding' /\ ClientsMove
  <1>1. /\ callStage[c] = "posted" /\ KeepProbes
        /\ Auth!Becomes(Auth!Delivered(Auth!Calling, c))
        /\ sent' = [sent EXCEPT ![c] = NoRequest]
        /\ UNCHANGED <<request, probe, selected, fifo, handle, current>>
    BY DEF CallAnswered, IgnoresStale, vars
  <1>2. /\ callStage' = [callStage EXCEPT ![c] = "answered"]
        /\ callResult' = [callResult EXCEPT ![c] = Auth!NoResult]
    BY <1>1 DEF Auth!Becomes, Auth!Delivered, Auth!Calling
  <1>3. CallsMove /\ Fresh' = Fresh /\ \A x \in Calls \ {c} : Open(x)' <=> Open(x)
    BY <1>1, <1>2
       DEF CallsMove, CallMoves, Fresh, Open, ClientsOutstanding, CallsOK
  <1>4. /\ callStage' \in [Calls -> Auth!Stages]
        /\ callResult' \in [Calls -> Auth!Outcomes \cup {Auth!NoResult}]
        /\ sent' \in [Calls -> Requests]
        /\ \A x \in Calls \ {c} : sent'[x] = sent[x] /\ callStage'[x] = callStage[x]
        /\ callStage'[c] # "pending"
    BY <1>1, <1>2 DEF ClientsOutstanding, CallsOK, Auth!Stages, Requests, NoRequest,
                      MaybeToken, MaybeEndpoint
  <1>5. CallsOK'
    BY <1>1, <1>3, <1>4 DEF ClientsOutstanding, CallsOK
  <1>6. ProbesOK' /\ ProbesMove
    BY <1>1, KeptProbes DEF ClientsOutstanding
  <1>7. CallsLast'
    BY <1>1, <1>3 DEF ClientsOutstanding, CallsLast, MayCall, ReadsCredential, SelectedOps
  <1> QED BY <1>3, <1>5, <1>6, <1>7 DEF ClientsOutstanding, ClientsMove

\* That of the present one: the call is over before its result is handled,
\* and a token that was obtained is tried in another.
LEMMA AnsweredOutstanding ==
  ASSUME IInv, IInv', Course, Course', ClientsOutstanding,
         NEW c \in Calls \cap current, CallAnswered(c)
  PROVE  ClientsOutstanding' /\ ClientsMove
  <1> DEFINE calling == Auth!Delivered(Auth!Calling, c)
             s == [callStage EXCEPT ![c] = "answered"]
             r == [callResult EXCEPT ![c] = Auth!NoResult]
             o == AuthOutcome(callResult[c])
  <1>1. /\ callStage[c] = "posted" /\ KeepProbes
        /\ AuthAnsweredWith(o) \/ WhoAmIAnsweredWith(o)
        /\ IF request' # NoRequest THEN MakesCall(calling, NoCall, {c})
           ELSE /\ Auth!Becomes(calling)
                /\ handle' = NoCall
                /\ current' = current \ {c}
                /\ sent' = [sent EXCEPT ![c] = NoRequest]
    BY DEF CallAnswered
  <1>2. calling = [stage |-> s, result |-> r]
    <2>1. calling = [i \in {"stage", "result"} |-> calling[i]]
      BY DEF Auth!Delivered, Auth!Calling
    <2>2. calling.stage = s /\ calling.result = r
      BY DEF Auth!Delivered, Auth!Calling
    <2> HIDE DEF calling, s, r
    <2> QED BY <2>1, <2>2
  <1>3. AuthAnswered \/ WhoAmIAnswered
    <2>1. o \in AuthOutcomes
      BY DEF AuthOutcome, AuthOutcomes
    <2> QED BY <1>1, <2>1 DEF AuthAnswered, WhoAmIAnswered
  <1>4. /\ current \subseteq Calls \cup Probes /\ current \cap Calls = {c}
        /\ sent \in [Calls -> Requests]
        /\ s \in [Calls -> Auth!Stages] /\ r \in [Calls -> Results]
        /\ \A x \in Calls : s[x] # "pending"
        /\ \A x \in Calls : s[x] = "unused" <=> callStage[x] = "unused"
        /\ \A x \in Calls \ {c} : s[x] = callStage[x]
        /\ s[c] = "answered"
    BY <1>1, IdentitiesAssumption DEF ClientsOutstanding, CallsOK, Results, Auth!Stages
  <1> HIDE DEF calling, s, r, o
  <1>5. UNCHANGED probe
    BY <1>1 DEF AuthAnsweredWith, WhoAmIAnsweredWith, RestoredWhoAmIAnswered,
                FreshWhoAmIAnswered
  <1>6. CASE request' # NoRequest
    <2>1. /\ request.kind \in {"authenticate", "register"}
          /\ request'.kind = "freshWhoAmI"
      BY <1>1, <1>6 DEF AuthAnsweredWith, WhoAmIAnsweredWith, RestoredWhoAmIAnswered,
           FreshWhoAmIAnswered, EnterMaintenance, SendWhoAmI, Request
    <2>2. Fresh # {} /\ ~MayCall'
      BY <2>1, AskingIsLastNext DEF ClientsOutstanding, CallsLast, MayCall
    <2>3. MakesCall([stage |-> s, result |-> r], NoCall, {c})
      BY <1>1, <1>2, <1>6
    <2>4. /\ CallsOK' /\ \A x \in Calls : CallMoves(s[x], callStage'[x])
          /\ current' \cap Probes = (current \ {c}) \cap Probes
      <3>1. request' \in Requests
        BY DEF IInv, TypeOK
      <3> QED BY <1>4, <1>6, <2>2, <2>3, <3>1, MadeCall
    <2>5. CallsMove
      BY <1>1, <1>4, <2>4 DEF CallsMove, CallMoves
    <2>6. ProbesOK' /\ ProbesMove
      <3>1. current \cap Probes \subseteq current'
        BY <2>4, IdentitiesAssumption
      <3> QED BY <1>1, <1>5, <3>1, KeptProbes DEF ClientsOutstanding
    <2> QED BY <2>2, <2>4, <2>5, <2>6 DEF ClientsOutstanding, ClientsMove, CallsLast
  <1>7. CASE request' = NoRequest
    <2>1. /\ callStage' = s /\ callResult' = r /\ handle' = NoCall
          /\ current' = current \ {c} /\ sent' = [sent EXCEPT ![c] = NoRequest]
      BY <1>1, <1>2, <1>7 DEF Auth!Becomes
    <2>2. sent' \in [Calls -> Requests]
      BY <1>4, <2>1 DEF Requests, NoRequest, MaybeToken, MaybeEndpoint
    <2>3. CallsOK'
      BY <1>4, <1>7, <2>1, <2>2 DEF CallsOK, Results
    <2>4. CallsMove /\ Fresh' = Fresh
      BY <1>1, <1>4, <2>1 DEF CallsMove, CallMoves, Fresh
    <2>5. ProbesOK' /\ ProbesMove
      <3>1. current \cap Probes \subseteq current'
        BY <2>1, IdentitiesAssumption
      <3> QED BY <1>1, <1>5, <3>1, KeptProbes DEF ClientsOutstanding
    <2>6. MayCall' => MayCall
      <3>1. CASE AuthAnswered
        <4>1. UNCHANGED <<fifo, selected>>
          BY <3>1 DEF AuthAnswered, AuthAnsweredWith
        <4> QED BY <1>5, <1>7, <4>1 DEF MayCall, ReadsCredential, SelectedOps, NoRequest
      <3> QED BY <1>3, <3>1, WhoAmIReadsNothing
    <2> QED BY <2>3, <2>4, <2>5, <2>6 DEF ClientsOutstanding, ClientsMove, CallsLast
  <1> QED BY <1>6, <1>7

\* The store answers: a credential that was read is tried in a call.
LEMMA StoreAnsweredOutstanding ==
  ASSUME IInv, IInv', Course, Course', StoreOutstanding, ClientsOutstanding,
         NEW p \in Profiles, StoreAnswered(p)
  PROVE  ClientsOutstanding' /\ ClientsMove
  <1>1. StoreAnswers(p)
    BY AnswersSession
  <1>2. /\ UNCHANGED <<probe, selected>>
        /\ request' # request =>
             request = NoRequest /\ request'.kind = "restoredWhoAmI" /\ MayCall
        /\ ReadsCredential' => ReadsCredential
    BY <1>1, AnswerReadsNothing
  <1>3. /\ KeepProbes
        /\ IF request' # request THEN MakesCall(Auth!Calling, handle, {})
           ELSE KeepCalls /\ UNCHANGED current
    BY DEF StoreAnswered
  <1>4. CASE request' # request
    <2>1. Fresh # {} /\ ~MayCall' /\ request = NoRequest
      BY <1>2, <1>4, AskingIsLastNext DEF ClientsOutstanding, CallsLast
    <2> QED BY <1>2, <1>3, <1>4, <2>1, MadeOutstanding
  <1>5. CASE request' = request
    <2>1. MayCall' => Fresh # {}
      BY <1>2, <1>5 DEF MayCall, ClientsOutstanding, CallsLast
    <2> QED BY <1>2, <1>3, <1>5, <2>1, KeptOutstanding
  <1> QED BY <1>4, <1>5

\* The process ends, and what was outstanding with it.
LEMMA EndingOutstanding ==
  ASSUME ClientsOutstanding, Ending
  PROVE  ClientsOutstanding' /\ ClientsMove
  <1>1. /\ probe' = "none" /\ request' = NoRequest /\ selected' = NoProfile
        /\ handle' = NoCall /\ probeObject' = NoProbe /\ current' = {}
        /\ sent' = [x \in Calls |-> NoRequest]
        /\ probeStage' = Probing!Destroyed(probeStage, probeObject)
    BY DEF Ending, Terminate
  <1>2. /\ callStage' = [x \in Calls |-> IF callStage[x] \in {"pending", "posted"}
                                         THEN "dropped" ELSE callStage[x]]
        /\ callResult' = [x \in Calls |-> Auth!NoResult]
    BY DEF Ending, Auth!Becomes, Auth!Dropped, Auth!Calling
  <1>3. CallsMove /\ callStage' \in [Calls -> Auth!Stages]
        /\ \A x \in Calls : callStage'[x] # "pending"
    BY <1>2 DEF CallsMove, CallMoves, ClientsOutstanding, CallsOK, Auth!Stages
  <1>4. CallsOK'
    BY <1>1, <1>2, <1>3 DEF CallsOK, Requests, NoRequest, MaybeToken, MaybeEndpoint
  <1>5. ProbesOK' /\ ProbesMove
    <2>1. ReplacesProbe
      BY <1>1 DEF ReplacesProbe
    <2>2. Present \subseteq current'
      BY <1>1 DEF Present
    <2> QED BY <1>1, <2>1, <2>2, ReplacedProbe DEF ClientsOutstanding
  <1>6. ~MayCall'
    BY <1>1, NoValueAssumption DEF MayCall, ReadsCredential, SelectedOps, NoRequest
  <1> QED BY <1>3, <1>4, <1>5, <1>6 DEF ClientsOutstanding, ClientsMove, CallsLast

\* All steps.
LEMMA ClientsStep ==
  ASSUME IInv, IInv', Course, Course', StoreOutstanding, ClientsOutstanding,
         [NextAll]_allVars
  PROVE  ClientsOutstanding' /\ ClientsMove
  <1>1. ASSUME UNCHANGED <<vars, callStage, callResult, sent, handle, probeStage,
                           probeObject, current>>
        PROVE  ClientsOutstanding' /\ ClientsMove
    <2>1. /\ KeepCalls /\ KeepProbes
          /\ UNCHANGED <<current, request, probe, selected, fifo>>
      BY <1>1 DEF KeepCalls, KeepProbes, vars
    <2>2. MayCall' => Fresh # {}
      BY <2>1 DEF ClientsOutstanding, CallsLast, MayCall, ReadsCredential, SelectedOps
    <2> QED BY <2>1, <2>2, KeptOutstanding
  <1>2. CASE UNCHANGED allVars
    BY <1>1, <1>2 DEF allVars, clientVars
  <1>3. ASSUME NEW p \in Profiles, JobAdvances(p) PROVE ClientsOutstanding' /\ ClientsMove
    BY <1>1, <1>3 DEF JobAdvances, Quiet, KeepCalls, KeepProbes
  <1>4. CASE Starting
    BY <1>4, StartOutstanding DEF Starting, Start
  <1>5. ASSUME NEW p \in Profiles, Switching(p) PROVE ClientsOutstanding' /\ ClientsMove
    BY <1>5, SwitchOutstanding DEF Switching, SwitchProfile
  <1>6. ASSUME NEW c \in Calls, CallAnswered(c) PROVE ClientsOutstanding' /\ ClientsMove
    BY <1>6, StaleOutstanding, AnsweredOutstanding
  <1> QED BY <1>2, <1>3, <1>4, <1>5, <1>6, CredentialsOutstanding, SignOutOutstanding,
             RetryOutstanding, AccessOutstanding, FinishedOutstanding,
             ProbeLateOutstanding, ProbeAnsweredOutstanding, StoreAnsweredOutstanding,
             EndingOutstanding
          DEF NextAll

\* At the start nothing is outstanding.
LEMMA InitOutstanding ==
  ASSUME InitAll
  PROVE  ClientsOutstanding
  <1>1. /\ probe = "none" /\ request = NoRequest /\ selected = NoProfile
        /\ callStage = [c \in Calls |-> "unused"]
        /\ callResult = [c \in Calls |-> Auth!NoResult]
        /\ sent = [c \in Calls |-> NoRequest] /\ handle = NoCall /\ current = {}
        /\ probeStage = [o \in Probes |-> "unused"] /\ probeObject = NoProbe
    BY DEF InitAll, Init, Auth!Init, Probing!Init
  <1>2. CallsOK
    BY <1>1 DEF CallsOK, Auth!Stages, Requests, NoRequest, MaybeToken, MaybeEndpoint
  <1>3. ProbesOK
    BY <1>1 DEF ProbesOK, ProbeOpen, Probing!Stages
  <1>4. ~MayCall
    BY <1>1, NoValueAssumption DEF MayCall, ReadsCredential, SelectedOps, NoRequest
  <1> QED BY <1>2, <1>3, <1>4 DEF ClientsOutstanding, CallsLast

-----------------------------------------------------------------------------
(* What is proved of the clients                                           *)

\* The whole invariant, of the session, of the store and of both clients.
LEMMA WholeInvariant ==
  /\ InitAll => IInv /\ Course /\ StoreOutstanding /\ ClientsOutstanding
  /\ IInv /\ Course /\ StoreOutstanding /\ ClientsOutstanding /\ [NextAll]_allVars
       => (IInv /\ Course /\ StoreOutstanding /\ ClientsOutstanding)' /\ ClientsMove
  <1>1. InitAll => IInv /\ Course /\ StoreOutstanding /\ ClientsOutstanding
    BY InitSession, InitOutstanding
  <1>2. ASSUME IInv, Course, StoreOutstanding, ClientsOutstanding, [NextAll]_allVars
        PROVE  /\ IInv' /\ Course' /\ StoreOutstanding' /\ ClientsOutstanding'
               /\ ClientsMove
    <2>1. [Next]_vars
      BY <1>2, ImplementsStep
    <2>2. IInv' /\ Course'
      BY <1>2, <2>1, InductiveStep, CourseStep
    <2>3. StoreOutstanding'
      BY <1>2, <2>2, StoreStep
    <2> QED BY <1>2, <2>2, <2>3, ClientsStep
  <1> QED BY <1>1, <1>2

\* What the session believes outstanding is what is.
THEOREM OutstandingInvariant == SpecAll => []Outstanding
  <1>1. IInv /\ Course /\ StoreOutstanding /\ ClientsOutstanding /\ [NextAll]_allVars
          => (IInv /\ Course /\ StoreOutstanding /\ ClientsOutstanding)'
    BY WholeInvariant
  <1>2. InitAll => IInv /\ Course /\ StoreOutstanding /\ ClientsOutstanding
    BY WholeInvariant
  <1>3. IInv /\ Course /\ StoreOutstanding /\ ClientsOutstanding => Outstanding
    BY DEF Outstanding, StoreOutstanding, ClientsOutstanding
  <1> QED BY <1>1, <1>2, <1>3, PTL DEF SpecAll

\* The session waits for a call, or a probe, exactly if it is still to be
\* answered and the answer will then be taken; the handle is that call's
\* until its callback runs, and nobody's otherwise.
THEOREM WaitsForNothingElse == SpecAll => []WaitsForWhatIsOutstanding
  <1>1. ASSUME Outstanding PROVE WaitsForWhatIsOutstanding
    <2>1. {sent[c] : c \in {x \in current \cap Calls : Open(x)}}
            = IF request = NoRequest THEN {} ELSE {request}
      BY <1>1 DEF Outstanding, CallsOK
    <2>2. /\ handle # NoCall => Open(handle) /\ handle \in current
          /\ \A c \in Calls : callStage[c] = "pending" => c = handle
      BY <1>1 DEF Outstanding, CallsOK
    <2>3. /\ (probe = "running") <=> (\E o \in Probes : ProbeOpen(o))
          /\ \A o \in Probes : ProbeOpen(o) => o = probeObject /\ o \in current
      BY <1>1 DEF Outstanding, ProbesOK
    <2> QED BY <2>1, <2>2, <2>3 DEF WaitsForWhatIsOutstanding
  <1> QED BY <1>1, OutstandingInvariant, PTL

\* What moves of a call are to a client that answers it once: a phase for
\* each stage, and an outcome once it is answered.
PhaseOf(x) == CASE x = "unused"   -> "unused"
                [] x = "answered" -> "answered"
                [] x = "dropped"  -> "withdrawn"
                [] OTHER          -> "open"

\* What a call does is what OneAnswer lets one do.
LEMMA MovesOfPhases ==
  ASSUME NEW old \in Auth!Stages, NEW new \in Auth!Stages, CallMoves(old, new)
  PROVE  /\ PhaseOf(new) \in {"unused", "open", "answered", "withdrawn"}
         /\ \/ PhaseOf(new) = PhaseOf(old) /\ (new = "answered" <=> old = "answered")
            \/ PhaseOf(old) = "unused" /\ PhaseOf(new) = "open"
                 /\ new # "answered" /\ old # "answered"
            \/ PhaseOf(old) = "open" /\ PhaseOf(new) = "answered" /\ new = "answered"
            \/ PhaseOf(old) = "open" /\ PhaseOf(new) = "withdrawn"
                 /\ new # "answered" /\ old # "answered"
BY DEF CallMoves, Auth!Stages, PhaseOf

\* So calls and probes take steps of OneAnswer.
LEMMA CallsOnce ==
  ASSUME ClientsOutstanding, ClientsOutstanding', ClientsMove
  PROVE  Auth!Once!Next /\ Probing!Once!Next
  <1>1. ASSUME NEW c \in Calls
        PROVE  callStage[c] \in Auth!Stages /\ callStage'[c] \in Auth!Stages
                 /\ CallMoves(callStage[c], callStage'[c])
    BY DEF ClientsOutstanding, CallsOK, ClientsMove, CallsMove
  <1>2. ASSUME NEW o \in Probes
        PROVE  probeStage[o] \in Auth!Stages /\ probeStage'[o] \in Auth!Stages
                 /\ CallMoves(probeStage[o], probeStage'[o])
    BY DEF ClientsOutstanding, ProbesOK, ClientsMove, ProbesMove, Auth!Stages, Probing!Stages
  <1>3. Auth!Once!Next
    BY <1>1, MovesOfPhases
       DEF PhaseOf, Auth!Once!Next, Auth!Once!Keep, Auth!Once!Issue, Auth!Once!Answer,
           Auth!Once!Withdraw
  <1>4. Probing!Once!Next
    BY <1>2, MovesOfPhases
       DEF PhaseOf, Probing!Once!Next, Probing!Once!Keep, Probing!Once!Issue,
           Probing!Once!Answer, Probing!Once!Withdraw
  <1> QED BY <1>3, <1>4

\* A call on the authentication client, and a probe, is answered at most once,
\* after it was made and not after it was withdrawn with its object, whatever
\* is cancelled, restarted, timed out or refused meanwhile.
THEOREM EachAnsweredOnce == SpecAll => AnswersOnce
  <1>1. InitAll => Auth!Once!Init /\ Probing!Once!Init
    BY DEF InitAll, Auth!Init, Probing!Init, Auth!Once!Init, Probing!Once!Init
  <1> DEFINE Whole == IInv /\ Course /\ StoreOutstanding /\ ClientsOutstanding
  <1>2. Whole /\ [NextAll]_allVars => Whole' /\ ClientsMove
    BY WholeInvariant
  <1>3. Whole /\ Whole' /\ ClientsMove => Auth!Once!Next /\ Probing!Once!Next
    BY CallsOnce
  <1>4. Whole /\ [NextAll]_allVars
          => Whole' /\ [Auth!Once!Next]_(Auth!Once!vars) /\ [Probing!Once!Next]_(Probing!Once!vars)
    BY <1>2, <1>3
  <1>5. InitAll => Whole
    BY WholeInvariant
  <1> HIDE DEF Whole
  <1> QED BY <1>1, <1>4, <1>5, PTL DEF SpecAll, AnswersOnce, Auth!Once!Spec, Probing!Once!Spec
=============================================================================
