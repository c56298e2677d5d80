----------------------------- MODULE TokenFifo -----------------------------
(***************************************************************************)
(* The per-profile FIFO of secure-store operations that                    *)
(* SessionCoordinator keeps in m_tokenQueues and m_tokenDispatch, as       *)
(* operators on the record of one profile:                                 *)
(*                                                                         *)
(*   ops   the queued operations, head first;                              *)
(*   busy  whether the head is dispatched to ITokenStore and unanswered.   *)
(*                                                                         *)
(* The code stamps operations with counters that it only ever compares for *)
(* equality with the counter's present value: m_generation, the credential *)
(* epoch and the endpoint epoch.  An operation carries here the outcome of *)
(* that comparison instead (live, fresh, sameEndpoint): TRUE when it is    *)
(* stamped, FALSE from the next increment on.  The counters never go back, *)
(* so nothing is lost, and no bound on them is needed.                     *)
(***************************************************************************)
EXTENDS Integers, Sequences

CONSTANTS Profiles,    \* stable profile UUIDs
          Endpoints,   \* canonical credential-endpoint identities
          Tokens,      \* access tokens a server may issue
          NoProfile, NoEndpoint, NoToken

ASSUME NoValueAssumption ==
  /\ NoProfile \notin Profiles
  /\ NoEndpoint \notin Endpoints
  /\ NoToken \notin Tokens

Kinds == {"read", "save", "delete"}

\* What the continuation of an operation is for.
Purposes == {"restore", "access", "save", "signOut", "untrusted", "cleanup"}

Ops == [kind : Kinds,
        purpose : Purposes,
        token : Tokens \cup {NoToken},
        endpoint : Endpoints \cup {NoEndpoint},
        live : BOOLEAN,
        fresh : BOOLEAN,
        sameEndpoint : BOOLEAN]

\* The queues of operations of S: a call is outstanding only for a head.
FifosOf(S) == {f \in [ops : Seq(S), busy : BOOLEAN] : f.busy => f.ops # << >>}

Fifos == FifosOf(Ops)

EmptyFifo == [ops |-> << >>, busy |-> FALSE]

ReadOp(purpose, endpoint) ==
  [kind |-> "read", purpose |-> purpose, token |-> NoToken,
   endpoint |-> endpoint, live |-> TRUE, fresh |-> TRUE, sameEndpoint |-> TRUE]

SaveOp(token, endpoint) ==
  [kind |-> "save", purpose |-> "save", token |-> token,
   endpoint |-> endpoint, live |-> TRUE, fresh |-> TRUE, sameEndpoint |-> TRUE]

\* A Delete is not gated by either epoch and a cleanup has no continuation,
\* so its flags are constant.
DeleteOp(purpose) ==
  [kind |-> "delete", purpose |-> purpose, token |-> NoToken,
   endpoint |-> NoEndpoint, live |-> purpose # "cleanup",
   fresh |-> TRUE, sameEndpoint |-> TRUE]

IsRestoreRead(op) == op.kind = "read" /\ op.purpose = "restore"

\* A Save whose credential epoch is over before it was ever dispatched.
IsStaleSave(op) == op.kind = "save" /\ ~op.fresh

\* Mutant: the first operation is queued but not dispatched.
EnqueueIdle(f, op) == [ops |-> Append(f.ops, op), busy |-> f.busy]

\* enqueueTokenOp(): an operation that finds the queue empty is dispatched.
Enqueue(f, op) ==
  [ops |-> Append(f.ops, op), busy |-> f.busy \/ f.ops = << >>]

\* startFrontTokenOp(): nothing while a call is outstanding; otherwise the
\* stale Saves at the head are dropped unsent and the next head is dispatched.
StartFront(f) ==
  LET kept == {i \in DOMAIN f.ops : ~IsStaleSave(f.ops[i])}
  IN  IF f.busy \/ f.ops = << >> THEN f
      ELSE IF kept = {} THEN EmptyFifo
      ELSE LET first == CHOOSE i \in kept : \A j \in kept : i <= j
           IN  [ops |-> SubSeq(f.ops, first, Len(f.ops)), busy |-> TRUE]

\* The part of a completion that takes the answered head off the queue.
Dequeue(f) == [ops |-> Tail(f.ops), busy |-> FALSE]

\* Mutant: the epoch ends, and nothing is reserved behind the Save in flight.
InvalidateOnly(f) ==
  [f EXCEPT !.ops = [i \in DOMAIN f.ops |->
     IF f.ops[i].kind = "save" THEN [f.ops[i] EXCEPT !.fresh = FALSE]
     ELSE f.ops[i]]]

\* invalidateProfileCredential(): ends the credential epoch, and reserves a
\* compensating Delete behind a Save of that epoch found at the head.
Invalidate(f) ==
  LET marked == [f EXCEPT !.ops = [i \in DOMAIN f.ops |->
                   IF f.ops[i].kind = "save"
                   THEN [f.ops[i] EXCEPT !.fresh = FALSE]
                   ELSE f.ops[i]]]
  IN  IF f.ops # << >> /\ Head(f.ops).kind = "save" /\ Head(f.ops).fresh
      THEN Enqueue(marked, DeleteOp("cleanup"))
      ELSE marked

\* Mutant: the endpoint epoch ends without a deletion.
EndEndpointEpoch(f) ==
  Invalidate([f EXCEPT !.ops = [i \in DOMAIN f.ops |->
                IF IsRestoreRead(f.ops[i])
                THEN [f.ops[i] EXCEPT !.sameEndpoint = FALSE]
                ELSE f.ops[i]]])

\* invalidateProfileCredentialForEndpointChange(): also ends the endpoint
\* epoch of every queued Read and always reserves a Delete.
InvalidateForEndpointChange(f) ==
  LET marked == [f EXCEPT !.ops = [i \in DOMAIN f.ops |->
                   IF IsRestoreRead(f.ops[i])
                   THEN [f.ops[i] EXCEPT !.sameEndpoint = FALSE]
                   ELSE f.ops[i]]]
  IN  Enqueue(Invalidate(marked), DeleteOp("cleanup"))

\* Mutants: the generation stays, or the abandoned session's queue is emptied.
KeepLive(f) == f
DropQueue(f) ==
  IF f.busy THEN [ops |-> <<Head(f.ops)>>, busy |-> TRUE] ELSE EmptyFifo

\* ++m_generation: every continuation stamped so far is stale from now on.
DropLive(f) ==
  [f EXCEPT !.ops = [i \in DOMAIN f.ops |-> [f.ops[i] EXCEPT !.live = FALSE]]]

\* Mutant: a queued Read keeps the continuation of the restore that enqueued
\* it.
RequestWithoutRebind(f, endpoint) ==
  IF \E i \in DOMAIN f.ops : IsRestoreRead(f.ops[i]) /\ f.ops[i].sameEndpoint
  THEN f ELSE Enqueue(f, ReadOp("restore", endpoint))

\* The FIFO part of startCredentialRestore(): rebind the queued restore Read
\* of the present endpoint epoch to this call, or enqueue a new one.
RequestRestoreRead(f, endpoint) ==
  LET mine == {i \in DOMAIN f.ops :
                 IsRestoreRead(f.ops[i]) /\ f.ops[i].sameEndpoint}
  IN  IF mine = {} THEN Enqueue(f, ReadOp("restore", endpoint))
      ELSE LET first == CHOOSE i \in mine : \A j \in mine : i <= j
           IN  [f EXCEPT !.ops[first].live = TRUE]
=============================================================================
