--------------------------- MODULE GameClientProofs ---------------------------
(***************************************************************************)
(* For any requests, response cap and server: GameClient takes a list, a   *)
(* game or a catalog only from a body it received whole, and answers each  *)
(* call at most once, with the decode pool and the destructor at any point *)
(* between.                                                                *)
(***************************************************************************)
EXTENDS GameClient, TLAPS

-----------------------------------------------------------------------------
(* Replies                                                                 *)

\* The headers are known: nothing has arrived yet.
LEMMA HeadersFit ==
  ASSUME NEW p \in Replies, NEW q \in WithHeaders(p)
  PROVE  /\ q \in Replies /\ q.stage = "headers"
         /\ q.arrived = p.arrived /\ q.unread = p.unread
<1>1. PICK s \in Statuses, n \in 0..MaxBody, d \in BOOLEAN : q = Announced(p, s, n, d)
  BY DEF WithHeaders
<1> QED BY <1>1 DEF Replies, Announced

\* More has arrived and is unread.
LEMMA BytesFit ==
  ASSUME NEW p \in Replies, p.unread <= p.arrived, NEW q \in WithBytes(p)
  PROVE  /\ q \in Replies /\ q.stage = p.stage /\ q.length = p.length
         /\ q.arrived \in (p.arrived + 1)..p.length
         /\ q.unread = p.unread + (q.arrived - p.arrived)
<1>1. PICK n \in (p.arrived + 1)..p.length :
        q = [p EXCEPT !.arrived = n, !.unread = @ + (n - p.arrived)]
  BY DEF WithBytes
<1>2. n \in 0..MaxBody /\ p.unread + (n - p.arrived) \in 0..MaxBody
  BY BodyAssumption DEF Replies
<1> QED BY <1>1, <1>2 DEF Replies

\* What was unread has been read.
LEMMA DrainedFits ==
  ASSUME NEW p \in Replies
  PROVE  /\ Drained(p) \in Replies /\ Drained(p).unread = 0
         /\ Drained(p).stage = p.stage /\ Drained(p).status = p.status
         /\ Drained(p).error = p.error /\ Drained(p).length = p.length
         /\ Drained(p).arrived = p.arrived /\ Drained(p).declared = p.declared
BY BodyAssumption DEF Drained, Replies

\* A reply that finished without an error has arrived to its end.
LEMMA FinishedFits ==
  ASSUME NEW p \in Replies
  PROVE  /\ Finished(p) \in Replies /\ Finished(p).stage = "finished"
         /\ Finished(p).length = p.length /\ Finished(p).arrived = p.arrived
         /\ Finished(p).unread = p.unread
         /\ ~Finished(p).error => ~(p.arrived < p.length)
<1>1. (p.stage = "waiting" \/ p.arrived < p.length
         \/ p.status \notin {"ok", "redirect", "notModified"}) \in BOOLEAN
  OBVIOUS
<1> QED BY <1>1 DEF Finished, Replies

-----------------------------------------------------------------------------
(* The pool                                                                *)

\* A catalog is queued behind those that wait.
LEMMA PoolAppends ==
  ASSUME TypeOK, DecodedOnce, NEW r \in Requests, stage[r] # "decoding",
         pool' = Append(pool, r), stage' = [stage EXCEPT ![r] = "decoding"]
  PROVE  DecodedOnce' /\ pool' \in Seq(Requests)
<1>1. /\ pool \in Seq(Requests) /\ Len(pool) \in Nat
      /\ pool' \in Seq(Requests) /\ Len(pool') = Len(pool) + 1
      /\ \A i \in 1..Len(pool) : pool'[i] = pool[i]
      /\ pool'[Len(pool) + 1] = r
  BY DEF TypeOK
<1>2. /\ \A i \in 1..Len(pool) : pool[i] # r
      /\ stage'[r] = "decoding"
      /\ \A q \in Requests : q # r => stage'[q] = stage[q]
  BY DEF TypeOK, DecodedOnce
<1>3. 1..Len(pool') = 1..Len(pool) \cup {Len(pool) + 1}
  BY <1>1
<1>4. ASSUME NEW q \in Requests
      PROVE  stage'[q] = "decoding" <=> \E i \in 1..Len(pool') : pool'[i] = q
  BY <1>1, <1>2, <1>3 DEF DecodedOnce
<1>5. \A i, j \in 1..Len(pool') : pool'[i] = pool'[j] => i = j
  BY <1>1, <1>2, <1>3 DEF DecodedOnce
<1> QED BY <1>1, <1>4, <1>5 DEF DecodedOnce

\* The first of them leaves.
LEMMA PoolAdvances ==
  ASSUME TypeOK, DecodedOnce, pool # << >>, NEW s, s # "decoding",
         pool' = Tail(pool), stage' = [stage EXCEPT ![Head(pool)] = s]
  PROVE  DecodedOnce' /\ pool' \in Seq(Requests)
         /\ Head(pool) \in Requests /\ stage[Head(pool)] = "decoding"
<1> DEFINE h == Head(pool)
<1>1. /\ pool \in Seq(Requests) /\ Len(pool) \in Nat /\ Len(pool) >= 1
      /\ pool' \in Seq(Requests) /\ Len(pool') = Len(pool) - 1
      /\ \A i \in 1..Len(pool') : pool'[i] = pool[i + 1]
      /\ h = pool[1] /\ h \in Requests
  BY DEF TypeOK
<1>2. /\ \A i \in 1..Len(pool') : i + 1 \in 1..Len(pool) /\ i + 1 # 1
      /\ \A i \in 1..Len(pool) : i # 1 => i - 1 \in 1..Len(pool') /\ (i - 1) + 1 = i
      /\ 1 \in 1..Len(pool)
  BY <1>1
<1>3. stage[h] = "decoding" /\ stage'[h] = s
      /\ \A q \in Requests : q # h => stage'[q] = stage[q]
  BY <1>1, <1>2 DEF TypeOK, DecodedOnce
<1>4. ASSUME NEW q \in Requests
      PROVE  stage'[q] = "decoding" <=> \E i \in 1..Len(pool') : pool'[i] = q
  <2>1. CASE q = h
    <3>1. \A i \in 1..Len(pool') : pool'[i] # h
      BY <1>1, <1>2 DEF DecodedOnce
    <3> QED BY <1>3, <2>1, <3>1
  <2>2. CASE q # h
    <3>1. ASSUME NEW i \in 1..Len(pool), pool[i] = q
          PROVE  \E j \in 1..Len(pool') : pool'[j] = q
      <4>1. i - 1 \in 1..Len(pool') /\ pool'[i - 1] = q
        BY <1>1, <1>2, <2>2, <3>1
      <4> QED BY <4>1
    <3>2. ASSUME NEW j \in 1..Len(pool'), pool'[j] = q
          PROVE  \E i \in 1..Len(pool) : pool[i] = q
      BY <1>1, <1>2, <3>2
    <3> QED BY <1>3, <2>2, <3>1, <3>2 DEF DecodedOnce
  <2> QED BY <2>1, <2>2
<1>5. ASSUME NEW i \in 1..Len(pool'), NEW j \in 1..Len(pool'), pool'[i] = pool'[j]
      PROVE  i = j
  <2>1. i + 1 = j + 1
    BY <1>1, <1>2, <1>5 DEF DecodedOnce
  <2> QED BY <2>1
<1> QED BY <1>1, <1>3, <1>4, <1>5 DEF DecodedOnce

\* Neither decoding nor the pool changes.
LEMMA PoolKept ==
  ASSUME TypeOK, DecodedOnce, UNCHANGED pool,
         \A q \in Requests : stage'[q] = "decoding" <=> stage[q] = "decoding"
  PROVE  DecodedOnce'
BY DEF DecodedOnce

-----------------------------------------------------------------------------
(* Steps of the client                                                     *)

\* Only the reply of r and what was read of it may change.
OnlyReply(r) ==
  /\ reply' \in [Requests -> Replies]
  /\ body' \in [Requests -> 0..Cap]
  /\ BytesAddUp'
  /\ \A q \in Requests : q # r => reply'[q] = reply[q] /\ body'[q] = body[q]

\* A call that is open moves on, neither to the decoder nor from it.
LEMMA MovesKeep ==
  ASSUME Bookkeeping, NEW r \in Requests, NEW s \in Stages, NEW o \in GameOutcomes,
         stage' = [stage EXCEPT ![r] = s], stage[r] # "decoding",
         s \in {"answered", "rejected", "pending", "dropped"},
         IF s = "answered" THEN answer' = [answer EXCEPT ![r] = o]
         ELSE UNCHANGED answer /\ stage[r] # "answered",
         OnlyReply(r), UNCHANGED <<kind, pool>>, alive' = alive,
         s \notin {"answered", "dropped"} => alive,
         timer' = IF s = "pending" THEN timer \cup {r} ELSE timer \ {r},
         s = "answered" /\ o = "success" => IsWhole(r)'
  PROVE  Bookkeeping'
<1>1. /\ stage \in [Requests -> Stages] /\ answer \in [Requests -> GameOutcomes \cup {NoAnswer}]
      /\ stage'[r] = s /\ \A q \in Requests : q # r => stage'[q] = stage[q]
  BY DEF Bookkeeping, TypeOK
<1>2. /\ \A q \in Requests : q # r => answer'[q] = answer[q]
      /\ answer' \in [Requests -> GameOutcomes \cup {NoAnswer}]
      /\ s = "answered" => answer'[r] = o
      /\ s # "answered" => answer'[r] = answer[r]
  BY <1>1
<1>3. TypeOK'
  BY <1>1, <1>2 DEF Bookkeeping, TypeOK, OnlyReply
<1>4. NoAnswer \notin GameOutcomes /\ NoAnswer # "success"
  BY DEF NoAnswer, GameOutcomes
<1>5. CallsAreKnown'
  <2> SUFFICES ASSUME NEW q \in Requests
               PROVE  /\ q \in timer' <=> stage'[q] = "pending"
                      /\ answer'[q] # NoAnswer <=> stage'[q] = "answered"
                      /\ stage'[q] \in {"decoding", "posted"} => IsWhole(q)'
                      /\ alive' \/ stage'[q] \in {"unused", "answered", "dropped"}
    BY DEF CallsAreKnown
  <2>1. CASE q = r
    BY <1>1, <1>2, <1>4, <2>1 DEF Bookkeeping, CallsAreKnown
  <2>2. CASE q # r
    BY <1>1, <1>2, <2>2 DEF Bookkeeping, CallsAreKnown, IsWhole, OnlyReply
  <2> QED BY <2>1, <2>2
<1>6. SuccessIsWhole'
  <2> SUFFICES ASSUME NEW q \in Requests, answer'[q] = "success"
               PROVE  IsWhole(q)' /\ body'[q] <= Cap
    BY DEF SuccessIsWhole, IsWhole
  <2>1. body'[q] <= Cap
    BY CapAssumption DEF OnlyReply
  <2>2. CASE q = r
    <3>1. s = "answered"
      BY <1>1, <1>2, <1>4, <2>2 DEF Bookkeeping, CallsAreKnown
    <3> QED BY <1>2, <2>1, <2>2, <3>1
  <2>3. CASE q # r
    BY <1>2, <2>1, <2>3 DEF Bookkeeping, SuccessIsWhole, IsWhole, OnlyReply
  <2> QED BY <2>2, <2>3
<1>7. DecodedOnce'
  BY <1>1, PoolKept DEF Bookkeeping
<1> QED BY <1>3, <1>5, <1>6, <1>7 DEF Bookkeeping, OnlyReply

\* The reply of r is now p, and n of it has been read.
LEMMA ReplyIs ==
  ASSUME Bookkeeping, NEW r \in Requests, NEW p \in Replies, NEW n \in 0..Cap,
         reply' = [reply EXCEPT ![r] = p],
         body' = [body EXCEPT ![r] = n] \/ (UNCHANGED body /\ n = body[r]),
         n + p.unread = p.arrived, p.arrived <= p.length,
         p.stage = "waiting" => p.arrived = 0
  PROVE  OnlyReply(r) /\ reply'[r] = p /\ body'[r] = n
<1>1. reply \in [Requests -> Replies] /\ body \in [Requests -> 0..Cap]
  BY DEF Bookkeeping, TypeOK
<1>2. /\ reply' \in [Requests -> Replies] /\ body' \in [Requests -> 0..Cap]
      /\ reply'[r] = p /\ body'[r] = n
      /\ \A q \in Requests : q # r => reply'[q] = reply[q] /\ body'[q] = body[q]
  BY <1>1
<1>3. BytesAddUp'
  BY <1>2 DEF Bookkeeping, BytesAddUp
<1> QED BY <1>2, <1>3 DEF OnlyReply

\* Nothing of any reply changes.
LEMMA RepliesStay ==
  ASSUME Bookkeeping, UNCHANGED <<reply, body>>, NEW r \in Requests
  PROVE  OnlyReply(r)
BY DEF Bookkeeping, TypeOK, BytesAddUp, OnlyReply

\* Only the reply of a pending call changes.
LEMMA ReplyKeeps ==
  ASSUME Bookkeeping, NEW r \in Requests, stage[r] = "pending", OnlyReply(r),
         UNCHANGED <<alive, stage, kind, timer, pool, answer>>
  PROVE  Bookkeeping'
<1>1. TypeOK'
  BY DEF Bookkeeping, TypeOK, OnlyReply
<1>2. CallsAreKnown'
  BY DEF Bookkeeping, CallsAreKnown, IsWhole, OnlyReply
<1>3. answer[r] # "success"
  BY DEF Bookkeeping, CallsAreKnown, NoAnswer
<1>4. SuccessIsWhole'
  BY <1>3 DEF Bookkeeping, SuccessIsWhole, OnlyReply
<1>5. DecodedOnce'
  BY PoolKept DEF Bookkeeping
<1> QED BY <1>1, <1>2, <1>4, <1>5 DEF Bookkeeping, OnlyReply

\* complete(): with "success" only if all of the body was read.
LEMMA CompleteKeeps ==
  ASSUME Bookkeeping, NEW r \in Requests, NEW o \in GameOutcomes, Complete(r, o),
         OnlyReply(r), UNCHANGED <<alive, kind>>, o = "success" => IsWhole(r)'
  PROVE  Bookkeeping'
<1>1. stage[r] = "pending" /\ timer' = timer \ {r}
  BY DEF Complete
<1>2. CASE o = "success" /\ kind[r] = "catalog"
  <2>1. /\ stage' = [stage EXCEPT ![r] = "decoding"]
        /\ pool' = Append(pool, r) /\ UNCHANGED answer
    BY <1>2 DEF Complete
  <2>2. DecodedOnce' /\ pool' \in Seq(Requests)
    BY <1>1, <2>1, PoolAppends DEF Bookkeeping
  <2>3. /\ stage'[r] = "decoding" /\ "decoding" \in Stages
        /\ \A q \in Requests : q # r => stage'[q] = stage[q]
    BY <2>1 DEF Bookkeeping, TypeOK, Stages
  <2>4. TypeOK'
    BY <1>1, <2>1, <2>2, <2>3 DEF Bookkeeping, TypeOK, OnlyReply
  <2>5. answer[r] = NoAnswer /\ NoAnswer # "success" /\ alive
    BY <1>1 DEF Bookkeeping, CallsAreKnown, NoAnswer
  <2>6. CallsAreKnown'
    <3> SUFFICES ASSUME NEW q \in Requests
                 PROVE  /\ q \in timer' <=> stage'[q] = "pending"
                        /\ answer'[q] # NoAnswer <=> stage'[q] = "answered"
                        /\ stage'[q] \in {"decoding", "posted"} => IsWhole(q)'
                        /\ alive' \/ stage'[q] \in {"unused", "answered", "dropped"}
      BY DEF CallsAreKnown
    <3>1. CASE q = r
      BY <1>1, <1>2, <2>1, <2>3, <2>5, <3>1
    <3>2. CASE q # r
      BY <1>1, <2>1, <2>3, <3>2 DEF Bookkeeping, CallsAreKnown, IsWhole, OnlyReply
    <3> QED BY <3>1, <3>2
  <2>7. SuccessIsWhole'
    BY <2>1, <2>5 DEF Bookkeeping, SuccessIsWhole, OnlyReply
  <2> QED BY <2>2, <2>4, <2>6, <2>7 DEF Bookkeeping, OnlyReply
<1>3. CASE ~(o = "success" /\ kind[r] = "catalog")
  <2>1. CallBack(r, o) /\ UNCHANGED pool
    BY <1>3 DEF Complete
  <2>2. "answered" \in Stages
    BY DEF Stages
  <2> QED BY <1>1, <2>1, <2>2, MovesKeep DEF CallBack
<1> QED BY <1>2, <1>3

-----------------------------------------------------------------------------
(* The actions                                                             *)

\* issue() and a call that cannot be made.
LEMMA IssueKeeps ==
  ASSUME Bookkeeping, NEW r \in Requests, Send(r) \/ Reject(r) \/ RejectionDelivered(r)
  PROVE  Bookkeeping'
<1>1. {"pending", "rejected", "answered"} \subseteq Stages /\ "invalidRequest" \in GameOutcomes
  BY DEF Stages, GameOutcomes
<1>2. OnlyReply(r)
  BY RepliesStay DEF Send, Reject, RejectionDelivered
<1>3. CASE Send(r)
  BY <1>1, <1>2, <1>3, MovesKeep DEF Send
<1>4. CASE Reject(r)
  <2>1. r \notin timer
    BY <1>4 DEF Reject, Bookkeeping, CallsAreKnown
  <2>2. /\ stage' = [stage EXCEPT ![r] = "rejected"]
        /\ stage[r] # "decoding" /\ stage[r] # "answered"
        /\ alive /\ alive' = alive /\ UNCHANGED <<kind, pool>> /\ UNCHANGED answer
        /\ timer' = timer \ {r}
    BY <1>4, <2>1 DEF Reject
  <2> QED BY <1>1, <1>2, <2>2, MovesKeep
<1>5. CASE RejectionDelivered(r)
  <2>1. r \notin timer
    BY <1>5 DEF RejectionDelivered, Bookkeeping, CallsAreKnown
  <2> QED BY <1>1, <1>2, <1>5, <2>1, MovesKeep DEF RejectionDelivered, CallBack
<1> QED BY <1>3, <1>4, <1>5

\* What is known of the reply of a call.
LEMMA ReplyKnown ==
  ASSUME Bookkeeping, NEW r \in Requests
  PROVE  /\ reply[r] \in Replies /\ body[r] \in 0..Cap
         /\ reply[r].arrived \in 0..MaxBody /\ reply[r].unread \in 0..MaxBody
         /\ reply[r].length \in 0..MaxBody /\ Cap \in Nat /\ MaxBody \in Nat
         /\ body[r] + reply[r].unread = reply[r].arrived
         /\ reply[r].arrived <= reply[r].length
         /\ reply[r].stage = "waiting" => reply[r].arrived = 0
BY CapAssumption, BodyAssumption DEF Bookkeeping, TypeOK, BytesAddUp, Replies

\* metaDataChanged, and bytes that arrive.
LEMMA ArrivalKeeps ==
  ASSUME Bookkeeping, NEW r \in Requests, Headers(r) \/ Arrives(r)
  PROVE  Bookkeeping'
<1>1. CASE Headers(r)
  <2>1. PICK p \in WithHeaders(reply[r]) : reply' = [reply EXCEPT ![r] = p]
    BY <1>1 DEF Headers
  <2>2. /\ reply[r].arrived = 0 /\ stage[r] = "pending" /\ UNCHANGED <<alive, kind, body>>
        /\ p \in Replies /\ p.stage = "headers"
        /\ p.arrived = reply[r].arrived /\ p.unread = reply[r].unread
        /\ p.length \in 0..MaxBody
    BY <1>1, <2>1, ReplyKnown, HeadersFit DEF Headers, Replies
  <2>3. OnlyReply(r)
    <3>1. body[r] + p.unread = p.arrived /\ p.arrived <= p.length /\ p.stage # "waiting"
      BY <2>2, ReplyKnown
    <3> QED BY <2>1, <2>2, <3>1, ReplyKnown, ReplyIs
  <2>4. CASE Complete(r, "oversized")
    <3>1. "oversized" \in GameOutcomes
      BY DEF GameOutcomes
    <3> QED BY <2>2, <2>3, <2>4, <3>1, CompleteKeeps
  <2>5. CASE UNCHANGED <<stage, timer, pool, answer>>
    BY <2>2, <2>3, <2>5, ReplyKeeps
  <2> QED BY <1>1, <2>4, <2>5 DEF Headers
<1>2. CASE Arrives(r)
  <2>1. PICK p \in WithBytes(reply[r]) : reply' = [reply EXCEPT ![r] = p]
    BY <1>2 DEF Arrives
  <2>2. /\ stage[r] = "pending" /\ reply[r].stage = "headers"
        /\ UNCHANGED <<alive, stage, kind, body, timer, pool, answer>>
    BY <1>2 DEF Arrives, HasHeaders
  <2>3. /\ p \in Replies /\ p.stage = reply[r].stage /\ p.length = reply[r].length
        /\ p.arrived \in (reply[r].arrived + 1)..reply[r].length
        /\ p.unread = reply[r].unread + (p.arrived - reply[r].arrived)
    <3>1. reply[r].unread <= reply[r].arrived
      BY ReplyKnown
    <3> QED BY <2>1, <3>1, ReplyKnown, BytesFit
  <2>4. OnlyReply(r)
    <3>1. body[r] + p.unread = p.arrived /\ p.arrived <= p.length
      BY <2>3, ReplyKnown
    <3> QED BY <2>1, <2>2, <2>3, <3>1, ReplyKnown, ReplyIs
  <2> QED BY <2>2, <2>4, ReplyKeeps
<1> QED BY <1>1, <1>2

\* readAvailable() and the deadline.
LEMMA ReadingKeeps ==
  ASSUME Bookkeeping, NEW r \in Requests, ReadyRead(r) \/ TimesOut(r)
  PROVE  Bookkeeping'
<1>1. {"oversized", "transport"} \subseteq GameOutcomes
  BY DEF GameOutcomes
<1>2. CASE TimesOut(r)
  BY <1>1, <1>2, RepliesStay, CompleteKeeps DEF TimesOut
<1>3. CASE ReadyRead(r)
  <2>1. CASE TooLong(r, reply[r])
    BY <1>1, <1>3, <2>1, RepliesStay, CompleteKeeps DEF ReadyRead
  <2>2. CASE ~TooLong(r, reply[r])
    <3> DEFINE p == Drained(reply[r])
               n == body[r] + reply[r].unread
    <3>1. /\ stage[r] = "pending" /\ UNCHANGED <<alive, kind, stage, timer, pool, answer>>
          /\ body' = [body EXCEPT ![r] = n] /\ reply' = [reply EXCEPT ![r] = p]
      BY <1>3, <2>2 DEF ReadyRead
    <3>2. n \in 0..Cap
      BY <2>2, ReplyKnown DEF TooLong
    <3>3. OnlyReply(r)
      <4>1. /\ p \in Replies /\ n + p.unread = p.arrived /\ p.arrived <= p.length
            /\ p.stage = "waiting" => p.arrived = 0
        BY ReplyKnown, DrainedFits
      <4> HIDE DEF p, n
      <4> QED BY <3>1, <3>2, <4>1, ReplyIs
    <3> QED BY <3>1, <3>3, ReplyKeeps
  <2> QED BY <2>1, <2>2
<1> QED BY <1>2, <1>3

\* handleFinished(): a success is that of a reply which arrived to its end
\* without an error, and of which nothing is unread.
LEMMA FinishKeeps ==
  ASSUME Bookkeeping, NEW r \in Requests, Finishes(r)
  PROVE  Bookkeeping'
<1> DEFINE p == Finished(reply[r])
           n == body[r] + p.unread
<1>1. UNCHANGED <<alive, kind>> /\ Finish(r, p)
  BY DEF Finishes
<1>2. /\ p \in Replies /\ p.length = reply[r].length /\ p.arrived = reply[r].arrived
      /\ p.unread = reply[r].unread /\ p.stage = "finished"
      /\ ~p.error => ~(reply[r].arrived < reply[r].length)
  BY ReplyKnown, FinishedFits
<1>3. n = p.arrived /\ p.arrived <= p.length /\ (~p.error => p.arrived = p.length)
  BY <1>2, ReplyKnown
<1>4. CASE DeclaredTooLong(p) \/ TooLong(r, p)
  <2>1. Complete(r, "oversized") /\ reply' = [reply EXCEPT ![r] = p] /\ UNCHANGED body
    BY <1>1, <1>4 DEF Finish
  <2>2. OnlyReply(r)
    <3> HIDE DEF p
    <3> QED BY <1>2, <1>3, <2>1, ReplyKnown, ReplyIs
  <2>3. "oversized" \in GameOutcomes
    BY DEF GameOutcomes
  <2> QED BY <1>1, <2>1, <2>2, <2>3, CompleteKeeps
<1>5. CASE ~(DeclaredTooLong(p) \/ TooLong(r, p))
  <2> DEFINE d == Drained(p)
  <2>1. body' = [body EXCEPT ![r] = n] /\ reply' = [reply EXCEPT ![r] = d]
    BY <1>1, <1>5 DEF Finish
  <2>2. PICK o \in Classified(r, p) : Complete(r, o)
    BY <1>1, <1>5 DEF Finish
  <2>3. n \in 0..Cap
    BY <1>2, <1>3, <1>5, ReplyKnown DEF TooLong
  <2>4. /\ d \in Replies /\ d.unread = 0 /\ d.stage = p.stage /\ d.status = p.status
        /\ d.error = p.error /\ d.length = p.length /\ d.arrived = p.arrived
    BY <1>2, DrainedFits
  <2>5. o \in GameOutcomes /\ (o = "success" => p.status = "ok" /\ ~p.error)
    BY <2>2 DEF Classified, GameOutcomes
  <2>6. OnlyReply(r) /\ reply'[r] = d /\ body'[r] = n
    <3>1. /\ n + d.unread = d.arrived /\ d.arrived <= d.length
          /\ (d.stage = "waiting" => d.arrived = 0)
      BY <1>2, <1>3, <2>3, <2>4
    <3>2. /\ reply' = [reply EXCEPT ![r] = d]
          /\ body' = [body EXCEPT ![r] = n] \/ (UNCHANGED body /\ n = body[r])
      BY <2>1
    <3>3. d \in Replies
      BY <2>4
    <3> HIDE DEF p, n, d
    <3> QED BY ONLY Bookkeeping, r \in Requests, <2>3, <3>1, <3>2, <3>3, ReplyIs
  <2>7. o = "success" => IsWhole(r)'
    <3> HIDE DEF p, n, d
    <3> QED BY <1>3, <2>4, <2>5, <2>6 DEF IsWhole
  <2> QED BY <1>1, <2>2, <2>5, <2>6, <2>7, CompleteKeeps
<1> QED BY <1>4, <1>5

\* The worker decodes a catalog, and its answer is delivered.
LEMMA DecodingKeeps ==
  ASSUME Bookkeeping, Decodes \/ \E r \in Requests : DecodeDelivered(r)
  PROVE  Bookkeeping'
<1>1. CASE Decodes
  <2> DEFINE h == Head(pool)
  <2>1. /\ pool # << >> /\ stage' = [stage EXCEPT ![h] = "posted"] /\ pool' = Tail(pool)
        /\ UNCHANGED <<alive, kind, reply, body, timer, answer>>
    BY <1>1 DEF Decodes
  <2>2. DecodedOnce' /\ pool' \in Seq(Requests) /\ h \in Requests /\ stage[h] = "decoding"
    BY <2>1, PoolAdvances DEF Bookkeeping
  <2>3. /\ stage'[h] = "posted" /\ "posted" \in Stages
        /\ \A q \in Requests : q # h => stage'[q] = stage[q]
    BY <2>1, <2>2 DEF Bookkeeping, TypeOK, Stages
  <2>4. TypeOK'
    BY <2>1, <2>2, <2>3 DEF Bookkeeping, TypeOK
  <2>5. CallsAreKnown'
    <3> SUFFICES ASSUME NEW q \in Requests
                 PROVE  /\ q \in timer' <=> stage'[q] = "pending"
                        /\ answer'[q] # NoAnswer <=> stage'[q] = "answered"
                        /\ stage'[q] \in {"decoding", "posted"} => IsWhole(q)'
                        /\ alive' \/ stage'[q] \in {"unused", "answered", "dropped"}
      BY DEF CallsAreKnown
    <3>1. CASE q = h
      BY <2>1, <2>2, <2>3, <3>1 DEF Bookkeeping, CallsAreKnown, IsWhole
    <3>2. CASE q # h
      BY <2>1, <2>3, <3>2 DEF Bookkeeping, CallsAreKnown, IsWhole
    <3> QED BY <3>1, <3>2
  <2>6. SuccessIsWhole' /\ BytesAddUp'
    BY <2>1 DEF Bookkeeping, SuccessIsWhole, BytesAddUp
  <2> QED BY <2>2, <2>4, <2>5, <2>6 DEF Bookkeeping
<1>2. ASSUME NEW r \in Requests, DecodeDelivered(r) PROVE Bookkeeping'
  <2>1. PICK o \in {"success", "decodeFailed"} : CallBack(r, o)
    BY <1>2 DEF DecodeDelivered
  <2>2. /\ o \in GameOutcomes /\ "answered" \in Stages /\ OnlyReply(r)
        /\ stage[r] = "posted" /\ r \notin timer
        /\ UNCHANGED <<alive, kind, reply, body, timer, pool>>
    BY <1>2, RepliesStay DEF DecodeDelivered, GameOutcomes, Stages, Bookkeeping, CallsAreKnown
  <2>3. IsWhole(r)'
    BY <2>2 DEF Bookkeeping, CallsAreKnown, IsWhole
  <2> QED BY <2>1, <2>2, <2>3, MovesKeep DEF CallBack
<1> QED BY <1>1, <1>2

\* ~GameClient(): no call is left, and no answer changes.
LEMMA DestroyKeeps ==
  ASSUME Bookkeeping, Destroy
  PROVE  Bookkeeping'
<1>1. /\ alive' = FALSE /\ timer' = {} /\ pool' = << >>
      /\ UNCHANGED <<kind, reply, body, answer>>
      /\ stage' = [r \in Requests |->
           IF stage[r] \in {"unused", "answered"} THEN stage[r] ELSE "dropped"]
  BY DEF Destroy
<1>2. \A r \in Requests :
        /\ stage'[r] \in {"unused", "answered", "dropped"}
        /\ stage'[r] = "answered" <=> stage[r] = "answered"
  BY <1>1
<1>3. TypeOK'
  <2>1. << >> \in Seq(Requests) /\ {"unused", "answered", "dropped"} \subseteq Stages
    BY DEF Stages
  <2> QED BY <1>1, <1>2, <2>1 DEF Bookkeeping, TypeOK
<1>4. CallsAreKnown'
  BY <1>1, <1>2 DEF Bookkeeping, CallsAreKnown
<1>5. DecodedOnce'
  BY <1>1, <1>2 DEF DecodedOnce
<1>6. SuccessIsWhole' /\ BytesAddUp'
  BY <1>1 DEF Bookkeeping, SuccessIsWhole, BytesAddUp
<1> QED BY <1>3, <1>4, <1>5, <1>6 DEF Bookkeeping

-----------------------------------------------------------------------------
(* The theorems                                                            *)

\* No call was made yet.
LEMMA InitKnown == Init => Bookkeeping
<1> SUFFICES ASSUME Init PROVE Bookkeeping
  OBVIOUS
<1>1. NewReply \in Replies /\ NewReply.arrived = 0 /\ NewReply.unread = 0 /\ NewReply.length = 0
  BY BodyAssumption DEF NewReply, Replies, NoStatus
<1>2. TypeOK
  BY <1>1, CapAssumption DEF Init, TypeOK, Stages
<1>3. BytesAddUp
  BY <1>1 DEF Init, BytesAddUp
<1>4. CallsAreKnown /\ SuccessIsWhole
  BY DEF Init, CallsAreKnown, SuccessIsWhole, NoAnswer
<1>5. DecodedOnce
  BY DEF Init, DecodedOnce
<1> QED BY <1>2, <1>3, <1>4, <1>5 DEF Bookkeeping

\* Each action keeps the books.
LEMMA NextKeeps == Bookkeeping /\ [Next]_vars => Bookkeeping'
<1> SUFFICES ASSUME Bookkeeping, [Next]_vars PROVE Bookkeeping'
  OBVIOUS
<1>1. ASSUME NEW r \in Requests, Send(r) \/ Reject(r) \/ RejectionDelivered(r) PROVE Bookkeeping'
  BY <1>1, IssueKeeps
<1>2. ASSUME NEW r \in Requests, Headers(r) \/ Arrives(r) PROVE Bookkeeping'
  BY <1>2, ArrivalKeeps
<1>3. ASSUME NEW r \in Requests, ReadyRead(r) \/ TimesOut(r) PROVE Bookkeeping'
  BY <1>3, ReadingKeeps
<1>4. ASSUME NEW r \in Requests, Finishes(r) PROVE Bookkeeping'
  BY <1>4, FinishKeeps
<1>5. ASSUME Decodes \/ \E r \in Requests : DecodeDelivered(r) PROVE Bookkeeping'
  BY <1>5, DecodingKeeps
<1>6. CASE Destroy
  BY <1>6, DestroyKeeps
<1>7. CASE UNCHANGED vars
  BY <1>7 DEF vars, Bookkeeping, TypeOK, SuccessIsWhole, BytesAddUp, CallsAreKnown, IsWhole,
              DecodedOnce
<1> QED BY <1>1, <1>2, <1>3, <1>4, <1>5, <1>6, <1>7 DEF Next

\* The inductive invariant: the bytes of each body add up, each call has its
\* deadline, answer or place in the pool, and none outlives the client.
THEOREM ClientInvariant == Spec => []Bookkeeping
BY InitKnown, NextKeeps, PTL DEF Spec

\* No list, game or catalog comes of a body that was not received whole and
\* without an error, or that is longer than the cap, whatever the order of
\* headers, bytes, the end, the deadline and the decoder.
THEOREM WholeSuccess == Spec => []SuccessIsWhole
<1>1. Bookkeeping => SuccessIsWhole
  BY DEF Bookkeeping
<1> QED BY ClientInvariant, <1>1, PTL

\* What a step may do to a call: nothing that its caller could see, or issue
\* it, answer it, or drop it with the client.
CallMoves(r) ==
  \/ /\ stage'[r] = stage[r] \/ (stage[r] = "pending" /\ stage'[r] = "decoding")
                             \/ (stage[r] = "decoding" /\ stage'[r] = "posted")
     /\ answer'[r] = answer[r]
  \/ /\ stage[r] = "unused" /\ stage'[r] \in {"pending", "rejected"}
     /\ answer'[r] = answer[r]
  \/ /\ stage[r] \in {"pending", "rejected", "posted"} /\ stage'[r] = "answered"
     /\ answer'[r] \in GameOutcomes
  \/ /\ stage[r] \in {"pending", "rejected", "decoding", "posted"} /\ stage'[r] = "dropped"
     /\ answer'[r] = answer[r]

\* complete() for the call q.
LEMMA CompleteMoves ==
  ASSUME Bookkeeping, NEW q \in Requests, NEW o \in GameOutcomes, Complete(q, o)
  PROVE  \A r \in Requests : CallMoves(r)
BY DEF Bookkeeping, TypeOK, Complete, CallBack, CallMoves

\* Every step moves each call so.
LEMMA CallsMove ==
  ASSUME Bookkeeping, [Next]_vars
  PROVE  \A r \in Requests : CallMoves(r)
<1>1. {"oversized", "transport", "invalidRequest", "success", "decodeFailed"} \subseteq GameOutcomes
  BY DEF GameOutcomes
<1>2. ASSUME UNCHANGED <<stage, answer>> PROVE \A r \in Requests : CallMoves(r)
  BY <1>2 DEF CallMoves
<1>3. ASSUME NEW q \in Requests, Send(q) \/ Reject(q) \/ RejectionDelivered(q)
      PROVE  \A r \in Requests : CallMoves(r)
  BY <1>1, <1>3 DEF Bookkeeping, TypeOK, Send, Reject, RejectionDelivered, CallBack, CallMoves
<1>4. ASSUME NEW q \in Requests, Headers(q) \/ Arrives(q) \/ ReadyRead(q) \/ TimesOut(q)
      PROVE  \A r \in Requests : CallMoves(r)
  BY <1>1, <1>2, <1>4, CompleteMoves DEF Headers, Arrives, ReadyRead, TimesOut
<1>5. ASSUME NEW q \in Requests, Finishes(q) PROVE \A r \in Requests : CallMoves(r)
  <2> DEFINE p == Finished(reply[q])
  <2>1. PICK o \in {"oversized"} \cup Classified(q, p) : Complete(q, o)
    BY <1>5 DEF Finishes, Finish
  <2>2. o \in GameOutcomes
    BY <1>1, <2>1 DEF Classified, GameOutcomes
  <2> QED BY <2>1, <2>2, CompleteMoves
<1>6. CASE Decodes
  <2>1. Head(pool) \in Requests /\ stage[Head(pool)] = "decoding"
    <3>1. pool # << >> /\ stage' = [stage EXCEPT ![Head(pool)] = "posted"] /\ pool' = Tail(pool)
      BY <1>6 DEF Decodes
    <3> QED BY <3>1, PoolAdvances DEF Bookkeeping
  <2> QED BY <1>6, <2>1 DEF Bookkeeping, TypeOK, Decodes, CallMoves
<1>7. ASSUME NEW q \in Requests, DecodeDelivered(q) PROVE \A r \in Requests : CallMoves(r)
  <2>1. PICK o \in {"success", "decodeFailed"} : CallBack(q, o)
    BY <1>7 DEF DecodeDelivered
  <2> QED BY <1>1, <1>7, <2>1 DEF Bookkeeping, TypeOK, DecodeDelivered, CallBack, CallMoves
<1>8. CASE Destroy
  BY <1>8 DEF Bookkeeping, TypeOK, Stages, Destroy, CallMoves
<1>9. CASE UNCHANGED vars
  BY <1>2, <1>9 DEF vars
<1> QED BY <1>3, <1>4, <1>5, <1>6, <1>7, <1>8, <1>9 DEF Next

\* The client implements a call that is answered at most once: its callback
\* runs after the call returned, with one outcome, not again and not once the
\* client is gone.
THEOREM AtMostOneAnswer == Spec => Client!Spec
<1>1. Init => Client!Init
  BY DEF Init, Client!Init
<1>2. Bookkeeping /\ Bookkeeping' /\ [Next]_vars => [Client!Next]_(Client!vars)
  <2> SUFFICES ASSUME Bookkeeping, Bookkeeping', [Next]_vars PROVE Client!Next
    BY DEF Client!vars
  <2>1. \A r \in Requests : CallMoves(r)
    BY CallsMove
  <2>2. /\ stage \in [Requests -> Stages] /\ stage' \in [Requests -> Stages]
        /\ answer' \in [Requests -> GameOutcomes \cup {NoAnswer}]
    BY DEF Bookkeeping, TypeOK
  <2> QED BY <2>1, <2>2 DEF CallMoves, Stages, Client!Next, Client!Keep, Client!Issue,
                           Client!Answer, Client!Withdraw
<1> QED BY ClientInvariant, <1>1, <1>2, PTL DEF Spec, Client!Spec
=============================================================================
