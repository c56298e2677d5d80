------------------------- MODULE AssetDownloadsProofs -------------------------
(***************************************************************************)
(* The downloads of assets on their way and at home.  For any sites,       *)
(* fetches and number of redirects: no hop goes where it must not, none is *)
(* made after the deadline, and a fetch gives one result.  For any URLs,   *)
(* sizes and payloads: AssetCache never mixes two payloads of a URL,       *)
(* however files fail or the table of digests is lost, and the bytes that  *)
(* it counts are those of the files it knows.                              *)
(***************************************************************************)
EXTENDS AssetFetcher, AssetCache, PicksProofs, WellFoundedInduction

-----------------------------------------------------------------------------
(* Fetches and their hops                                                  *)

\* What a step may do to a fetch: nothing that its caller could see, or begin
\* it if its URL is allowed, post its result, give that, or withdraw it.
Steps ==
  /\ stage' \in [Requests -> Stages]
  /\ result' \in [Requests -> FetchOutcomes \cup {NoResult}]
  /\ \A r \in Requests :
       \/ stage'[r] = stage[r] /\ result'[r] = result[r]
       \/ /\ stage[r] = "unused" /\ stage'[r] = "pending" /\ result'[r] = result[r]
          /\ FetchAllowed(original[r])
       \/ stage[r] \in {"unused", "pending"} /\ stage'[r] = "posted" /\ result'[r] # NoResult
       \/ stage[r] = "posted" /\ stage'[r] = "answered" /\ result'[r] = result[r]
       \/ stage[r] \in {"pending", "posted"} /\ stage'[r] = "withdrawn" /\ result'[r] = result[r]

\* All fetches stay where they are.
Stays == UNCHANGED <<original, site, hops>>

\* What a fetch ends with is told apart from no result yet.
LEMMA OutcomeIsResult == NoResult \notin FetchOutcomes
BY DEF NoResult, FetchOutcomes

\* deliver() for a fetch that has not got a result.
LEMMA DeliverSteps ==
  ASSUME HopsAreKnown, NEW r \in Requests, stage[r] \in {"unused", "pending"},
         NEW o \in FetchOutcomes, Deliver(r, o)
  PROVE  Steps
<1>1. o # NoResult /\ o \in FetchOutcomes \cup {NoResult} /\ "posted" \in Stages
  BY OutcomeIsResult DEF Stages
<1>2. stage \in [Requests -> Stages] /\ result \in [Requests -> FetchOutcomes \cup {NoResult}]
  BY DEF HopsAreKnown
<1>3. stage' = [stage EXCEPT ![r] = "posted"] /\ result' = [result EXCEPT ![r] = o]
  BY DEF Deliver
<1> QED BY <1>1, <1>2, <1>3 DEF Steps

\* A step that neither moves a fetch on nor gives it a result.
LEMMA KeepSteps == ASSUME HopsAreKnown, UNCHANGED <<stage, result>> PROVE Steps
BY DEF HopsAreKnown, Steps

\* A redirect that is followed.
Follows(r, to) ==
  /\ stage[r] = "pending" /\ r \notin late
  /\ FetchAllowed(to) /\ RedirectAllowed(original[r], site[r], to)
  /\ site' = [site EXCEPT ![r] = to] /\ hops' = [hops EXCEPT ![r] = @ + 1]
  /\ UNCHANGED <<stage, result, original, late>>

\* The end of a reply: a result, or another hop.
LEMMA FinishesFollows ==
  ASSUME HopsAreKnown, NEW r \in Requests, Finishes(r)
  PROVE  Steps /\ (Stays \/ \E to \in Sites : Follows(r, to))
<1> DEFINE p == Finished(reply[r])
<1>1. stage[r] = "pending" /\ UNCHANGED original
  BY DEF Finishes
<1>2. ASSUME NEW o \in FetchOutcomes, Deliver(r, o), UNCHANGED <<site, hops>>
      PROVE  Steps /\ Stays
  BY <1>1, <1>2, DeliverSteps DEF Stays
<1>3. {"missingLocation", "tooManyRedirects", "redirectRejected", "tooLarge", "timeout",
       "network"} \subseteq FetchOutcomes
  BY DEF FetchOutcomes
<1>4. CASE TooLarge(r, p)
  <2>1. Deliver(r, "tooLarge") /\ UNCHANGED <<site, hops>>
    BY <1>4 DEF Finishes
  <2> QED BY <1>2, <1>3, <2>1
<1>5. CASE ~TooLarge(r, p) /\ p.status = "redirect"
  <2>1. Redirected(r)
    BY <1>5 DEF Finishes
  <2>2. ASSUME NEW o \in {"missingLocation", "tooManyRedirects", "redirectRejected"},
               Deliver(r, o), UNCHANGED <<site, hops>>
        PROVE  Steps /\ Stays
    BY <1>2, <1>3, <2>2
  <2>3. ASSUME NEW to \in Sites, FetchAllowed(to), RedirectAllowed(original[r], site[r], to),
               Restart(r, to)
        PROVE  Steps /\ (Stays \/ Follows(r, to))
    <3>1. CASE r \in late \/ ~manager
      <4>1. PICK o \in {"timeout", "network"} : Deliver(r, o)
        BY <2>3, <3>1 DEF Restart
      <4>2. UNCHANGED <<site, hops>>
        BY <2>3, <3>1 DEF Restart
      <4> QED BY <1>2, <1>3, <4>1, <4>2
    <3>2. CASE ~(r \in late \/ ~manager)
      <4>1. Follows(r, to)
        BY <1>1, <2>3, <3>2 DEF Restart, Follows
      <4> QED BY <4>1, KeepSteps DEF Follows
    <3> QED BY <3>1, <3>2
  <2>4. CASE hops[r] >= MaxRedirects
    BY <2>1, <2>2, <2>4 DEF Redirected
  <2>5. CASE ~(hops[r] >= MaxRedirects)
    BY <2>1, <2>2, <2>3, <2>5 DEF Redirected
  <2> QED BY <2>4, <2>5
<1>6. CASE ~TooLarge(r, p) /\ p.status # "redirect"
  <2>1. PICK o \in Classified(p) : Deliver(r, o)
    BY <1>6 DEF Finishes
  <2>2. UNCHANGED <<site, hops>>
    BY <1>6 DEF Finishes
  <2>3. o \in FetchOutcomes
    BY <2>1 DEF Classified, FetchOutcomes
  <2> QED BY <1>2, <2>1, <2>2, <2>3
<1> QED BY <1>4, <1>5, <1>6

\* Every step is one of these.
LEMMA NextSteps ==
  ASSUME HopsAreKnown, [Next]_vars
  PROVE  /\ Steps
         /\ Stays \/ \E r \in Requests, to \in Sites : Follows(r, to)
<1>1. {"invalidUrl", "network", "timeout", "tooLarge"} \subseteq FetchOutcomes
  BY DEF FetchOutcomes
<1>2. ASSUME NEW r \in Requests, Fetch(r) PROVE Steps /\ Stays
  <2>1. CASE stage' = [stage EXCEPT ![r] = "pending"] /\ UNCHANGED result
    <3>1. stage[r] = "unused" /\ FetchAllowed(original[r]) /\ Stays
      BY <1>2, <2>1 DEF Fetch, HopsAreKnown, Deliver, Stays
    <3>2. "pending" \in Stages
      BY DEF Stages
    <3> QED BY <2>1, <3>1, <3>2 DEF HopsAreKnown, Steps
  <2>2. CASE Deliver(r, "network") \/ Deliver(r, "invalidUrl")
    BY <1>1, <1>2, <2>2, DeliverSteps DEF Fetch, Stays
  <2> QED BY <1>2, <2>1, <2>2 DEF Fetch
<1>3. ASSUME NEW r \in Requests, Cancel(r) \/ Delivered(r) PROVE Steps /\ Stays
  BY <1>3 DEF Cancel, Delivered, HopsAreKnown, Steps, Stays, Stages
<1>4. ASSUME NEW r \in Requests, Headers(r) \/ ReadyRead(r) PROVE Steps /\ Stays
  <2>1. stage[r] = "pending" /\ (Deliver(r, "tooLarge") \/ UNCHANGED <<stage, result>>)
    BY <1>4 DEF Headers, ReadyRead
  <2> QED BY <1>1, <1>4, <2>1, DeliverSteps, KeepSteps DEF Headers, ReadyRead, Stays
<1>5. ASSUME NEW r \in Requests, Arrives(r) \/ DeadlinePasses(r) PROVE Steps /\ Stays
  BY <1>5, KeepSteps DEF Arrives, DeadlinePasses, Stays
<1>6. ASSUME NEW r \in Requests, TimerFires(r) \/ ReplyDestroyed(r) PROVE Steps /\ Stays
  BY <1>1, <1>6, DeliverSteps DEF TimerFires, ReplyDestroyed, Stays
<1>7. CASE ManagerDestroyed
  BY <1>1, <1>7, OutcomeIsResult DEF ManagerDestroyed, HopsAreKnown, Steps, Stays, Stages
<1>8. CASE Destroy
  BY <1>8 DEF Destroy, HopsAreKnown, Steps, Stays, Stages
<1>9. CASE UNCHANGED vars
  BY <1>9, KeepSteps DEF vars, Stays
<1> QED BY <1>2, <1>3, <1>4, <1>5, <1>6, <1>7, <1>8, <1>9, FinishesFollows DEF Next

-----------------------------------------------------------------------------
(* The theorems on fetches                                                 *)

\* Before the first fetch there is nothing to know.
LEMMA InitKnown == Init => HopsAreKnown
BY DEF Init, HopsAreKnown, NoHopIsExposed, Stages

\* The inductive invariant: a fetch begins at its own, allowed URL, stays on
\* allowed ones while it is pending, and has a result once that is posted.
THEOREM HopsInvariant == Spec => []HopsAreKnown
<1>1. HopsAreKnown /\ [Next]_vars => HopsAreKnown'
  <2> SUFFICES ASSUME HopsAreKnown, [Next]_vars PROVE HopsAreKnown'
    OBVIOUS
  <2>1. Steps /\ (Stays \/ \E r \in Requests, to \in Sites : Follows(r, to))
    BY NextSteps
  <2>2. CASE Stays
    <3>1. NoHopIsExposed'
      BY <2>1, <2>2 DEF Steps, Stays, HopsAreKnown, NoHopIsExposed, FetchAllowed
    <3> QED BY <2>1, <2>2, <3>1 DEF Steps, Stays, HopsAreKnown
  <2>3. ASSUME NEW r \in Requests, NEW to \in Sites, Follows(r, to)
        PROVE  HopsAreKnown'
    <3>1. NoHopIsExposed'
      BY <2>3 DEF Follows, HopsAreKnown, NoHopIsExposed, FetchAllowed, RedirectAllowed
    <3> QED BY <2>3, <3>1 DEF Follows, HopsAreKnown
  <2> QED BY <2>1, <2>2, <2>3
<1> QED BY InitKnown, <1>1, PTL DEF Spec

\* No hop is cleartext to another host than the user's own, and none leads
\* from elsewhere to the user's own host in cleartext, after any redirects.
THEOREM HopsAreSafe == Spec => []NoHopIsExposed
<1>1. HopsAreKnown => NoHopIsExposed
  BY DEF HopsAreKnown
<1> QED BY HopsInvariant, <1>1, PTL

\* One deadline for all hops: none is made once it has passed.
THEOREM NoLateHop == Spec => NoHopAfterDeadline
<1>1. HopsAreKnown /\ [Next]_vars
        => [\A r \in Requests : r \in late => hops'[r] = hops[r]]_vars
  <2> SUFFICES ASSUME HopsAreKnown, [Next]_vars, NEW r \in Requests, r \in late
               PROVE  hops'[r] = hops[r]
    OBVIOUS
  <2>1. CASE Stays
    BY <2>1 DEF Stays
  <2>2. ASSUME NEW q \in Requests, NEW to \in Sites, Follows(q, to)
        PROVE  hops'[r] = hops[r]
    BY <2>2 DEF Follows, HopsAreKnown
  <2> QED BY <2>1, <2>2, NextSteps
<1> QED BY HopsInvariant, <1>1, PTL DEF Spec, NoHopAfterDeadline

\* The fetcher implements a call that is answered at most once: its callback
\* runs with one result, after the fetch began and not after it was withdrawn.
THEOREM AtMostOneResult == Spec => Fetcher!Spec
<1>1. Init => Fetcher!Init
  BY DEF Init, Fetcher!Init
<1>2. HopsAreKnown /\ [Next]_vars => [Fetcher!Next]_(Fetcher!vars)
  <2> SUFFICES ASSUME HopsAreKnown, [Next]_vars PROVE Fetcher!Next
    BY DEF Fetcher!vars
  <2>1. Steps /\ stage \in [Requests -> Stages]
    BY NextSteps DEF HopsAreKnown
  <2> QED BY <2>1 DEF Steps, Stages, HopsAreKnown, Fetcher!Next, Fetcher!Keep, Fetcher!Issue,
                      Fetcher!Answer, Fetcher!Withdraw
<1> QED BY HopsInvariant, <1>1, <1>2, PTL DEF Spec, Fetcher!Spec

-----------------------------------------------------------------------------
(* The cache                                                               *)

\* The inductive invariant: and a disk that is not used has no index.
OfOnePayload == OneVersion /\ (~enabled => DOMAIN index = {})

-----------------------------------------------------------------------------
(* What the operators on memory and disk leave                             *)

\* What a map holds once a value was put into it.
LEMMA WithValues ==
  ASSUME NEW f, NEW x, NEW y
  PROVE  /\ DOMAIN With(f, x, y) = DOMAIN f \cup {x}
         /\ With(f, x, y)[x] = y
         /\ \A z \in DOMAIN f : z # x => With(f, x, y)[z] = f[z]
BY DEF With

\* What a map holds once keys were taken from it.
LEMMA WithoutValues ==
  ASSUME NEW f, NEW S
  PROVE  /\ DOMAIN Without(f, S) = DOMAIN f \ S
         /\ \A z \in DOMAIN f \ S : Without(f, S)[z] = f[z]
BY DEF Without, Restrict

\* An image that is added is of its payload; the others are as before.
LEMMA PromotedImages ==
  ASSUME NEW m, NEW u, NEW c, NEW p, NEW n \in Promoted(m, u, c, p),
         NEW v, NEW q, ImageIs(n, v, q)
  PROVE  ImageIs(m, v, q) \/ (v = u /\ q = p)
<1>1. CASE n = m
  BY <1>1
<1>2. CASE \E K \in SUBSET DOMAIN m :
             n = Restrict(With(m, <<u, c>>, p), K \cup {<<u, c>>})
  <2>1. PICK K \in SUBSET DOMAIN m : n = Restrict(With(m, <<u, c>>, p), K \cup {<<u, c>>})
    BY <1>2
  <2>2. PICK e \in CellSizes : <<v, e>> \in DOMAIN n /\ n[<<v, e>>] = q
    BY DEF ImageIs
  <2>3. <<v, e>> \in K \cup {<<u, c>>} /\ With(m, <<u, c>>, p)[<<v, e>>] = q
    BY <2>1, <2>2 DEF Restrict
  <2> DEFINE w == With(m, <<u, c>>, p)
  <2>w. /\ w[<<u, c>>] = p
        /\ \A z \in DOMAIN m : z # <<u, c>> => w[z] = m[z]
    BY DEF With
  <2>4. CASE <<v, e>> = <<u, c>>
    <3>1. v = u
      BY <2>4
    <3>2. q = p
      BY <2>3, <2>4, <2>w
    <3> QED BY <3>1, <3>2
  <2>5. CASE <<v, e>> # <<u, c>>
    <3>1. <<v, e>> \in DOMAIN m
      BY <2>3, <2>5
    <3>2. m[<<v, e>>] = q
      BY <2>3, <2>5, <2>w, <3>1
    <3> QED BY <3>1, <3>2 DEF ImageIs
  <2> QED BY <2>4, <2>5
<1> QED BY <1>1, <1>2 DEF Promoted

\* A removal leaves the other files as they are, and its own in no index.
LEMMA RemovedFiles ==
  ASSUME NEW d, NEW S, NEW e \in Removals(d, S), NEW v, NEW q, FileIs(e, v, q)
  PROVE  FileIs(d, v, q) /\ v \notin S
<1>1. PICK gone \in SUBSET S : e = Forgotten(d, S, gone)
  BY DEF Removals
<1>2. e.index = Without(d.index, S) /\ e.files = Without(d.files, gone)
  BY <1>1 DEF Forgotten
<1>3. v \in DOMAIN e.index /\ v \in DOMAIN e.files /\ e.files[v].payload = q
  BY DEF FileIs
<1>4. v \in DOMAIN d.index \ S /\ v \in DOMAIN d.files \ gone
  BY <1>2, <1>3, WithoutValues
<1>5. e.files[v] = d.files[v]
  BY <1>2, <1>4 DEF Without, Restrict
<1> QED BY <1>3, <1>4, <1>5 DEF FileIs

-----------------------------------------------------------------------------
(* The actions                                                             *)

\* A step after which no URL keeps a payload that it did not keep mixes none.
LEMMA NothingNew ==
  ASSUME OneVersion, \A u \in Assets, p \in Payloads : Keeps(u, p)' => Keeps(u, p)
  PROVE  OneVersion'
BY DEF OneVersion

\* The files after a step are those of the disk it came to.
LEMMA DiskAfter ==
  ASSUME NEW d, DiskBecomes(d)
  PROVE  \A u, p : FileIs(Disk, u, p)' <=> FileIs(d, u, p)
BY DEF DiskBecomes, Disk, FileIs

\* An image found in memory changes the order of use at most.
LEMMA MemoryHitKeeps ==
  ASSUME NEW u \in Assets, NEW c \in CellSizes, OfOnePayload, MemoryHit(u, c)
  PROVE  OfOnePayload'
<1>1. \A v, p : FileIs(Disk, v, p)' => FileIs(Disk, v, p)
  <2>1. DiskBecomes(Touched(Disk, u))
    BY DEF MemoryHit
  <2>2. \A v, p : FileIs(Touched(Disk, u), v, p) => FileIs(Disk, v, p)
    BY DEF Touched, FileIs
  <2> QED BY <2>1, <2>2, DiskAfter
<1>2. memory' = memory /\ digests' = digests /\ enabled' = enabled /\ index' = index
  BY DEF MemoryHit, DiskBecomes, Touched, Disk
<1>3. OneVersion'
  BY <1>1, <1>2, NothingNew DEF OfOnePayload, Keeps
<1> QED BY <1>2, <1>3 DEF OfOnePayload

\* An image decoded from a file is of the payload that the URL keeps.
LEMMA DiskHitKeeps ==
  ASSUME NEW u \in Assets, NEW c \in CellSizes, OfOnePayload, DiskHit(u, c)
  PROVE  OfOnePayload'
<1> DEFINE p == files[u].payload
<1>1. p \in Payloads /\ FileIs(Disk, u, p) /\ enabled
  BY DEF DiskHit, OnDiskOnly, IsWhole, FileIs, Disk
<1>2. \A v, q : FileIs(Disk, v, q)' => FileIs(Disk, v, q)
  <2> DEFINE d == Touched(WithFile(Disk, u, p), u)
  <2>1. DiskBecomes(d)
    BY DEF DiskHit
  <2>2. /\ d.files = With(files, u, FileOf(p))
        /\ d.index = With(index, u, FileSize[p])
    BY DEF Touched, WithFile, Disk
  <2>3. \A v, q : FileIs(d, v, q) => FileIs(Disk, v, q)
    BY <1>1, <2>2 DEF FileIs, With, FileOf, Disk
  <2> HIDE DEF d
  <2> QED BY <2>1, <2>3, DiskAfter
<1>3. \A v, q : ImageIs(memory', v, q) => ImageIs(memory, v, q) \/ (v = u /\ q = p)
  <2>1. memory' \in Promoted(memory, u, c, p)
    BY DEF DiskHit
  <2> QED BY <2>1, PromotedImages
<1>4. digests' = digests /\ enabled' = enabled
  BY DEF DiskHit
<1>5. ASSUME NEW v \in Assets, NEW q \in Payloads, Keeps(v, q)'
      PROVE  Keeps(v, q)
  BY <1>1, <1>2, <1>3, <1>4, <1>5 DEF Keeps
<1>6. OneVersion'
  BY <1>5, NothingNew DEF OfOnePayload
<1> QED BY <1>1, <1>4, <1>6 DEF OfOnePayload

\* A file that cannot be read is removed, or stays damaged.
LEMMA DiskMissKeeps ==
  ASSUME NEW u \in Assets, NEW c \in CellSizes, OfOnePayload, DiskMiss(u, c)
  PROVE  OfOnePayload'
<1>1. PICK d \in Removals(Disk, {u}) : DiskBecomes(d)
  BY DEF DiskMiss
<1>2. \A v, p : FileIs(Disk, v, p)' => FileIs(Disk, v, p)
  BY <1>1, RemovedFiles, DiskAfter
<1>3. memory' = memory /\ digests' = digests /\ enabled' = enabled /\ enabled
  BY DEF DiskMiss, OnDiskOnly
<1>4. OneVersion'
  BY <1>2, <1>3, NothingNew DEF OfOnePayload, Keeps
<1> QED BY <1>3, <1>4 DEF OfOnePayload

\* What the disk holds of a URL after it was stored is what was stored.
LEMMA StoredFiles ==
  ASSUME NEW u \in Assets, NEW p \in Payloads, StoreWrites(u, p) \/ StoreFails(u, p),
         NEW v \in Assets, NEW q \in Payloads, FileIs(Disk, v, q)'
  PROVE  IF v = u THEN q = p ELSE FileIs(Disk, v, q)
<1>1. CASE StoreWrites(u, p)
  <2> DEFINE w == Touched(WithFile(Disk, u, p), u)
  <2>1. PICK d \in Removals(w, Victims(w)) : DiskBecomes(d)
    BY <1>1 DEF StoreWrites, Evictions
  <2>2. FileIs(w, v, q)
    BY <2>1, RemovedFiles, DiskAfter
  <2>3. /\ w.files = With(files, u, FileOf(p))
        /\ w.index = With(index, u, FileSize[p])
    BY DEF Touched, WithFile, Disk
  <2> QED BY <2>2, <2>3 DEF FileIs, With, FileOf, Disk
<1>2. CASE StoreFails(u, p)
  <2>1. PICK F \in {files, With(files, u, EmptyFile)} :
          \E d \in Removals([Disk EXCEPT !.files = F], {u}) : DiskBecomes(d)
    BY <1>2 DEF StoreFails
  <2> DEFINE w == [Disk EXCEPT !.files = F]
  <2>2. PICK d \in Removals(w, {u}) : DiskBecomes(d)
    BY <2>1
  <2>3. FileIs(w, v, q) /\ v # u
    BY <2>2, RemovedFiles, DiskAfter
  <2>4. w.files = F /\ w.index = index
    BY DEF Disk
  <2> QED BY <2>1, <2>3, <2>4 DEF FileIs, With, Disk
<1> QED BY <1>1, <1>2

\* What is stored first drives out the images and the file of another payload.
LEMMA StoreKeeps ==
  ASSUME NEW u \in Assets, NEW p \in Payloads, NEW c \in CellSizes,
         OfOnePayload, Store(u, p, c)
  PROVE  OfOnePayload'
<1>1. ASSUME NEW v \in Assets, NEW q \in Payloads, ImageIs(memory', v, q)
      PROVE  IF v = u THEN q = p ELSE Keeps(v, q)
  <2> DEFINE m == IF Replaces(u, p) THEN Without(memory, {u} \X CellSizes) ELSE memory
  <2>1. memory' \in Promoted(m, u, c, p)
    BY DEF Store, StoreInMemory
  <2>2. ImageIs(m, v, q) \/ (v = u /\ q = p)
    BY <1>1, <2>1, PromotedImages
  <2>3. CASE Replaces(u, p)
    <3>1. m = Without(memory, {u} \X CellSizes)
      BY <2>3
    <3>2. ImageIs(m, v, q) => v # u /\ ImageIs(memory, v, q)
      BY <3>1 DEF ImageIs, Without, Restrict
    <3> QED BY <2>2, <3>2 DEF Keeps
  <2>4. CASE ~Replaces(u, p)
    <3>1. Keeps(u, p) /\ m = memory
      BY <2>4 DEF Replaces, Keeps, DigestIs
    <3>2. v = u /\ ImageIs(memory, v, q) => q = p
      BY <3>1 DEF OfOnePayload, OneVersion, Keeps
    <3> QED BY <2>2, <3>1, <3>2 DEF Keeps
  <2> QED BY <2>3, <2>4
<1>2. ASSUME NEW v \in Assets, NEW q \in Payloads, DigestIs(digests', v, q)
      PROVE  IF v = u THEN q = p ELSE Keeps(v, q)
  <2>1. \/ digests' = With(<< >>, u, p)
        \/ digests' = With(digests, u, p)
    BY DEF Store, StoreInMemory
  <2> QED BY <1>2, <2>1 DEF DigestIs, With, Keeps
<1>3. ASSUME NEW v \in Assets, NEW q \in Payloads, FileIs(Disk, v, q)'
      PROVE  IF v = u THEN q = p ELSE Keeps(v, q)
  <2>1. CASE enabled
    BY <1>3, <2>1, StoredFiles DEF Store, Keeps
  <2>2. CASE ~enabled
    BY <1>3, <2>2 DEF Store, diskVars, FileIs, Disk, OfOnePayload
  <2> QED BY <2>1, <2>2
<1>4. OneVersion'
  BY <1>1, <1>2, <1>3 DEF OfOnePayload, OneVersion, Keeps
<1>5. enabled' = enabled /\ (~enabled => index' = index)
  BY DEF Store, diskVars
<1> QED BY <1>4, <1>5 DEF OfOnePayload

\* An image that is kept in memory only is of the payload stored just now.
LEMMA StoreMemoryOnlyKeeps ==
  ASSUME NEW u \in Assets, NEW p \in Payloads, NEW c \in CellSizes,
         OfOnePayload, StoreMemoryOnly(u, p, c)
  PROVE  OfOnePayload'
<1>1. Keeps(u, p)
  BY DEF StoreMemoryOnly, Keeps, DigestIs
<1>2. \A v, q : ImageIs(memory', v, q) => ImageIs(memory, v, q) \/ (v = u /\ q = p)
  <2>1. memory' \in Promoted(memory, u, c, p)
    BY DEF StoreMemoryOnly
  <2> QED BY <2>1, PromotedImages
<1>3. digests' = digests /\ enabled' = enabled /\ index' = index /\ Disk' = Disk
  BY DEF StoreMemoryOnly, diskVars, Disk
<1>4. ASSUME NEW v \in Assets, NEW q \in Payloads, Keeps(v, q)'
      PROVE  Keeps(v, q)
  BY <1>1, <1>2, <1>3, <1>4 DEF Keeps
<1>5. OneVersion'
  BY <1>4, NothingNew DEF OfOnePayload
<1> QED BY <1>3, <1>5 DEF OfOnePayload

\* Clearing the memory forgets images and digests together.
LEMMA ClearMemoryKeeps ==
  ASSUME OfOnePayload, ClearMemory
  PROVE  OfOnePayload'
<1>1. memory' = << >> /\ digests' = << >> /\ enabled' = enabled /\ index' = index /\ Disk' = Disk
  BY DEF ClearMemory, diskVars, Disk
<1>2. ASSUME NEW v \in Assets, NEW q \in Payloads, Keeps(v, q)'
      PROVE  Keeps(v, q)
  BY <1>1, <1>2 DEF Keeps, ImageIs, DigestIs
<1>3. OneVersion'
  BY <1>2, NothingNew DEF OfOnePayload
<1> QED BY <1>1, <1>3 DEF OfOnePayload

\* With no memory, there is one file of a URL at most.
LEMMA RestartKeeps ==
  ASSUME RestartCache
  PROVE  OfOnePayload'
<1>1. memory' = << >> /\ digests' = << >>
  BY DEF RestartCache
<1>2. OneVersion'
  BY <1>1 DEF OneVersion, Keeps, ImageIs, DigestIs, FileIs
<1>3. ~enabled' => index' = << >>
  BY DEF RestartCache, DiskBecomes
<1> QED BY <1>2, <1>3 DEF OfOnePayload

\* A damaged file is of no payload.
LEMMA DamageKeeps ==
  ASSUME NEW u \in Assets, OfOnePayload, Damage(u)
  PROVE  OfOnePayload'
<1>1. memory' = memory /\ digests' = digests /\ enabled' = enabled /\ index' = index
  BY DEF Damage
<1>2. ASSUME NEW v \in Assets, NEW q \in Payloads, FileIs(Disk, v, q)'
      PROVE  FileIs(Disk, v, q)
  <2>1. q # Damaged
    BY PayloadAssumption
  <2>2. \/ files' = Without(files, {u})
        \/ files' = With(files, u, EmptyFile)
        \/ files' = With(files, u, [payload |-> Damaged, size |-> files[u].size])
    BY DEF Damage
  <2> QED BY <1>1, <1>2, <2>1, <2>2 DEF FileIs, Disk, Without, Restrict, With, EmptyFile
<1>3. ASSUME NEW v \in Assets, NEW q \in Payloads, Keeps(v, q)'
      PROVE  Keeps(v, q)
  BY <1>1, <1>2, <1>3 DEF Keeps
<1>4. OneVersion'
  BY <1>3, NothingNew DEF OfOnePayload
<1> QED BY <1>1, <1>4 DEF OfOnePayload

\* A cache that starts keeps nothing in memory and knows no digest.
LEMMA InitIsOfOnePayload == InitCache => OfOnePayload
BY DEF InitCache, OfOnePayload, OneVersion, Keeps, ImageIs, DigestIs, FileIs, Disk

-----------------------------------------------------------------------------
(* The theorem                                                             *)

\* Whatever the cache shows of a URL, in memory or from disk, at any size, is
\* of one payload.
THEOREM NeverMixed == SpecCache => []OneVersion
<1>1. OfOnePayload /\ [NextCache]_cacheVars => OfOnePayload'
  <2> SUFFICES ASSUME OfOnePayload, [NextCache]_cacheVars
               PROVE  OfOnePayload'
    OBVIOUS
  <2>1. CASE UNCHANGED cacheVars
    BY <2>1 DEF cacheVars, OfOnePayload, OneVersion, Keeps, Disk
  <2>2. CASE NextCache
    BY <2>2, MemoryHitKeeps, DiskHitKeeps, DiskMissKeeps, StoreKeeps, StoreMemoryOnlyKeeps,
       ClearMemoryKeeps, RestartKeeps, DamageKeeps DEF NextCache
  <2> QED BY <2>1, <2>2
<1>2. OfOnePayload => OneVersion
  BY DEF OfOnePayload
<1> QED BY InitIsOfOnePayload, <1>1, <1>2, PTL DEF SpecCache

-----------------------------------------------------------------------------
(* The count of bytes                                                      *)

\* The bytes of one file are as many as its size.
LEMMA BytesOfOne ==
  ASSUME NEW d, NEW u, SizeIn(d, u) \in Nat
  PROVE  /\ IsFiniteSet({u} \X (1..SizeIn(d, u)))
         /\ BytesOf(d, {u}) = SizeIn(d, u)
<1> DEFINE n == SizeIn(d, u)
           one == {u} \X (1..n)
<1>1. n \in Nat
  OBVIOUS
<1>2. BytesIn(d, {u}) = one
  BY DEF BytesIn
<1> HIDE DEF n
<1>3. IsFiniteSet({u}) /\ Cardinality({u}) = 1
  BY FS_Singleton
<1>4. IsFiniteSet(1..n) /\ Cardinality(1..n) = n
  BY <1>1, FirstNumbers
<1>5. IsFiniteSet(one) /\ Cardinality(one) = Cardinality({u}) * Cardinality(1..n)
  <2> DEFINE U == {u}
             N == 1..n
  <2>1. IsFiniteSet(U) /\ IsFiniteSet(N) /\ one = U \X N
    BY <1>3, <1>4
  <2> HIDE DEF U, N, one
  <2>2. IsFiniteSet(U \X N) /\ Cardinality(U \X N) = Cardinality(U) * Cardinality(N)
    BY <2>1, FS_Product
  <2> QED BY <2>1, <2>2 DEF U, N
<1>6. Cardinality(one) = n
  <2> HIDE DEF one
  <2>1. Cardinality(one) = 1 * n
    BY <1>3, <1>4, <1>5
  <2> QED BY <1>1, <2>1
<1> QED BY <1>2, <1>5, <1>6 DEF BytesOf, n

\* Finitely many files have finitely many bytes.
LEMMA BytesAreFinite ==
  ASSUME NEW d, NEW S, IsFiniteSet(S), \A u \in S : SizeIn(d, u) \in Nat
  PROVE  IsFiniteSet(BytesIn(d, S)) /\ BytesOf(d, S) \in Nat
<1> DEFINE T == {{u} \X (1..SizeIn(d, u)) : u \in S}
           g == [u \in S |-> {u} \X (1..SizeIn(d, u))]
<1>1. g \in Surjection(S, T)
  BY DEF Surjection
<1>2. \A t \in T : IsFiniteSet(t)
  BY BytesOfOne
<1>3. BytesIn(d, S) = UNION T
  BY DEF BytesIn
<1> HIDE DEF g, T
<1>4. IsFiniteSet(T)
  BY <1>1, FS_Surjection
<1>5. IsFiniteSet(UNION T)
  BY <1>2, <1>4, FS_UNION
<1> QED BY <1>3, <1>5, FS_CardinalityType DEF BytesOf

\* Files that are counted apart are counted once.
LEMMA BytesOfParts ==
  ASSUME NEW d, NEW S, NEW T \in SUBSET S, IsFiniteSet(S), \A u \in S : SizeIn(d, u) \in Nat
  PROVE  /\ BytesOf(d, S) = BytesOf(d, T) + BytesOf(d, S \ T)
         /\ BytesOf(d, S) \in Nat /\ BytesOf(d, T) \in Nat /\ BytesOf(d, S \ T) \in Nat
<1>1. IsFiniteSet(T) /\ IsFiniteSet(S \ T)
  BY FS_Subset
<1>2. /\ IsFiniteSet(BytesIn(d, T)) /\ BytesOf(d, T) \in Nat
      /\ IsFiniteSet(BytesIn(d, S \ T)) /\ BytesOf(d, S \ T) \in Nat
      /\ BytesOf(d, S) \in Nat
  BY <1>1, BytesAreFinite
<1>3. BytesIn(d, S) = BytesIn(d, T) \cup BytesIn(d, S \ T)
  BY DEF BytesIn
<1>4. BytesIn(d, T) \cap BytesIn(d, S \ T) = {}
  BY DEF BytesIn
<1>5. Cardinality(BytesIn(d, T) \cap BytesIn(d, S \ T)) = 0
  BY <1>4, FS_EmptySet
<1>6. Cardinality(BytesIn(d, S))
        = Cardinality(BytesIn(d, T)) + Cardinality(BytesIn(d, S \ T)) - 0
  BY <1>2, <1>3, <1>5, FS_Union
<1> QED BY <1>2, <1>6 DEF BytesOf

\* The count depends on the sizes only; a file that is not known has none.
LEMMA BytesOfSizes ==
  ASSUME NEW d, NEW e, NEW S, \A u \in S : SizeIn(d, u) = SizeIn(e, u)
  PROVE  BytesOf(d, S) = BytesOf(e, S)
<1>1. BytesIn(d, S) = BytesIn(e, S)
  BY DEF BytesIn
<1> QED BY <1>1 DEF BytesOf

LEMMA BytesOfKnown ==
  ASSUME NEW d, NEW S
  PROVE  BytesOf(d, S) = BytesOf(d, S \cap DOMAIN d.index)
<1>1. \A u \in S \ DOMAIN d.index : 1..SizeIn(d, u) = {}
  BY DEF SizeIn
<1>2. BytesIn(d, S) = BytesIn(d, S \cap DOMAIN d.index)
  BY <1>1 DEF BytesIn
<1> QED BY <1>2 DEF BytesOf

-----------------------------------------------------------------------------
(* What the operators on the disk keep                                     *)

\* The parts of CountOK, of any disk.
FilesOK(F) ==
  /\ IsFiniteSet(DOMAIN F) /\ DOMAIN F \subseteq Assets
  /\ \A u \in DOMAIN F :
       /\ F[u].size \in Nat
       /\ F[u].payload \in Payloads => F[u].size = FileSize[F[u].payload]
IndexOK(d) ==
  \A u \in DOMAIN d.index :
    /\ d.index[u] \in Nat
    /\ IsWhole(d.files, u) => d.index[u] = d.files[u].size
QueueOK(d) ==
  /\ d.queue \in Seq(Assets) /\ IsInjective(d.queue)
  /\ ToSet(d.queue) = DOMAIN d.index
DiskOK(d) ==
  /\ FilesOK(d.files) /\ IndexOK(d) /\ QueueOK(d)
  /\ d.bytes = BytesOf(d, DOMAIN d.index)

\* CountOK, said of the disk.
LEMMA CountIs ==
  CountOK <=> DiskOK(Disk) /\ diskBytes <= DiskMax /\ written \subseteq DOMAIN index
BY DEF CountOK, SizesOK, DiskKeepsItsLimit, Accounted, DiskOK, FilesOK, IndexOK, QueueOK, Disk

\* And after a step to another disk.
LEMMA CountAfter ==
  ASSUME NEW d, DiskBecomes(d), DiskOK(d), d.bytes <= DiskMax, written' \subseteq DOMAIN d.index
  PROVE  CountOK'
<1>1. /\ files' = d.files /\ index' = d.index /\ lruQueue' = d.queue /\ diskBytes' = d.bytes
  BY DEF DiskBecomes
<1>2. BytesOf(Disk, DOMAIN index)' = BytesOf(d, DOMAIN d.index)
  <2>1. \A u \in DOMAIN d.index : SizeIn(Disk, u)' = SizeIn(d, u)
    BY <1>1 DEF SizeIn, Disk
  <2> QED BY <1>1, <2>1 DEF BytesOf, BytesIn
<1> QED BY <1>1, <1>2
     DEF CountOK, SizesOK, DiskKeepsItsLimit, Accounted, DiskOK, FilesOK, IndexOK, QueueOK,
         IsWhole

\* The known files are finitely many, each of which has a size.
LEMMA KnownFiles ==
  ASSUME NEW d, QueueOK(d), IndexOK(d)
  PROVE  /\ IsFiniteSet(DOMAIN d.index) /\ \A u \in DOMAIN d.index : SizeIn(d, u) = d.index[u]
         /\ \A u : SizeIn(d, u) \in Nat
<1> DEFINE q == d.queue
<1>1. q \in Seq(Assets) /\ DOMAIN q = 1..Len(q) /\ Len(q) \in Nat /\ ToSet(q) = DOMAIN d.index
  BY LenProperties DEF QueueOK
<1> HIDE DEF q
<1>2. q \in Surjection(1..Len(q), ToSet(q))
  <2>1. q \in [1..Len(q) -> ToSet(q)]
    <3>1. q \in [1..Len(q) -> Assets]
      BY <1>1, LenProperties
    <3> QED BY <1>1, <3>1 DEF ToSet
  <2> QED BY <1>1, <2>1 DEF Surjection, ToSet
<1>3. IsFiniteSet(ToSet(q))
  BY <1>1, <1>2, FirstNumbers, FS_Surjection
<1> QED BY <1>1, <1>3 DEF IndexOK, SizeIn

\* What is left of the queue is what was not taken, once.
LEMMA OthersAre ==
  ASSUME NEW q \in Seq(Assets), IsInjective(q), NEW S
  PROVE  /\ Others(q, S) \in Seq(Assets) /\ IsInjective(Others(q, S))
         /\ ToSet(Others(q, S)) = ToSet(q) \ S
<1> DEFINE I == {i \in DOMAIN q : q[i] \notin S}
<1>1. Others(q, S) = Picked(q, I) /\ I \in SUBSET (DOMAIN q)
  BY DEF Others
<1>2. {q[i] : i \in I} = ToSet(q) \ S
  BY DEF ToSet
<1>3. \A i, j \in DOMAIN q : q[i] = q[j] => i = j
  BY DEF IsInjective
<1> HIDE DEF I
<1>4. Picked(q, I) \in Seq(Assets)
  BY <1>1, PickedElements
<1> DEFINE new == Picked(q, I)
<1>5. /\ \A k, l \in DOMAIN new : new[k] = new[l] => k = l
      /\ {new[k] : k \in DOMAIN new} = {q[i] : i \in I}
  BY <1>1, <1>3, PickedOnce
<1>6. Others(q, S) = new /\ new \in Seq(Assets)
  BY <1>1, <1>4
<1> HIDE DEF new
<1>7. IsInjective(new)
  BY <1>5 DEF IsInjective
<1>8. ToSet(new) = ToSet(q) \ S
  BY <1>2, <1>5 DEF ToSet
<1> QED BY <1>6, <1>7, <1>8

\* A file that is used becomes the last of the queue.
LEMMA TouchedQueue ==
  ASSUME NEW q \in Seq(Assets), IsInjective(q), NEW u \in Assets
  PROVE  LET new == Append(Others(q, {u}), u)
         IN  /\ new \in Seq(Assets) /\ IsInjective(new) /\ ToSet(new) = ToSet(q) \cup {u}
             /\ Len(new) \in DOMAIN new /\ new[Len(new)] = u
<1> DEFINE o == Others(q, {u})
           new == Append(o, u)
<1>1. o \in Seq(Assets) /\ IsInjective(o) /\ ToSet(o) = ToSet(q) \ {u}
  BY OthersAre
<1> HIDE DEF o
<1>2. /\ new \in Seq(Assets) /\ Len(new) = Len(o) + 1 /\ Len(o) \in Nat
      /\ \A i \in 1..Len(o) : new[i] = o[i]
      /\ new[Len(o) + 1] = u
  BY <1>1, AppendProperties, LenProperties
<1>3. DOMAIN new = 1..(Len(o) + 1) /\ DOMAIN o = 1..Len(o)
  BY <1>1, <1>2, LenProperties
<1> HIDE DEF new
<1>4. \A i \in DOMAIN new : (i \in DOMAIN o /\ new[i] = o[i]) \/ (i = Len(o) + 1 /\ new[i] = u)
  BY <1>2, <1>3
<1>5. \A i \in DOMAIN o : i \in DOMAIN new /\ o[i] # u
  <2>1. \A i \in DOMAIN o : o[i] \in ToSet(o)
    BY DEF ToSet
  <2>2. \A i \in DOMAIN o : i \in DOMAIN new
    BY <1>2, <1>3
  <2> QED BY <1>1, <2>1, <2>2
<1>6. IsInjective(new)
  BY <1>1, <1>4, <1>5 DEF IsInjective
<1>7. ToSet(new) = ToSet(o) \cup {u}
  <2>1. ToSet(new) \subseteq ToSet(o) \cup {u}
    BY <1>4 DEF ToSet
  <2>2. ToSet(o) \subseteq ToSet(new)
    BY <1>4, <1>5, <1>2, <1>3 DEF ToSet
  <2>3. u \in ToSet(new)
    BY <1>2, <1>3 DEF ToSet
  <2> QED BY <2>1, <2>2, <2>3
<1>8. Len(new) \in DOMAIN new /\ new[Len(new)] = u
  BY <1>2, <1>3
<1> QED BY <1>1, <1>2, <1>6, <1>7, <1>8 DEF new, o

\* A removal takes files off the index, the queue and the count together,
\* whether or not they are removed.
LEMMA RemovedDisk ==
  ASSUME NEW d, DiskOK(d), NEW S, NEW e \in Removals(d, S)
  PROVE  /\ DiskOK(e) /\ DOMAIN e.index = DOMAIN d.index \ S
         /\ e.bytes = d.bytes - BytesOf(d, S)
         /\ e.bytes \in Nat /\ d.bytes \in Nat /\ BytesOf(d, S) \in Nat
<1>1. PICK gone \in SUBSET S : e = Forgotten(d, S, gone)
  BY DEF Removals
<1>2. /\ e.files = Without(d.files, gone) /\ e.index = Without(d.index, S)
      /\ e.queue = Others(d.queue, S) /\ e.bytes = Difference(d.bytes, BytesOf(d, S))
  BY <1>1 DEF Forgotten
<1> DEFINE D == DOMAIN d.index
<1>3. IsFiniteSet(D) /\ \A u : SizeIn(d, u) \in Nat
  BY KnownFiles DEF DiskOK
<1>4. /\ DOMAIN e.index = D \ S /\ \A u \in D \ S : e.index[u] = d.index[u]
      /\ DOMAIN e.files = DOMAIN d.files \ gone
      /\ \A u \in DOMAIN d.files \ gone : e.files[u] = d.files[u]
  <2>1. /\ DOMAIN Without(d.index, S) = D \ S
        /\ \A u \in D \ S : Without(d.index, S)[u] = d.index[u]
    BY WithoutValues
  <2>2. /\ DOMAIN Without(d.files, gone) = DOMAIN d.files \ gone
        /\ \A u \in DOMAIN d.files \ gone : Without(d.files, gone)[u] = d.files[u]
    BY WithoutValues
  <2> QED BY <1>2, <2>1, <2>2
<1>5. FilesOK(e.files)
  <2>1. IsFiniteSet(DOMAIN e.files)
    BY <1>4, FS_Subset DEF DiskOK, FilesOK
  <2> QED BY <1>4, <2>1 DEF DiskOK, FilesOK
<1>6. IndexOK(e)
  BY <1>4 DEF DiskOK, IndexOK, IsWhole
<1>7. QueueOK(e)
  BY <1>2, <1>4, OthersAre DEF DiskOK, QueueOK
<1>8. /\ BytesOf(d, D) = BytesOf(d, S \cap D) + BytesOf(d, D \ S)
      /\ BytesOf(d, D) \in Nat /\ BytesOf(d, S \cap D) \in Nat /\ BytesOf(d, D \ S) \in Nat
  <2> DEFINE T == S \cap D
  <2>1. T \in SUBSET D /\ D \ T = D \ S
    OBVIOUS
  <2>2. \A u \in D : SizeIn(d, u) \in Nat
    BY <1>3
  <2> HIDE DEF D, T
  <2>3. /\ BytesOf(d, D) = BytesOf(d, T) + BytesOf(d, D \ T)
        /\ BytesOf(d, D) \in Nat /\ BytesOf(d, T) \in Nat /\ BytesOf(d, D \ T) \in Nat
    BY <1>3, <2>1, <2>2, BytesOfParts
  <2> QED BY <2>1, <2>3 DEF T
<1>9. BytesOf(d, S) = BytesOf(d, S \cap D)
  BY BytesOfKnown
<1>10. BytesOf(e, D \ S) = BytesOf(d, D \ S)
  <2>1. \A u \in D \ S : SizeIn(e, u) = SizeIn(d, u)
    BY <1>4 DEF SizeIn
  <2> QED BY <2>1, BytesOfSizes
<1>11. d.bytes = BytesOf(d, D)
  BY DEF DiskOK
<1> HIDE DEF D
<1>12. e.bytes = BytesOf(e, D \ S) /\ e.bytes = d.bytes - BytesOf(d, S)
  BY <1>2, <1>8, <1>9, <1>10, <1>11 DEF Difference
<1>13. DiskOK(e)
  BY <1>4, <1>5, <1>6, <1>7, <1>12 DEF DiskOK
<1> QED BY <1>4, <1>8, <1>9, <1>10, <1>11, <1>12, <1>13 DEF D

\* A nonempty set of natural numbers has a least one.
LEMMA NatSetHasLeast ==
  ASSUME NEW T, T \subseteq Nat, T # {}
  PROVE  \E i \in T : \A j \in T : i <= j
<1> DEFINE R == OpToRel(<, Nat)
<1>1. IsWellFoundedOn(R, Nat)
  BY NatLessThanWellFounded
<1>2. PICK i \in T : \A j \in T : ~(<<j, i>> \in R)
  <2> HIDE DEF R
  <2> QED BY <1>1, WFMin
<1>3. i \in Nat /\ \A j \in T : j \in Nat /\ ~(j < i)
  BY <1>2 DEF OpToRel
<1> QED BY <1>3

\* The files that go are those at the front of the queue, and no more of them
\* than it takes.
First(d, n) == ToSet(SubSeq(d.queue, 1, n))
Suffices(d, n) == n = Len(d.queue) \/ d.bytes <= DiskMax + BytesOf(d, First(d, n))
LEMMA VictimsAre ==
  ASSUME NEW d, d.queue \in Seq(Assets)
  PROVE  \E n \in 0..Len(d.queue) :
           /\ Victims(d) = First(d, n) /\ Suffices(d, n)
           /\ \A m \in 0..n - 1 : ~Suffices(d, m)
<1> DEFINE len == Len(d.queue)
           T == {n \in 0..len : Suffices(d, n)}
           Least(n) == Suffices(d, n) /\ \A m \in 0..n - 1 : ~Suffices(d, m)
<1>1. len \in Nat /\ Suffices(d, len)
  BY LenProperties DEF Suffices
<1>2. \E n \in 0..len : Least(n)
  <2>1. T \subseteq Nat /\ len \in T
    BY <1>1
  <2>2. PICK n \in T : \A m \in T : n <= m
    <3> HIDE DEF T
    <3> QED BY <2>1, NatSetHasLeast
  <2>3. n \in 0..len /\ Suffices(d, n)
    BY <2>2
  <2>4. ASSUME NEW m \in 0..n - 1 PROVE ~Suffices(d, m)
    <3>1. m \in 0..len /\ ~(n <= m)
      BY <1>1, <2>3
    <3> QED BY <2>2, <3>1
  <2> QED BY <2>3, <2>4
<1>3. Victims(d) = First(d, CHOOSE n \in 0..len : Least(n))
  BY DEF Victims, First, Suffices
<1> HIDE DEF Least
<1>4. PICK n \in 0..len : n = (CHOOSE k \in 0..len : Least(k)) /\ Least(n)
  BY <1>2
<1> QED BY <1>3, <1>4 DEF Least

\* What is evicted leaves the disk within its limit; a file that is the last
\* of the queue and fits stays.
LEMMA EvictedDisk ==
  ASSUME NEW d, DiskOK(d), NEW e \in Evictions(d)
  PROVE  /\ DiskOK(e) /\ e.bytes <= DiskMax /\ DOMAIN e.index \subseteq DOMAIN d.index
         /\ \A u \in DOMAIN d.index :
              d.queue[Len(d.queue)] = u /\ d.index[u] <= DiskMax => u \in DOMAIN e.index
<1> DEFINE q == d.queue
           len == Len(q)
           D == DOMAIN d.index
<1>1. /\ q \in Seq(Assets) /\ IsInjective(q) /\ ToSet(q) = D
      /\ DOMAIN q = 1..len /\ len \in Nat
  BY LenProperties DEF DiskOK, QueueOK
<1>2. PICK n \in 0..len :
        /\ Victims(d) = First(d, n) /\ Suffices(d, n)
        /\ \A m \in 0..n - 1 : ~Suffices(d, m)
  BY <1>1, VictimsAre
<1>3. ASSUME NEW m \in 0..len PROVE First(d, m) = {q[i] : i \in 1..m}
  <2>1. /\ Len(SubSeq(q, 1, m)) = m /\ SubSeq(q, 1, m) \in Seq(Assets)
        /\ \A i \in 1..m : SubSeq(q, 1, m)[i] = q[i]
    <3> HIDE DEF q
    <3> QED BY <1>1, SubSeqProperties
  <2>2. DOMAIN SubSeq(q, 1, m) = 1..m
    BY <2>1, LenProperties
  <2> QED BY <2>1, <2>2 DEF First, ToSet
<1>4. /\ DiskOK(e) /\ DOMAIN e.index = D \ First(d, n)
      /\ e.bytes = d.bytes - BytesOf(d, First(d, n))
      /\ e.bytes \in Nat /\ d.bytes \in Nat /\ BytesOf(d, First(d, n)) \in Nat
  BY <1>2, RemovedDisk DEF Evictions
<1>5. IsFiniteSet(D) /\ (\A u : SizeIn(d, u) \in Nat) /\ d.bytes = BytesOf(d, D)
      /\ \A u \in D : SizeIn(d, u) = d.index[u]
  BY KnownFiles DEF DiskOK
<1>6. DiskMax \in Nat
  BY DiskAssumption
<1>7. e.bytes <= DiskMax
  <2>1. CASE n = len
    <3>1. First(d, n) = ToSet(q)
      BY <1>1, <1>3, <2>1 DEF ToSet
    <3>2. d.bytes = BytesOf(d, First(d, n))
      BY <1>1, <1>5, <3>1
    <3> QED BY <1>4, <1>6, <3>2
  <2>2. CASE n # len
    <3>1. d.bytes <= DiskMax + BytesOf(d, First(d, n))
      BY <1>2, <2>2 DEF Suffices
    <3> QED BY <1>4, <1>6, <3>1
  <2> QED BY <2>1, <2>2
<1>8. ASSUME NEW u \in D, q[len] = u, d.index[u] <= DiskMax
      PROVE  u \in DOMAIN e.index
  <2>1. PICK i \in DOMAIN q : q[i] = u
    BY <1>1 DEF ToSet
  <2>2. i = len /\ len \in 1..len /\ len - 1 \in 0..len
    <3>1. len \in DOMAIN q
      BY <1>1, <2>1
    <3>2. i = len
      BY <1>1, <1>8, <2>1, <3>1 DEF IsInjective
    <3> QED BY <1>1, <3>1, <3>2
  <2>3. First(d, len - 1) = D \ {u}
    <3>1. First(d, len - 1) = {q[k] : k \in 1..(len - 1)}
      BY <1>3, <2>2
    <3>2. \A k \in 1..(len - 1) : k \in DOMAIN q /\ q[k] # u
      <4>1. \A k \in 1..(len - 1) : k \in DOMAIN q /\ k # len /\ len \in DOMAIN q
        BY <1>1, <2>2
      <4> QED BY <1>1, <1>8, <4>1 DEF IsInjective
    <3>3. \A k \in DOMAIN q : q[k] = u \/ k \in 1..(len - 1)
      BY <1>1, <1>8, <2>2
    <3>4. D = {q[k] : k \in DOMAIN q}
      BY <1>1 DEF ToSet
    <3> QED BY <3>1, <3>2, <3>3, <3>4
  <2>4. Suffices(d, len - 1)
    <3>1. BytesOf(d, D) = BytesOf(d, D \ {u}) + BytesOf(d, {u}) /\ BytesOf(d, D \ {u}) \in Nat
      <4> DEFINE T == D \ {u}
      <4>1. T \in SUBSET D /\ D \ T = {u}
        OBVIOUS
      <4>2. IsFiniteSet(D) /\ \A v \in D : SizeIn(d, v) \in Nat
        BY <1>5
      <4> HIDE DEF D, T
      <4>3. /\ BytesOf(d, D) = BytesOf(d, T) + BytesOf(d, D \ T)
            /\ BytesOf(d, D) \in Nat /\ BytesOf(d, T) \in Nat /\ BytesOf(d, D \ T) \in Nat
        BY <4>1, <4>2, BytesOfParts
      <4> QED BY <4>1, <4>3 DEF T
    <3>2. BytesOf(d, {u}) = d.index[u] /\ d.index[u] \in Nat
      BY <1>5, BytesOfOne
    <3>3. d.bytes <= DiskMax + BytesOf(d, First(d, len - 1))
      <4>1. BytesOf(d, First(d, len - 1)) = BytesOf(d, D \ {u})
        BY <2>3
      <4> HIDE DEF D
      <4>2. d.bytes = BytesOf(d, D \ {u}) + d.index[u]
        BY <1>5, <3>1, <3>2
      <4> QED BY <1>6, <1>8, <3>1, <3>2, <4>1, <4>2
    <3> QED BY <3>3 DEF Suffices
  <2>5. n <= len - 1
    <3>1. ~(len - 1 \in 0..n - 1)
      BY <1>2, <2>4
    <3> QED BY <1>1, <2>2, <3>1
  <2>6. u \notin First(d, n)
    <3>1. \A k \in 1..n : k \in 1..(len - 1)
      BY <1>1, <2>5
    <3>2. First(d, n) \subseteq First(d, len - 1)
      BY <1>3, <2>2, <3>1
    <3> QED BY <2>3, <3>2
  <2> QED BY <1>4, <2>6
<1> QED BY <1>4, <1>7, <1>8

\* A file that is written, or read again, is counted with its size, once, and
\* is the last of the queue.
LEMMA FileIsCounted ==
  ASSUME NEW d, DiskOK(d), NEW u \in Assets, NEW p \in Payloads
  PROVE  LET e == Touched(WithFile(d, u, p), u)
         IN  /\ DiskOK(e) /\ DOMAIN e.index = DOMAIN d.index \cup {u}
             /\ e.index[u] = FileSize[p] /\ e.queue[Len(e.queue)] = u
             /\ u \in DOMAIN d.index /\ d.index[u] = FileSize[p] => e.bytes = d.bytes
<1> DEFINE e == Touched(WithFile(d, u, p), u)
           D == DOMAIN d.index
           n == FileSize[p]
<1>1. n \in Nat /\ Damaged \notin Payloads
  BY PayloadAssumption
<1>2. /\ DOMAIN With(d.index, u, n) = DOMAIN d.index \cup {u}
      /\ With(d.index, u, n)[u] = n
      /\ \A v \in DOMAIN d.index : v # u => With(d.index, u, n)[v] = d.index[v]
  BY DEF With
<1>3. /\ DOMAIN With(d.files, u, FileOf(p)) = DOMAIN d.files \cup {u}
      /\ With(d.files, u, FileOf(p))[u] = FileOf(p)
      /\ \A v \in DOMAIN d.files : v # u => With(d.files, u, FileOf(p))[v] = d.files[v]
  BY DEF With
<1>4. /\ e.files = With(d.files, u, FileOf(p)) /\ e.index = With(d.index, u, n)
      /\ e.queue = Append(Others(d.queue, {u}), u)
      /\ e.bytes = Difference(d.bytes + n, SizeIn(d, u))
  <2>1. u \in DOMAIN With(d.index, u, n)
    BY <1>2
  <2> QED BY <2>1 DEF Touched, WithFile
<1> HIDE DEF e
<1>5. /\ DOMAIN e.index = D \cup {u} /\ e.index[u] = n
      /\ \A v \in D : v # u => e.index[v] = d.index[v]
      /\ DOMAIN e.files = DOMAIN d.files \cup {u} /\ e.files[u] = FileOf(p)
      /\ \A v \in DOMAIN d.files : v # u => e.files[v] = d.files[v]
  BY <1>2, <1>3, <1>4
<1>6. FilesOK(e.files)
  <2>1. IsFiniteSet(DOMAIN e.files)
    BY <1>5, FS_AddElement DEF DiskOK, FilesOK
  <2> QED BY <1>1, <1>5, <2>1 DEF DiskOK, FilesOK, FileOf
<1>7. IndexOK(e)
  BY <1>1, <1>5 DEF DiskOK, IndexOK, IsWhole, FileOf
<1>8. QueueOK(e) /\ e.queue[Len(e.queue)] = u
  <2>1. d.queue \in Seq(Assets) /\ IsInjective(d.queue) /\ ToSet(d.queue) = D
    BY DEF DiskOK, QueueOK
  <2>2. /\ e.queue \in Seq(Assets) /\ IsInjective(e.queue) /\ ToSet(e.queue) = D \cup {u}
        /\ e.queue[Len(e.queue)] = u
    BY <1>4, <2>1, TouchedQueue
  <2> QED BY <1>5, <2>2 DEF QueueOK
<1>9. /\ IsFiniteSet(D) /\ IsFiniteSet(D \cup {u})
      /\ (\A v : SizeIn(d, v) \in Nat) /\ (\A v : SizeIn(e, v) \in Nat)
      /\ d.bytes = BytesOf(d, D)
  BY <1>5, <1>7, <1>8, KnownFiles, FS_AddElement DEF DiskOK
<1> DEFINE R == D \ {u}
<1>10. BytesOf(d, D) = BytesOf(d, R) + SizeIn(d, u) /\ BytesOf(d, R) \in Nat
  <2>1. CASE u \in D
    <3>1. R \in SUBSET D /\ D \ R = {u}
      BY <2>1
    <3>2. IsFiniteSet(D) /\ \A v \in D : SizeIn(d, v) \in Nat
      BY <1>9
    <3> HIDE DEF D, R
    <3>3. /\ BytesOf(d, D) = BytesOf(d, R) + BytesOf(d, D \ R)
          /\ BytesOf(d, D) \in Nat /\ BytesOf(d, R) \in Nat /\ BytesOf(d, D \ R) \in Nat
      BY <3>1, <3>2, BytesOfParts
    <3>4. BytesOf(d, {u}) = SizeIn(d, u)
      BY <1>9, BytesOfOne
    <3> QED BY <3>1, <3>3, <3>4
  <2>2. CASE u \notin D
    <3>1. R = D /\ SizeIn(d, u) = 0
      BY <2>2 DEF SizeIn
    <3>2. BytesOf(d, D) \in Nat
      BY <1>9, BytesAreFinite
    <3> QED BY <3>1, <3>2
  <2> QED BY <2>1, <2>2
<1>11. BytesOf(e, D \cup {u}) = BytesOf(d, R) + n
  <2> DEFINE E == D \cup {u}
  <2>1. R \in SUBSET E /\ E \ R = {u}
    OBVIOUS
  <2>2. IsFiniteSet(E) /\ \A v \in E : SizeIn(e, v) \in Nat
    BY <1>9
  <2>3. BytesOf(e, R) = BytesOf(d, R)
    <3>1. \A v \in R : SizeIn(e, v) = SizeIn(d, v)
      BY <1>5 DEF SizeIn
    <3> QED BY <3>1, BytesOfSizes
  <2>4. BytesOf(e, {u}) = n
    <3>1. SizeIn(e, u) = n
      BY <1>5 DEF SizeIn
    <3> QED BY <1>1, <3>1, BytesOfOne
  <2> HIDE DEF E, R
  <2>5. BytesOf(e, E) = BytesOf(e, R) + BytesOf(e, E \ R)
    BY <2>1, <2>2, BytesOfParts
  <2> QED BY <2>1, <2>3, <2>4, <2>5 DEF E
<1>12. e.bytes = BytesOf(d, R) + n
  <2>1. e.bytes = Difference(d.bytes + n, SizeIn(d, u)) /\ SizeIn(d, u) \in Nat
    BY <1>4, <1>9
  <2> HIDE DEF R, n, D
  <2>2. BytesOf(d, R) \in Nat /\ d.bytes = BytesOf(d, R) + SizeIn(d, u)
    BY <1>9, <1>10
  <2> QED BY <1>1, <2>1, <2>2 DEF Difference
<1>13. DiskOK(e)
  BY <1>5, <1>6, <1>7, <1>8, <1>11, <1>12 DEF DiskOK
<1>14. u \in D /\ d.index[u] = n => e.bytes = d.bytes
  BY <1>9, <1>10, <1>12 DEF SizeIn
<1> QED BY <1>5, <1>8, <1>13, <1>14 DEF e

\* A file that is only looked for in memory keeps its place or becomes the
\* last; the files are the same.
LEMMA TouchedDisk ==
  ASSUME NEW d, DiskOK(d), NEW u \in Assets
  PROVE  LET e == Touched(d, u)
         IN  DiskOK(e) /\ e.bytes = d.bytes /\ e.index = d.index
<1> DEFINE e == Touched(d, u)
<1>1. /\ e.files = d.files /\ e.index = d.index /\ e.bytes = d.bytes
      /\ e.queue = IF u \in DOMAIN d.index THEN Append(Others(d.queue, {u}), u) ELSE d.queue
  BY DEF Touched
<1> HIDE DEF e
<1>2. QueueOK(e)
  <2>1. d.queue \in Seq(Assets) /\ IsInjective(d.queue) /\ ToSet(d.queue) = DOMAIN d.index
    BY DEF DiskOK, QueueOK
  <2>2. CASE u \notin DOMAIN d.index
    BY <1>1, <2>1, <2>2 DEF QueueOK
  <2>3. CASE u \in DOMAIN d.index
    <3>1. /\ e.queue \in Seq(Assets) /\ IsInjective(e.queue)
          /\ ToSet(e.queue) = ToSet(d.queue) \cup {u}
      BY <1>1, <2>1, <2>3, TouchedQueue
    <3> QED BY <1>1, <2>1, <2>3, <3>1 DEF QueueOK
  <2> QED BY <2>2, <2>3
<1>3. BytesOf(e, DOMAIN e.index) = BytesOf(d, DOMAIN d.index)
  BY <1>1, BytesOfSizes DEF SizeIn
<1>4. DiskOK(e)
  BY <1>1, <1>2, <1>3 DEF DiskOK, IndexOK
<1> QED BY <1>1, <1>4 DEF e

\* The files may change below the index, but none becomes whole at another
\* size than it is known with.
LEMMA ChangedFiles ==
  ASSUME NEW d, DiskOK(d), NEW F, FilesOK(F),
         \A u \in DOMAIN d.index : IsWhole(F, u) => IsWhole(d.files, u) /\ F[u] = d.files[u],
         NEW e, e.files = F, e.index = d.index, e.queue = d.queue, e.bytes = d.bytes
  PROVE  DiskOK(e)
<1>1. BytesOf(e, DOMAIN e.index) = BytesOf(d, DOMAIN d.index)
  BY BytesOfSizes DEF SizeIn
<1>2. IndexOK(e)
  BY DEF DiskOK, IndexOK
<1>3. QueueOK(e)
  BY DEF DiskOK, QueueOK
<1> QED BY <1>1, <1>2, <1>3 DEF DiskOK

\* A file that is emptied or damaged is not whole.
LEMMA SpoiltFiles ==
  ASSUME NEW F, FilesOK(F), NEW u \in Assets, NEW n \in Nat
  PROVE  LET G == With(F, u, [payload |-> Damaged, size |-> n])
         IN  /\ FilesOK(G)
             /\ \A v : IsWhole(G, v) => IsWhole(F, v) /\ G[v] = F[v]
<1> DEFINE G == With(F, u, [payload |-> Damaged, size |-> n])
<1>1. /\ DOMAIN G = DOMAIN F \cup {u} /\ G[u] = [payload |-> Damaged, size |-> n]
      /\ \A v \in DOMAIN F : v # u => G[v] = F[v]
  BY DEF With
<1> HIDE DEF G
<1>2. Damaged \notin Payloads
  BY PayloadAssumption
<1>3. IsFiniteSet(DOMAIN G)
  BY <1>1, FS_AddElement DEF FilesOK
<1>4. FilesOK(G)
  BY <1>1, <1>2, <1>3 DEF FilesOK
<1>5. \A v : IsWhole(G, v) => IsWhole(F, v) /\ G[v] = F[v]
  BY <1>1, <1>2 DEF IsWhole
<1> QED BY <1>4, <1>5 DEF G

\* A start that does not open the cache knows of no file.
LEMMA EmptyDisk ==
  ASSUME NEW F, FilesOK(F)
  PROVE  DiskOK([files |-> F, index |-> << >>, queue |-> << >>, bytes |-> 0])
<1> DEFINE e == [files |-> F, index |-> << >>, queue |-> << >>, bytes |-> 0]
<1>1. e.files = F /\ e.index = << >> /\ e.queue = << >> /\ e.bytes = 0
  OBVIOUS
<1>2. DOMAIN e.index = {}
  BY <1>1
<1> HIDE DEF e
<1>3. IndexOK(e)
  BY <1>2 DEF IndexOK
<1>4. QueueOK(e)
  BY <1>1, <1>2 DEF QueueOK, IsInjective, ToSet
<1>5. BytesOf(e, {}) = 0
  <2>1. BytesIn(e, {}) = {}
    BY DEF BytesIn
  <2> QED BY <2>1, FS_EmptySet DEF BytesOf
<1>6. DiskOK(e)
  BY <1>1, <1>2, <1>3, <1>4, <1>5 DEF DiskOK
<1> QED BY <1>6 DEF e

\* A start counts every file with contents, once, whatever their order.
LEMMA IndexedDisk ==
  ASSUME NEW F, FilesOK(F), NEW e \in Indexed(F)
  PROVE  DiskOK(e)
<1> DEFINE found == FilesWithContents(F)
           sizes == [u \in found |-> F[u].size]
<1>1. PICK order \in SetToSeqs(found), gone \in SUBSET (DOMAIN F \ found) :
        e = IndexedAs(F, order, gone)
  BY DEF Indexed
<1>2. /\ e.files = Without(F, gone) /\ e.index = sizes /\ e.queue = order
      /\ e.bytes = BytesOf([index |-> sizes], found)
  <2>1. DOMAIN sizes = found
    OBVIOUS
  <2> QED BY <1>1, <2>1 DEF IndexedAs
<1>3. /\ DOMAIN sizes = found /\ \A u \in found : sizes[u] = F[u].size
      /\ found \subseteq DOMAIN F /\ gone \subseteq DOMAIN F /\ gone \cap found = {}
  BY DEF FilesWithContents
<1> HIDE DEF sizes, found
<1>4. /\ DOMAIN e.files = DOMAIN F \ gone
      /\ \A u \in DOMAIN F \ gone : e.files[u] = F[u]
  <2>1. /\ DOMAIN Without(F, gone) = DOMAIN F \ gone
        /\ \A u \in DOMAIN F \ gone : Without(F, gone)[u] = F[u]
    BY WithoutValues
  <2> QED BY <1>2, <2>1
<1>5. FilesOK(e.files)
  <2>1. IsFiniteSet(DOMAIN e.files)
    BY <1>4, FS_Subset DEF FilesOK
  <2> QED BY <1>4, <2>1 DEF FilesOK
<1>6. IndexOK(e)
  BY <1>2, <1>3, <1>4 DEF IndexOK, FilesOK, IsWhole
<1>7. QueueOK(e)
  <2> DEFINE n == Cardinality(found)
  <2>1. IsFiniteSet(found) /\ n \in Nat /\ found \subseteq Assets
    BY <1>3, FS_Subset, FS_CardinalityType DEF FilesOK
  <2>2. order \in [1..n -> found] /\ \A i, j \in 1..n : i # j => order[i] # order[j]
    BY <1>1 DEF SetToSeqs
  <2> HIDE DEF n
  <2>3. IsFiniteSet(1..n) /\ Cardinality(1..n) = n
    BY <2>1, FirstNumbers
  <2>4. order \in Injection(1..n, found)
    BY <2>2 DEF Injection, IsInjective
  <2>5. order \in Surjection(1..n, found)
    BY <2>1, <2>3, <2>4, FS_Injection DEF n
  <2>6. ToSet(order) = found
    BY <2>2, <2>5 DEF ToSet, Surjection
  <2>7. order \in Seq(Assets)
    <3>1. order \in [1..n -> Assets]
      BY <2>1, <2>2
    <3> QED BY <2>1, <3>1, SeqDef
  <2>8. IsInjective(order)
    BY <2>2 DEF IsInjective
  <2> QED BY <1>2, <1>3, <2>6, <2>7, <2>8 DEF QueueOK
<1>8. e.bytes = BytesOf(e, DOMAIN e.index)
  <2> DEFINE d == [index |-> sizes]
  <2>1. d.index = sizes
    OBVIOUS
  <2> HIDE DEF d
  <2>2. \A u \in found : SizeIn(d, u) = SizeIn(e, u)
    BY <1>2, <2>1 DEF SizeIn
  <2>3. BytesOf(d, found) = BytesOf(e, found)
    BY <2>2, BytesOfSizes
  <2> QED BY <1>2, <1>3, <2>3 DEF d
<1> QED BY <1>5, <1>6, <1>7, <1>8 DEF DiskOK

-----------------------------------------------------------------------------
(* The invariant                                                           *)

\* No step of the cache makes the count wrong.
LEMMA CountStep == CountOK /\ [NextCache]_cacheVars => CountOK'
<1> SUFFICES ASSUME CountOK, [NextCache]_cacheVars PROVE CountOK'
  OBVIOUS
<1>1. /\ DiskOK(Disk) /\ Disk.bytes <= DiskMax /\ written \subseteq DOMAIN Disk.index
      /\ Disk.files = files /\ Disk.index = index /\ Disk.queue = lruQueue
      /\ Disk.bytes = diskBytes /\ diskBytes \in Nat
  <2>1. DiskOK(Disk) /\ diskBytes <= DiskMax /\ written \subseteq DOMAIN index
    BY CountIs
  <2>2. /\ Disk.files = files /\ Disk.index = index /\ Disk.queue = lruQueue
        /\ Disk.bytes = diskBytes
    BY DEF Disk
  <2>3. IsFiniteSet(DOMAIN Disk.index) /\ \A u : SizeIn(Disk, u) \in Nat
    BY <2>1, KnownFiles DEF DiskOK
  <2>4. BytesOf(Disk, DOMAIN Disk.index) \in Nat
    BY <2>3, BytesAreFinite
  <2> QED BY <2>1, <2>2, <2>4 DEF DiskOK
<1>2. DiskMax \in Nat
  BY DiskAssumption
<1>3. ASSUME UNCHANGED diskVars, written' \subseteq written PROVE CountOK'
  <2>1. DiskBecomes(Disk)
    BY <1>1, <1>3 DEF DiskBecomes, diskVars
  <2> QED BY <1>1, <1>3, <2>1, CountAfter
<1>4. ASSUME NEW u \in Assets, NEW c \in CellSizes, MemoryHit(u, c) PROVE CountOK'
  <2> DEFINE d == Touched(Disk, u)
  <2>1. DiskOK(d) /\ d.bytes = Disk.bytes
    BY <1>1, TouchedDisk
  <2>2. DiskBecomes(d) /\ written' = {}
    BY <1>4 DEF MemoryHit
  <2> HIDE DEF d
  <2> QED BY <1>1, <2>1, <2>2, CountAfter
<1>5. ASSUME NEW u \in Assets, NEW c \in CellSizes, DiskHit(u, c) PROVE CountOK'
  <2> DEFINE p == files[u].payload
             d == Touched(WithFile(Disk, u, p), u)
  <2>1. u \in DOMAIN Disk.index /\ IsWhole(Disk.files, u) /\ p \in Payloads
    BY <1>1, <1>5 DEF DiskHit, OnDiskOnly, IsWhole
  <2>2. Disk.index[u] = FileSize[p]
    BY <1>1, <2>1 DEF DiskOK, IndexOK, FilesOK, IsWhole
  <2>3. DiskBecomes(d) /\ written' = {}
    BY <1>5 DEF DiskHit
  <2> HIDE DEF p
  <2>4. DiskOK(d) /\ d.bytes = Disk.bytes
    BY <1>1, <2>1, <2>2, FileIsCounted
  <2> HIDE DEF d
  <2> QED BY <1>1, <2>3, <2>4, CountAfter
<1>6. ASSUME NEW u \in Assets, NEW c \in CellSizes, DiskMiss(u, c) PROVE CountOK'
  <2>1. PICK d \in Removals(Disk, {u}) : DiskBecomes(d)
    BY <1>6 DEF DiskMiss
  <2>2. written' = {}
    BY <1>6 DEF DiskMiss
  <2>3. DiskOK(d) /\ d.bytes \in Nat /\ BytesOf(Disk, {u}) \in Nat
        /\ d.bytes = Disk.bytes - BytesOf(Disk, {u})
    BY <1>1, RemovedDisk
  <2>4. d.bytes <= DiskMax
    BY <1>1, <1>2, <2>3
  <2> QED BY <2>1, <2>2, <2>3, <2>4, CountAfter
<1>7. ASSUME NEW u \in Assets, NEW p \in Payloads, StoreWrites(u, p) PROVE CountOK'
  <2> DEFINE d == Touched(WithFile(Disk, u, p), u)
  <2>1. DiskOK(d) /\ u \in DOMAIN d.index /\ d.index[u] = FileSize[p] /\ d.queue[Len(d.queue)] = u
    BY <1>1, FileIsCounted
  <2>2. PICK e \in Evictions(d) : DiskBecomes(e)
    BY <1>7 DEF StoreWrites
  <2>3. FileSize[p] <= DiskMax /\ written' = {u}
    BY <1>7 DEF StoreWrites
  <2> HIDE DEF d
  <2>4. DiskOK(e) /\ e.bytes <= DiskMax /\ u \in DOMAIN e.index
    BY <2>1, <2>2, <2>3, EvictedDisk
  <2> QED BY <2>2, <2>3, <2>4, CountAfter
<1>8. ASSUME NEW u \in Assets, NEW p \in Payloads, StoreFails(u, p) PROVE CountOK'
  <2>1. PICK F \in {files, With(files, u, EmptyFile)} :
          \E d \in Removals([Disk EXCEPT !.files = F], {u}) : DiskBecomes(d)
    BY <1>8 DEF StoreFails
  <2> DEFINE e == [Disk EXCEPT !.files = F]
  <2>2. PICK d \in Removals(e, {u}) : DiskBecomes(d)
    BY <2>1
  <2>3. e.files = F /\ e.index = Disk.index /\ e.queue = Disk.queue /\ e.bytes = Disk.bytes
    BY DEF Disk
  <2>4. FilesOK(F) /\ \A v : IsWhole(F, v) => IsWhole(files, v) /\ F[v] = files[v]
    <3>1. FilesOK(files)
      BY <1>1 DEF DiskOK
    <3>2. CASE F = files
      BY <3>1, <3>2
    <3>3. CASE F = With(files, u, EmptyFile)
      BY <3>1, <3>3, SpoiltFiles DEF EmptyFile
    <3> QED BY <2>1, <3>2, <3>3
  <2> HIDE DEF e
  <2>5. DiskOK(e)
    BY <1>1, <2>3, <2>4, ChangedFiles
  <2>6. DiskOK(d) /\ d.bytes \in Nat /\ BytesOf(e, {u}) \in Nat
        /\ d.bytes = e.bytes - BytesOf(e, {u})
    BY <2>2, <2>5, RemovedDisk
  <2>7. d.bytes <= DiskMax
    BY <1>1, <1>2, <2>3, <2>6
  <2>8. written' = {}
    BY <1>8 DEF StoreFails
  <2> QED BY <2>2, <2>6, <2>7, <2>8, CountAfter
<1>9. ASSUME NEW u \in Assets, NEW p \in Payloads, NEW c \in CellSizes, Store(u, p, c)
      PROVE  CountOK'
  <2>1. CASE written' = {} /\ UNCHANGED diskVars
    BY <1>3, <2>1
  <2> QED BY <1>7, <1>8, <1>9, <2>1 DEF Store
<1>10. ASSUME NEW u \in Assets, NEW p \in Payloads, NEW c \in CellSizes, StoreMemoryOnly(u, p, c)
       PROVE  CountOK'
  BY <1>3, <1>10 DEF StoreMemoryOnly
<1>11. ASSUME ClearMemory PROVE CountOK'
  BY <1>3, <1>11 DEF ClearMemory
<1>12. ASSUME RestartCache PROVE CountOK'
  <2>1. FilesOK(files) /\ written' = {}
    BY <1>1, <1>12 DEF DiskOK, RestartCache
  <2>2. CASE enabled'
    <3>1. PICK d \in Indexed(files) : \E e \in Evictions(d) : DiskBecomes(e)
      BY <1>12, <2>2 DEF RestartCache
    <3>2. PICK e \in Evictions(d) : DiskBecomes(e)
      BY <3>1
    <3>3. DiskOK(e) /\ e.bytes <= DiskMax
      BY <2>1, <3>1, <3>2, IndexedDisk, EvictedDisk
    <3> QED BY <2>1, <3>2, <3>3, CountAfter
  <2>3. CASE ~enabled'
    <3> DEFINE e == [files |-> files, index |-> << >>, queue |-> << >>, bytes |-> 0]
    <3>1. DiskBecomes(e)
      BY <1>12, <2>3 DEF RestartCache
    <3>2. DiskOK(e) /\ e.bytes = 0
      BY <2>1, EmptyDisk
    <3> HIDE DEF e
    <3> QED BY <1>2, <2>1, <3>1, <3>2, CountAfter
  <2> QED BY <2>2, <2>3
<1>13. ASSUME NEW u \in Assets, Damage(u) PROVE CountOK'
  <2> DEFINE e == [files |-> files', index |-> index, queue |-> lruQueue, bytes |-> diskBytes]
  <2>1. DiskBecomes(e) /\ written' = written
    BY <1>13 DEF Damage, DiskBecomes
  <2>2. FilesOK(files) /\ u \in DOMAIN files /\ files[u].size \in Nat
    BY <1>1, <1>13 DEF DiskOK, FilesOK, Damage
  <2>3. FilesOK(files') /\ \A v : IsWhole(files', v) => IsWhole(files, v) /\ files'[v] = files[v]
    <3>1. CASE files' = Without(files, {u})
      <4>1. /\ DOMAIN files' = DOMAIN files \ {u}
            /\ \A v \in DOMAIN files \ {u} : files'[v] = files[v]
        BY <3>1, WithoutValues
      <4>2. IsFiniteSet(DOMAIN files')
        BY <2>2, <4>1, FS_Subset DEF FilesOK
      <4> QED BY <2>2, <4>1, <4>2 DEF FilesOK, IsWhole
    <3>2. CASE files' = With(files, u, EmptyFile)
      BY <2>2, <3>2, SpoiltFiles DEF EmptyFile
    <3>3. CASE files' = With(files, u, [payload |-> Damaged, size |-> files[u].size])
      BY <2>2, <3>3, SpoiltFiles
    <3> QED BY <1>13, <3>1, <3>2, <3>3 DEF Damage
  <2>4. e.files = files' /\ e.index = Disk.index /\ e.queue = Disk.queue /\ e.bytes = Disk.bytes
    BY <1>1
  <2> HIDE DEF e
  <2>5. DiskOK(e)
    BY <1>1, <2>3, <2>4, ChangedFiles
  <2> QED BY <1>1, <2>1, <2>4, <2>5, CountAfter
<1>14. ASSUME UNCHANGED cacheVars PROVE CountOK'
  BY <1>3, <1>14 DEF cacheVars, diskVars
<1> QED BY <1>4, <1>5, <1>6, <1>9, <1>10, <1>11, <1>12, <1>13, <1>14 DEF NextCache

\* What the cache starts with is counted right.
LEMMA CountInit == InitCache => CountOK
<1> SUFFICES ASSUME InitCache PROVE CountOK
  OBVIOUS
<1> DEFINE e == [files |-> << >>, index |-> << >>, queue |-> << >>, bytes |-> 0]
<1>1. Disk = e /\ diskBytes = 0 /\ written = {}
  BY DEF InitCache, Disk
<1>2. FilesOK(<< >>)
  BY FS_EmptySet DEF FilesOK
<1>3. DiskOK(e)
  BY <1>2, EmptyDisk
<1> QED BY <1>1, <1>3, DiskAssumption, CountIs

\* The files and the index are of the sizes of their payloads, and the count
\* is of them.
THEOREM CountInvariant == SpecCache => []CountOK
<1> QED BY CountInit, CountStep, PTL DEF SpecCache

\* After any operations, failures, damage and restarts the bytes counted are
\* those of the files known, they are within the limit, and a file that was
\* just written is among them.
THEOREM DiskStaysInLimit == SpecCache => []DiskKeepsItsLimit
<1>1. CountOK => DiskKeepsItsLimit
  BY DEF CountOK
<1> QED BY <1>1, CountInvariant, PTL
=============================================================================
