----------------------------- MODULE AssetCache -----------------------------
(***************************************************************************)
(* AssetCache: decoded images in memory, each for a URL at the size of its *)
(* cell, and the downloaded payloads on disk, one file for each URL.  The  *)
(* files outlive the process, which may end at any time; each start makes  *)
(* the index anew.  What QCache drops to make room is left open.           *)
(***************************************************************************)
EXTENDS Naturals, FiniteSets, SequencesExt, Picks

CONSTANTS Assets,        \* canonical URLs, each of which names one file
          CellSizes,     \* decode bounds
          Payloads,      \* what the server may have for a URL
          FileSize,      \* of a payload with its header
          DiskMax,       \* diskMaxBytes
          MaxDigests,    \* maxPayloadDigests
          Damaged        \* contents that are not a payload with its checksum

ASSUME PayloadAssumption ==
  FileSize \in [Payloads -> Nat \ {0}] /\ Damaged \notin Payloads
ASSUME DiskAssumption == DiskMax \in Nat \ {0} /\ MaxDigests \in Nat

VARIABLES memory,        \* m_memoryCache: whose image a URL has at a size
          digests,       \* m_memoryPayloadDigests
          enabled,       \* m_diskStatus is Enabled
          index,         \* m_index: the sizes of the files it knows
          lruQueue,      \* m_lruQueue: the same files, least recent first
          diskBytes,     \* m_diskBytes
          files,         \* the cache directory
          written        \* history: the files that the last operation wrote

cacheVars == <<memory, digests, enabled, index, lruQueue, diskBytes, files, written>>
diskVars == <<index, lruQueue, diskBytes, files>>

EmptyFile == [payload |-> Damaged, size |-> 0]
FileOf(p) == [payload |-> p, size |-> FileSize[p]]

Without(f, S) == Restrict(f, DOMAIN f \ S)
With(f, x, y) == [z \in DOMAIN f \cup {x} |-> IF z = x THEN y ELSE f[z]]
Difference(n, m) == IF n > m THEN n - m ELSE 0

-----------------------------------------------------------------------------
(* The disk: setDiskEntryAccess(), removeDiskEntry(), evictIfNeeded() and  *)
(* buildIndex().  A removal of a file may fail, and is not tried again.    *)

Disk == [files |-> files, index |-> index, queue |-> lruQueue, bytes |-> diskBytes]
DiskBecomes(d) ==
  files' = d.files /\ index' = d.index /\ lruQueue' = d.queue /\ diskBytes' = d.bytes

SizeIn(d, u) == IF u \in DOMAIN d.index THEN d.index[u] ELSE 0
BytesIn(d, S) == UNION {{u} \X (1..SizeIn(d, u)) : u \in S}
BytesOf(d, S) == Cardinality(BytesIn(d, S))
Others(queue, S) == Picked(queue, {i \in DOMAIN queue : queue[i] \notin S})

\* Mutant: accesses are counted from one in every process, below the times
\* of the files that were found.
TouchedAsOldest(d, u) ==
  [files |-> d.files, index |-> d.index, bytes |-> d.bytes,
   queue |-> IF u \in DOMAIN d.index THEN <<u>> \o Others(d.queue, {u}) ELSE d.queue]

\* The file is the most recent now: nextAccess() is above every time of a
\* file and every access before.
Touched(d, u) ==
  [files |-> d.files, index |-> d.index, bytes |-> d.bytes,
   queue |-> IF u \in DOMAIN d.index THEN Append(Others(d.queue, {u}), u) ELSE d.queue]

WithFile(d, u, p) ==
  [files |-> With(d.files, u, FileOf(p)), index |-> With(d.index, u, FileSize[p]),
   queue |-> d.queue, bytes |-> Difference(d.bytes + FileSize[p], SizeIn(d, u))]

\* Mutant: the bytes of the files are still counted.
ForgottenButCounted(d, S, gone) ==
  [files |-> Without(d.files, gone), index |-> Without(d.index, S),
   queue |-> Others(d.queue, S), bytes |-> d.bytes]

Forgotten(d, S, gone) ==
  [files |-> Without(d.files, gone), index |-> Without(d.index, S),
   queue |-> Others(d.queue, S), bytes |-> Difference(d.bytes, BytesOf(d, S))]
Removals(d, S) == {Forgotten(d, S, gone) : gone \in SUBSET S}

\* Files go from the front of the queue until the rest is within the limit.
Victims(d) ==
  LET First(n) == ToSet(SubSeq(d.queue, 1, n))
      Suffices(n) == n = Len(d.queue) \/ d.bytes <= DiskMax + BytesOf(d, First(n))
  IN  First(CHOOSE n \in 0..Len(d.queue) : Suffices(n) /\ \A m \in 0..n - 1 : ~Suffices(m))
Evictions(d) == Removals(d, Victims(d))

\* Every file with contents is known, in the order of times that the clock
\* or the user may have changed.
FilesWithContents(F) == {u \in DOMAIN F : F[u].size > 0}
IndexedAs(F, order, gone) ==
  LET sizes == [u \in FilesWithContents(F) |-> F[u].size]
  IN  [files |-> Without(F, gone), index |-> sizes, queue |-> order,
       bytes |-> BytesOf([index |-> sizes], DOMAIN sizes)]
Indexed(F) ==
  {IndexedAs(F, order, gone) :
     order \in SetToSeqs(FilesWithContents(F)), gone \in SUBSET (DOMAIN F \ FilesWithContents(F))}

-----------------------------------------------------------------------------
(* The memory                                                              *)

\* promoteToMemory(): an image may be too large, and takes the place of others.
Promoted(m, u, c, p) ==
  {m} \cup {Restrict(With(m, <<u, c>>, p), K \cup {<<u, c>>}) : K \in SUBSET DOMAIN m}

\* Mutant: a URL without a digest is taken for unchanged.
ReplacesKnown(u, p) == u \in DOMAIN digests /\ digests[u] # p

Replaces(u, p) == u \notin DOMAIN digests \/ digests[u] # p

\* A payload other than the last one, as far as is known, takes the images of
\* the URL at every size away.  A full table of digests is begun anew.
StoreInMemory(u, p, c) ==
  /\ memory' \in
       Promoted(IF Replaces(u, p) THEN Without(memory, {u} \X CellSizes) ELSE memory, u, c, p)
  /\ digests' =
       With(IF u \notin DOMAIN digests /\ Cardinality(DOMAIN digests) >= MaxDigests
            THEN << >> ELSE digests, u, p)

-----------------------------------------------------------------------------
(* lookup()                                                                *)

MemoryHit(u, c) ==
  /\ <<u, c>> \in DOMAIN memory
  /\ DiskBecomes(Touched(Disk, u))
  /\ written' = {}
  /\ UNCHANGED <<memory, digests, enabled>>

IsWhole(F, u) == u \in DOMAIN F /\ F[u].payload \in Payloads

OnDiskOnly(u, c) ==
  <<u, c>> \notin DOMAIN memory /\ enabled /\ u \in DOMAIN index

\* The file is whole and decodes at the size asked for.
DiskHit(u, c) ==
  /\ OnDiskOnly(u, c) /\ IsWhole(files, u)
  /\ DiskBecomes(Touched(WithFile(Disk, u, files[u].payload), u))
  /\ memory' \in Promoted(memory, u, c, files[u].payload)
  /\ written' = {}
  /\ UNCHANGED <<digests, enabled>>

\* It is not, or cannot be decoded at any size.
DiskMiss(u, c) ==
  /\ OnDiskOnly(u, c)
  /\ \E d \in Removals(Disk, {u}) : DiskBecomes(d)
  /\ written' = {}
  /\ UNCHANGED <<memory, digests, enabled>>

-----------------------------------------------------------------------------
(* store() and storeMemoryOnly(), of what can be decoded                   *)

StoreWrites(u, p) ==
  /\ FileSize[p] <= DiskMax
  /\ \E d \in Evictions(Touched(WithFile(Disk, u, p), u)) : DiskBecomes(d)
  /\ written' = {u}

\* Mutant: what was there before is left.
FailsLeavingOld(u, p) ==
  /\ UNCHANGED diskVars
  /\ written' = {}

\* It is too large, or cannot be written: the old file must not stay.  In the
\* second case it is emptied first, and that may fail, like the removal.
StoreFails(u, p) ==
  /\ \E F \in IF FileSize[p] > DiskMax THEN {files} ELSE {files, With(files, u, EmptyFile)} :
       \E d \in Removals([Disk EXCEPT !.files = F], {u}) : DiskBecomes(d)
  /\ written' = {}

Store(u, p, c) ==
  /\ StoreInMemory(u, p, c)
  /\ IF enabled THEN StoreWrites(u, p) \/ StoreFails(u, p)
     ELSE written' = {} /\ UNCHANGED diskVars
  /\ UNCHANGED enabled

\* At another size, for another who waits: the caller has just stored it.
StoreMemoryOnly(u, p, c) ==
  /\ u \in DOMAIN digests /\ digests[u] = p
  /\ memory' \in Promoted(memory, u, c, p)
  /\ written' = {}
  /\ UNCHANGED <<digests, enabled, diskVars>>

ClearMemory ==
  /\ memory' = << >> /\ digests' = << >> /\ written' = {}
  /\ UNCHANGED <<enabled, diskVars>>

-----------------------------------------------------------------------------

\* The process ends, and another one opens the cache, if it can.
RestartCache ==
  /\ memory' = << >> /\ digests' = << >> /\ written' = {}
  /\ enabled' \in BOOLEAN
  /\ IF enabled'
     THEN \E found \in Indexed(files) : \E d \in Evictions(found) : DiskBecomes(d)
     ELSE DiskBecomes([files |-> files, index |-> << >>, queue |-> << >>, bytes |-> 0])

\* A file is removed, emptied or damaged from outside.
Damage(u) ==
  /\ u \in DOMAIN files
  /\ files' \in {Without(files, {u}), With(files, u, EmptyFile),
                 With(files, u, [payload |-> Damaged, size |-> files[u].size])}
  /\ UNCHANGED <<memory, digests, enabled, index, lruQueue, diskBytes, written>>

InitCache ==
  /\ memory = << >> /\ digests = << >> /\ enabled \in BOOLEAN
  /\ files = << >> /\ index = << >> /\ lruQueue = << >> /\ diskBytes = 0
  /\ written = {}

NextCache ==
  \/ \E u \in Assets, c \in CellSizes :
       \/ MemoryHit(u, c) \/ DiskHit(u, c) \/ DiskMiss(u, c)
       \/ \E p \in Payloads : Store(u, p, c) \/ StoreMemoryOnly(u, p, c)
  \/ ClearMemory \/ RestartCache
  \/ \E u \in Assets : Damage(u)

SpecCache == InitCache /\ [][NextCache]_cacheVars

-----------------------------------------------------------------------------
(* Properties                                                              *)

\* The images of a URL at all sizes are of one payload, the one that was
\* stored last as far as that is known; a file that would be read is of no
\* other.
ImageIs(m, u, p) == \E c \in CellSizes : <<u, c>> \in DOMAIN m /\ m[<<u, c>>] = p
DigestIs(g, u, p) == u \in DOMAIN g /\ g[u] = p
FileIs(d, u, p) == u \in DOMAIN d.index \cap DOMAIN d.files /\ d.files[u].payload = p
Keeps(u, p) == ImageIs(memory, u, p) \/ DigestIs(digests, u, p) \/ FileIs(Disk, u, p)
OneVersion == \A u \in Assets, p, q \in Payloads : Keeps(u, p) /\ Keeps(u, q) => p = q

\* The index, the queue and the count of bytes are of the same files,
Accounted ==
  /\ ToSet(lruQueue) = DOMAIN index /\ IsInjective(lruQueue)
  /\ diskBytes = BytesOf(Disk, DOMAIN index)
\* which are within the limit, and are not the first to go when they are new.
DiskKeepsItsLimit == Accounted /\ diskBytes <= DiskMax /\ written \subseteq DOMAIN index

\* Why that is: the files are finitely many, and one that is whole has the size
\* of its payload, in the directory and in the index.
SizesOK ==
  /\ IsFiniteSet(DOMAIN files) /\ DOMAIN files \subseteq Assets
  /\ \A u \in DOMAIN files :
       /\ files[u].size \in Nat
       /\ files[u].payload \in Payloads => files[u].size = FileSize[files[u].payload]
  /\ lruQueue \in Seq(Assets)
  /\ \A u \in DOMAIN index :
       /\ index[u] \in Nat
       /\ IsWhole(files, u) => index[u] = files[u].size
CountOK == SizesOK /\ DiskKeepsItsLimit
=============================================================================
