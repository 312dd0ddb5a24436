---------------------------- MODULE StoresProofs ----------------------------
(***************************************************************************)
(* What is proved about the cache of row blocks (BlockCache): copies and   *)
(* cached blocks are current, a buffer has one owner and the queue orders  *)
(* the cached blocks, for every set of blocks and readers, every size of   *)
(* the cache and of its pool, and every number of updates.                 *)
(* And about the fields that were added later (ColumnFields): a read gives *)
(* a document its own value or nothing, the first run finds every field,   *)
(* and a crash brings back what the file lists, for any fields, documents, *)
(* flushes and crashes.                                                    *)
(***************************************************************************)
EXTENDS BlockCache, ColumnFields, FiniteSetTheorems, SequenceTheorems,
        WellFoundedInduction, TLAPS

Reads == [step : {"idle", "wait", "load", "publish", "copy"},
          block : Blocks \cup {NoBlock}, buffer : Buffers \cup {NoBuffer}, due : Nat,
          reclaimed : BOOLEAN]
Updates == [step : {"idle", "lookup", "patch"}, block : Blocks \cup {NoBlock},
            loaded : BOOLEAN]

-----------------------------------------------------------------------------
(* The inductive invariant. *)

Typed ==
  /\ disk \in [Blocks -> 0 .. MaxUpdates] /\ settled \in [Blocks -> 0 .. MaxUpdates]
  /\ cacheSize \in Nat /\ maxPool \in Int
  /\ content \in [Buffers -> {<< >>} \cup (Blocks \X Nat)]
  /\ pool \in Seq(Buffers) /\ queue \in Seq(Blocks)
  /\ DOMAIN cells \subseteq Blocks /\ DOMAIN inserts \subseteq Blocks
  /\ \A k \in DOMAIN cells : cells[k] \in [buffer : Buffers, hits : 0 .. HitsToMove]
  /\ \A k \in DOMAIN inserts : inserts[k] \in [buffer : Buffers, locked : BOOLEAN]
  /\ reading \in [BlockReaders -> Reads]
  /\ updating \in Updates

\* A block is loaded by one reader, who has the lock of its insert, and it is
\* not cached.
LoadsExclude ==
  /\ DOMAIN cells \cap DOMAIN inserts = {}
  /\ \A r \in BlockReaders :
       /\ reading[r].step # "idle" => reading[r].block \in Blocks
       /\ reading[r].step = "wait" => reading[r].block \in DOMAIN inserts
       /\ reading[r].step \in {"load", "publish"} =>
            reading[r].block \in DOMAIN inserts /\ inserts[reading[r].block].locked = TRUE
  /\ \A r, s \in BlockReaders :
       reading[r].step \in {"load", "publish"} /\ reading[s].step \in {"load", "publish"}
         /\ reading[r].block = reading[s].block => r = s

\* Updates that returned are in the file, and those in the file have returned
\* but for one.
UpdatesSettle ==
  /\ updating.step = "idle" <=> updating.block = NoBlock
  /\ \A k \in Blocks : /\ settled[k] <= disk[k]
                       /\ updating.block # k => settled[k] = disk[k]
  /\ updating.step = "patch" /\ updating.loaded = FALSE => updating.block \in DOMAIN inserts

\* A buffer holds the block, as it was after the updates that returned or later.
HoldsRecent(held, least, most, b, k) ==
  \E n \in least[k] .. most[k] : held[b] = <<k, n>>
Holds(b, k) == HoldsRecent(content, settled, disk, b, k)

\* What is cached or about to be is no older than the updates that returned;
\* after a load that an update waited for it is current.
HeldIsRecent ==
  /\ \A k \in DOMAIN cells : Holds(cells[k].buffer, k)
  /\ \A r \in BlockReaders :
       reading[r].step = "publish" =>
         /\ Holds(inserts[reading[r].block].buffer, reading[r].block)
         /\ updating.step = "patch" /\ updating.loaded = TRUE
              /\ updating.block = reading[r].block =>
            content[inserts[reading[r].block].buffer]
              = <<reading[r].block, disk[reading[r].block]>>

\* A pointer that was not reclaimed points into the cache.
PointersAreCached ==
  \A r \in BlockReaders :
    /\ reading[r].step # "idle" => reading[r].due <= settled[reading[r].block]
    /\ reading[r].step = "copy" /\ reading[r].reclaimed = FALSE =>
         /\ reading[r].block \in DOMAIN cells
         /\ reading[r].buffer = cells[reading[r].block].buffer

IInv ==
  /\ Typed
  /\ LoadsExclude
  /\ UpdatesSettle
  /\ HeldIsRecent
  /\ PointersAreCached
  /\ BuffersHaveOneOwner
  /\ QueueOrdersTheCache

-----------------------------------------------------------------------------
(* Constants, sequences and buffers. *)

\* What is assumed of the constants.
LEMMA Bounds ==
  /\ IsFiniteSet(Blocks) /\ IsFiniteSet(BlockReaders) /\ NoBlock \notin Blocks
  /\ CacheSizes \subseteq Nat \ {0} /\ OverflowShare \in Nat \ {0}
  /\ UpdatedBlocks \subseteq Blocks
  /\ PoolSpare \in Nat /\ HitsToMove \in Nat /\ MaxUpdates \in Nat
  BY BlockCacheAssumption

\* Buffers are numbered from 1.
LEMMA BufferNumbers ==
  /\ IsFiniteSet(Buffers) /\ NoBuffer \notin Buffers
  /\ Cardinality(Buffers) >= 2 * Cardinality(Blocks)
<1>. DEFINE n == 2 * Cardinality(Blocks) + Cardinality(BlockReaders) + PoolSpare
<1>1. /\ Cardinality(Blocks) \in Nat /\ Cardinality(BlockReaders) \in Nat /\ PoolSpare \in Nat
  BY Bounds, FS_CardinalityType
<1>2. n \in Nat /\ n >= 2 * Cardinality(Blocks)
  BY <1>1
<1>3. Buffers = 1 .. n
  BY DEF Buffers
<1>. HIDE DEF n
<1>4. IsFiniteSet(1 .. n) /\ Cardinality(1 .. n) = n
  BY <1>2, FS_Interval
<1>. QED
  BY <1>2, <1>3, <1>4 DEF NoBuffer

\* A part of a number is no more than the number.
LEMMA Parts ==
  ASSUME NEW a \in Nat, NEW b \in Nat \ {0}
  PROVE  a \div b \in 0 .. a
  BY SMT

\* The members of a sequence.
LEMMA Members ==
  ASSUME NEW S, NEW s \in Seq(S)
  PROVE  /\ DOMAIN s = 1 .. Len(s) /\ Len(s) \in Nat
         /\ ToSet(s) = {s[i] : i \in 1 .. Len(s)}
         /\ ToSet(s) \subseteq S
         /\ IsInjective(s) <=> \A i, j \in 1 .. Len(s) : s[i] = s[j] => i = j
<1>1. DOMAIN s = 1 .. Len(s) /\ Len(s) \in Nat /\ \A i \in 1 .. Len(s) : s[i] \in S
  OBVIOUS
<1>. QED
  BY <1>1 DEF ToSet, IsInjective

\* A sequence, cut in two.
LEMMA Cut ==
  ASSUME NEW S, NEW s \in Seq(S), NEW n \in 0 .. Len(s)
  PROVE  /\ SubSeq(s, 1, n) \in Seq(S) /\ Len(SubSeq(s, 1, n)) = n
         /\ \A i \in 1 .. n : SubSeq(s, 1, n)[i] = s[i]
         /\ SubSeq(s, n + 1, Len(s)) \in Seq(S)
         /\ Len(SubSeq(s, n + 1, Len(s))) = Len(s) - n
         /\ \A i \in 1 .. Len(s) - n : SubSeq(s, n + 1, Len(s))[i] = s[n + i]
  OBVIOUS

\* Without repetitions, the two parts share nothing.
LEMMA CutApart ==
  ASSUME NEW S, NEW s \in Seq(S), NEW n \in 0 .. Len(s), IsInjective(s)
  PROVE  /\ IsInjective(SubSeq(s, 1, n)) /\ IsInjective(SubSeq(s, n + 1, Len(s)))
         /\ ToSet(SubSeq(s, 1, n)) \subseteq ToSet(s)
         /\ ToSet(SubSeq(s, n + 1, Len(s))) = ToSet(s) \ ToSet(SubSeq(s, 1, n))
<1>. DEFINE first == SubSeq(s, 1, n)
            rest == SubSeq(s, n + 1, Len(s))
<1>1. /\ first \in Seq(S) /\ Len(first) = n /\ \A i \in 1 .. n : first[i] = s[i]
      /\ rest \in Seq(S) /\ Len(rest) = Len(s) - n
      /\ \A i \in 1 .. Len(s) - n : rest[i] = s[n + i]
  BY Cut
<1>2. Len(s) \in Nat /\ n \in Nat /\ n <= Len(s)
  OBVIOUS
<1>. HIDE DEF first, rest
<1>3. \A i, j \in 1 .. Len(s) : s[i] = s[j] => i = j
  BY Members
<1>4. IsInjective(first)
  <2>1. ASSUME NEW i \in 1 .. n, NEW j \in 1 .. n, first[i] = first[j]
        PROVE  i = j
    <3>1. i \in 1 .. Len(s) /\ j \in 1 .. Len(s)
      BY <1>2
    <3>2. s[i] = s[j]
      BY <1>1, <2>1
    <3>. QED
      BY <1>3, <3>1, <3>2
  <2>2. IsInjective(first) <=> \A i, j \in 1 .. n : first[i] = first[j] => i = j
    BY <1>1, Members
  <2>. QED
    BY <2>1, <2>2
<1>5. IsInjective(rest)
  <2>1. ASSUME NEW i \in 1 .. Len(s) - n, NEW j \in 1 .. Len(s) - n, rest[i] = rest[j]
        PROVE  i = j
    <3>1. n + i \in 1 .. Len(s) /\ n + j \in 1 .. Len(s) /\ s[n + i] = s[n + j]
      BY <1>1, <1>2, <2>1
    <3>2. n + i = n + j
      BY <1>3, <3>1
    <3>. QED
      BY <1>2, <3>2
  <2>. QED
    BY <1>1, <2>1, Members
<1>6. /\ ToSet(first) = {first[i] : i \in 1 .. n}
      /\ ToSet(rest) = {rest[i] : i \in 1 .. Len(s) - n}
      /\ ToSet(s) = {s[i] : i \in 1 .. Len(s)}
  BY <1>1, Members
<1>7. ToSet(first) \subseteq ToSet(s)
  BY <1>1, <1>2, <1>6
<1>8. \A x \in ToSet(rest) : x \in ToSet(s) /\ x \notin ToSet(first)
  <2>. TAKE x \in ToSet(rest)
  <2>1. PICK i \in 1 .. Len(s) - n : x = s[n + i]
    BY <1>1, <1>6
  <2>2. n + i \in 1 .. Len(s) /\ n + i > n
    BY <1>2
  <2>3. \A j \in 1 .. n : first[j] # x
    BY <1>1, <1>2, <1>3, <2>1, <2>2
  <2>. QED
    BY <1>6, <2>1, <2>2, <2>3
<1>9. \A x \in ToSet(s) \ ToSet(first) : x \in ToSet(rest)
  <2>. TAKE x \in ToSet(s) \ ToSet(first)
  <2>1. PICK j \in 1 .. Len(s) : x = s[j]
    BY <1>6
  <2>2. j > n
    BY <1>1, <1>2, <1>6, <2>1
  <2>3. j - n \in 1 .. Len(s) - n /\ rest[j - n] = s[n + (j - n)] /\ n + (j - n) = j
    BY <1>1, <1>2, <2>2
  <2>. QED
    BY <1>6, <2>1, <2>3
<1>. QED
  BY <1>4, <1>5, <1>7, <1>8, <1>9 DEF first, rest

\* Two sequences that share nothing, one behind the other.
LEMMA Joined ==
  ASSUME NEW S, NEW s \in Seq(S), NEW t \in Seq(S), IsInjective(s), IsInjective(t),
         ToSet(s) \cap ToSet(t) = {}
  PROVE  /\ s \o t \in Seq(S) /\ Len(s \o t) = Len(s) + Len(t)
         /\ IsInjective(s \o t)
         /\ ToSet(s \o t) = ToSet(s) \cup ToSet(t)
<1>. DEFINE u == s \o t
<1>1. /\ u \in Seq(S) /\ Len(u) = Len(s) + Len(t)
      /\ \A i \in 1 .. Len(s) : u[i] = s[i]
      /\ \A i \in 1 .. Len(t) : u[Len(s) + i] = t[i]
  OBVIOUS
<1>2. Len(s) \in Nat /\ Len(t) \in Nat
  OBVIOUS
<1>. HIDE DEF u
<1>3. /\ ToSet(s) = {s[i] : i \in 1 .. Len(s)} /\ ToSet(t) = {t[i] : i \in 1 .. Len(t)}
      /\ ToSet(u) = {u[i] : i \in 1 .. Len(u)}
      /\ \A i, j \in 1 .. Len(s) : s[i] = s[j] => i = j
      /\ \A i, j \in 1 .. Len(t) : t[i] = t[j] => i = j
  <2>1. ToSet(s) = {s[i] : i \in 1 .. Len(s)} /\ \A i, j \in 1 .. Len(s) : s[i] = s[j] => i = j
    BY Members
  <2>2. ToSet(t) = {t[i] : i \in 1 .. Len(t)} /\ \A i, j \in 1 .. Len(t) : t[i] = t[j] => i = j
    BY Members
  <2>3. ToSet(u) = {u[i] : i \in 1 .. Len(u)}
    <3>1. u \in Seq(S)
      BY <1>1
    <3>. QED
      BY <3>1, Members
  <2>. QED
    BY <2>1, <2>2, <2>3
<1>4. \A i \in 1 .. Len(u) : \/ i \in 1 .. Len(s) /\ u[i] = s[i]
                             \/ i - Len(s) \in 1 .. Len(t) /\ u[i] = t[i - Len(s)]
  <2>. TAKE i \in 1 .. Len(u)
  <2>1. CASE i <= Len(s)
    BY <1>1, <1>2, <2>1
  <2>2. CASE i > Len(s)
    <3>1. i - Len(s) \in 1 .. Len(t) /\ Len(s) + (i - Len(s)) = i
      BY <1>1, <1>2, <2>2
    <3>. QED
      BY <1>1, <3>1
  <2>. QED
    BY <1>1, <1>2, <2>1, <2>2
<1>5. ToSet(u) = ToSet(s) \cup ToSet(t)
  <2>1. \A x \in ToSet(u) : x \in ToSet(s) \cup ToSet(t)
    BY <1>3, <1>4
  <2>2. \A x \in ToSet(s) : x \in ToSet(u)
    BY <1>1, <1>2, <1>3
  <2>3. \A x \in ToSet(t) : x \in ToSet(u)
    <3>. TAKE x \in ToSet(t)
    <3>1. PICK i \in 1 .. Len(t) : x = t[i]
      BY <1>3
    <3>2. Len(s) + i \in 1 .. Len(u) /\ u[Len(s) + i] = x
      BY <1>1, <1>2, <3>1
    <3>. QED
      BY <1>3, <3>2
  <2>. QED
    BY <2>1, <2>2, <2>3
<1>6. \A i, j \in 1 .. Len(u) : u[i] = u[j] => i = j
  <2>. SUFFICES ASSUME NEW i \in 1 .. Len(u), NEW j \in 1 .. Len(u), u[i] = u[j] PROVE i = j
    OBVIOUS
  <2>1. CASE i \in 1 .. Len(s) /\ j \in 1 .. Len(s)
    BY <1>1, <1>3, <2>1
  <2>2. CASE i \in 1 .. Len(s) /\ j \notin 1 .. Len(s)
    <3>1. u[i] \in ToSet(s) /\ u[j] \in ToSet(t)
      BY <1>1, <1>3, <1>4, <2>2
    <3>. QED
      BY <3>1
  <2>3. CASE i \notin 1 .. Len(s) /\ j \in 1 .. Len(s)
    <3>1. u[j] \in ToSet(s)
      BY <1>1, <1>3, <2>3
    <3>2. i - Len(s) \in 1 .. Len(t) /\ u[i] = t[i - Len(s)]
      BY <1>4, <2>3
    <3>3. u[i] \in ToSet(t)
      BY <1>3, <3>2
    <3>. QED
      BY <3>1, <3>3
  <2>4. CASE i \notin 1 .. Len(s) /\ j \notin 1 .. Len(s)
    <3>1. /\ i - Len(s) \in 1 .. Len(t) /\ j - Len(s) \in 1 .. Len(t)
          /\ t[i - Len(s)] = t[j - Len(s)]
      BY <1>4, <2>4
    <3>2. i - Len(s) = j - Len(s)
      BY <1>3, <3>1
    <3>. QED
      BY <1>2, <3>2
  <2>. QED
    BY <2>1, <2>2, <2>3, <2>4
<1>. QED
  BY <1>1, <1>5, <1>6, Members DEF u

\* How many blocks are evicted, and that the others fit.
LEMMA EvictedFits ==
  ASSUME NEW S, NEW order \in Seq(S), NEW size \in Nat
  PROVE  /\ Evicted(order, size) \in 0 .. Len(order)
         /\ Len(order) - Evicted(order, size) <= size
<1>1. size \div OverflowShare \in 0 .. size
  BY Bounds, Parts
<1>2. MaxSize(size) \in 0 .. size
  BY <1>1 DEF MaxSize, MaxOverflow
<1>3. Len(order) \in Nat
  OBVIOUS
<1>. QED
  BY <1>2, <1>3 DEF Evicted

\* ReclaimBuffer puts into the pool what it is given, or deletes the front.
LEMMA ReclaimFits ==
  ASSUME Typed, NEW freed \in Seq(Buffers), NEW used \in Int,
         IsInjective(pool), IsInjective(freed), ToSet(pool) \cap ToSet(freed) = {}
  PROVE  /\ Reclaim(freed, used) \in Seq(Buffers)
         /\ IsInjective(Reclaim(freed, used))
         /\ ToSet(Reclaim(freed, used)) \subseteq ToSet(pool) \cup ToSet(freed)
<1>. DEFINE all == pool \o freed
            dropped == Clamped(Len(all) + used - maxPool, Len(freed))
<1>1. /\ all \in Seq(Buffers) /\ Len(all) = Len(pool) + Len(freed) /\ IsInjective(all)
      /\ ToSet(all) = ToSet(pool) \cup ToSet(freed)
  BY Joined DEF Typed
<1>2. Len(pool) \in Nat /\ Len(freed) \in Nat /\ maxPool \in Int
  BY DEF Typed
<1>. HIDE DEF all
<1>3. dropped \in 0 .. Len(all)
  BY <1>1, <1>2 DEF Clamped
<1>. HIDE DEF dropped
<1>4. /\ SubSeq(all, dropped + 1, Len(all)) \in Seq(Buffers)
      /\ IsInjective(SubSeq(all, dropped + 1, Len(all)))
      /\ ToSet(SubSeq(all, dropped + 1, Len(all))) \subseteq ToSet(all)
  <2>1. SubSeq(all, dropped + 1, Len(all)) \in Seq(Buffers)
    BY <1>1, <1>3, Cut
  <2>2. /\ IsInjective(SubSeq(all, dropped + 1, Len(all)))
        /\ ToSet(SubSeq(all, dropped + 1, Len(all)))
             = ToSet(all) \ ToSet(SubSeq(all, 1, dropped))
    BY <1>1, <1>3, CutApart
  <2>. QED
    BY <2>1, <2>2
<1>. QED
  BY <1>1, <1>4 DEF Reclaim, all, dropped

\* When the pool is empty there is memory for one block more.
LEMMA MemoryIsLeft ==
  ASSUME IInv, NEW k \in Blocks, k \notin DOMAIN cells, k \notin DOMAIN inserts
  PROVE  \E b \in Buffers : b \notin InUse
<1>. DEFINE others == Blocks \ {k}
<1>1. /\ IsFiniteSet(others) /\ Cardinality(others) = Cardinality(Blocks) - 1
      /\ Cardinality(Blocks) \in Nat /\ Cardinality(others) \in Nat
  BY Bounds, FS_RemoveElement, FS_CardinalityType
<1>2. DOMAIN cells \in SUBSET others /\ DOMAIN inserts \in SUBSET others
  BY DEF IInv, Typed
<1>. HIDE DEF others
<1>3. /\ IsFiniteSet(DOMAIN cells) /\ Cardinality(DOMAIN cells) <= Cardinality(others)
      /\ IsFiniteSet(DOMAIN inserts) /\ Cardinality(DOMAIN inserts) <= Cardinality(others)
  BY <1>1, <1>2, FS_Subset
<1>4. IsFiniteSet(Cached) /\ Cardinality(Cached) <= Cardinality(DOMAIN cells)
  <2>. DEFINE f == [j \in DOMAIN cells |-> cells[j].buffer]
  <2>1. f \in Surjection(DOMAIN cells, Cached)
    BY DEF Surjection, Cached
  <2>. QED
    BY <1>3, <2>1, FS_Surjection
<1>5. IsFiniteSet(Loading) /\ Cardinality(Loading) <= Cardinality(DOMAIN inserts)
  <2>. DEFINE f == [j \in DOMAIN inserts |-> inserts[j].buffer]
  <2>1. f \in Surjection(DOMAIN inserts, Loading)
    BY DEF Surjection, Loading
  <2>. QED
    BY <1>3, <2>1, FS_Surjection
<1>6. /\ Cardinality(Cached) \in Nat /\ Cardinality(Loading) \in Nat
      /\ Cardinality(Cached \cap Loading) \in Nat
      /\ Cardinality(DOMAIN cells) \in Nat /\ Cardinality(DOMAIN inserts) \in Nat
  BY <1>3, <1>4, <1>5, FS_CardinalityType, FS_Intersection
<1>7. /\ IsFiniteSet(InUse)
      /\ Cardinality(InUse) = Cardinality(Cached) + Cardinality(Loading)
                               - Cardinality(Cached \cap Loading)
  BY <1>4, <1>5, FS_Union DEF InUse
<1>8. Cardinality(InUse) < 2 * Cardinality(Blocks)
  BY <1>1, <1>3, <1>4, <1>5, <1>6, <1>7
<1>9. ASSUME Buffers \in SUBSET InUse PROVE FALSE
  <2>1. Cardinality(Buffers) <= Cardinality(InUse)
    BY <1>7, <1>9, FS_Subset
  <2>2. Cardinality(Buffers) \in Nat /\ Cardinality(InUse) \in Nat
    BY <1>7, BufferNumbers, FS_CardinalityType
  <2>. QED
    BY <1>1, <1>8, <2>1, <2>2, BufferNumbers
<1>. QED
  BY <1>9

\* GetBuffer gives a buffer that nobody has.
LEMMA NextBufferIsFree ==
  ASSUME IInv, NEW k \in Blocks, k \notin DOMAIN cells, k \notin DOMAIN inserts
  PROVE  /\ NextBuffer \in Buffers /\ NextBuffer \notin InUse
         /\ PoolAfterGet \in Seq(Buffers) /\ IsInjective(PoolAfterGet)
         /\ ToSet(PoolAfterGet) \subseteq ToSet(pool) \ {NextBuffer}
<1>1. pool \in Seq(Buffers) /\ IsInjective(pool) /\ ToSet(pool) \cap InUse = {}
  BY DEF IInv, Typed, BuffersHaveOneOwner
<1>2. CASE pool = << >>
  <2>1. NextBuffer \in Buffers /\ NextBuffer \notin InUse
    BY <1>2, MemoryIsLeft DEF NextBuffer
  <2>2. PoolAfterGet = pool /\ ToSet(pool) = {}
    BY <1>2 DEF PoolAfterGet, ToSet
  <2>. QED
    BY <1>1, <2>1, <2>2
<1>3. CASE pool # << >>
  <2>1. /\ NextBuffer = Head(pool) /\ PoolAfterGet = Tail(pool)
        /\ Len(pool) >= 1
    BY <1>1, <1>3 DEF NextBuffer, PoolAfterGet
  <2>2. /\ SubSeq(pool, 2, Len(pool)) = Tail(pool) /\ Head(pool) = pool[1]
        /\ 1 \in 0 .. Len(pool) /\ 1 + 1 = 2
    BY <1>1, <2>1
  <2>3. /\ Tail(pool) \in Seq(Buffers) /\ IsInjective(Tail(pool))
        /\ ToSet(Tail(pool)) = ToSet(pool) \ ToSet(SubSeq(pool, 1, 1))
    <3>1. SubSeq(pool, 1 + 1, Len(pool)) = Tail(pool)
      BY <2>2
    <3>2. SubSeq(pool, 1 + 1, Len(pool)) \in Seq(Buffers)
      BY <1>1, <2>2, Cut
    <3>3. /\ IsInjective(SubSeq(pool, 1 + 1, Len(pool)))
          /\ ToSet(SubSeq(pool, 1 + 1, Len(pool))) = ToSet(pool) \ ToSet(SubSeq(pool, 1, 1))
      BY <1>1, <2>2, CutApart
    <3>. QED
      BY <3>1, <3>2, <3>3
  <2>4. pool[1] \in ToSet(SubSeq(pool, 1, 1))
    <3>1. SubSeq(pool, 1, 1) \in Seq(Buffers) /\ Len(SubSeq(pool, 1, 1)) = 1
          /\ SubSeq(pool, 1, 1)[1] = pool[1]
      BY <1>1, <2>2, Cut
    <3>. QED
      BY <3>1 DEF ToSet
  <2>5. pool[1] \in ToSet(pool) /\ pool[1] \in Buffers
    BY <1>1, <2>1 DEF ToSet
  <2>. QED
    BY <1>1, <2>1, <2>2, <2>3, <2>4, <2>5
<1>. QED
  BY <1>2, <1>3

-----------------------------------------------------------------------------
(* The steps of the readers. *)

\* BuffersHaveOneOwner, of the cache, the inserts and the pool.
Owned(c, i, p) ==
  /\ IsInjective(p)
  /\ \A j \in DOMAIN c, k \in DOMAIN i : c[j].buffer # i[k].buffer
  /\ \A k \in DOMAIN c : c[k].buffer \notin ToSet(p)
  /\ \A k \in DOMAIN i : i[k].buffer \notin ToSet(p)
  /\ \A j, k \in DOMAIN c : c[j].buffer = c[k].buffer => j = k
  /\ \A j, k \in DOMAIN i : i[j].buffer = i[k].buffer => j = k

\* That is what it means, before and after a step.
LEMMA OwnersMean ==
  /\ BuffersHaveOneOwner <=> Owned(cells, inserts, pool)
  /\ BuffersHaveOneOwner' <=> Owned(cells', inserts', pool')
<1>1. BuffersHaveOneOwner <=> Owned(cells, inserts, pool)
  <2>1. Cached \cap Loading = {} <=>
          \A j \in DOMAIN cells, k \in DOMAIN inserts : cells[j].buffer # inserts[k].buffer
    BY DEF Cached, Loading
  <2>2. ToSet(pool) \cap InUse = {} <=>
          /\ \A k \in DOMAIN cells : cells[k].buffer \notin ToSet(pool)
          /\ \A k \in DOMAIN inserts : inserts[k].buffer \notin ToSet(pool)
    BY DEF Cached, Loading, InUse
  <2>. QED
    BY <2>1, <2>2 DEF BuffersHaveOneOwner, Owned
<1>2. BuffersHaveOneOwner' <=> Owned(cells', inserts', pool')
  <2>1. (Cached \cap Loading = {})' <=>
          \A j \in DOMAIN cells', k \in DOMAIN inserts' : cells'[j].buffer # inserts'[k].buffer
    BY DEF Cached, Loading
  <2>2. (ToSet(pool) \cap InUse = {})' <=>
          /\ \A k \in DOMAIN cells' : cells'[k].buffer \notin ToSet(pool')
          /\ \A k \in DOMAIN inserts' : inserts'[k].buffer \notin ToSet(pool')
    BY DEF Cached, Loading, InUse
  <2>. QED
    BY <2>1, <2>2 DEF BuffersHaveOneOwner, Owned
<1>. QED
  BY <1>1, <1>2

\* HeldIsRecent, of what the buffers hold and who points to them.
HeldIn(held, least, most, c, i, reads, update) ==
  /\ \A k \in DOMAIN c : HoldsRecent(held, least, most, c[k].buffer, k)
  /\ \A r \in BlockReaders :
       reads[r].step = "publish" =>
         /\ HoldsRecent(held, least, most, i[reads[r].block].buffer, reads[r].block)
         /\ update.step = "patch" /\ update.loaded = TRUE /\ update.block = reads[r].block =>
              held[i[reads[r].block].buffer] = <<reads[r].block, most[reads[r].block]>>

\* The operator says the same of this state and of the next.
LEMMA HeldMeans ==
  /\ HeldIsRecent <=> HeldIn(content, settled, disk, cells, inserts, reading, updating)
  /\ HeldIsRecent' <=> HeldIn(content', settled', disk', cells', inserts', reading', updating')
  BY DEF HeldIsRecent, HeldIn, Holds, HoldsRecent

\* The fields of a read, an insert and an update.
LEMMA StepFields ==
  ASSUME Typed
  PROVE  /\ \A r \in BlockReaders :
              /\ reading[r] \in Reads
              /\ reading[r].step \in {"idle", "wait", "load", "publish", "copy"}
              /\ reading[r].block \in Blocks \cup {NoBlock}
              /\ reading[r].buffer \in Buffers \cup {NoBuffer} /\ reading[r].due \in Nat
              /\ reading[r].reclaimed \in BOOLEAN
         /\ \A k \in DOMAIN inserts : inserts[k].buffer \in Buffers /\ inserts[k].locked \in BOOLEAN
         /\ \A k \in DOMAIN cells : cells[k].buffer \in Buffers /\ cells[k].hits \in 0 .. HitsToMove
         /\ \A k \in Blocks : settled[k] \in Nat /\ disk[k] \in Nat
         /\ updating.step \in {"idle", "lookup", "patch"}
         /\ updating.block \in Blocks \cup {NoBlock} /\ updating.loaded \in BOOLEAN
<1>1. \A r \in BlockReaders : reading[r] \in Reads
  BY DEF Typed
<1>2. \A r \in BlockReaders :
        /\ reading[r].step \in {"idle", "wait", "load", "publish", "copy"}
        /\ reading[r].block \in Blocks \cup {NoBlock}
        /\ reading[r].buffer \in Buffers \cup {NoBuffer} /\ reading[r].due \in Nat
        /\ reading[r].reclaimed \in BOOLEAN
  BY <1>1 DEF Reads
<1>3. \A k \in DOMAIN inserts : inserts[k].buffer \in Buffers /\ inserts[k].locked \in BOOLEAN
  BY DEF Typed
<1>4. \A k \in DOMAIN cells : cells[k].buffer \in Buffers /\ cells[k].hits \in 0 .. HitsToMove
  BY DEF Typed
<1>5. \A k \in Blocks : settled[k] \in Nat /\ disk[k] \in Nat
  BY Bounds DEF Typed
<1>6. /\ updating.step \in {"idle", "lookup", "patch"}
      /\ updating.block \in Blocks \cup {NoBlock} /\ updating.loaded \in BOOLEAN
  BY DEF Typed, Updates
<1>. QED
  BY <1>1, <1>2, <1>3, <1>4, <1>5, <1>6

\* An empty cache satisfies the invariant.
LEMMA InitHolds == CacheInit => IInv
<1>. SUFFICES ASSUME CacheInit PROVE IInv
  OBVIOUS
<1>. USE DEF CacheInit
<1>1. /\ DOMAIN cells = {} /\ DOMAIN inserts = {} /\ ToSet(queue) = {} /\ ToSet(pool) = {}
      /\ IsInjective(queue) /\ IsInjective(pool) /\ Len(queue) = 0
  BY DEF ToSet, IsInjective
<1>2. NotReadingBlock \in Reads /\ NotUpdating \in Updates
  BY DEF NotReadingBlock, Reads, NotUpdating, Updates
<1>3. Typed
  <2>1. cacheSize \in Nat /\ maxPool \in Int
    BY Bounds
  <2>2. disk \in [Blocks -> 0 .. MaxUpdates] /\ settled \in [Blocks -> 0 .. MaxUpdates]
    BY Bounds
  <2>. QED
    BY <1>1, <1>2, <2>1, <2>2 DEF Typed
<1>4. LoadsExclude /\ PointersAreCached
  BY <1>1 DEF LoadsExclude, PointersAreCached, NotReadingBlock
<1>5. UpdatesSettle
  BY DEF UpdatesSettle, NotUpdating
<1>6. HeldIsRecent
  BY <1>1 DEF HeldIsRecent, NotReadingBlock
<1>7. BuffersHaveOneOwner
  BY <1>1, OwnersMean DEF Owned
<1>8. QueueOrdersTheCache
  BY <1>1, Bounds DEF QueueOrdersTheCache
<1>. QED
  BY <1>3, <1>4, <1>5, <1>6, <1>7, <1>8 DEF IInv

\* A hit reorders the queue.
LEMMA QueueReordered ==
  ASSUME IInv, NEW k \in DOMAIN cells
  PROVE  /\ QueueAfterHit(k) \in Seq(Blocks) /\ IsInjective(QueueAfterHit(k))
         /\ ToSet(QueueAfterHit(k)) = ToSet(queue) /\ Len(QueueAfterHit(k)) = Len(queue)
<1>1. queue \in Seq(Blocks) /\ IsInjective(queue) /\ k \in ToSet(queue)
  BY DEF IInv, Typed, QueueOrdersTheCache
<1>. DEFINE n == CHOOSE i \in DOMAIN queue : queue[i] = k
<1>2. n \in 1 .. Len(queue) /\ queue[n] = k /\ Len(queue) \in Nat
  BY <1>1 DEF ToSet
<1>. HIDE DEF n
<1>. DEFINE first == SubSeq(queue, 1, n - 1)
            upto == SubSeq(queue, 1, n)
            rest == SubSeq(queue, n + 1, Len(queue))
<1>3. /\ first \in Seq(Blocks) /\ Len(first) = n - 1 /\ IsInjective(first)
      /\ \A i \in 1 .. n - 1 : first[i] = queue[i]
  <2>1. n - 1 \in 0 .. Len(queue)
    BY <1>2
  <2>. QED
    BY <1>1, <2>1, Cut, CutApart
<1>4. /\ upto \in Seq(Blocks) /\ Len(upto) = n
      /\ \A i \in 1 .. n : upto[i] = queue[i]
      /\ rest \in Seq(Blocks) /\ Len(rest) = Len(queue) - n
  <2>1. n \in 0 .. Len(queue)
    BY <1>2
  <2>. QED
    BY <1>1, <2>1, Cut
<1>5. /\ IsInjective(rest) /\ ToSet(rest) = ToSet(queue) \ ToSet(upto)
      /\ ToSet(upto) \subseteq ToSet(queue)
  <2>1. n \in 0 .. Len(queue)
    BY <1>2
  <2>. QED
    BY <1>1, <2>1, CutApart
<1>. HIDE DEF first, upto, rest
<1>6. ToSet(upto) = ToSet(first) \cup {k} /\ k \notin ToSet(first)
  <2>1. ToSet(first) = {first[i] : i \in 1 .. n - 1}
    BY <1>3, Members
  <2>2. ToSet(upto) = {upto[i] : i \in 1 .. n}
    BY <1>4, Members
  <2>3. \A i, j \in 1 .. Len(queue) : queue[i] = queue[j] => i = j
    BY <1>1, Members
  <2>4. \A x \in ToSet(upto) : x \in ToSet(first) \cup {k}
    BY <1>2, <1>3, <1>4, <2>1, <2>2
  <2>5. \A x \in ToSet(first) : x \in ToSet(upto) /\ x # k
    BY <1>2, <1>3, <1>4, <2>1, <2>2, <2>3
  <2>6. k \in ToSet(upto)
    BY <1>2, <1>4, <2>2
  <2>. QED
    BY <2>4, <2>5, <2>6
<1>. DEFINE without == first \o rest
<1>7. /\ without \in Seq(Blocks) /\ Len(without) = Len(queue) - 1 /\ IsInjective(without)
      /\ ToSet(without) = ToSet(queue) \ {k}
  <2>1. ToSet(first) \cap ToSet(rest) = {}
    BY <1>5, <1>6
  <2>2. /\ without \in Seq(Blocks) /\ Len(without) = Len(first) + Len(rest)
        /\ IsInjective(without) /\ ToSet(without) = ToSet(first) \cup ToSet(rest)
    <3>1. first \in Seq(Blocks) /\ rest \in Seq(Blocks) /\ IsInjective(first) /\ IsInjective(rest)
      BY <1>3, <1>4, <1>5
    <3>. QED
      BY <2>1, <3>1, Joined
  <2>3. Len(first) + Len(rest) = Len(queue) - 1
    BY <1>2, <1>3, <1>4
  <2>4. ToSet(first) \cup ToSet(rest) = ToSet(queue) \ {k}
    BY <1>5, <1>6
  <2>. QED
    BY <2>2, <2>3, <2>4
<1>. HIDE DEF without
<1>8. /\ <<k>> \in Seq(Blocks) /\ Len(<<k>>) = 1 /\ IsInjective(<<k>>) /\ ToSet(<<k>>) = {k}
  BY DEF IsInjective, ToSet, IInv, Typed
<1>9. /\ without \o <<k>> \in Seq(Blocks) /\ Len(without \o <<k>>) = Len(queue)
      /\ IsInjective(without \o <<k>>) /\ ToSet(without \o <<k>>) = ToSet(queue)
  <2>1. ToSet(without) \cap ToSet(<<k>>) = {}
    BY <1>7, <1>8
  <2>2. /\ without \o <<k>> \in Seq(Blocks) /\ Len(without \o <<k>>) = Len(without) + Len(<<k>>)
        /\ IsInjective(without \o <<k>>)
        /\ ToSet(without \o <<k>>) = ToSet(without) \cup ToSet(<<k>>)
    <3>. DEFINE last == <<k>>
    <3>1. /\ without \in Seq(Blocks) /\ last \in Seq(Blocks) /\ IsInjective(without)
          /\ IsInjective(last) /\ ToSet(without) \cap ToSet(last) = {}
      BY <1>7, <1>8, <2>1
    <3>. HIDE DEF last
    <3>2. /\ without \o last \in Seq(Blocks) /\ Len(without \o last) = Len(without) + Len(last)
          /\ IsInjective(without \o last)
          /\ ToSet(without \o last) = ToSet(without) \cup ToSet(last)
      BY <3>1, Joined
    <3>. QED
      BY <3>2 DEF last
  <2>3. Len(without) + Len(<<k>>) = Len(queue)
    BY <1>2, <1>7, <1>8
  <2>4. ToSet(without) \cup ToSet(<<k>>) = ToSet(queue)
    BY <1>1, <1>7, <1>8
  <2>. QED
    BY <2>2, <2>3, <2>4
<1>10. Append(without, k) = without \o <<k>>
  BY <1>1, <1>7 DEF IInv, Typed
<1>11. QueueAfterHit(k) \in {queue, Append(without, k)}
  BY DEF QueueAfterHit, RemoveAt, without, first, rest, n
<1>. QED
  BY <1>1, <1>9, <1>10, <1>11

\* A read that finds its block.
LEMMA HitKeeps ==
  ASSUME IInv, NEW r \in BlockReaders, NEW k \in Blocks, Lookup(r, k), k \in DOMAIN cells
  PROVE  IInv'
<1>. DEFINE new == [NotReadingBlock EXCEPT !.step = "copy", !.block = k,
                      !.buffer = cells[k].buffer, !.due = settled[k]]
<1>1. /\ reading[r].step = "idle" /\ cells' = Hit(k) /\ queue' = QueueAfterHit(k)
      /\ reading' = [reading EXCEPT ![r] = new]
      /\ UNCHANGED <<disk, settled, cacheSize, maxPool, content, updating, inserts, pool>>
  BY DEF Lookup
<1>2. /\ cells[k].buffer \in Buffers /\ cells[k].hits \in 0 .. HitsToMove /\ settled[k] \in Nat
      /\ cells[k] \in [buffer : Buffers, hits : 0 .. HitsToMove]
  BY StepFields DEF IInv, Typed
<1>3. /\ new \in Reads /\ new.step = "copy" /\ new.block = k /\ new.buffer = cells[k].buffer
      /\ new.due = settled[k] /\ new.reclaimed = FALSE
  BY <1>2 DEF NotReadingBlock, Reads
<1>. HIDE DEF new
<1>4. \A s \in BlockReaders : reading'[s] = IF s = r THEN new ELSE reading[s]
  BY <1>1 DEF IInv, Typed
<1>5. /\ DOMAIN cells' = DOMAIN cells
      /\ \A j \in DOMAIN cells : cells'[j].buffer = cells[j].buffer
      /\ \A j \in DOMAIN cells : cells'[j] \in [buffer : Buffers, hits : 0 .. HitsToMove]
  <2>. DEFINE h == IF cells[k].hits >= HitsToMove THEN 0 ELSE cells[k].hits + 1
  <2>1. h \in 0 .. HitsToMove
    BY <1>2, Bounds
  <2>2. cells' = [cells EXCEPT ![k].hits = h]
    BY <1>1 DEF Hit
  <2>. HIDE DEF h
  <2>. QED
    BY <1>2, <2>1, <2>2 DEF IInv, Typed
<1>6. /\ queue' \in Seq(Blocks) /\ IsInjective(queue') /\ ToSet(queue') = ToSet(queue)
      /\ Len(queue') = Len(queue)
  BY <1>1, QueueReordered
<1>7. Typed'
  BY <1>1, <1>3, <1>5, <1>6 DEF IInv, Typed
<1>8. LoadsExclude'
  BY <1>1, <1>3, <1>4, <1>5 DEF IInv, LoadsExclude
<1>9. UpdatesSettle'
  BY <1>1 DEF IInv, UpdatesSettle
<1>10. HeldIsRecent'
  <2>1. HeldIn(content, settled, disk, cells, inserts, reading, updating)
    BY HeldMeans DEF IInv
  <2>2. \A j \in DOMAIN cells' : HoldsRecent(content', settled', disk', cells'[j].buffer, j)
    BY <1>1, <1>5, <2>1 DEF HeldIn
  <2>3. ASSUME NEW s \in BlockReaders, reading'[s].step = "publish"
        PROVE  s # r /\ reading'[s] = reading[s]
    BY <1>3, <1>4, <2>3
  <2>4. HeldIn(content', settled', disk', cells', inserts', reading', updating')
    <3>1. \A j \in DOMAIN cells' : HoldsRecent(content', settled', disk', cells'[j].buffer, j)
      BY <2>2
    <3>2. ASSUME NEW s \in BlockReaders, reading'[s].step = "publish"
          PROVE  /\ HoldsRecent(content', settled', disk', inserts'[reading'[s].block].buffer,
                                reading'[s].block)
                 /\ updating'.step = "patch" /\ updating'.loaded = TRUE
                      /\ updating'.block = reading'[s].block =>
                      content'[inserts'[reading'[s].block].buffer]
                        = <<reading'[s].block, disk'[reading'[s].block]>>
      <4>1. reading[s].step = "publish" /\ reading'[s] = reading[s]
        BY <2>3, <3>2
      <4>2. /\ content' = content /\ settled' = settled /\ disk' = disk
            /\ inserts' = inserts /\ updating' = updating
        BY <1>1
      <4>. QED
        BY <2>1, <4>1, <4>2 DEF HeldIn
    <3>. QED
      BY <3>1, <3>2 DEF HeldIn
  <2>. QED
    BY <2>4, HeldMeans
<1>11. PointersAreCached'
  BY <1>1, <1>2, <1>3, <1>4, <1>5 DEF IInv, PointersAreCached
<1>12. BuffersHaveOneOwner'
  BY <1>1, <1>5, OwnersMean DEF IInv, Owned
<1>13. QueueOrdersTheCache'
  BY <1>1, <1>5, <1>6 DEF IInv, QueueOrdersTheCache
<1>. QED
  BY <1>7, <1>8, <1>9, <1>10, <1>11, <1>12, <1>13 DEF IInv

\* What buffers hold stays recent when none is written and nothing is loaded.
LEMMA HeldStays ==
  ASSUME HeldIsRecent, UNCHANGED <<content, settled, disk, updating>>,
         DOMAIN cells' \subseteq DOMAIN cells,
         \A j \in DOMAIN cells' : cells'[j].buffer = cells[j].buffer,
         \A s \in BlockReaders : reading'[s].step = "publish" =>
           /\ reading[s].step = "publish" /\ reading'[s].block = reading[s].block
           /\ inserts'[reading[s].block].buffer = inserts[reading[s].block].buffer
  PROVE  HeldIsRecent'
<1>1. HeldIn(content, settled, disk, cells, inserts, reading, updating)
  BY HeldMeans
<1>2. \A j \in DOMAIN cells' : HoldsRecent(content', settled', disk', cells'[j].buffer, j)
  BY <1>1 DEF HeldIn
<1>3. ASSUME NEW s \in BlockReaders, reading'[s].step = "publish"
      PROVE  /\ reading[s].step = "publish" /\ reading'[s].block = reading[s].block
             /\ inserts'[reading'[s].block].buffer = inserts[reading[s].block].buffer
  BY <1>3
<1>4. ASSUME NEW s \in BlockReaders, reading'[s].step = "publish"
      PROVE  /\ HoldsRecent(content', settled', disk', inserts'[reading'[s].block].buffer,
                             reading'[s].block)
             /\ updating'.step = "patch" /\ updating'.loaded = TRUE
                  /\ updating'.block = reading'[s].block =>
                  content'[inserts'[reading'[s].block].buffer]
                    = <<reading'[s].block, disk'[reading'[s].block]>>
  BY <1>1, <1>3, <1>4 DEF HeldIn
<1>5. HeldIn(content', settled', disk', cells', inserts', reading', updating')
  BY <1>2, <1>4 DEF HeldIn
<1>. QED
  BY <1>5, HeldMeans

\* A read that misses waits for an insert, which it may have to register.
LEMMA MissKeeps ==
  ASSUME IInv, NEW r \in BlockReaders, NEW k \in Blocks, Lookup(r, k), k \notin DOMAIN cells
  PROVE  IInv'
<1>. DEFINE new == [NotReadingBlock EXCEPT !.step = "wait", !.block = k, !.due = settled[k]]
<1>1. /\ reading[r].step = "idle" /\ reading' = [reading EXCEPT ![r] = new]
      /\ UNCHANGED <<disk, settled, cacheSize, maxPool, content, updating, cells, queue>>
  BY DEF Lookup
<1>2. settled[k] \in Nat
  BY StepFields DEF IInv
<1>3. /\ new \in Reads /\ new.step = "wait" /\ new.block = k
      /\ new.due = settled[k] /\ new.reclaimed = FALSE
  BY <1>2 DEF NotReadingBlock, Reads
<1>. HIDE DEF new
<1>4. \A s \in BlockReaders : reading'[s] = IF s = r THEN new ELSE reading[s]
  BY <1>1 DEF IInv, Typed
<1>5. /\ DOMAIN inserts' = DOMAIN inserts \cup {k}
      /\ \A j \in DOMAIN inserts : inserts'[j] = inserts[j]
      /\ inserts'[k] \in [buffer : Buffers, locked : BOOLEAN]
      /\ pool' \in Seq(Buffers) /\ Owned(cells, inserts', pool')
      /\ k \notin DOMAIN inserts => inserts'[k].locked = FALSE
  <2>0. Owned(cells, inserts, pool)
    BY OwnersMean DEF IInv
  <2>1. CASE k \in DOMAIN inserts
    <3>1. inserts' = inserts /\ pool' = pool
      BY <2>1 DEF Lookup
    <3>. QED
      BY <2>0, <2>1, <3>1 DEF IInv, Typed
  <2>2. CASE k \notin DOMAIN inserts
    <3>. DEFINE b == NextBuffer
    <3>1. inserts' = With(inserts, k, [buffer |-> b, locked |-> FALSE]) /\ pool' = PoolAfterGet
      BY <2>2 DEF Lookup
    <3>2. /\ b \in Buffers /\ b \notin InUse
          /\ PoolAfterGet \in Seq(Buffers) /\ IsInjective(PoolAfterGet)
          /\ ToSet(PoolAfterGet) \subseteq ToSet(pool) \ {b}
      BY <2>2, NextBufferIsFree
    <3>3. /\ \A j \in DOMAIN cells : cells[j].buffer # b
          /\ \A j \in DOMAIN inserts : inserts[j].buffer # b
      BY <3>2 DEF InUse, Cached, Loading
    <3>. HIDE DEF b
    <3>4. /\ DOMAIN inserts' = DOMAIN inserts \cup {k}
          /\ \A j \in DOMAIN inserts : inserts'[j] = inserts[j]
          /\ inserts'[k] = [buffer |-> b, locked |-> FALSE]
      BY <2>2, <3>1 DEF With
    <3>5. Owned(cells, inserts', pool')
      <4>1. \A j \in DOMAIN inserts' :
              inserts'[j].buffer = IF j = k THEN b ELSE inserts[j].buffer
        BY <2>2, <3>4
      <4>2. IsInjective(pool') /\ ToSet(pool') \subseteq ToSet(pool) /\ b \notin ToSet(pool')
        BY <3>1, <3>2
      <4>. QED
        BY <2>0, <2>2, <3>3, <3>4, <4>1, <4>2 DEF Owned
    <3>6. inserts'[k] \in [buffer : Buffers, locked : BOOLEAN] /\ inserts'[k].locked = FALSE
      BY <3>2, <3>4
    <3>. QED
      BY <3>1, <3>2, <3>4, <3>5, <3>6
  <2>. QED
    BY <2>1, <2>2
<1>6. Typed'
  BY <1>1, <1>3, <1>5 DEF IInv, Typed
<1>7. LoadsExclude'
  <2>1. DOMAIN cells' \cap DOMAIN inserts' = {}
    BY <1>1, <1>5 DEF IInv, LoadsExclude
  <2>. QED
    BY <1>3, <1>4, <1>5, <2>1 DEF IInv, LoadsExclude
<1>8. UpdatesSettle'
  BY <1>1, <1>5 DEF IInv, UpdatesSettle
<1>9. HeldIsRecent'
  <2>1. \A s \in BlockReaders : reading'[s].step = "publish" =>
           /\ reading[s].step = "publish" /\ reading'[s].block = reading[s].block
           /\ inserts'[reading[s].block].buffer = inserts[reading[s].block].buffer
    BY <1>3, <1>4, <1>5 DEF IInv, LoadsExclude
  <2>. QED
    BY <1>1, <2>1, HeldStays DEF IInv
<1>10. PointersAreCached'
  BY <1>1, <1>2, <1>3, <1>4 DEF IInv, PointersAreCached
<1>11. BuffersHaveOneOwner'
  BY <1>1, <1>5, OwnersMean
<1>12. QueueOrdersTheCache'
  BY <1>1 DEF IInv, QueueOrdersTheCache
<1>. QED
  BY <1>6, <1>7, <1>8, <1>9, <1>10, <1>11, <1>12 DEF IInv

\* A reader gets the lock of an insert.
LEMMA LockInsertKeeps ==
  ASSUME IInv, NEW r \in BlockReaders, LockInsert(r)
  PROVE  IInv'
<1>. DEFINE k == reading[r].block
            new == [reading[r] EXCEPT !.step = "load"]
<1>1. /\ reading[r].step = "wait" /\ ~inserts[k].locked
      /\ inserts' = [inserts EXCEPT ![k].locked = TRUE]
      /\ reading' = [reading EXCEPT ![r] = new]
      /\ UNCHANGED <<disk, settled, cacheSize, maxPool, cells, queue, content, pool, updating>>
  BY DEF LockInsert
<1>2. /\ reading[r] \in Reads /\ k \in DOMAIN inserts /\ inserts[k].buffer \in Buffers
      /\ inserts[k] \in [buffer : Buffers, locked : BOOLEAN] /\ k \in Blocks
  BY <1>1, StepFields DEF IInv, Typed, LoadsExclude
<1>3. /\ new \in Reads /\ new.step = "load" /\ new.block = k /\ new.due = reading[r].due
  BY <1>2 DEF Reads
<1>. HIDE DEF new, k
<1>4. \A s \in BlockReaders : reading'[s] = IF s = r THEN new ELSE reading[s]
  BY <1>1 DEF IInv, Typed
<1>5. /\ DOMAIN inserts' = DOMAIN inserts
      /\ \A j \in DOMAIN inserts : inserts'[j].buffer = inserts[j].buffer
      /\ \A j \in DOMAIN inserts : j # k => inserts'[j] = inserts[j]
      /\ inserts'[k].locked = TRUE
      /\ inserts'[k] \in [buffer : Buffers, locked : BOOLEAN]
  BY <1>1, <1>2
<1>6. Typed'
  BY <1>1, <1>3, <1>5 DEF IInv, Typed
<1>7. \A s \in BlockReaders : reading[s].step \in {"load", "publish"} => reading[s].block # k
  <2>1. inserts[k].locked # TRUE
    BY <1>1
  <2>. QED
    BY <2>1 DEF IInv, LoadsExclude
<1>8. LoadsExclude'
  <2>1. DOMAIN cells' \cap DOMAIN inserts' = {}
    BY <1>1, <1>5 DEF IInv, LoadsExclude
  <2>2. \A s \in BlockReaders :
          /\ reading'[s].step # "idle" => reading'[s].block \in Blocks
          /\ reading'[s].step = "wait" => reading'[s].block \in DOMAIN inserts'
          /\ reading'[s].step \in {"load", "publish"} =>
               reading'[s].block \in DOMAIN inserts' /\ inserts'[reading'[s].block].locked = TRUE
    BY <1>2, <1>3, <1>4, <1>5 DEF IInv, LoadsExclude
  <2>3. \A s, t \in BlockReaders :
          reading'[s].step \in {"load", "publish"} /\ reading'[t].step \in {"load", "publish"}
            /\ reading'[s].block = reading'[t].block => s = t
    BY <1>3, <1>4, <1>7 DEF IInv, LoadsExclude
  <2>. QED
    BY <2>1, <2>2, <2>3 DEF LoadsExclude
<1>9. UpdatesSettle'
  BY <1>1, <1>5 DEF IInv, UpdatesSettle
<1>10. HeldIsRecent'
  <2>1. \A s \in BlockReaders : reading'[s].step = "publish" =>
           /\ reading[s].step = "publish" /\ reading'[s].block = reading[s].block
           /\ inserts'[reading[s].block].buffer = inserts[reading[s].block].buffer
    BY <1>3, <1>4, <1>5 DEF IInv, LoadsExclude
  <2>. QED
    BY <1>1, <2>1, HeldStays DEF IInv
<1>11. PointersAreCached'
  BY <1>1, <1>3, <1>4 DEF IInv, PointersAreCached, k
<1>12. BuffersHaveOneOwner'
  BY <1>1, <1>5, OwnersMean DEF IInv, Owned
<1>13. QueueOrdersTheCache'
  BY <1>1 DEF IInv, QueueOrdersTheCache
<1>. QED
  BY <1>6, <1>8, <1>9, <1>10, <1>11, <1>12, <1>13 DEF IInv

\* A reader copies what its pointer shows.
LEMMA CopyKeeps ==
  ASSUME IInv, NEW r \in BlockReaders, Copy(r)
  PROVE  IInv'
<1>1. /\ reading' = [reading EXCEPT ![r] = NotReadingBlock]
      /\ UNCHANGED <<disk, settled, cacheSize, maxPool, cells, queue, inserts, content, pool,
                     updating>>
  BY DEF Copy
<1>2. NotReadingBlock \in Reads /\ NotReadingBlock.step = "idle"
  BY DEF NotReadingBlock, Reads
<1>3. \A s \in BlockReaders : reading'[s] = IF s = r THEN NotReadingBlock ELSE reading[s]
  BY <1>1 DEF IInv, Typed
<1>4. Typed'
  BY <1>1, <1>2 DEF IInv, Typed
<1>5. LoadsExclude' /\ PointersAreCached'
  BY <1>1, <1>2, <1>3 DEF IInv, LoadsExclude, PointersAreCached
<1>6. UpdatesSettle' /\ QueueOrdersTheCache'
  BY <1>1 DEF IInv, UpdatesSettle, QueueOrdersTheCache
<1>7. BuffersHaveOneOwner'
  BY <1>1, OwnersMean DEF IInv
<1>8. HeldIsRecent'
  BY <1>1, <1>2, <1>3, HeldStays DEF IInv
<1>. QED
  BY <1>4, <1>5, <1>6, <1>7, <1>8 DEF IInv

\* A reader loads its block from the file.
LEMMA LoadBlockKeeps ==
  ASSUME IInv, NEW r \in BlockReaders, LoadBlock(r)
  PROVE  IInv'
<1>. DEFINE k == reading[r].block
            new == [reading[r] EXCEPT !.step = "publish"]
            b == inserts[k].buffer
<1>1. /\ reading[r].step = "load" /\ reading' = [reading EXCEPT ![r] = new]
      /\ content' = [content EXCEPT ![b] = <<k, disk[k]>>]
      /\ UNCHANGED <<disk, settled, cacheSize, maxPool, cells, queue, inserts, pool, updating>>
  BY DEF LoadBlock
<1>2. /\ reading[r] \in Reads /\ k \in DOMAIN inserts /\ b \in Buffers /\ k \in Blocks
      /\ disk[k] \in Nat /\ settled[k] \in Nat /\ settled[k] <= disk[k]
  BY <1>1, StepFields DEF IInv, Typed, LoadsExclude, UpdatesSettle
<1>3. /\ new \in Reads /\ new.step = "publish" /\ new.block = k /\ new.due = reading[r].due
  BY <1>2 DEF Reads
<1>4. \A s \in BlockReaders : reading'[s] = IF s = r THEN new ELSE reading[s]
  BY <1>1 DEF IInv, Typed
<1>5. \A c \in Buffers : content'[c] = IF c = b THEN <<k, disk[k]>> ELSE content[c]
  BY <1>1 DEF IInv, Typed
<1>6. Owned(cells, inserts, pool)
  BY OwnersMean DEF IInv
<1>7. \A s \in BlockReaders :
        s # r /\ reading[s].step \in {"load", "publish"} => reading[s].block # k
  BY <1>1 DEF IInv, LoadsExclude
<1>8. Typed'
  <2>1. <<k, disk[k]>> \in Blocks \X Nat
    BY <1>2
  <2>2. content' \in [Buffers -> {<< >>} \cup (Blocks \X Nat)]
    BY <1>1, <1>2, <2>1 DEF IInv, Typed
  <2>. QED
    BY <1>1, <1>3, <2>2 DEF IInv, Typed
<1>. HIDE DEF new, k, b
<1>9. LoadsExclude'
  <2>1. \A s \in BlockReaders :
          /\ reading'[s].block = reading[s].block
          /\ reading'[s].step \in {"load", "publish"} => reading[s].step \in {"load", "publish"}
          /\ reading'[s].step = "wait" => reading[s].step = "wait"
          /\ reading'[s].step # "idle" => reading[s].step # "idle"
    BY <1>1, <1>3, <1>4 DEF k
  <2>. QED
    BY <1>1, <2>1 DEF IInv, LoadsExclude
<1>10. UpdatesSettle'
  BY <1>1 DEF IInv, UpdatesSettle
<1>11. HeldIsRecent'
  <2>1. HeldIn(content, settled, disk, cells, inserts, reading, updating)
    BY HeldMeans DEF IInv
  <2>2. ASSUME NEW j \in DOMAIN cells
        PROVE  HoldsRecent(content', settled', disk', cells'[j].buffer, j)
    <3>1. cells[j].buffer # b /\ cells[j].buffer \in Buffers
      BY <1>2, <1>6, <2>2, StepFields DEF Owned, b, IInv
    <3>2. content'[cells[j].buffer] = content[cells[j].buffer]
      BY <1>5, <3>1
    <3>. QED
      BY <1>1, <2>1, <2>2, <3>2 DEF HeldIn, HoldsRecent
  <2>3. ASSUME NEW s \in BlockReaders, reading'[s].step = "publish"
        PROVE  /\ HoldsRecent(content', settled', disk', inserts'[reading'[s].block].buffer,
                              reading'[s].block)
               /\ updating'.step = "patch" /\ updating'.loaded = TRUE
                    /\ updating'.block = reading'[s].block =>
                    content'[inserts'[reading'[s].block].buffer]
                      = <<reading'[s].block, disk'[reading'[s].block]>>
    <3>1. CASE s = r
      <4>1. reading'[s].block = k /\ content'[inserts'[k].buffer] = <<k, disk'[k]>>
        BY <1>1, <1>2, <1>3, <1>4, <1>5, <3>1 DEF b
      <4>2. disk'[k] \in settled'[k] .. disk'[k]
        BY <1>1, <1>2
      <4>. QED
        BY <4>1, <4>2 DEF HoldsRecent
    <3>2. CASE s # r
      <4>1. reading'[s] = reading[s] /\ reading[s].step = "publish" /\ reading[s].block # k
        BY <1>4, <1>7, <2>3, <3>2
      <4>2. /\ reading[s].block \in DOMAIN inserts
            /\ inserts[reading[s].block].buffer \in Buffers
        BY <4>1, StepFields DEF IInv, LoadsExclude
      <4>3. inserts[reading[s].block].buffer # b
        BY <1>2, <1>6, <4>1, <4>2 DEF Owned, b
      <4>4. content'[inserts[reading[s].block].buffer] = content[inserts[reading[s].block].buffer]
        BY <1>5, <4>2, <4>3
      <4>. QED
        <5>1. HoldsRecent(content, settled, disk, inserts[reading[s].block].buffer,
                          reading[s].block)
          BY <2>1, <4>1 DEF HeldIn
        <5>2. updating.step = "patch" /\ updating.loaded = TRUE
                /\ updating.block = reading[s].block =>
                content[inserts[reading[s].block].buffer]
                  = <<reading[s].block, disk[reading[s].block]>>
          BY <2>1, <4>1 DEF HeldIn
        <5>3. /\ settled' = settled /\ disk' = disk /\ inserts' = inserts
              /\ updating' = updating
          BY <1>1
        <5>4. HoldsRecent(content', settled', disk', inserts[reading[s].block].buffer,
                          reading[s].block)
          BY <4>4, <5>1, <5>3 DEF HoldsRecent
        <5>. QED
          BY <4>1, <4>4, <5>2, <5>3, <5>4
    <3>. QED
      BY <3>1, <3>2
  <2>4. HeldIn(content', settled', disk', cells', inserts', reading', updating')
    BY <1>1, <2>2, <2>3 DEF HeldIn
  <2>. QED
    BY <2>4, HeldMeans
<1>12. PointersAreCached'
  BY <1>1, <1>3, <1>4 DEF IInv, PointersAreCached, k
<1>13. BuffersHaveOneOwner'
  BY <1>1, <1>6, OwnersMean
<1>14. QueueOrdersTheCache'
  BY <1>1 DEF IInv, QueueOrdersTheCache
<1>. QED
  BY <1>8, <1>9, <1>10, <1>11, <1>12, <1>13, <1>14 DEF IInv

\* The buffers of some blocks, in their order.
LEMMA BuffersOf ==
  ASSUME NEW held, NEW gone \in Seq(Blocks), IsInjective(gone), ToSet(gone) \subseteq DOMAIN held,
         \A i, j \in DOMAIN held : held[i].buffer = held[j].buffer => i = j,
         NEW freed \in Seq(Buffers), Len(freed) = Len(gone),
         \A i \in 1 .. Len(gone) : freed[i] = held[gone[i]].buffer
  PROVE  /\ IsInjective(freed)
         /\ \A j \in DOMAIN held : held[j].buffer \in ToSet(freed) <=> j \in ToSet(gone)
         /\ \A b \in ToSet(freed) : \E j \in DOMAIN held : b = held[j].buffer
<1>1. /\ ToSet(gone) = {gone[i] : i \in 1 .. Len(gone)}
      /\ \A i, j \in 1 .. Len(gone) : gone[i] = gone[j] => i = j
  BY Members
<1>2. \A i \in 1 .. Len(gone) : gone[i] \in DOMAIN held
  BY <1>1
<1>3. ToSet(freed) = {freed[i] : i \in 1 .. Len(gone)}
  BY Members
<1>4. \A i, j \in 1 .. Len(gone) : freed[i] = freed[j] => i = j
  BY <1>1, <1>2
<1>5. IsInjective(freed)
  BY <1>4, Members
<1>6. \A j \in DOMAIN held : held[j].buffer \in ToSet(freed) <=> j \in ToSet(gone)
  BY <1>1, <1>2, <1>3
<1>7. \A b \in ToSet(freed) : \E j \in DOMAIN held : b = held[j].buffer
  BY <1>2, <1>3
<1>. QED
  BY <1>5, <1>6, <1>7

\* EvictOverflow takes n blocks from the front of the queue: their buffers, and
\* the cells and the queue that are left.
Evicts(held, order, n, gone, freed, left, rest) ==
  /\ gone = SubSeq(order, 1, n)
  /\ freed = [i \in 1 .. Len(gone) |-> held[gone[i]].buffer]
  /\ left = Without(held, ToSet(gone))
  /\ rest = SubSeq(order, Len(gone) + 1, Len(order))

\* Blocks go together with their buffers.
EvictsWell(held, order, n, freed, left, rest) ==
  /\ freed \in Seq(Buffers) /\ IsInjective(freed)
  /\ \A b \in ToSet(freed) : \E j \in DOMAIN held : b = held[j].buffer
  /\ DOMAIN left \subseteq DOMAIN held
  /\ \A j \in DOMAIN left : left[j] = held[j] /\ held[j].buffer \notin ToSet(freed)
  /\ \A j \in DOMAIN held : held[j].buffer \notin ToSet(freed) => j \in DOMAIN left
  /\ rest \in Seq(Blocks) /\ IsInjective(rest) /\ ToSet(rest) = DOMAIN left
  /\ Len(rest) = Len(order) - n

\* Cells and a queue that eviction may start from.
Ordered(held, order) ==
  /\ order \in Seq(Blocks) /\ IsInjective(order) /\ ToSet(order) = DOMAIN held
  /\ \A j \in DOMAIN held : held[j].buffer \in Buffers
  /\ \A i, j \in DOMAIN held : held[i].buffer = held[j].buffer => i = j

\* From the one follows the other.
LEMMA Eviction ==
  ASSUME NEW held, NEW order, NEW n \in 0 .. Len(order), NEW gone, NEW freed, NEW left, NEW rest,
         Ordered(held, order), Evicts(held, order, n, gone, freed, left, rest)
  PROVE  EvictsWell(held, order, n, freed, left, rest)
<1>0. /\ gone = SubSeq(order, 1, n)
      /\ freed = [i \in 1 .. Len(gone) |-> held[gone[i]].buffer]
      /\ left = Without(held, ToSet(gone))
      /\ rest = SubSeq(order, Len(gone) + 1, Len(order))
  BY DEF Evicts
<1>a. /\ order \in Seq(Blocks) /\ IsInjective(order) /\ ToSet(order) = DOMAIN held
      /\ \A j \in DOMAIN held : held[j].buffer \in Buffers
      /\ \A i, j \in DOMAIN held : held[i].buffer = held[j].buffer => i = j
  BY DEF Ordered
<1>1. /\ gone \in Seq(Blocks) /\ Len(gone) = n /\ IsInjective(gone)
      /\ ToSet(gone) \subseteq DOMAIN held
  BY <1>0, <1>a, Cut, CutApart
<1>2. /\ rest \in Seq(Blocks) /\ IsInjective(rest) /\ Len(rest) = Len(order) - n
      /\ ToSet(rest) = ToSet(order) \ ToSet(gone)
  BY <1>0, <1>1, <1>a, Cut, CutApart
<1>3. DOMAIN left = DOMAIN held \ ToSet(gone) /\ \A j \in DOMAIN left : left[j] = held[j]
  BY <1>0 DEF Without
<1>4. \A i \in 1 .. Len(gone) : gone[i] \in DOMAIN held
  <2>1. ToSet(gone) = {gone[i] : i \in 1 .. Len(gone)}
    BY <1>1, Members
  <2>. QED
    BY <1>1, <2>1
<1>5. /\ freed \in Seq(Buffers) /\ Len(freed) = Len(gone)
      /\ \A i \in 1 .. Len(gone) : freed[i] = held[gone[i]].buffer
  <2>1. Len(gone) \in Nat
    BY <1>1
  <2>2. [i \in 1 .. Len(gone) |-> held[gone[i]].buffer] \in Seq(Buffers)
    BY <1>4, <1>a, <2>1
  <2>. QED
    BY <1>0, <2>1, <2>2
<1>6. /\ IsInjective(freed)
      /\ \A j \in DOMAIN held : held[j].buffer \in ToSet(freed) <=> j \in ToSet(gone)
      /\ \A b \in ToSet(freed) : \E j \in DOMAIN held : b = held[j].buffer
  BY <1>1, <1>5, <1>a, BuffersOf
<1>. QED
  BY <1>2, <1>3, <1>5, <1>6, <1>a DEF EvictsWell

\* What the eviction leaves has one owner each.
LEMMA EvictedAreFree ==
  ASSUME Typed, NEW held, NEW loads, NEW left, NEW freed \in Seq(Buffers), NEW used \in Int,
         Owned(held, loads, pool), IsInjective(freed),
         \A b \in ToSet(freed) : \E j \in DOMAIN held : b = held[j].buffer,
         DOMAIN left \subseteq DOMAIN held,
         \A j \in DOMAIN left : left[j] = held[j] /\ held[j].buffer \notin ToSet(freed)
  PROVE  /\ Reclaim(freed, used) \in Seq(Buffers)
         /\ Owned(left, loads, Reclaim(freed, used))
<1>1. IsInjective(pool) /\ ToSet(pool) \cap ToSet(freed) = {}
  BY DEF Owned
<1>2. /\ Reclaim(freed, used) \in Seq(Buffers) /\ IsInjective(Reclaim(freed, used))
      /\ ToSet(Reclaim(freed, used)) \subseteq ToSet(pool) \cup ToSet(freed)
  BY <1>1, ReclaimFits
<1>3. \A j \in DOMAIN left : left[j].buffer \notin ToSet(pool) \cup ToSet(freed)
  BY DEF Owned
<1>4. \A j \in DOMAIN loads : loads[j].buffer \notin ToSet(pool) \cup ToSet(freed)
  BY DEF Owned
<1>. DEFINE filled == Reclaim(freed, used)
<1>. HIDE DEF filled
<1>5. \A j, k \in DOMAIN left : left[j].buffer = left[k].buffer => j = k
  BY DEF Owned
<1>6. \A j \in DOMAIN left, k \in DOMAIN loads : left[j].buffer # loads[k].buffer
  BY DEF Owned
<1>7. \A j, k \in DOMAIN loads : loads[j].buffer = loads[k].buffer => j = k
  BY DEF Owned
<1>. QED
  BY <1>2, <1>3, <1>4, <1>5, <1>6, <1>7 DEF Owned

\* A reader puts its block into the cache, which evicts others.
LEMMA PublishKeeps ==
  ASSUME IInv, NEW r \in BlockReaders, Publish(r)
  PROVE  IInv'
<1>. DEFINE K == reading[r].block
            B == inserts[K].buffer
            Order == Append(queue, K)
            Gone == SubSeq(Order, 1, Evicted(Order, cacheSize))
            Held == With(cells, K, [buffer |-> B, hits |-> 0])
            Freed == [n \in 1 .. Len(Gone) |-> Held[Gone[n]].buffer]
            Used == Cardinality(InUse) - Len(Gone)
<1>1. /\ reading[r].step = "publish"
      /\ queue' = SubSeq(Order, Len(Gone) + 1, Len(Order))
      /\ cells' = Without(Held, ToSet(Gone))
      /\ inserts' = InsertsAfter(K)
      /\ pool' = Reclaim(Freed, Used)
      /\ content' = Forgotten(ToSet(Freed))
      /\ reading' = Reclaimed(Served(K, B), ToSet(Freed))
      /\ updating' = [updating EXCEPT !.loaded = @ \/ updating.block = K]
      /\ UNCHANGED <<disk, settled, cacheSize, maxPool>>
  BY DEF Publish
<1>2. PICK k : k = K
  OBVIOUS
<1>3. PICK b : b = B
  OBVIOUS
<1>4. /\ k \in Blocks /\ k \in DOMAIN inserts /\ k \notin DOMAIN cells /\ b \in Buffers
      /\ b = inserts[k].buffer
  BY <1>1, <1>2, <1>3, StepFields DEF IInv, LoadsExclude, Typed
<1>5. PICK order : order = Order
  OBVIOUS
<1>6. PICK held : held = Held
  OBVIOUS
<1>7. PICK gone : gone = Gone
  OBVIOUS
<1>8. PICK freed : freed = Freed
  OBVIOUS
<1>9. PICK used : used = Used
  OBVIOUS
<1>10. /\ gone = SubSeq(order, 1, Evicted(order, cacheSize))
       /\ freed = [n \in 1 .. Len(gone) |-> held[gone[n]].buffer]
       /\ order = Append(queue, k) /\ held = With(cells, k, [buffer |-> b, hits |-> 0])
       /\ used = Cardinality(InUse) - Len(gone)
  BY <1>2, <1>3, <1>5, <1>6, <1>7, <1>8, <1>9
<1>11. /\ reading[r].step = "publish" /\ reading[r].block = k
       /\ queue' = SubSeq(order, Len(gone) + 1, Len(order))
       /\ cells' = Without(held, ToSet(gone))
       /\ inserts' = Without(inserts, {k})
       /\ pool' = Reclaim(freed, used)
       /\ content' = Forgotten(ToSet(freed))
       /\ reading' = Reclaimed(Served(k, b), ToSet(freed))
       /\ updating' = [updating EXCEPT !.loaded = @ \/ updating.block = k]
       /\ UNCHANGED <<disk, settled, cacheSize, maxPool>>
  BY <1>1, <1>2, <1>3, <1>5, <1>6, <1>7, <1>8, <1>9 DEF InsertsAfter
<1>. HIDE DEF K, B, Order, Gone, Held, Freed, Used
<1>12. /\ order \in Seq(Blocks) /\ IsInjective(order) /\ ToSet(order) = DOMAIN cells \cup {k}
       /\ Len(order) \in Nat
  <2>1. queue \in Seq(Blocks) /\ IsInjective(queue) /\ ToSet(queue) = DOMAIN cells
    BY DEF IInv, Typed, QueueOrdersTheCache
  <2>. DEFINE last == <<k>>
  <2>2. last \in Seq(Blocks) /\ IsInjective(last) /\ ToSet(last) = {k}
    BY <1>4 DEF IsInjective, ToSet
  <2>3. order = queue \o last
    BY <1>10, <1>4, <2>1
  <2>. HIDE DEF last
  <2>4. ToSet(queue) \cap ToSet(last) = {}
    BY <1>4, <2>1, <2>2
  <2>5. queue \o last \in Seq(Blocks) /\ IsInjective(queue \o last)
        /\ ToSet(queue \o last) = ToSet(queue) \cup ToSet(last)
    BY <2>1, <2>2, <2>4, Joined
  <2>. QED
    BY <2>1, <2>2, <2>3, <2>5
<1>13. /\ DOMAIN held = DOMAIN cells \cup {k}
       /\ held[k] = [buffer |-> b, hits |-> 0]
       /\ \A j \in DOMAIN cells : held[j] = cells[j]
  BY <1>4, <1>10 DEF With
<1>14. Owned(cells, inserts, pool)
  BY OwnersMean DEF IInv
<1>15. /\ DOMAIN inserts' = DOMAIN inserts \ {k}
       /\ \A j \in DOMAIN inserts' : inserts'[j] = inserts[j]
  BY <1>11 DEF Without
<1>16. Owned(held, inserts', pool)
  <2>1. \A j \in DOMAIN held : \/ j = k /\ held[j].buffer = inserts[k].buffer
                               \/ j \in DOMAIN cells /\ held[j].buffer = cells[j].buffer
    BY <1>4, <1>13
  <2>2. \A j \in DOMAIN held : held[j].buffer \notin ToSet(pool)
    BY <1>4, <1>14, <2>1 DEF Owned
  <2>3. \A i, j \in DOMAIN held : held[i].buffer = held[j].buffer => i = j
    BY <1>4, <1>14, <2>1 DEF Owned
  <2>4. \A i \in DOMAIN held, j \in DOMAIN inserts' : held[i].buffer # inserts'[j].buffer
    BY <1>4, <1>14, <1>15, <2>1 DEF Owned
  <2>. QED
    BY <1>14, <1>15, <2>2, <2>3, <2>4 DEF Owned
<1>17. /\ \A j \in DOMAIN held : held[j] \in [buffer : Buffers, hits : 0 .. HitsToMove]
       /\ \A j \in DOMAIN held : held[j].buffer \in Buffers
  <2>1. held[k] \in [buffer : Buffers, hits : 0 .. HitsToMove]
    BY <1>4, <1>13, Bounds
  <2>. QED
    BY <1>13, <2>1 DEF IInv, Typed
<1>18. /\ Evicted(order, cacheSize) \in 0 .. Len(order)
       /\ Len(order) - Evicted(order, cacheSize) <= cacheSize /\ cacheSize \in Nat
  BY <1>12, EvictedFits DEF IInv, Typed
<1>19. /\ freed \in Seq(Buffers) /\ IsInjective(freed)
       /\ \A c \in ToSet(freed) : \E j \in DOMAIN held : c = held[j].buffer
       /\ DOMAIN cells' \subseteq DOMAIN held
       /\ \A j \in DOMAIN cells' : cells'[j] = held[j] /\ held[j].buffer \notin ToSet(freed)
       /\ \A j \in DOMAIN held : held[j].buffer \notin ToSet(freed) => j \in DOMAIN cells'
       /\ queue' \in Seq(Blocks) /\ IsInjective(queue') /\ ToSet(queue') = DOMAIN cells'
       /\ Len(queue') = Len(order) - Evicted(order, cacheSize)
  <2>1. Ordered(held, order)
    BY <1>12, <1>13, <1>16, <1>17 DEF Owned, Ordered
  <2>2. PICK n : n = Evicted(order, cacheSize)
    OBVIOUS
  <2>3. PICK left : left = cells'
    OBVIOUS
  <2>4. PICK rest : rest = queue'
    OBVIOUS
  <2>5. n \in 0 .. Len(order) /\ Evicts(held, order, n, gone, freed, left, rest)
    BY <1>10, <1>11, <1>18, <2>2, <2>3, <2>4 DEF Evicts
  <2>6. EvictsWell(held, order, n, freed, left, rest)
    BY <2>1, <2>5, Eviction
  <2>. QED
    BY <2>2, <2>3, <2>4, <2>6 DEF EvictsWell
<1>20. pool' \in Seq(Buffers) /\ Owned(cells', inserts', pool')
  <2>1. used \in Int
    <3>1. gone \in Seq(Blocks) /\ Len(gone) \in Nat
      BY <1>10, <1>12, <1>18, Cut
    <3>2. IsFiniteSet(InUse)
      <4>1. InUse \in SUBSET Buffers
        BY StepFields DEF InUse, Cached, Loading, IInv
      <4>. QED
        BY <4>1, BufferNumbers, FS_Subset
    <3>3. Cardinality(InUse) \in Nat
      BY <3>2, FS_CardinalityType
    <3>4. used = Cardinality(InUse) - Len(gone)
      BY <1>10, Zenon
    <3>. QED
      BY <3>1, <3>3, <3>4
  <2>2. Typed
    BY DEF IInv
  <2>. QED
    BY <1>11, <1>16, <1>19, <2>1, <2>2, EvictedAreFree
<1>21. \A s \in BlockReaders :
         /\ reading'[s] \in Reads
         /\ reading'[s].block = reading[s].block /\ reading'[s].due = reading[s].due
         /\ IF reading[s].block = k /\ reading[s].step \in {"wait", "publish"}
            THEN reading'[s].step = "copy" /\ reading'[s].buffer = b
            ELSE /\ reading'[s].step = reading[s].step /\ reading'[s].buffer = reading[s].buffer
                 /\ reading'[s].reclaimed = FALSE => reading[s].reclaimed = FALSE
         /\ reading'[s].reclaimed = FALSE => reading'[s].buffer \notin ToSet(freed)
  <2>. TAKE s \in BlockReaders
  <2>1. PICK old : old = reading[s]
    OBVIOUS
  <2>2. PICK now : now = Served(k, b)[s]
    OBVIOUS
  <2>3. old \in Reads
    BY <2>1 DEF IInv, Typed
  <2>4. now = IF old.block = k /\ old.step \in {"wait", "publish"}
              THEN [old EXCEPT !.step = "copy", !.buffer = b] ELSE old
    BY <2>1, <2>2 DEF Served
  <2>5. /\ now \in Reads /\ now.block = old.block /\ now.due = old.due
        /\ now.reclaimed = old.reclaimed
        /\ IF old.block = k /\ old.step \in {"wait", "publish"}
           THEN now.step = "copy" /\ now.buffer = b
           ELSE now.step = old.step /\ now.buffer = old.buffer
    BY <1>4, <2>3, <2>4 DEF Reads
  <2>6. reading'[s] = IF now.buffer \in ToSet(freed) THEN [now EXCEPT !.reclaimed = TRUE] ELSE now
    BY <1>11, <2>2 DEF Reclaimed
  <2>7. /\ reading'[s] \in Reads /\ reading'[s].block = now.block /\ reading'[s].due = now.due
        /\ reading'[s].step = now.step /\ reading'[s].buffer = now.buffer
        /\ reading'[s].reclaimed = FALSE => now.reclaimed = FALSE /\ now.buffer \notin ToSet(freed)
    <3>1. PICK set : set = [now EXCEPT !.reclaimed = TRUE]
      OBVIOUS
    <3>2. /\ set \in Reads /\ set.block = now.block /\ set.due = now.due
          /\ set.step = now.step /\ set.buffer = now.buffer /\ set.reclaimed = TRUE
      BY <2>5, <3>1 DEF Reads
    <3>3. CASE now.buffer \in ToSet(freed)
      <4>1. reading'[s] = set
        BY <2>6, <3>1, <3>3
      <4>. QED
        BY <3>2, <4>1
    <3>4. CASE now.buffer \notin ToSet(freed)
      BY <2>5, <2>6, <3>4
    <3>. QED
      BY <3>3, <3>4
  <2>. QED
    BY <2>1, <2>5, <2>7
<1>22. /\ content' \in [Buffers -> {<< >>} \cup (Blocks \X Nat)]
       /\ \A c \in Buffers : c \notin ToSet(freed) => content'[c] = content[c]
  BY <1>11 DEF Forgotten, IInv, Typed
<1>23. updating' \in Updates /\ updating'.step = updating.step /\ updating'.block = updating.block
       /\ updating'.loaded \in BOOLEAN
       /\ updating'.loaded = (updating.loaded \/ updating.block = k)
  <2>1. PICK update : update = updating
    OBVIOUS
  <2>2. update \in Updates
    BY <2>1 DEF IInv, Typed
  <2>3. PICK has \in BOOLEAN : has = (update.loaded \/ update.block = k)
    OBVIOUS
  <2>4. updating' = [update EXCEPT !.loaded = has]
    BY <1>11, <2>1, <2>3
  <2>. QED
    BY <2>1, <2>2, <2>3, <2>4 DEF Updates
<1>24. Typed'
  <2>1. reading' \in [BlockReaders -> Reads]
    BY <1>11, <1>21 DEF Reclaimed
  <2>2. \A j \in DOMAIN cells' : cells'[j] \in [buffer : Buffers, hits : 0 .. HitsToMove]
    BY <1>17, <1>19
  <2>3. DOMAIN cells' \subseteq Blocks
    BY <1>4, <1>13, <1>19 DEF IInv, Typed
  <2>4. /\ DOMAIN inserts' \subseteq Blocks
        /\ \A j \in DOMAIN inserts' : inserts'[j] \in [buffer : Buffers, locked : BOOLEAN]
    BY <1>15 DEF IInv, Typed
  <2>5. /\ disk' \in [Blocks -> 0 .. MaxUpdates] /\ settled' \in [Blocks -> 0 .. MaxUpdates]
        /\ cacheSize' \in Nat /\ maxPool' \in Int
    BY <1>11 DEF IInv, Typed
  <2>. QED
    BY <1>19, <1>20, <1>22, <1>23, <2>1, <2>2, <2>3, <2>4, <2>5 DEF Typed
<1>25. \A s \in BlockReaders :
         /\ reading[s].step \in {"load", "publish"} /\ reading[s].block = k => s = r
         /\ reading'[s].step \in {"load", "publish"} =>
              reading[s].step = reading'[s].step /\ reading[s].block # k
         /\ reading'[s].step = "wait" => reading[s].step = "wait" /\ reading[s].block # k
         /\ reading'[s].step # "idle" => reading[s].step # "idle"
  BY <1>11, <1>21 DEF IInv, LoadsExclude
<1>26. LoadsExclude'
  <2>1. DOMAIN cells' \cap DOMAIN inserts' = {}
    BY <1>13, <1>15, <1>19 DEF IInv, LoadsExclude
  <2>2. \A s \in BlockReaders :
          /\ reading'[s].step # "idle" => reading'[s].block \in Blocks
          /\ reading'[s].step = "wait" => reading'[s].block \in DOMAIN inserts'
          /\ reading'[s].step \in {"load", "publish"} =>
               reading'[s].block \in DOMAIN inserts' /\ inserts'[reading'[s].block].locked = TRUE
    BY <1>15, <1>21, <1>25 DEF IInv, LoadsExclude
  <2>3. \A s, t \in BlockReaders :
          reading'[s].step \in {"load", "publish"} /\ reading'[t].step \in {"load", "publish"}
            /\ reading'[s].block = reading'[t].block => s = t
    BY <1>21, <1>25 DEF IInv, LoadsExclude
  <2>. QED
    BY <2>1, <2>2, <2>3 DEF LoadsExclude
<1>27. UpdatesSettle'
  <2>1. updating'.step = "patch" /\ updating'.loaded = FALSE => updating'.block \in DOMAIN inserts'
    BY <1>15, <1>23, StepFields DEF IInv, UpdatesSettle
  <2>. QED
    BY <1>11, <1>23, <2>1 DEF IInv, UpdatesSettle
<1>28. HeldIsRecent'
  <2>1. HeldIn(content, settled, disk, cells, inserts, reading, updating)
    BY HeldMeans DEF IInv
  <2>2. ASSUME NEW j \in DOMAIN cells'
        PROVE  HoldsRecent(content', settled', disk', cells'[j].buffer, j)
    <3>1. /\ cells'[j].buffer = held[j].buffer /\ held[j].buffer \in Buffers
          /\ content'[held[j].buffer] = content[held[j].buffer] /\ j \in DOMAIN held
      BY <1>17, <1>19, <1>22, <2>2
    <3>2. HoldsRecent(content, settled, disk, held[j].buffer, j)
      <4>1. CASE j = k
        <5>1. HoldsRecent(content, settled, disk, inserts[reading[r].block].buffer,
                          reading[r].block)
          BY <1>11, <2>1 DEF HeldIn
        <5>2. held[j].buffer = b /\ inserts[reading[r].block].buffer = b /\ reading[r].block = j
          BY <1>4, <1>11, <1>13, <4>1
        <5>. QED
          BY <5>1, <5>2
      <4>2. CASE j # k
        BY <1>13, <2>1, <3>1, <4>2 DEF HeldIn
      <4>. QED
        BY <4>1, <4>2
    <3>. QED
      BY <1>11, <3>1, <3>2 DEF HoldsRecent
  <2>3. ASSUME NEW s \in BlockReaders, reading'[s].step = "publish"
        PROVE  /\ HoldsRecent(content', settled', disk', inserts'[reading'[s].block].buffer,
                              reading'[s].block)
               /\ updating'.step = "patch" /\ updating'.loaded = TRUE
                    /\ updating'.block = reading'[s].block =>
                    content'[inserts'[reading'[s].block].buffer]
                      = <<reading'[s].block, disk'[reading'[s].block]>>
    <3>1. /\ reading[s].step = "publish" /\ reading'[s].block = reading[s].block
          /\ reading[s].block # k /\ reading[s].block \in DOMAIN inserts'
          /\ inserts'[reading[s].block] = inserts[reading[s].block]
          /\ reading[s].block \in DOMAIN inserts
      BY <1>15, <1>21, <1>25, <2>3 DEF IInv, LoadsExclude
    <3>2. inserts[reading[s].block].buffer \notin ToSet(freed)
      BY <1>16, <1>19, <3>1 DEF Owned
    <3>3. content'[inserts[reading[s].block].buffer] = content[inserts[reading[s].block].buffer]
      BY <1>22, <3>1, <3>2, StepFields DEF IInv
    <3>4. updating'.loaded = TRUE /\ updating'.block = reading'[s].block => updating.loaded = TRUE
      BY <1>23, <3>1, StepFields DEF IInv
    <3>5. /\ HoldsRecent(content, settled, disk, inserts[reading[s].block].buffer,
                         reading[s].block)
          /\ updating.step = "patch" /\ updating.loaded = TRUE
               /\ updating.block = reading[s].block =>
               content[inserts[reading[s].block].buffer]
                 = <<reading[s].block, disk[reading[s].block]>>
      BY <2>1, <3>1 DEF HeldIn
    <3>6. HoldsRecent(content', settled', disk', inserts'[reading'[s].block].buffer,
                      reading'[s].block)
        <4>1. settled' = settled /\ disk' = disk
          BY <1>11
        <4>2. HoldsRecent(content, settled, disk, inserts[reading[s].block].buffer,
                          reading[s].block)
          BY <3>5
        <4>3. HoldsRecent(content', settled', disk', inserts[reading[s].block].buffer,
                          reading[s].block)
          BY <3>3, <4>1, <4>2 DEF HoldsRecent
        <4>. QED
          BY <3>1, <4>3
    <3>. QED
        <4>1. ASSUME updating'.step = "patch", updating'.loaded = TRUE,
                     updating'.block = reading'[s].block
              PROVE  content'[inserts'[reading'[s].block].buffer]
                       = <<reading'[s].block, disk'[reading'[s].block]>>
          <5>1. /\ updating.step = "patch" /\ updating.loaded = TRUE
                /\ updating.block = reading[s].block
            BY <1>23, <3>1, <3>4, <4>1
          <5>2. content[inserts[reading[s].block].buffer]
                  = <<reading[s].block, disk[reading[s].block]>>
            BY <3>5, <5>1
          <5>. QED
            BY <1>11, <3>1, <3>3, <5>2
        <4>. QED
          BY <3>6, <4>1
  <2>4. HeldIn(content', settled', disk', cells', inserts', reading', updating')
    BY <2>2, <2>3 DEF HeldIn
  <2>. QED
    BY <2>4, HeldMeans
<1>29. PointersAreCached'
  <2>1. ASSUME NEW s \in BlockReaders
        PROVE  reading'[s].step # "idle" => reading'[s].due <= settled'[reading'[s].block]
    BY <1>11, <1>21, <1>25 DEF IInv, PointersAreCached
  <2>2. ASSUME NEW s \in BlockReaders, reading'[s].step = "copy", reading'[s].reclaimed = FALSE
        PROVE  /\ reading'[s].block \in DOMAIN cells'
               /\ reading'[s].buffer = cells'[reading'[s].block].buffer
    <3>1. /\ reading'[s].block \in DOMAIN held
          /\ reading'[s].buffer = held[reading'[s].block].buffer
      <4>1. CASE reading[s].block = k /\ reading[s].step \in {"wait", "publish"}
        BY <1>13, <1>21, <4>1
      <4>2. CASE ~(reading[s].block = k /\ reading[s].step \in {"wait", "publish"})
        BY <1>13, <1>21, <2>2, <4>2 DEF IInv, PointersAreCached
      <4>. QED
        BY <4>1, <4>2
    <3>2. reading'[s].buffer \notin ToSet(freed)
      BY <1>21, <2>2
    <3>. QED
      BY <1>19, <3>1, <3>2
  <2>. QED
    BY <2>1, <2>2 DEF PointersAreCached
<1>30. BuffersHaveOneOwner'
  BY <1>20, OwnersMean
<1>31. QueueOrdersTheCache'
  BY <1>11, <1>18, <1>19 DEF QueueOrdersTheCache
<1>. QED
  BY <1>24, <1>26, <1>27, <1>28, <1>29, <1>30, <1>31 DEF IInv

-----------------------------------------------------------------------------
(* The steps of the thread that updates blocks, and of who alters the size. *)

\* The file is written.
LEMMA WriteBlockKeeps ==
  ASSUME IInv, NEW k \in UpdatedBlocks, WriteBlock(k)
  PROVE  IInv'
<1>1. /\ updating.step = "idle" /\ disk[k] < MaxUpdates
      /\ disk' = [disk EXCEPT ![k] = @ + 1]
      /\ updating' = [NotUpdating EXCEPT !.step = "lookup", !.block = k]
      /\ UNCHANGED <<settled, cacheSize, maxPool, cells, queue, inserts, content, pool, reading>>
  BY DEF WriteBlock
<1>2. k \in Blocks /\ disk[k] \in 0 .. MaxUpdates /\ settled[k] \in Nat
      /\ disk \in [Blocks -> 0 .. MaxUpdates] /\ MaxUpdates \in Nat
  BY Bounds DEF IInv, Typed
<1>3. /\ updating' \in Updates /\ updating'.step = "lookup" /\ updating'.block = k
  BY <1>1, <1>2 DEF NotUpdating, Updates
<1>4. /\ disk' \in [Blocks -> 0 .. MaxUpdates]
      /\ \A j \in Blocks : disk[j] <= disk'[j] /\ (j # k => disk'[j] = disk[j])
  <2>1. disk[k] + 1 \in 0 .. MaxUpdates
    BY <1>1, <1>2
  <2>2. disk' \in [Blocks -> 0 .. MaxUpdates]
    BY <1>1, <1>2, <2>1
  <2>3. \A j \in Blocks : disk'[j] = IF j = k THEN disk[k] + 1 ELSE disk[j]
    BY <1>1, <1>2
  <2>. QED
    BY <1>2, <2>2, <2>3
<1>5. Typed'
  BY <1>1, <1>3, <1>4 DEF IInv, Typed
<1>6. LoadsExclude' /\ PointersAreCached'
  BY <1>1 DEF IInv, LoadsExclude, PointersAreCached
<1>7. UpdatesSettle'
  <2>1. updating.block = NoBlock /\ NoBlock \notin Blocks
    BY <1>1, Bounds DEF IInv, UpdatesSettle
  <2>2. \A j \in Blocks : settled[j] = disk[j] /\ settled[j] \in Nat
    BY <2>1, StepFields DEF IInv, UpdatesSettle
  <2>3. \A j \in Blocks : settled'[j] <= disk'[j] /\ (j # k => settled'[j] = disk'[j])
    BY <1>1, <1>2, <1>4, <2>2
  <2>. QED
    BY <1>2, <1>3, <2>1, <2>3 DEF UpdatesSettle
<1>8. HeldIsRecent'
  <2>1. HeldIn(content, settled, disk, cells, inserts, reading, updating)
    BY HeldMeans DEF IInv
  <2>2. ASSUME NEW b, NEW j \in Blocks, HoldsRecent(content, settled, disk, b, j)
        PROVE  HoldsRecent(content', settled', disk', b, j)
    <3>1. PICK n \in settled[j] .. disk[j] : content[b] = <<j, n>>
      BY <2>2 DEF HoldsRecent
    <3>2. n \in settled'[j] .. disk'[j]
      <4>1. disk[j] \in Nat /\ settled[j] \in Nat /\ disk'[j] \in Nat /\ disk[j] <= disk'[j]
        BY <1>2, <1>4, StepFields DEF IInv
      <4>. QED
        BY <1>1, <3>1, <4>1
    <3>. QED
      BY <1>1, <3>1, <3>2 DEF HoldsRecent
  <2>3. \A j \in DOMAIN cells : HoldsRecent(content', settled', disk', cells'[j].buffer, j)
    BY <1>1, <2>1, <2>2 DEF HeldIn, IInv, Typed
  <2>4. \A s \in BlockReaders : reading[s].step = "publish" =>
          HoldsRecent(content', settled', disk', inserts'[reading[s].block].buffer,
                      reading[s].block)
    BY <1>1, <2>1, <2>2 DEF HeldIn, IInv, LoadsExclude
  <2>5. HeldIn(content', settled', disk', cells', inserts', reading', updating')
    BY <1>1, <1>3, <2>3, <2>4 DEF HeldIn
  <2>. QED
    BY <2>5, HeldMeans
<1>9. BuffersHaveOneOwner'
  BY <1>1, OwnersMean DEF IInv
<1>10. QueueOrdersTheCache'
  BY <1>1 DEF IInv, QueueOrdersTheCache
<1>. QED
  BY <1>5, <1>6, <1>7, <1>8, <1>9, <1>10 DEF IInv

\* An update that waits for the lock of an insert.
LEMMA WaitKeeps ==
  ASSUME IInv, updating.step = "lookup", updating.block \in DOMAIN inserts,
         updating' = [updating EXCEPT !.step = "patch", !.loaded = FALSE],
         UNCHANGED <<disk, settled, cacheSize, maxPool, cells, queue, inserts, content, pool,
                     reading>>
  PROVE  IInv'
<1>1. /\ updating' \in Updates /\ updating'.step = "patch" /\ updating'.block = updating.block
      /\ updating'.loaded = FALSE
  BY DEF IInv, Typed, Updates
<1>2. Typed'
  BY <1>1 DEF IInv, Typed
<1>3. LoadsExclude' /\ PointersAreCached'
  BY DEF IInv, LoadsExclude, PointersAreCached
<1>4. UpdatesSettle'
  BY <1>1 DEF IInv, UpdatesSettle
<1>5. HeldIsRecent'
  BY <1>1 DEF IInv, HeldIsRecent, Holds, HoldsRecent
<1>6. BuffersHaveOneOwner'
  BY OwnersMean DEF IInv
<1>7. QueueOrdersTheCache'
  BY DEF IInv, QueueOrdersTheCache
<1>. QED
  BY <1>2, <1>3, <1>4, <1>5, <1>6, <1>7 DEF IInv

\* An update ends: the block is patched if it is cached; if it is about to be,
\* its load came after the file was written.
LEMMA UpdateEnds ==
  ASSUME IInv, NEW k \in Blocks, updating.step # "idle", updating.block = k,
         k \in DOMAIN inserts => updating.step = "patch",
         updating.step = "patch" => updating.loaded = TRUE \/ inserts[k].locked = FALSE,
         content' = Patched(k), settled' = [settled EXCEPT ![k] = disk[k]],
         updating' = NotUpdating,
         UNCHANGED <<disk, cacheSize, maxPool, cells, queue, inserts, pool, reading>>
  PROVE  IInv'
<1>1. /\ updating' \in Updates /\ updating'.step = "idle" /\ updating'.block = NoBlock
  BY DEF NotUpdating, Updates
<1>2. /\ disk[k] \in 0 .. MaxUpdates /\ disk[k] \in Nat /\ settled[k] \in Nat
      /\ settled[k] <= disk[k]
      /\ settled' \in [Blocks -> 0 .. MaxUpdates]
      /\ \A j \in Blocks : settled'[j] = IF j = k THEN disk[k] ELSE settled[j]
  BY StepFields DEF IInv, Typed, UpdatesSettle
<1>3. /\ content' \in [Buffers -> {<< >>} \cup (Blocks \X Nat)]
      /\ k \in DOMAIN cells => content'[cells[k].buffer] = <<k, disk[k]>>
      /\ \A b \in Buffers : ~(k \in DOMAIN cells /\ b = cells[k].buffer) => content'[b] = content[b]
  <2>1. CASE k \in DOMAIN cells
    <3>1. cells[k].buffer \in Buffers /\ <<k, disk[k]>> \in Blocks \X Nat
      BY <1>2, <2>1, StepFields DEF IInv
    <3>2. content' = [content EXCEPT ![cells[k].buffer] = <<k, disk[k]>>]
      BY <2>1 DEF Patched
    <3>3. content \in [Buffers -> {<< >>} \cup (Blocks \X Nat)]
      BY DEF IInv, Typed
    <3>. QED
      BY <2>1, <3>1, <3>2, <3>3
  <2>2. CASE k \notin DOMAIN cells
    BY <2>2 DEF Patched, IInv, Typed
  <2>. QED
    BY <2>1, <2>2
<1>4. Typed'
  BY <1>1, <1>2, <1>3 DEF IInv, Typed
<1>5. LoadsExclude'
  BY DEF IInv, LoadsExclude
<1>6. PointersAreCached'
  <2>1. \A s \in BlockReaders : reading[s].step # "idle" => reading[s].due <= settled'[reading[s].block]
    <3>. SUFFICES ASSUME NEW s \in BlockReaders, reading[s].step # "idle"
                  PROVE  reading[s].due <= settled'[reading[s].block]
      OBVIOUS
    <3>1. /\ reading[s].block \in Blocks /\ reading[s].due \in Nat
          /\ reading[s].due <= settled[reading[s].block] /\ settled[reading[s].block] \in Nat
      BY StepFields DEF IInv, LoadsExclude, PointersAreCached
    <3>. QED
      BY <1>2, <3>1
  <2>. QED
    BY <2>1 DEF IInv, PointersAreCached
<1>7. UpdatesSettle'
  <2>1. \A j \in Blocks : settled'[j] <= disk[j] /\ settled'[j] = disk[j]
    BY <1>2, StepFields DEF IInv, UpdatesSettle
  <2>. QED
    BY <1>1, <2>1 DEF UpdatesSettle
<1>8. Owned(cells, inserts, pool)
  BY OwnersMean DEF IInv
<1>9. HeldIn(content, settled, disk, cells, inserts, reading, updating)
  BY HeldMeans DEF IInv
<1>10. HeldIsRecent'
  <2>1. ASSUME NEW j \in DOMAIN cells
        PROVE  HoldsRecent(content', settled', disk', cells'[j].buffer, j)
    <3>1. CASE j = k
      <4>1. content'[cells[k].buffer] = <<k, disk[k]>> /\ disk[k] \in settled'[k] .. disk[k]
        BY <1>2, <1>3, <2>1, <3>1
      <4>. QED
        BY <3>1, <4>1 DEF HoldsRecent
    <3>2. CASE j # k
      <4>1. j \in Blocks /\ cells[j].buffer \in Buffers
        BY <2>1, StepFields DEF IInv, Typed
      <4>2. content'[cells[j].buffer] = content[cells[j].buffer] /\ settled'[j] = settled[j]
        BY <1>2, <1>3, <1>8, <2>1, <3>2, <4>1 DEF Owned
      <4>. QED
        BY <1>9, <2>1, <4>2 DEF HeldIn, HoldsRecent
    <3>. QED
      BY <3>1, <3>2
  <2>2. ASSUME NEW s \in BlockReaders, reading[s].step = "publish"
        PROVE  HoldsRecent(content', settled', disk', inserts'[reading[s].block].buffer,
                           reading[s].block)
    <3>1. /\ reading[s].block \in DOMAIN inserts /\ inserts[reading[s].block].locked = TRUE
          /\ reading[s].block \in Blocks /\ inserts[reading[s].block].buffer \in Buffers
      BY <2>2, StepFields DEF IInv, LoadsExclude
    <3>2. content'[inserts[reading[s].block].buffer] = content[inserts[reading[s].block].buffer]
      BY <1>3, <1>8, <3>1 DEF Owned
    <3>3. /\ HoldsRecent(content, settled, disk, inserts[reading[s].block].buffer,
                         reading[s].block)
          /\ updating.step = "patch" /\ updating.loaded = TRUE
               /\ updating.block = reading[s].block =>
               content[inserts[reading[s].block].buffer]
                 = <<reading[s].block, disk[reading[s].block]>>
      BY <1>9, <2>2 DEF HeldIn
    <3>4. CASE reading[s].block = k
      <4>1. updating.step = "patch" /\ updating.loaded = TRUE
        BY <3>1, <3>4
      <4>2. content'[inserts[k].buffer] = <<k, disk[k]>> /\ disk[k] \in settled'[k] .. disk[k]
        BY <1>2, <3>2, <3>3, <3>4, <4>1
      <4>. QED
        BY <3>4, <4>2 DEF HoldsRecent
    <3>5. CASE reading[s].block # k
      <4>1. settled'[reading[s].block] = settled[reading[s].block]
        BY <1>2, <3>1, <3>5
      <4>. QED
        BY <3>2, <3>3, <4>1 DEF HoldsRecent
    <3>. QED
      BY <3>4, <3>5
  <2>3. HeldIn(content', settled', disk', cells', inserts', reading', updating')
    BY <1>1, <2>1, <2>2 DEF HeldIn
  <2>. QED
    BY <2>3, HeldMeans
<1>11. BuffersHaveOneOwner'
  BY OwnersMean DEF IInv
<1>12. QueueOrdersTheCache'
  BY DEF IInv, QueueOrdersTheCache
<1>. QED
  BY <1>4, <1>5, <1>6, <1>7, <1>10, <1>11, <1>12 DEF IInv

\* LRUCache::Update patches the block or waits.
LEMMA LookupForUpdateKeeps ==
  ASSUME IInv, LookupForUpdate
  PROVE  IInv'
<1>1. updating.step = "lookup" /\ updating.block \in Blocks
  BY StepFields DEF LookupForUpdate, IInv, UpdatesSettle
<1>2. CASE updating.block \in DOMAIN inserts
  <2>1. /\ updating' = [updating EXCEPT !.step = "patch", !.loaded = FALSE]
        /\ UNCHANGED <<disk, settled, cacheSize, maxPool, cells, queue, inserts, content, pool,
                       reading>>
    BY <1>2 DEF LookupForUpdate, WaitsForInsert
  <2>. QED
    BY <1>1, <1>2, <2>1, WaitKeeps
<1>3. CASE updating.block \notin DOMAIN inserts
  <2>1. PICK k \in Blocks : k = updating.block
    BY <1>1
  <2>2. /\ content' = Patched(k) /\ settled' = [settled EXCEPT ![k] = disk[k]]
        /\ updating' = NotUpdating
        /\ UNCHANGED <<disk, cacheSize, maxPool, cells, queue, inserts, pool, reading>>
    BY <1>3, <2>1 DEF LookupForUpdate, WaitsForInsert
  <2>3. updating.step # "idle" /\ updating.step # "patch" /\ k \notin DOMAIN inserts
    BY <1>1, <1>3, <2>1
  <2>. QED
    BY <2>1, <2>2, <2>3, UpdateEnds
<1>. QED
  BY <1>2, <1>3

\* After the wait, the block is patched.
LEMMA PatchBlockKeeps ==
  ASSUME IInv, PatchBlock
  PROVE  IInv'
<1>1. updating.step = "patch" /\ updating.block \in Blocks
  BY StepFields DEF PatchBlock, IInv, UpdatesSettle
<1>2. PICK k \in Blocks : k = updating.block
  BY <1>1
<1>3. /\ content' = Patched(k) /\ settled' = [settled EXCEPT ![k] = disk[k]]
      /\ updating' = NotUpdating
      /\ UNCHANGED <<disk, cacheSize, maxPool, cells, queue, inserts, pool, reading>>
  BY <1>2 DEF PatchBlock
<1>4. updating.loaded = TRUE \/ inserts[k].locked = FALSE
  <2>1. CASE updating.loaded = TRUE
    BY <2>1
  <2>2. CASE updating.loaded = FALSE
    <3>1. k \in DOMAIN inserts
      BY <1>1, <1>2, <2>2 DEF IInv, UpdatesSettle
    <3>2. inserts[k].locked \in BOOLEAN
      BY <3>1, StepFields DEF IInv
    <3>3. ~(~updating.loaded /\ inserts[k].locked)
      BY <1>2 DEF PatchBlock
    <3>. QED
      BY <2>2, <3>2, <3>3
  <2>3. updating.loaded \in BOOLEAN
    BY StepFields DEF IInv
  <2>. QED
    BY <2>1, <2>2, <2>3
<1>5. updating.step # "idle"
  BY <1>1
<1>. QED
  BY <1>1, <1>2, <1>3, <1>4, <1>5, UpdateEnds

\* A part of a pool.
LEMMA PoolPart ==
  ASSUME NEW c, NEW i, NEW p \in Seq(Buffers), Owned(c, i, p), NEW n \in 0 .. Len(p)
  PROVE  SubSeq(p, n + 1, Len(p)) \in Seq(Buffers) /\ Owned(c, i, SubSeq(p, n + 1, Len(p)))
<1>1. IsInjective(p)
  BY DEF Owned
<1>2. SubSeq(p, n + 1, Len(p)) \in Seq(Buffers)
  BY Cut
<1>3. /\ IsInjective(SubSeq(p, n + 1, Len(p)))
      /\ ToSet(SubSeq(p, n + 1, Len(p))) \subseteq ToSet(p)
  BY <1>1, CutApart
<1>4. PICK part : part = SubSeq(p, n + 1, Len(p))
  OBVIOUS
<1>5. IsInjective(part) /\ ToSet(part) \subseteq ToSet(p)
  BY <1>3, <1>4
<1>6. Owned(c, i, part)
  BY <1>5 DEF Owned
<1>. QED
  BY <1>2, <1>4, <1>6

\* The cache gets another size; a smaller one evicts.
LEMMA AlterCacheSizeKeeps ==
  ASSUME IInv, NEW size \in CacheSizes, AlterCacheSize(size)
  PROVE  IInv'
<1>. DEFINE Gone == SubSeq(queue, 1, Evicted(queue, size))
            Freed == [n \in 1 .. Len(Gone) |-> cells[Gone[n]].buffer]
            Used == Cardinality(InUse) - Len(Gone)
            Refilled == Reclaim(Freed, Used)
            Limit == MaxSize(size) + PoolSpare
            Over == Len(Refilled) + Used - Limit
            Dropped == Clamped(Over, Len(Refilled))
<1>1. /\ cacheSize' = size
      /\ queue' = SubSeq(queue, Len(Gone) + 1, Len(queue))
      /\ cells' = Without(cells, ToSet(Gone))
      /\ pool' = SubSeq(Refilled, Dropped + 1, Len(Refilled))
      /\ maxPool' = IF Over <= 0 THEN Limit ELSE maxPool - Dropped
      /\ reading' = Reclaimed(reading, ToSet(Freed))
      /\ content' = Forgotten(ToSet(Freed))
      /\ UNCHANGED <<disk, settled, inserts, updating>>
  BY DEF AlterCacheSize
<1>2. PICK gone : gone = Gone
  OBVIOUS
<1>3. PICK freed : freed = Freed
  OBVIOUS
<1>4. PICK used : used = Used
  OBVIOUS
<1>5. PICK refilled : refilled = Refilled
  OBVIOUS
<1>6. PICK over : over = Over
  OBVIOUS
<1>7. PICK dropped : dropped = Dropped
  OBVIOUS
<1>8. /\ gone = SubSeq(queue, 1, Evicted(queue, size))
      /\ freed = [n \in 1 .. Len(gone) |-> cells[gone[n]].buffer]
  BY <1>2, <1>3
<1>9. used = Cardinality(InUse) - Len(gone)
  BY <1>2, <1>4
<1>10. refilled = Reclaim(freed, used)
  BY <1>3, <1>4, <1>5
<1>11. /\ over = Len(refilled) + used - (MaxSize(size) + PoolSpare)
       /\ dropped = Clamped(over, Len(refilled))
  BY <1>4, <1>5, <1>6, <1>7
<1>12. /\ cacheSize' = size
       /\ queue' = SubSeq(queue, Len(gone) + 1, Len(queue))
       /\ cells' = Without(cells, ToSet(gone))
       /\ pool' = SubSeq(refilled, dropped + 1, Len(refilled))
       /\ maxPool' = IF over <= 0 THEN MaxSize(size) + PoolSpare ELSE maxPool - dropped
       /\ reading' = Reclaimed(reading, ToSet(freed))
       /\ content' = Forgotten(ToSet(freed))
       /\ UNCHANGED <<disk, settled, inserts, updating>>
  BY <1>1, <1>2, <1>3, <1>5, <1>6, <1>7
<1>. HIDE DEF Gone, Freed, Used, Refilled, Limit, Over, Dropped
<1>13. /\ size \in Nat /\ Evicted(queue, size) \in 0 .. Len(queue)
       /\ Len(queue) - Evicted(queue, size) <= size /\ queue \in Seq(Blocks)
  <2>1. size \in Nat /\ queue \in Seq(Blocks)
    BY Bounds DEF IInv, Typed
  <2>. QED
    BY <2>1, EvictedFits
<1>14. Owned(cells, inserts, pool)
  BY OwnersMean DEF IInv
<1>15. /\ freed \in Seq(Buffers) /\ IsInjective(freed)
       /\ \A c \in ToSet(freed) : \E j \in DOMAIN cells : c = cells[j].buffer
       /\ DOMAIN cells' \subseteq DOMAIN cells
       /\ \A j \in DOMAIN cells' : cells'[j] = cells[j] /\ cells[j].buffer \notin ToSet(freed)
       /\ \A j \in DOMAIN cells : cells[j].buffer \notin ToSet(freed) => j \in DOMAIN cells'
       /\ queue' \in Seq(Blocks) /\ IsInjective(queue') /\ ToSet(queue') = DOMAIN cells'
       /\ Len(queue') = Len(queue) - Evicted(queue, size)
  <2>1. Ordered(cells, queue)
    BY <1>13, <1>14, StepFields DEF Owned, Ordered, IInv, QueueOrdersTheCache
  <2>2. PICK n : n = Evicted(queue, size)
    OBVIOUS
  <2>3. PICK left : left = cells'
    OBVIOUS
  <2>4. PICK rest : rest = queue'
    OBVIOUS
  <2>5. n \in 0 .. Len(queue) /\ Evicts(cells, queue, n, gone, freed, left, rest)
    BY <1>8, <1>12, <1>13, <2>2, <2>3, <2>4 DEF Evicts
  <2>6. EvictsWell(cells, queue, n, freed, left, rest)
    BY <2>1, <2>5, Eviction
  <2>. QED
    BY <2>2, <2>3, <2>4, <2>6 DEF EvictsWell
<1>16. used \in Int
  <2>1. gone \in Seq(Blocks) /\ Len(gone) \in Nat
    BY <1>8, <1>13, Cut
  <2>2. IsFiniteSet(InUse)
    <3>1. InUse \in SUBSET Buffers
      BY StepFields DEF InUse, Cached, Loading, IInv
    <3>. QED
      BY <3>1, BufferNumbers, FS_Subset
  <2>3. Cardinality(InUse) \in Nat
    BY <2>2, FS_CardinalityType
  <2>. QED
    BY <1>9, <2>1, <2>3
<1>17. refilled \in Seq(Buffers) /\ Owned(cells', inserts, refilled)
  <2>1. Typed
    BY DEF IInv
  <2>2. PICK left : left = cells'
    OBVIOUS
  <2>3. /\ DOMAIN left \subseteq DOMAIN cells
        /\ \A j \in DOMAIN left : left[j] = cells[j] /\ cells[j].buffer \notin ToSet(freed)
    BY <1>15, <2>2
  <2>4. Reclaim(freed, used) \in Seq(Buffers) /\ Owned(left, inserts, Reclaim(freed, used))
    BY <1>14, <1>15, <1>16, <2>1, <2>3, EvictedAreFree
  <2>. QED
    BY <1>10, <2>2, <2>4
<1>18. /\ MaxSize(size) \in Int /\ PoolSpare \in Int /\ Len(refilled) \in Nat /\ maxPool \in Int
  <2>1. size \div OverflowShare \in 0 .. size
    BY <1>13, Bounds, Parts
  <2>2. MaxSize(size) \in Int
    BY <1>13, <2>1 DEF MaxSize, MaxOverflow
  <2>. QED
    BY <1>17, <2>2, Bounds DEF IInv, Typed
<1>19. over \in Int /\ dropped \in 0 .. Len(refilled)
  BY <1>11, <1>16, <1>18 DEF Clamped
<1>20. pool' \in Seq(Buffers) /\ Owned(cells', inserts', pool')
  <2>1. PICK left : left = cells'
    OBVIOUS
  <2>2. Owned(left, inserts, refilled)
    BY <1>17, <2>1
  <2>3. /\ SubSeq(refilled, dropped + 1, Len(refilled)) \in Seq(Buffers)
        /\ Owned(left, inserts, SubSeq(refilled, dropped + 1, Len(refilled)))
    BY <1>17, <1>19, <2>2, PoolPart
  <2>4. inserts' = inserts /\ pool' = SubSeq(refilled, dropped + 1, Len(refilled))
    BY <1>12
  <2>. QED
    BY <2>1, <2>3, <2>4
<1>21. \A s \in BlockReaders :
         /\ reading'[s] \in Reads
         /\ reading'[s].block = reading[s].block /\ reading'[s].due = reading[s].due
         /\ reading'[s].step = reading[s].step /\ reading'[s].buffer = reading[s].buffer
         /\ reading'[s].reclaimed = FALSE =>
              reading[s].reclaimed = FALSE /\ reading'[s].buffer \notin ToSet(freed)
  <2>. TAKE s \in BlockReaders
  <2>1. PICK old \in Reads : old = reading[s]
    BY DEF IInv, Typed
  <2>2. PICK set : set = [old EXCEPT !.reclaimed = TRUE]
    OBVIOUS
  <2>3. /\ set \in Reads /\ set.block = old.block /\ set.due = old.due
        /\ set.step = old.step /\ set.buffer = old.buffer /\ set.reclaimed = TRUE
    BY <2>1, <2>2 DEF Reads
  <2>4. reading'[s] = IF old.buffer \in ToSet(freed) THEN set ELSE old
    BY <1>12, <2>1, <2>2 DEF Reclaimed
  <2>. QED
    BY <2>1, <2>3, <2>4
<1>22. /\ content' \in [Buffers -> {<< >>} \cup (Blocks \X Nat)]
       /\ \A c \in Buffers : c \notin ToSet(freed) => content'[c] = content[c]
  BY <1>12 DEF Forgotten, IInv, Typed
<1>23. Typed'
  <2>1. reading' \in [BlockReaders -> Reads]
    BY <1>12, <1>21 DEF Reclaimed
  <2>2. /\ \A j \in DOMAIN cells' : cells'[j] \in [buffer : Buffers, hits : 0 .. HitsToMove]
        /\ DOMAIN cells' \subseteq Blocks
    BY <1>15 DEF IInv, Typed
  <2>3. /\ disk' \in [Blocks -> 0 .. MaxUpdates] /\ settled' \in [Blocks -> 0 .. MaxUpdates]
        /\ DOMAIN inserts' \subseteq Blocks
        /\ \A j \in DOMAIN inserts' : inserts'[j] \in [buffer : Buffers, locked : BOOLEAN]
        /\ updating' \in Updates
    BY <1>12 DEF IInv, Typed
  <2>4. cacheSize' \in Nat /\ maxPool' \in Int
    BY <1>12, <1>13, <1>18, <1>19
  <2>. QED
    BY <1>15, <1>20, <1>22, <2>1, <2>2, <2>3, <2>4 DEF Typed
<1>24. LoadsExclude'
  <2>1. DOMAIN cells' \cap DOMAIN inserts' = {}
    BY <1>12, <1>15 DEF IInv, LoadsExclude
  <2>2. ASSUME NEW s \in BlockReaders
        PROVE  /\ reading'[s].step # "idle" => reading'[s].block \in Blocks
               /\ reading'[s].step = "wait" => reading'[s].block \in DOMAIN inserts'
               /\ reading'[s].step \in {"load", "publish"} =>
                    /\ reading'[s].block \in DOMAIN inserts'
                    /\ inserts'[reading'[s].block].locked = TRUE
    <3>1. /\ reading'[s].step = reading[s].step /\ reading'[s].block = reading[s].block
          /\ inserts' = inserts
      BY <1>12, <1>21
    <3>. QED
      BY <3>1 DEF IInv, LoadsExclude
  <2>3. ASSUME NEW s \in BlockReaders, NEW t \in BlockReaders,
               reading'[s].step \in {"load", "publish"}, reading'[t].step \in {"load", "publish"},
               reading'[s].block = reading'[t].block
        PROVE  s = t
    <3>1. /\ reading'[s].step = reading[s].step /\ reading'[s].block = reading[s].block
          /\ reading'[t].step = reading[t].step /\ reading'[t].block = reading[t].block
      BY <1>21
    <3>. QED
      BY <2>3, <3>1 DEF IInv, LoadsExclude
  <2>. QED
    BY <2>1, <2>2, <2>3 DEF LoadsExclude
<1>25. UpdatesSettle'
  BY <1>12 DEF IInv, UpdatesSettle
<1>26. HeldIsRecent'
  <2>1. HeldIn(content, settled, disk, cells, inserts, reading, updating)
    BY HeldMeans DEF IInv
  <2>2. ASSUME NEW j \in DOMAIN cells'
        PROVE  HoldsRecent(content', settled', disk', cells'[j].buffer, j)
    <3>1. /\ cells'[j].buffer = cells[j].buffer /\ cells[j].buffer \in Buffers
          /\ content'[cells[j].buffer] = content[cells[j].buffer] /\ j \in DOMAIN cells
      BY <1>15, <1>22, <2>2, StepFields DEF IInv
    <3>. QED
      BY <1>12, <2>1, <3>1 DEF HeldIn, HoldsRecent
  <2>3. ASSUME NEW s \in BlockReaders, reading[s].step = "publish"
        PROVE  /\ HoldsRecent(content', settled', disk', inserts[reading[s].block].buffer,
                              reading[s].block)
               /\ updating.step = "patch" /\ updating.loaded = TRUE
                    /\ updating.block = reading[s].block =>
                    content'[inserts[reading[s].block].buffer]
                      = <<reading[s].block, disk[reading[s].block]>>
    <3>1. /\ reading[s].block \in DOMAIN inserts /\ inserts[reading[s].block].buffer \in Buffers
      BY <2>3, StepFields DEF IInv, LoadsExclude
    <3>2. inserts[reading[s].block].buffer \notin ToSet(freed)
      BY <1>14, <1>15, <3>1 DEF Owned
    <3>3. content'[inserts[reading[s].block].buffer] = content[inserts[reading[s].block].buffer]
      BY <1>22, <3>1, <3>2
    <3>4. /\ HoldsRecent(content, settled, disk, inserts[reading[s].block].buffer,
                         reading[s].block)
          /\ updating.step = "patch" /\ updating.loaded = TRUE
               /\ updating.block = reading[s].block =>
               content[inserts[reading[s].block].buffer]
                 = <<reading[s].block, disk[reading[s].block]>>
      BY <2>1, <2>3 DEF HeldIn
    <3>5. HoldsRecent(content', settled', disk', inserts[reading[s].block].buffer,
                      reading[s].block)
      BY <1>12, <3>3, <3>4 DEF HoldsRecent
    <3>. QED
      BY <3>3, <3>4, <3>5
  <2>4. HeldIn(content', settled', disk', cells', inserts', reading', updating')
    <3>1. \A j \in DOMAIN cells' : HoldsRecent(content', settled', disk', cells'[j].buffer, j)
      BY <2>2
    <3>2. ASSUME NEW s \in BlockReaders, reading'[s].step = "publish"
          PROVE  /\ HoldsRecent(content', settled', disk', inserts'[reading'[s].block].buffer,
                                reading'[s].block)
                 /\ updating'.step = "patch" /\ updating'.loaded = TRUE
                      /\ updating'.block = reading'[s].block =>
                      content'[inserts'[reading'[s].block].buffer]
                        = <<reading'[s].block, disk'[reading'[s].block]>>
      <4>1. /\ reading'[s].step = reading[s].step /\ reading'[s].block = reading[s].block
            /\ inserts' = inserts /\ updating' = updating /\ disk' = disk
        BY <1>12, <1>21
      <4>2. reading[s].step = "publish"
        BY <3>2, <4>1
      <4>3. /\ HoldsRecent(content', settled', disk', inserts[reading[s].block].buffer,
                           reading[s].block)
            /\ updating.step = "patch" /\ updating.loaded = TRUE
                 /\ updating.block = reading[s].block =>
                 content'[inserts[reading[s].block].buffer]
                   = <<reading[s].block, disk[reading[s].block]>>
        BY <2>3, <4>2
      <4>. QED
        BY <4>1, <4>3
    <3>. QED
      BY <3>1, <3>2 DEF HeldIn
  <2>. QED
    BY <2>4, HeldMeans
<1>27. PointersAreCached'
  <2>1. ASSUME NEW s \in BlockReaders, reading'[s].step = "copy", reading'[s].reclaimed = FALSE
        PROVE  /\ reading'[s].block \in DOMAIN cells'
               /\ reading'[s].buffer = cells'[reading'[s].block].buffer
    BY <1>15, <1>21, <2>1 DEF IInv, PointersAreCached
  <2>2. \A s \in BlockReaders :
          reading'[s].step # "idle" => reading'[s].due <= settled'[reading'[s].block]
    BY <1>12, <1>21 DEF IInv, PointersAreCached
  <2>. QED
    BY <2>1, <2>2 DEF PointersAreCached
<1>28. BuffersHaveOneOwner'
  BY <1>20, OwnersMean
<1>29. QueueOrdersTheCache'
  BY <1>12, <1>13, <1>15 DEF QueueOrdersTheCache
<1>. QED
  BY <1>23, <1>24, <1>25, <1>26, <1>27, <1>28, <1>29 DEF IInv

-----------------------------------------------------------------------------
(* The theorems. *)

\* Every step keeps the invariant.
LEMMA StepHolds == IInv /\ [CacheNext]_cacheVars => IInv'
<1>. SUFFICES ASSUME IInv, [CacheNext]_cacheVars PROVE IInv'
  OBVIOUS
<1>1. ASSUME NEW r \in BlockReaders, NEW k \in Blocks, Lookup(r, k) PROVE IInv'
  BY <1>1, HitKeeps, MissKeeps
<1>2. ASSUME NEW r \in BlockReaders, LockInsert(r) PROVE IInv'
  BY <1>2, LockInsertKeeps
<1>3. ASSUME NEW r \in BlockReaders, LoadBlock(r) PROVE IInv'
  BY <1>3, LoadBlockKeeps
<1>4. ASSUME NEW r \in BlockReaders, Publish(r) PROVE IInv'
  BY <1>4, PublishKeeps
<1>5. ASSUME NEW r \in BlockReaders, Copy(r) PROVE IInv'
  BY <1>5, CopyKeeps
<1>6. ASSUME NEW k \in UpdatedBlocks, WriteBlock(k) PROVE IInv'
  BY <1>6, WriteBlockKeeps
<1>7. CASE LookupForUpdate
  BY <1>7, LookupForUpdateKeeps
<1>8. CASE PatchBlock
  BY <1>8, PatchBlockKeeps
<1>9. ASSUME NEW size \in CacheSizes, AlterCacheSize(size) PROVE IInv'
  BY <1>9, AlterCacheSizeKeeps
<1>10. CASE UNCHANGED cacheVars
  <2>1. UNCHANGED <<disk, settled, cacheSize, cells, queue, inserts, content, pool, maxPool,
                    reading, updating>>
    BY <1>10 DEF cacheVars
  <2>2. Typed'
    BY <2>1 DEF IInv, Typed
  <2>3. LoadsExclude' /\ UpdatesSettle' /\ PointersAreCached' /\ QueueOrdersTheCache'
    BY <2>1 DEF IInv, LoadsExclude, UpdatesSettle, PointersAreCached, QueueOrdersTheCache
  <2>4. HeldIsRecent' /\ BuffersHaveOneOwner'
    BY <2>1, HeldMeans, OwnersMean DEF IInv
  <2>. QED
    BY <2>2, <2>3, <2>4 DEF IInv
<1>. QED
  BY <1>1, <1>2, <1>3, <1>4, <1>5, <1>6, <1>7, <1>8, <1>9, <1>10 DEF CacheNext

\* The inductive invariant holds in every run of the cache.
THEOREM InvariantHolds == CacheSpec => []IInv
<1>1. CacheInit => IInv
  BY InitHolds
<1>2. IInv /\ [CacheNext]_cacheVars => IInv'
  BY StepHolds
<1>. QED
  BY <1>1, <1>2, PTL DEF CacheSpec

\* What SetOrGet hands out is the block, as it was after every update that had
\* returned before the read began; what is cached is the file's block unless an
\* update of it is on the way; a buffer is never in two places; the queue
\* orders exactly what is cached.
THEOREM CacheIsSound == CacheSpec => []CacheInv
<1>1. IInv => CacheInv
  <2>. SUFFICES ASSUME IInv PROVE CacheInv
    OBVIOUS
  <2>1. CacheTypeOK
    <3>1. disk \in [Blocks -> 0 .. MaxUpdates]
      BY DEF IInv, Typed
    <3>2. DOMAIN cells \subseteq Blocks /\ DOMAIN inserts \subseteq Blocks
          /\ \A k \in DOMAIN cells : cells[k] \in [buffer : Buffers, hits : 0 .. HitsToMove]
      BY DEF IInv, Typed
    <3>3. pool \in Seq(Buffers)
      BY DEF IInv, Typed
    <3>. QED
      BY <3>1, <3>2, <3>3, StepFields DEF IInv, CacheTypeOK
  <2>2. HeldIn(content, settled, disk, cells, inserts, reading, updating)
    BY HeldMeans DEF IInv
  <2>3. CachedBlocksAreCurrent
    <3>. SUFFICES ASSUME NEW k \in DOMAIN cells, updating.block # k
                  PROVE  content[cells[k].buffer] = <<k, disk[k]>>
      BY DEF CachedBlocksAreCurrent
    <3>1. k \in Blocks /\ settled[k] = disk[k] /\ disk[k] \in Nat
      BY StepFields DEF IInv, Typed, UpdatesSettle
    <3>2. PICK n \in settled[k] .. disk[k] : content[cells[k].buffer] = <<k, n>>
      BY <2>2 DEF HeldIn, HoldsRecent
    <3>3. n = disk[k]
      BY <3>1, <3>2
    <3>. QED
      BY <3>2, <3>3
  <2>4. CopiesAreFresh
    <3>. SUFFICES ASSUME NEW r \in BlockReaders, reading[r].step = "copy", ~reading[r].reclaimed
                  PROVE  /\ content[reading[r].buffer] # << >>
                         /\ content[reading[r].buffer][1] = reading[r].block
                         /\ content[reading[r].buffer][2] >= reading[r].due
      BY DEF CopiesAreFresh
    <3>1. reading[r].reclaimed = FALSE
      BY StepFields DEF IInv
    <3>2. PICK k : k = reading[r].block
      OBVIOUS
    <3>3. k \in DOMAIN cells /\ reading[r].buffer = cells[k].buffer
      BY <3>1, <3>2 DEF IInv, PointersAreCached
    <3>4. PICK n \in settled[k] .. disk[k] : content[cells[k].buffer] = <<k, n>>
      BY <2>2, <3>3 DEF HeldIn, HoldsRecent
    <3>5. /\ settled[k] \in Nat /\ disk[k] \in Nat /\ reading[r].due \in Nat
          /\ reading[r].due <= settled[k]
      BY <3>2, <3>3, StepFields DEF IInv, PointersAreCached, Typed
    <3>6. n \in Nat /\ n >= reading[r].due
      BY <3>4, <3>5
    <3>7. content[reading[r].buffer] = <<k, n>>
      BY <3>3, <3>4
    <3>. QED
      BY <3>2, <3>6, <3>7
  <2>. QED
    BY <2>1, <2>3, <2>4 DEF IInv, CacheInv
<1>. QED
  BY <1>1, InvariantHolds, PTL

-----------------------------------------------------------------------------
(* Fields that were added later: ColumnFields.                             *)

\* A set of numbers has a lowest one.
LEMMA LowestNumber ==
  ASSUME NEW S, S \subseteq Nat, S # {}
  PROVE  \E m \in S : \A k \in S : m <= k
<1> DEFINE R == StrictSubsetOrdering(Nat)
           F == FiniteSubsetsOf(Nat)
           T == {0 .. n : n \in S}
<1>1. IsWellFoundedOn(R, F)
  BY FS_StrictSubsetOrderingWellFounded
<1>2. T \subseteq F
  <2>1. ASSUME NEW n \in S PROVE 0 .. n \in F
    <3>1. n \in Nat /\ 0 .. n \subseteq Nat
      OBVIOUS
    <3>2. IsFiniteSet(0 .. n)
      BY <3>1, FS_Interval
    <3> QED
      BY <3>1, <3>2 DEF FiniteSubsetsOf
  <2> HIDE DEF F
  <2> QED
    BY <2>1
<1>3. T # {}
  OBVIOUS
<1>4. PICK x \in T : \A y \in T : ~(<<y, x>> \in R)
  <2> HIDE DEF R, F, T
  <2> QED
    BY <1>1, <1>2, <1>3, WFMin
<1>5. PICK m \in S : x = 0 .. m
  OBVIOUS
<1>6. ASSUME NEW k \in S, k < m PROVE FALSE
  <2>1. m \in Nat /\ k \in Nat
    OBVIOUS
  <2>2. 0 .. k \subseteq 0 .. m /\ m \in 0 .. m /\ m \notin 0 .. k
    BY <1>6, <2>1
  <2>3. 0 .. k \in T /\ 0 .. k \subseteq Nat /\ 0 .. m \subseteq Nat
    BY <2>1
  <2>4. <<0 .. k, 0 .. m>> \in R
    BY <2>2, <2>3 DEF StrictSubsetOrdering
  <2> QED
    BY <2>3, <2>4, <1>4, <1>5
<1> QED
  BY <1>6

-----------------------------------------------------------------------------
(* Find: halving an entry.                                                 *)

Pairs == [fid : Nat, vid : Nat \ {0}]
EntryLists == Seq(Pairs)

\* One step of Find's search, on the pairs of places of an entry.
Places(entry) == (1 .. Len(entry)) \X (1 .. Len(entry))
SearchAt(entry, fid, g, span) ==
  LET s == span[1]
      e == span[2]
      m == (s - 1 + e - 1) \div 2 + 1
  IN  IF entry[s].fid = fid THEN s
      ELSE IF entry[s].fid > fid \/ fid > entry[e].fid THEN 0
      ELSE IF entry[e].fid = fid THEN e
      ELSE IF entry[m].fid = fid THEN m
      ELSE IF fid > entry[m].fid /\ m + 1 < e THEN g[<<m + 1, e>>]
      ELSE IF fid < entry[m].fid /\ s < m - 1 THEN g[<<s, m - 1>>]
      ELSE 0
Searched(entry, fid, g) == [span \in Places(entry) |-> SearchAt(entry, fid, g, span)]

\* Two functions agree on the spans narrower than [s .. e].
AgreeWithin(entry, g, h, s, e) ==
  \A a, b \in 1 .. Len(entry) : b - a < e - s => g[<<a, b>>] = h[<<a, b>>]

\* The middle of two places lies between them, in either order.
LEMMA MiddlePlace ==
  ASSUME NEW n \in Nat, NEW s \in 1 .. n, NEW e \in 1 .. n
  PROVE  LET m == (s - 1 + e - 1) \div 2 + 1
         IN  /\ m \in 1 .. n
             /\ m + 1 < e => m + 1 \in 1 .. n /\ s <= m
             /\ s < m - 1 => m - 1 \in 1 .. n /\ m <= e
             /\ s <= e => s <= m /\ m <= e
<1> DEFINE sum == s - 1 + e - 1
           half == sum \div 2
<1>1. half \in Int /\ 2 * half <= sum /\ sum < 2 * half + 2
  OBVIOUS
<1> HIDE DEF half
<1> QED
  BY <1>1

\* The step looks only at narrower spans.
LEMMA SearchNarrows ==
  ASSUME NEW entry \in EntryLists, NEW fid \in Nat, NEW g, NEW h,
         NEW s \in 1 .. Len(entry), NEW e \in 1 .. Len(entry),
         AgreeWithin(entry, g, h, s, e)
  PROVE  SearchAt(entry, fid, g, <<s, e>>) = SearchAt(entry, fid, h, <<s, e>>)
<1> DEFINE n == Len(entry)
           m == (s - 1 + e - 1) \div 2 + 1
<1>1. n \in Nat
  BY DEF EntryLists
<1>2. /\ m \in 1 .. n
      /\ m + 1 < e => m + 1 \in 1 .. n /\ s <= m
      /\ s < m - 1 => m - 1 \in 1 .. n /\ m <= e
  BY <1>1, MiddlePlace
<1>3. \A f : SearchAt(entry, fid, f, <<s, e>>) =
        IF entry[s].fid = fid THEN s
        ELSE IF entry[s].fid > fid \/ fid > entry[e].fid THEN 0
        ELSE IF entry[e].fid = fid THEN e
        ELSE IF entry[m].fid = fid THEN m
        ELSE IF fid > entry[m].fid /\ m + 1 < e THEN f[<<m + 1, e>>]
        ELSE IF fid < entry[m].fid /\ s < m - 1 THEN f[<<s, m - 1>>]
        ELSE 0
  BY DEF SearchAt
<1> HIDE DEF m
<1>4. m + 1 < e => g[<<m + 1, e>>] = h[<<m + 1, e>>]
  <2> SUFFICES ASSUME m + 1 < e PROVE g[<<m + 1, e>>] = h[<<m + 1, e>>]
    OBVIOUS
  <2>1. m + 1 \in 1 .. n /\ e - (m + 1) < e - s
    BY <1>1, <1>2
  <2> QED
    BY <2>1 DEF AgreeWithin
<1>5. s < m - 1 => g[<<s, m - 1>>] = h[<<s, m - 1>>]
  <2> SUFFICES ASSUME s < m - 1 PROVE g[<<s, m - 1>>] = h[<<s, m - 1>>]
    OBVIOUS
  <2>1. m - 1 \in 1 .. n /\ (m - 1) - s < e - s
    BY <1>1, <1>2
  <2> QED
    BY <2>1 DEF AgreeWithin
<1> QED
  BY <1>3, <1>4, <1>5

\* There is a function that makes every step of the search.
LEMMA SearchExists ==
  ASSUME NEW entry \in EntryLists, NEW fid \in Nat
  PROVE  \E g : g = Searched(entry, fid, g)
<1> DEFINE n == Len(entry)
           Steps(g, k) == \A s, e \in 1 .. n :
             e - s + n < k => g[<<s, e>>] = SearchAt(entry, fid, g, <<s, e>>)
           Far(k) == \E g : DOMAIN g = Places(entry) /\ Steps(g, k)
           Short == {k \in Nat : ~Far(k)}
<1>1. n \in Nat
  BY DEF EntryLists
<1>2. \A g : /\ DOMAIN Searched(entry, fid, g) = Places(entry)
             /\ \A s, e \in 1 .. n : Searched(entry, fid, g)[<<s, e>>] =
                                       SearchAt(entry, fid, g, <<s, e>>)
  BY DEF Searched, Places
<1>3. Far(0)
  <2> DEFINE g == Searched(entry, fid, << >>)
  <2>1. DOMAIN g = Places(entry)
    BY <1>2
  <2>2. \A s, e \in 1 .. n : ~(e - s + n < 0)
    BY <1>1
  <2>3. Steps(g, 0)
    BY <2>2
  <2> QED
    BY <2>1, <2>3
<1>4. ASSUME NEW k \in Nat, Far(k) PROVE Far(k + 1)
  <2>1. PICK g : DOMAIN g = Places(entry) /\ Steps(g, k)
    BY <1>4
  <2> DEFINE h == Searched(entry, fid, g)
  <2>2. DOMAIN h = Places(entry)
        /\ \A s, e \in 1 .. n : h[<<s, e>>] = SearchAt(entry, fid, g, <<s, e>>)
    BY <1>2
  <2> HIDE DEF h
  <2>3. ASSUME NEW s \in 1 .. n, NEW e \in 1 .. n, e - s + n < k + 1
        PROVE  h[<<s, e>>] = SearchAt(entry, fid, h, <<s, e>>)
    <3>1. AgreeWithin(entry, g, h, s, e)
      <4> SUFFICES ASSUME NEW a \in 1 .. n, NEW b \in 1 .. n, b - a < e - s
                   PROVE  g[<<a, b>>] = h[<<a, b>>]
        BY DEF AgreeWithin
      <4>1. b - a + n < k
        BY <1>1, <2>3
      <4>2. g[<<a, b>>] = SearchAt(entry, fid, g, <<a, b>>)
        BY <2>1, <4>1
      <4> QED
        BY <2>2, <4>2
    <3>2. SearchAt(entry, fid, g, <<s, e>>) = SearchAt(entry, fid, h, <<s, e>>)
      BY <3>1, SearchNarrows
    <3> QED
      BY <2>2, <3>2
  <2>4. Steps(h, k + 1)
    BY <2>3
  <2> QED
    BY <2>2, <2>4
<1>5. Far(2 * n)
  <2> SUFFICES ASSUME ~Far(2 * n) PROVE FALSE
    OBVIOUS
  <2> HIDE DEF Far
  <2>1. 2 * n \in Short
    BY <1>1
  <2>2. Short \subseteq Nat
    OBVIOUS
  <2>3. PICK k \in Short : \A j \in Short : k <= j
    <3> HIDE DEF Short
    <3> QED
      BY <2>1, <2>2, LowestNumber
  <2>4. k \in Nat /\ ~Far(k) /\ k # 0
    BY <1>3, <2>3
  <2>5. k - 1 \in Nat /\ ~(k - 1 \in Short)
    BY <2>3, <2>4
  <2>6. Far(k - 1)
    BY <2>5
  <2>7. Far((k - 1) + 1)
    BY <1>4, <2>5, <2>6
  <2>8. (k - 1) + 1 = k
    BY <2>4
  <2> QED
    BY <2>4, <2>7, <2>8
<1>6. PICK g : DOMAIN g = Places(entry) /\ Steps(g, 2 * n)
  BY <1>5
<1> DEFINE h == Searched(entry, fid, g)
<1>7. \A s, e \in 1 .. n : e - s + n < 2 * n
  BY <1>1
<1>8. \A s, e \in 1 .. n : g[<<s, e>>] = SearchAt(entry, fid, g, <<s, e>>)
  BY <1>6, <1>7
<1>9. DOMAIN h = Places(entry)
      /\ \A s, e \in 1 .. n : h[<<s, e>>] = SearchAt(entry, fid, g, <<s, e>>)
  BY <1>2
<1> HIDE DEF h
<1>10. \A s, e \in 1 .. n : g[<<s, e>>] = h[<<s, e>>]
  BY <1>8, <1>9
<1>11. \A s, e \in 1 .. n :
         SearchAt(entry, fid, g, <<s, e>>) = SearchAt(entry, fid, h, <<s, e>>)
  <2> SUFFICES ASSUME NEW s \in 1 .. n, NEW e \in 1 .. n
               PROVE  SearchAt(entry, fid, g, <<s, e>>) = SearchAt(entry, fid, h, <<s, e>>)
    OBVIOUS
  <2>1. AgreeWithin(entry, g, h, s, e)
    BY <1>10 DEF AgreeWithin
  <2> QED
    BY <2>1, SearchNarrows
<1>12. \A s, e \in 1 .. n : h[<<s, e>>] = Searched(entry, fid, h)[<<s, e>>]
  <2> SUFFICES ASSUME NEW s \in 1 .. n, NEW e \in 1 .. n
               PROVE  h[<<s, e>>] = Searched(entry, fid, h)[<<s, e>>]
    OBVIOUS
  <2>1. h[<<s, e>>] = SearchAt(entry, fid, h, <<s, e>>)
    BY <1>9, <1>11
  <2>2. Searched(entry, fid, h)[<<s, e>>] = SearchAt(entry, fid, h, <<s, e>>)
    BY <1>2
  <2> QED
    BY <2>1, <2>2
<1>13. \A span \in Places(entry) : h[span] = Searched(entry, fid, h)[span]
  BY <1>12 DEF Places
<1>14. h = [span \in DOMAIN h |-> h[span]]
  BY DEF h, Searched
<1>15. h = Searched(entry, fid, h)
  <2>1. DOMAIN Searched(entry, fid, h) = DOMAIN h
        /\ Searched(entry, fid, h) =
             [span \in DOMAIN h |-> Searched(entry, fid, h)[span]]
    BY <1>2, <1>9, Zenon DEF Searched
  <2> QED
    BY <1>9, <1>13, <1>14, <2>1
<1> QED
  BY <1>15, Zenon

\* What is found is the field, and in an entry that ascends it is found when
\* it is there.
LEMMA FindIs ==
  ASSUME NEW entry \in EntryLists, NEW fid \in Nat
  PROVE  /\ Find(entry, fid) \in 0 .. Len(entry)
         /\ Find(entry, fid) # 0 => entry[Find(entry, fid)].fid = fid
         /\ Ascending(entry) /\ (\E k \in 1 .. Len(entry) : entry[k].fid = fid)
              => Find(entry, fid) # 0
<1> DEFINE n == Len(entry)
           found == CHOOSE g : g = Searched(entry, fid, g)
           Right(s, e) ==
             /\ found[<<s, e>>] \in 0 .. n
             /\ found[<<s, e>>] # 0 => entry[found[<<s, e>>]].fid = fid
             /\ Ascending(entry) /\ (\E k \in s .. e : entry[k].fid = fid)
                  => found[<<s, e>>] # 0
<1>1. n \in Nat /\ \A k \in 1 .. n : entry[k].fid \in Nat
  <2>1. n \in Nat /\ \A k \in 1 .. n : entry[k] \in Pairs
    BY DEF EntryLists
  <2> QED
    BY <2>1 DEF Pairs
<1>2. entry = << >> <=> n = 0
  BY EmptySeq DEF EntryLists
<1>3. Find(entry, fid) = IF entry = << >> THEN 0 ELSE found[<<1, n>>]
  BY Zenon DEF Find, Halving, Searched, SearchAt, Places
<1>4. found = Searched(entry, fid, found)
  BY SearchExists, Zenon
<1> HIDE DEF found
<1>5. \A s, e \in 1 .. n : found[<<s, e>>] = SearchAt(entry, fid, found, <<s, e>>)
  <2>1. \A s, e \in 1 .. n : Searched(entry, fid, found)[<<s, e>>] =
                               SearchAt(entry, fid, found, <<s, e>>)
    BY DEF Searched, Places
  <2> QED
    BY <1>4, <2>1
<1>6. ASSUME NEW s \in 1 .. n, NEW e \in 1 .. n,
             \A a, b \in 1 .. n : b - a < e - s => Right(a, b)
      PROVE  Right(s, e)
  <2> DEFINE m == (s - 1 + e - 1) \div 2 + 1
  <2>1. /\ m \in 1 .. n
        /\ m + 1 < e => m + 1 \in 1 .. n /\ s <= m
        /\ s < m - 1 => m - 1 \in 1 .. n /\ m <= e
        /\ s <= e => s <= m /\ m <= e
    BY <1>1, MiddlePlace
  <2>2. found[<<s, e>>] =
          IF entry[s].fid = fid THEN s
          ELSE IF entry[s].fid > fid \/ fid > entry[e].fid THEN 0
          ELSE IF entry[e].fid = fid THEN e
          ELSE IF entry[m].fid = fid THEN m
          ELSE IF fid > entry[m].fid /\ m + 1 < e THEN found[<<m + 1, e>>]
          ELSE IF fid < entry[m].fid /\ s < m - 1 THEN found[<<s, m - 1>>]
          ELSE 0
    BY <1>5 DEF SearchAt
  <2> HIDE DEF m
  <2>3. m + 1 < e => Right(m + 1, e)
    <3> SUFFICES ASSUME m + 1 < e PROVE Right(m + 1, e)
      OBVIOUS
    <3>1. m + 1 \in 1 .. n /\ e - (m + 1) < e - s
      BY <1>1, <2>1
    <3> HIDE DEF Right
    <3> QED
      BY <1>6, <3>1
  <2>4. s < m - 1 => Right(s, m - 1)
    <3> SUFFICES ASSUME s < m - 1 PROVE Right(s, m - 1)
      OBVIOUS
    <3>1. m - 1 \in 1 .. n /\ (m - 1) - s < e - s
      BY <1>1, <2>1
    <3> HIDE DEF Right
    <3> QED
      BY <1>6, <3>1
  <2>5. found[<<s, e>>] \in 0 .. n
        /\ (found[<<s, e>>] # 0 => entry[found[<<s, e>>]].fid = fid)
    BY <1>1, <2>1, <2>2, <2>3, <2>4
  <2>6. ASSUME Ascending(entry), NEW k \in s .. e, entry[k].fid = fid
        PROVE  found[<<s, e>>] # 0
    <3>1. \A i, j \in 1 .. n : i < j => entry[i].fid < entry[j].fid
      BY <2>6 DEF Ascending
    <3>2. k \in 1 .. n /\ s <= k /\ k <= e /\ s <= m /\ m <= e
      BY <1>1, <2>1
    <3>3. entry[s].fid <= fid /\ fid <= entry[e].fid
      BY <1>1, <2>6, <3>1, <3>2
    <3>4. /\ entry[s].fid # fid => s < k
          /\ entry[e].fid # fid => k < e
          /\ fid > entry[m].fid => m < k
          /\ fid < entry[m].fid => k < m
      BY <1>1, <2>1, <2>6, <3>1, <3>2
    <3>5. CASE entry[s].fid = fid \/ entry[e].fid = fid \/ entry[m].fid = fid
      BY <1>1, <2>1, <2>2, <3>3, <3>5
    <3>6. CASE entry[s].fid # fid /\ entry[e].fid # fid /\ fid > entry[m].fid
      <4>1. m + 1 < e /\ k \in (m + 1) .. e
        BY <2>1, <3>2, <3>4, <3>6
      <4>2. found[<<m + 1, e>>] # 0
        BY <2>3, <2>6, <4>1
      <4>3. ~(entry[s].fid > fid \/ fid > entry[e].fid) /\ entry[m].fid # fid
        BY <1>1, <2>1, <3>3, <3>6
      <4>4. found[<<s, e>>] = found[<<m + 1, e>>]
        BY <2>2, <3>6, <4>1, <4>3
      <4> QED
        BY <4>2, <4>4
    <3>7. CASE entry[s].fid # fid /\ entry[e].fid # fid /\ fid < entry[m].fid
      <4>1. s < m - 1 /\ k \in s .. (m - 1)
        BY <2>1, <3>2, <3>4, <3>7
      <4>2. found[<<s, m - 1>>] # 0
        BY <2>4, <2>6, <4>1
      <4>3. ~(entry[s].fid > fid \/ fid > entry[e].fid) /\ entry[m].fid # fid
            /\ ~(fid > entry[m].fid)
        BY <1>1, <2>1, <3>3, <3>7
      <4>4. found[<<s, e>>] = found[<<s, m - 1>>]
        BY <2>2, <3>7, <4>1, <4>3
      <4> QED
        BY <4>2, <4>4
    <3> QED
      BY <1>1, <2>1, <3>5, <3>6, <3>7
  <2> QED
    BY <2>5, <2>6
<1>7. \A s, e \in 1 .. n : Right(s, e)
  <2> DEFINE Bad == {w \in Nat : \E s, e \in 1 .. n : w = e - s + n /\ ~Right(s, e)}
  <2> SUFFICES ASSUME NEW s0 \in 1 .. n, NEW e0 \in 1 .. n, ~Right(s0, e0) PROVE FALSE
    OBVIOUS
  <2> HIDE DEF Right
  <2>1. Bad # {}
    <3>1. e0 - s0 + n \in Nat
      BY <1>1
    <3> QED
      BY <3>1, Zenon
  <2>2. PICK w \in Bad : \A v \in Bad : w <= v
    <3>1. Bad \subseteq Nat
      OBVIOUS
    <3> HIDE DEF Bad
    <3> QED
      BY <2>1, <3>1, LowestNumber
  <2>3. PICK s \in 1 .. n, e \in 1 .. n : w = e - s + n /\ ~Right(s, e)
    BY <2>2
  <2>4. \A a, b \in 1 .. n : b - a < e - s => Right(a, b)
    <3> SUFFICES ASSUME NEW a \in 1 .. n, NEW b \in 1 .. n, b - a < e - s, ~Right(a, b)
                 PROVE  FALSE
      OBVIOUS
    <3>1. b - a + n \in Nat /\ b - a + n < w
      BY <1>1, <2>3
    <3>2. b - a + n \in Bad
      BY <3>1, Zenon
    <3>3. w <= b - a + n /\ w \in Nat
      BY <2>2, <3>2
    <3> QED
      BY <3>1, <3>3
  <2> QED
    BY <1>6, <2>3, <2>4
<1>8. n # 0 => Right(1, n)
  <2>1. n # 0 => 1 \in 1 .. n /\ n \in 1 .. n
    BY <1>1
  <2> HIDE DEF Right
  <2> QED
    BY <1>7, <2>1
<1> QED
  BY <1>1, <1>2, <1>3, <1>8

-----------------------------------------------------------------------------
(* The inductive invariant.                                                *)

Vals == (1 .. MaxDocs) \X (0 .. MaxCrashes)
IdMaps == UNION {[S -> Nat] : S \in SUBSET Fields}
TableDocs == [fields : SUBSET Fields, life : Nat]
ColFiles == [state : {"none", "partial", "whole"}, count : Nat, capacity : Nat,
             fieldId : IdMaps, entries : Seq(EntryLists)]

ColumnsTyped ==
  /\ columns \in [Fields -> Seq(Vals)]
  /\ fieldId \in IdMaps /\ fieldNum \in Nat
  /\ entries \in Seq(EntryLists)
  /\ count \in Nat /\ flushed \in 0 .. count /\ flushing \in BOOLEAN
  /\ colFile \in ColFiles
  /\ tableDocs \in Seq(TableDocs)
  /\ crashes \in 0 .. MaxCrashes
  /\ reused \subseteq 1 .. colFile.count
  /\ lostValues \in BOOLEAN

\* size_ passes the table only when every document with column fields has a
\* place in it; the file counts what the table had.
CountsFit ==
  /\ \A d \in 1 .. Len(tableDocs) :
       tableDocs[d].fields # {} /\ d > Len(entries) => count <= Len(entries)
  /\ colFile.count <= count /\ colFile.count <= Len(entries)
  /\ flushed <= Len(entries)
  /\ flushing => /\ colFile.state = "partial" /\ colFile.count = flushed
                 /\ flushed <= colFile.capacity
  /\ colFile.state = "none" => colFile.count = 0
  /\ colFile.state = "whole" =>
       Len(colFile.entries) = colFile.count /\ colFile.count <= colFile.capacity

\* The header has ids the fields still have.
HeaderIsMemory ==
  \A f \in DOMAIN colFile.fieldId : f \in DOMAIN fieldId /\ fieldId[f] = colFile.fieldId[f]

\* A whole file has the entries of memory, but for ids that were used again.
FileIsMemory ==
  colFile.state = "whole" =>
    \A d \in (1 .. colFile.count) \ reused : colFile.entries[d] = entries[d]

\* The fields an entry lists, under these ids, lead to the document's values.
ListsOwn(entry, ids, cols, doc, d) ==
  \A f \in doc.fields :
    /\ f \in DOMAIN ids
    /\ \A n \in 1 .. Len(entry) : entry[n].fid = ids[f] =>
         entry[n].vid \in 1 .. Len(cols[f]) /\ cols[f][entry[n].vid] = <<d, doc.life>>

Differ(ids) == \A f, g \in DOMAIN ids : ids[f] = ids[g] => f = g
Listed(d) == d \in 1 .. Len(entries) /\ entries[d] # NoEntry

EntriesAreOwn ==
  ~lostValues /\ Differ(fieldId) =>
    \A d \in 1 .. Len(tableDocs) :
      Listed(d) => ListsOwn(entries[d], fieldId, columns, tableDocs[d], d)

\* The same by the ids of the header: it is what a crash goes back to.
RecordedAreOwn ==
  ~lostValues /\ Differ(colFile.fieldId) =>
    \A d \in 1 .. Len(tableDocs) :
      Listed(d) /\ d <= colFile.count /\ d \notin reused =>
        ListsOwn(entries[d], colFile.fieldId, columns, tableDocs[d], d)

\* The entry lists field id fid with the value v of column f.
ListsValue(entry, fid, col, v) ==
  \E n \in 1 .. Len(entry) :
    entry[n].fid = fid /\ entry[n].vid \in 1 .. Len(col) /\ col[entry[n].vid] = v

\* Before the first crash, the ids differ and no document is left out.
NoneLeftOut ==
  /\ count = Len(tableDocs) /\ count <= Len(entries)
  /\ \A d \in 1 .. Len(tableDocs) : \A f \in tableDocs[d].fields :
       f \in DOMAIN fieldId /\ ListsValue(entries[d], fieldId[f], columns[f], <<d, 0>>)
AllHaveColumns == \A d \in 1 .. Len(tableDocs) : tableDocs[d].fields # {}

FirstRun ==
  crashes = 0 =>
    /\ count <= Len(tableDocs) /\ reused = {}
    /\ Differ(fieldId) /\ \A f \in DOMAIN fieldId : fieldId[f] < fieldNum
    /\ AllHaveColumns => NoneLeftOut

ColumnIInv ==
  /\ ColumnsTyped /\ CountsFit
  /\ HeaderIsMemory /\ FileIsMemory
  /\ EntriesAreOwn /\ RecordedAreOwn /\ FirstRun

\* The constants, and what the types say.
LEMMA ColumnBounds ==
  /\ Lists \subseteq Fields /\ IsFiniteSet(Fields)
  /\ SchemaFields \in Nat /\ MaxNewFields \in Nat /\ MaxDocs \in Nat /\ MaxCrashes \in Nat
  /\ BlockDocs \in Nat /\ BlockDocs # 0
BY ColumnAssumption

LEMMA IdMapsAre ==
  ASSUME NEW ids
  PROVE  ids \in IdMaps <=> /\ DOMAIN ids \subseteq Fields
                            /\ ids = [f \in DOMAIN ids |-> ids[f]]
                            /\ \A f \in DOMAIN ids : ids[f] \in Nat
<1>1. ASSUME ids \in IdMaps
      PROVE  /\ DOMAIN ids \subseteq Fields
             /\ ids = [f \in DOMAIN ids |-> ids[f]]
             /\ \A f \in DOMAIN ids : ids[f] \in Nat
  <2>1. PICK S \in SUBSET Fields : ids \in [S -> Nat]
    BY <1>1 DEF IdMaps
  <2> QED
    BY <2>1
<1>2. ASSUME DOMAIN ids \subseteq Fields, ids = [f \in DOMAIN ids |-> ids[f]],
             \A f \in DOMAIN ids : ids[f] \in Nat
      PROVE  ids \in IdMaps
  <2>1. ids \in [DOMAIN ids -> Nat]
    BY <1>2
  <2> QED
    BY <1>2, <2>1 DEF IdMaps
<1> QED
  BY <1>1, <1>2

\* The documents, the entries and the columns, one by one.
LEMMA ColumnsAre ==
  ASSUME ColumnsTyped
  PROVE  /\ Len(tableDocs) \in Nat /\ Len(entries) \in Nat
         /\ DOMAIN tableDocs = 1 .. Len(tableDocs) /\ DOMAIN entries = 1 .. Len(entries)
         /\ \A d \in 1 .. Len(tableDocs) :
              tableDocs[d].fields \subseteq Fields /\ tableDocs[d].life \in Nat
         /\ \A d \in 1 .. Len(entries) : entries[d] \in EntryLists
         /\ \A f \in Fields : columns[f] \in Seq(Vals) /\ Len(columns[f]) \in Nat
         /\ colFile.state \in {"none", "partial", "whole"}
         /\ colFile.count \in Nat /\ colFile.capacity \in Nat
         /\ colFile.fieldId \in IdMaps /\ colFile.entries \in Seq(EntryLists)
<1>1. \A d \in 1 .. Len(tableDocs) : tableDocs[d] \in TableDocs
  BY DEF ColumnsTyped
<1>2. \A d \in 1 .. Len(tableDocs) :
        tableDocs[d].fields \subseteq Fields /\ tableDocs[d].life \in Nat
  BY <1>1 DEF TableDocs
<1>3. /\ Len(tableDocs) \in Nat /\ Len(entries) \in Nat
      /\ DOMAIN tableDocs = 1 .. Len(tableDocs) /\ DOMAIN entries = 1 .. Len(entries)
      /\ \A d \in 1 .. Len(entries) : entries[d] \in EntryLists
  BY DEF ColumnsTyped
<1>4. \A f \in Fields : columns[f] \in Seq(Vals) /\ Len(columns[f]) \in Nat
  <2>1. \A f \in Fields : columns[f] \in Seq(Vals)
    BY DEF ColumnsTyped
  <2> QED
    BY <2>1
<1>5. /\ colFile.state \in {"none", "partial", "whole"}
      /\ colFile.count \in Nat /\ colFile.capacity \in Nat
      /\ colFile.fieldId \in IdMaps /\ colFile.entries \in Seq(EntryLists)
  BY DEF ColumnsTyped, ColFiles
<1> QED
  BY <1>2, <1>3, <1>4, <1>5

\* An entry's pairs.
LEMMA EntryIs ==
  ASSUME NEW entry \in EntryLists
  PROVE  /\ Len(entry) \in Nat /\ DOMAIN entry = 1 .. Len(entry)
         /\ \A n \in 1 .. Len(entry) :
              /\ entry[n] \in [fid : Nat, vid : Nat \ {0}]
              /\ entry[n].fid \in Nat /\ entry[n].vid \in Nat \ {0}
<1>1. Len(entry) \in Nat /\ DOMAIN entry = 1 .. Len(entry)
      /\ \A n \in 1 .. Len(entry) : entry[n] \in Pairs
  BY DEF EntryLists
<1> QED
  BY <1>1 DEF Pairs

-----------------------------------------------------------------------------
(* What the invariant says of reads.                                       *)

\* What was found is what the run checks.
LEMMA ColumnIInvImplies == ColumnIInv => ColumnInv
<1> SUFFICES ASSUME ColumnIInv PROVE ColumnInv
  OBVIOUS
<1>1. ColumnsTyped /\ CountsFit /\ EntriesAreOwn /\ FirstRun
  BY DEF ColumnIInv
<1>2. /\ Len(tableDocs) \in Nat /\ Len(entries) \in Nat
      /\ DOMAIN tableDocs = 1 .. Len(tableDocs) /\ DOMAIN entries = 1 .. Len(entries)
      /\ \A d \in 1 .. Len(tableDocs) :
           tableDocs[d].fields \subseteq Fields /\ tableDocs[d].life \in Nat
      /\ \A d \in 1 .. Len(entries) : entries[d] \in EntryLists
      /\ \A f \in Fields : Len(columns[f]) \in Nat
  BY <1>1, ColumnsAre
<1>3. count \in Nat /\ \A f \in DOMAIN fieldId : fieldId[f] \in Nat /\ f \in Fields
  BY <1>1, IdMapsAre DEF ColumnsTyped
<1>4. ColumnTypeOK
  <2>1. \A i \in DOMAIN entries : \A n \in DOMAIN entries[i] :
          entries[i][n] \in [fid : Nat, vid : Nat \ {0}]
    BY <1>2, EntryIs
  <2>2. DOMAIN fieldId \subseteq Fields /\ colFile.state \in {"none", "partial", "whole"}
    BY <1>1, <1>3, ColumnsAre
  <2> QED
    BY <1>1, <2>1, <2>2 DEF ColumnTypeOK, ColumnsTyped, Vals
<1>5. ReadsOwnValues
  <2> SUFFICES ASSUME ~lostValues, IdsDiffer, NEW d \in 1 .. Len(tableDocs),
                      NEW f \in tableDocs[d].fields
               PROVE  Read(d, f) \in {Missing, <<d, tableDocs[d].life>>}
    BY <1>2 DEF ReadsOwnValues
  <2>1. CASE ~(d <= count) \/ entries[d] = NoEntry \/ f \notin DOMAIN fieldId
    BY <1>2, <1>3, <2>1 DEF Read
  <2>2. CASE d <= count /\ entries[d] # NoEntry /\ f \in DOMAIN fieldId
    <3>1. d \in 1 .. Len(entries)
      BY <1>1, <1>2, <1>3, <2>2 DEF CountsFit
    <3>2. ListsOwn(entries[d], fieldId, columns, tableDocs[d], d)
      BY <1>1, <2>2, <3>1 DEF EntriesAreOwn, Listed, IdsDiffer, Differ
    <3> DEFINE at == Find(entries[d], fieldId[f])
    <3>3. at \in 0 .. Len(entries[d]) /\ (at # 0 => entries[d][at].fid = fieldId[f])
      BY <1>2, <1>3, <2>2, <3>1, FindIs
    <3>4. Read(d, f) = IF at = 0 THEN Missing ELSE Value(f, entries[d][at].vid)
      BY <1>2, <1>3, <2>2 DEF Read
    <3> HIDE DEF at
    <3>5. CASE at # 0
      <4>1. Len(entries[d]) \in Nat /\ f \in Fields
        BY <1>2, <3>1, EntryIs
      <4>2. at \in 1 .. Len(entries[d])
        BY <3>3, <3>5, <4>1
      <4>3. /\ entries[d][at].vid \in 1 .. Len(columns[f])
            /\ columns[f][entries[d][at].vid] = <<d, tableDocs[d].life>>
        BY <3>2, <3>3, <3>5, <4>2 DEF ListsOwn
      <4>4. Value(f, entries[d][at].vid) = <<d, tableDocs[d].life>>
        BY <1>2, <4>1, <4>3 DEF Value
      <4> QED
        BY <3>4, <3>5, <4>4
    <3> QED
      BY <3>4, <3>5
  <2> QED
    BY <2>1, <2>2
<1>6. FindsEveryField
  <2> SUFFICES ASSUME crashes = 0, EveryDocHasColumns, NEW d \in 1 .. Len(tableDocs),
                      Ascending(entries[d]), NEW f \in tableDocs[d].fields
               PROVE  Read(d, f) = <<d, 0>>
    BY <1>2 DEF FindsEveryField
  <2>1. AllHaveColumns
    BY <1>2 DEF EveryDocHasColumns, AllHaveColumns
  <2>2. NoneLeftOut
    BY <1>1, <2>1 DEF FirstRun
  <2>3. d <= count /\ d \in 1 .. Len(entries) /\ f \in DOMAIN fieldId /\ f \in Fields
        /\ fieldId[f] \in Nat
    <3>1. count = Len(tableDocs) /\ count <= Len(entries) /\ f \in DOMAIN fieldId
      BY <2>2 DEF NoneLeftOut
    <3>2. d <= count /\ d \in 1 .. Len(entries)
      BY <1>2, <1>3, <3>1
    <3> QED
      BY <1>3, <3>1, <3>2
  <2>4. ListsValue(entries[d], fieldId[f], columns[f], <<d, 0>>)
    BY <2>2 DEF NoneLeftOut
  <2>5. PICK n \in 1 .. Len(entries[d]) :
          /\ entries[d][n].fid = fieldId[f]
          /\ entries[d][n].vid \in 1 .. Len(columns[f])
          /\ columns[f][entries[d][n].vid] = <<d, 0>>
    BY <2>4 DEF ListsValue
  <2> DEFINE at == Find(entries[d], fieldId[f])
  <2>6. entries[d] \in EntryLists
    BY <1>2, <2>3
  <2>7. at \in 0 .. Len(entries[d]) /\ at # 0 /\ entries[d][at].fid = fieldId[f]
    BY <2>3, <2>5, <2>6, FindIs
  <2>8. Len(entries[d]) \in Nat
    BY <2>6, EntryIs
  <2>9. Read(d, f) = IF entries[d] = NoEntry THEN Missing ELSE Value(f, entries[d][at].vid)
    BY <1>2, <1>3, <2>3, <2>7 DEF Read
  <2> HIDE DEF at
  <2>10. at = n
    <3>1. at \in 1 .. Len(entries[d])
      BY <2>7, <2>8
    <3>2. ~(at < n) /\ ~(n < at)
      BY <2>3, <2>5, <2>7, <3>1 DEF Ascending
    <3> QED
      BY <2>8, <3>1, <3>2
  <2>11. entries[d] # NoEntry
    <3>1. Len(entries[d]) # 0
      BY <2>5, <2>8
    <3> QED
      BY <2>6, <3>1, EmptySeq DEF NoEntry, EntryLists
  <2>12. Value(f, entries[d][n].vid) = <<d, 0>>
    BY <1>2, <2>3, <2>5 DEF Value
  <2> QED
    BY <2>9, <2>10, <2>11, <2>12
<1> QED
  BY <1>4, <1>5, <1>6 DEF ColumnInv

-----------------------------------------------------------------------------
(* The steps.                                                              *)

LEMMA ColumnInitHolds == ColumnInit => ColumnIInv
<1> SUFFICES ASSUME ColumnInit PROVE ColumnIInv
  OBVIOUS
<1>1. /\ columns = [f \in Fields |-> << >>] /\ fieldId = << >> /\ fieldNum = SchemaFields
      /\ entries = [i \in 1 .. BlockDocs |-> NoEntry] /\ count = 0 /\ flushed = 0
      /\ flushing = FALSE /\ colFile = NoFile /\ tableDocs = << >> /\ crashes = 0
      /\ reused = {} /\ lostValues = FALSE
  BY DEF ColumnInit
<1>2. DOMAIN fieldId = {} /\ fieldId \in IdMaps
  <2>1. << >> = [f \in {} |-> 0]
    OBVIOUS
  <2>2. DOMAIN fieldId = {} /\ fieldId = [f \in DOMAIN fieldId |-> fieldId[f]]
    BY <1>1, <2>1
  <2> QED
    BY <2>2, IdMapsAre
<1>3. Len(tableDocs) = 0 /\ Len(entries) = BlockDocs
  BY <1>1, ColumnBounds
<1>4. colFile.state = "none" /\ colFile.count = 0 /\ colFile.capacity = 0
      /\ colFile.fieldId = << >> /\ colFile.entries = << >>
      /\ colFile = [state |-> "none", count |-> 0, capacity |-> 0, fieldId |-> << >>,
                    entries |-> << >>]
  BY <1>1 DEF NoFile
<1>5. ColumnsTyped
  <2>1. NoEntry \in EntryLists
    BY DEF NoEntry, EntryLists
  <2>2. entries \in Seq(EntryLists)
    BY <1>1, <2>1, IsASeq, ColumnBounds
  <2>3. columns \in [Fields -> Seq(Vals)]
    BY <1>1
  <2>4. colFile.entries \in Seq(EntryLists) /\ colFile.fieldId \in IdMaps
    BY <1>1, <1>2, <1>4
  <2>5. colFile \in ColFiles
    BY <1>1, <1>2, <1>4, <2>4 DEF ColFiles
  <2>6. tableDocs \in Seq(TableDocs)
    BY <1>1
  <2>7. /\ fieldNum \in Nat /\ count \in Nat /\ flushed \in 0 .. count
        /\ crashes \in 0 .. MaxCrashes
    BY <1>1, ColumnBounds
  <2>8. flushing \in BOOLEAN /\ lostValues \in BOOLEAN /\ reused \subseteq 1 .. colFile.count
    BY <1>1
  <2> QED
    BY <1>2, <2>2, <2>3, <2>5, <2>6, <2>7, <2>8 DEF ColumnsTyped
<1>6. CountsFit
  BY <1>1, <1>3, <1>4, ColumnBounds DEF CountsFit
<1>7. HeaderIsMemory
  BY <1>1, <1>2, <1>4 DEF HeaderIsMemory
<1>8. FileIsMemory
  BY <1>4 DEF FileIsMemory
<1>9. EntriesAreOwn /\ RecordedAreOwn
  BY <1>3 DEF EntriesAreOwn, RecordedAreOwn
<1>10. FirstRun
  <2>1. Differ(fieldId) /\ \A f \in DOMAIN fieldId : fieldId[f] < fieldNum
    BY <1>2 DEF Differ
  <2>2. NoneLeftOut
    BY <1>1, <1>3, ColumnBounds DEF NoneLeftOut
  <2> QED
    BY <1>1, <1>3, <2>1, <2>2 DEF FirstRun
<1> QED
  BY <1>5, <1>6, <1>7, <1>8, <1>9, <1>10 DEF ColumnIInv

\* A field is registered: the others keep their ids.
LEMMA AddNewFieldKeeps ==
  ASSUME ColumnIInv, NEW f \in Fields, AddNewField(f)
  PROVE  ColumnIInv'
<1>1. /\ fieldId' = Registered(f) /\ fieldNum' = fieldNum + 1
      /\ columns' = columns /\ entries' = entries /\ count' = count /\ flushed' = flushed
      /\ flushing' = flushing /\ colFile' = colFile /\ tableDocs' = tableDocs
      /\ crashes' = crashes /\ reused' = reused /\ lostValues' = lostValues
  BY DEF AddNewField
<1>2. fieldId \in IdMaps /\ fieldNum \in Nat
  BY DEF ColumnIInv, ColumnsTyped
<1>3. /\ DOMAIN fieldId \subseteq Fields /\ \A g \in DOMAIN fieldId : fieldId[g] \in Nat
  BY <1>2, IdMapsAre
<1>4. /\ DOMAIN fieldId' = DOMAIN fieldId \cup {f}
      /\ fieldId' = [g \in DOMAIN fieldId' |-> fieldId'[g]]
      /\ \A g \in DOMAIN fieldId : fieldId'[g] = fieldId[g]
      /\ f \notin DOMAIN fieldId => fieldId'[f] = fieldNum
  BY <1>1, <1>2, IdMapsAre DEF Registered
<1>5. fieldId' \in IdMaps
  BY <1>2, <1>3, <1>4, IdMapsAre
<1>6. Differ(fieldId') => Differ(fieldId)
  BY <1>4 DEF Differ
<1>7. ColumnsTyped'
  BY <1>1, <1>2, <1>5 DEF ColumnIInv, ColumnsTyped
<1>8. CountsFit' /\ FileIsMemory' /\ RecordedAreOwn'
  BY <1>1 DEF ColumnIInv, CountsFit, FileIsMemory, RecordedAreOwn, Listed
<1>9. HeaderIsMemory'
  BY <1>1, <1>4 DEF ColumnIInv, HeaderIsMemory
<1>10. EntriesAreOwn'
  <2> SUFFICES ASSUME ~lostValues, Differ(fieldId'), NEW d \in 1 .. Len(tableDocs), Listed(d)
               PROVE  ListsOwn(entries[d], fieldId', columns, tableDocs[d], d)
    BY <1>1 DEF EntriesAreOwn, Listed
  <2>1. ListsOwn(entries[d], fieldId, columns, tableDocs[d], d)
    BY <1>6 DEF ColumnIInv, EntriesAreOwn
  <2> QED
    BY <1>4, <2>1 DEF ListsOwn
<1>11. FirstRun'
  <2> SUFFICES ASSUME crashes = 0
               PROVE  /\ count <= Len(tableDocs) /\ reused = {}
                      /\ Differ(fieldId') /\ \A g \in DOMAIN fieldId' : fieldId'[g] < fieldNum'
                      /\ AllHaveColumns' => NoneLeftOut'
    BY <1>1 DEF FirstRun
  <2>1. /\ count <= Len(tableDocs) /\ reused = {}
        /\ Differ(fieldId) /\ \A g \in DOMAIN fieldId : fieldId[g] < fieldNum
        /\ AllHaveColumns => NoneLeftOut
    BY DEF ColumnIInv, FirstRun
  <2>2. \A g \in DOMAIN fieldId' : fieldId'[g] < fieldNum'
    BY <1>1, <1>2, <1>3, <1>4, <2>1
  <2>3. Differ(fieldId')
    <3>1. \A g \in DOMAIN fieldId : fieldId[g] # fieldNum
      BY <1>2, <1>3, <2>1
    <3> QED
      BY <1>4, <2>1, <3>1 DEF Differ
  <2>4. ASSUME AllHaveColumns' PROVE NoneLeftOut'
    <3>1. NoneLeftOut
      BY <1>1, <2>1, <2>4 DEF AllHaveColumns
    <3> QED
      BY <1>1, <1>4, <3>1 DEF NoneLeftOut
  <2> QED
    BY <2>1, <2>2, <2>3, <2>4
<1> QED
  BY <1>7, <1>8, <1>9, <1>10, <1>11 DEF ColumnIInv

\* A table with room for document d keeps the entries of the counted ones.
LEMMA RoomIs ==
  ASSUME ColumnsTyped, NEW d \in Nat \ {0},
         d <= Len(entries) \/ count <= Len(entries)
  PROVE  /\ RoomFor(d) \in Seq(EntryLists) /\ Len(RoomFor(d)) \in Nat
         /\ Len(entries) <= Len(RoomFor(d))
         /\ \A i \in 1 .. Len(RoomFor(d)) :
              \/ i \in 1 .. Len(entries) /\ RoomFor(d)[i] = entries[i]
              \/ RoomFor(d)[i] = NoEntry /\ i > count
<1>1. Len(entries) \in Nat /\ count \in Nat /\ entries \in Seq(EntryLists)
      /\ \A i \in 1 .. Len(entries) : entries[i] \in EntryLists
  BY ColumnsAre DEF ColumnsTyped
<1>2. CASE d <= Len(entries)
  <2>1. RoomFor(d) = entries
    BY <1>1, <1>2 DEF RoomFor
  <2> QED
    BY <1>1, <2>1
<1>3. CASE d > Len(entries)
  <2>1. count <= Len(entries)
    BY <1>1, <1>3
  <2>2. RoomFor(d) = [i \in 1 .. 2 * Len(entries) |->
                        IF i <= count THEN entries[i] ELSE NoEntry]
    BY <1>3 DEF RoomFor, Grown
  <2>3. NoEntry \in EntryLists
    BY DEF NoEntry, EntryLists
  <2>4. 2 * Len(entries) \in Nat /\ Len(entries) <= 2 * Len(entries)
    BY <1>1
  <2> DEFINE twice == 2 * Len(entries)
             place(i) == IF i <= count THEN entries[i] ELSE NoEntry
  <2>5. \A i \in 1 .. twice : place(i) \in EntryLists
    BY <1>1, <2>1, <2>3
  <2>6. RoomFor(d) = [i \in 1 .. twice |-> place(i)]
    BY <2>2
  <2>7. \A i \in 1 .. twice : (i <= count => i \in 1 .. Len(entries) /\ place(i) = entries[i])
                              /\ (~(i <= count) => place(i) = NoEntry /\ i > count)
    BY <1>1, <2>1
  <2> HIDE DEF twice, place
  <2>8. twice \in Nat /\ Len(entries) <= twice
    BY <2>4 DEF twice
  <2>9. RoomFor(d) \in Seq(EntryLists)
    BY <2>5, <2>6, <2>8, IsASeq
  <2>10. Len(RoomFor(d)) = twice /\ \A i \in 1 .. twice : RoomFor(d)[i] = place(i)
    BY <2>6, <2>8
  <2> QED
    BY <2>7, <2>8, <2>9, <2>10
<1> QED
  BY <1>1, <1>2, <1>3

\* The columns have grown: every value is where it was.
Longer(old, new) ==
  \A f \in Fields : Len(old[f]) <= Len(new[f])
                    /\ \A i \in 1 .. Len(old[f]) : new[f][i] = old[f][i]

LEMMA OwnKept ==
  ASSUME NEW entry \in EntryLists, NEW ids, NEW old, NEW new, NEW doc, NEW d,
         \A f \in Fields : Len(old[f]) \in Nat /\ Len(new[f]) \in Nat,
         Longer(old, new), doc.fields \subseteq Fields,
         ListsOwn(entry, ids, old, doc, d)
  PROVE  ListsOwn(entry, ids, new, doc, d)
<1> SUFFICES ASSUME NEW f \in doc.fields
             PROVE  /\ f \in DOMAIN ids
                    /\ \A n \in 1 .. Len(entry) : entry[n].fid = ids[f] =>
                         /\ entry[n].vid \in 1 .. Len(new[f])
                         /\ new[f][entry[n].vid] = <<d, doc.life>>
  BY DEF ListsOwn
<1>1. f \in DOMAIN ids /\ f \in Fields
  BY DEF ListsOwn
<1>2. ASSUME NEW n \in 1 .. Len(entry), entry[n].fid = ids[f]
      PROVE  /\ entry[n].vid \in 1 .. Len(new[f])
             /\ new[f][entry[n].vid] = <<d, doc.life>>
  <2>1. /\ entry[n].vid \in 1 .. Len(old[f])
        /\ old[f][entry[n].vid] = <<d, doc.life>>
    BY <1>2 DEF ListsOwn
  <2>2. Len(old[f]) <= Len(new[f]) /\ new[f][entry[n].vid] = old[f][entry[n].vid]
    BY <1>1, <2>1 DEF Longer
  <2> QED
    BY <1>1, <2>1, <2>2
<1> QED
  BY <1>1, <1>2

\* The fields a document came with.
LEMMA OrderIs ==
  ASSUME NEW order \in Orders
  PROVE  /\ Len(order) \in Nat /\ DOMAIN order = 1 .. Len(order)
         /\ \A i \in 1 .. Len(order) : order[i] \in Fields
         /\ order # << >> => Len(order) > 0
<1>1. order = << >> \/ \E n \in 1 .. Cardinality(Fields) : order \in [1 .. n -> Fields]
  BY DEF Orders
<1>2. Cardinality(Fields) \in Nat
  BY ColumnBounds, FS_CardinalityType
<1>3. CASE order = << >>
  BY <1>3
<1>4. CASE \E n \in 1 .. Cardinality(Fields) : order \in [1 .. n -> Fields]
  <2>1. PICK n \in 1 .. Cardinality(Fields) : order \in [1 .. n -> Fields]
    BY <1>4
  <2>2. n \in Nat /\ n > 0
    BY <1>2
  <2>3. order \in Seq(Fields) /\ Len(order) = n
    BY <2>1, <2>2
  <2> QED
    BY <2>1, <2>2, <2>3
<1> QED
  BY <1>1, <1>3, <1>4

\* A document without column fields: only the table has it.
LEMMA AddPlainDocKeeps ==
  ASSUME ColumnIInv, NEW life \in Nat, crashes' = crashes,
         tableDocs' = Append(tableDocs, [fields |-> {}, life |-> life]),
         UNCHANGED <<columns, fieldId, fieldNum, entries, count, flushed, flushing, colFile,
                     reused, lostValues>>
  PROVE  ColumnIInv'
<1> DEFINE new == [fields |-> {}, life |-> life]
<1>1. ColumnsTyped
  BY DEF ColumnIInv
<1>2. Len(tableDocs) \in Nat /\ tableDocs \in Seq(TableDocs) /\ new \in TableDocs
  BY <1>1, ColumnsAre DEF ColumnsTyped, TableDocs
<1>3. /\ tableDocs' \in Seq(TableDocs) /\ Len(tableDocs') = Len(tableDocs) + 1
      /\ \A d \in 1 .. Len(tableDocs) : tableDocs'[d] = tableDocs[d]
      /\ tableDocs'[Len(tableDocs) + 1] = new
  <2> HIDE DEF new
  <2> QED
    BY <1>2, AppendProperties DEF new
<1>4. \A d \in 1 .. Len(tableDocs') :
        \/ d \in 1 .. Len(tableDocs) /\ tableDocs'[d] = tableDocs[d]
        \/ tableDocs'[d].fields = {}
  <2>1. \A d \in 1 .. Len(tableDocs') : d \in 1 .. Len(tableDocs) \/ d = Len(tableDocs) + 1
    BY <1>2, <1>3
  <2>2. new.fields = {}
    OBVIOUS
  <2> QED
    BY <1>3, <2>1, <2>2
<1>5. ColumnsTyped'
  BY <1>1, <1>3 DEF ColumnsTyped
<1>6. CountsFit'
  <2>1. CountsFit
    BY DEF ColumnIInv
  <2> QED
    BY <1>4, <2>1 DEF CountsFit
<1>7. HeaderIsMemory' /\ FileIsMemory'
  BY DEF ColumnIInv, HeaderIsMemory, FileIsMemory
<1>8. EntriesAreOwn'
  <2>1. EntriesAreOwn
    BY DEF ColumnIInv
  <2> SUFFICES ASSUME ~lostValues, Differ(fieldId), NEW d \in 1 .. Len(tableDocs'), Listed(d)
               PROVE  ListsOwn(entries[d], fieldId, columns, tableDocs'[d], d)
    BY DEF EntriesAreOwn, Listed
  <2>2. CASE tableDocs'[d].fields = {}
    BY <2>2 DEF ListsOwn
  <2>3. CASE d \in 1 .. Len(tableDocs) /\ tableDocs'[d] = tableDocs[d]
    BY <2>1, <2>3 DEF EntriesAreOwn
  <2> QED
    BY <1>4, <2>2, <2>3
<1>9. RecordedAreOwn'
  <2>1. RecordedAreOwn
    BY DEF ColumnIInv
  <2> SUFFICES ASSUME ~lostValues, Differ(colFile.fieldId), NEW d \in 1 .. Len(tableDocs'),
                      Listed(d), d <= colFile.count, d \notin reused
               PROVE  ListsOwn(entries[d], colFile.fieldId, columns, tableDocs'[d], d)
    BY DEF RecordedAreOwn, Listed
  <2>2. CASE tableDocs'[d].fields = {}
    BY <2>2 DEF ListsOwn
  <2>3. CASE d \in 1 .. Len(tableDocs) /\ tableDocs'[d] = tableDocs[d]
    BY <2>1, <2>3 DEF RecordedAreOwn
  <2> QED
    BY <1>4, <2>2, <2>3
<1>10. FirstRun'
  <2>1. ~AllHaveColumns'
    BY <1>2, <1>3 DEF AllHaveColumns
  <2>2. FirstRun /\ count \in Nat
    BY <1>1 DEF ColumnIInv, ColumnsTyped
  <2> QED
    BY <1>2, <1>3, <2>1, <2>2 DEF FirstRun
<1> QED
  BY <1>5, <1>6, <1>7, <1>8, <1>9, <1>10 DEF ColumnIInv

\* A document with column fields: its entry leads to the values just put.
LEMMA AddFieldsKeeps ==
  ASSUME ColumnIInv, NEW order \in Orders, NEW empties \in SUBSET Lists,
         AddDoc(order, empties), order # << >>
  PROVE  ColumnIInv'
<1> DEFINE named == {order[i] : i \in 1 .. Len(order)}
<1>1. PICK d \in Nat : d = Len(tableDocs) + 1
  BY ColumnsAre DEF ColumnIInv
<1>2. PICK doc : doc = [fields |-> named \ empties, life |-> crashes]
  OBVIOUS
<1>3. PICK room : room = RoomFor(d)
  OBVIOUS
<1>4. PICK entry : entry = Entry(order)
  OBVIOUS
<1>5. PICK value : value = <<d, crashes>>
  OBVIOUS
<1>6. /\ Len(tableDocs) + crashes < MaxDocs
      /\ named \subseteq DOMAIN fieldId
      /\ tableDocs' = Append(tableDocs, doc)
      /\ d <= Len(entries) \/ count <= Len(entries)
      /\ d <= Len(room)
      /\ columns' = [f \in Fields |-> IF f \in named THEN PutValue(f, f \in empties, d)
                                      ELSE columns[f]]
      /\ entries' = [room EXCEPT ![d] = entry]
      /\ count' = count + 1
      /\ reused' = IF d <= colFile.count THEN reused \cup {d} ELSE reused
      /\ fieldId' = fieldId /\ fieldNum' = fieldNum /\ flushed' = flushed
      /\ flushing' = flushing /\ colFile' = colFile /\ crashes' = crashes
      /\ lostValues' = lostValues
  BY <1>1, <1>2, <1>3, <1>4 DEF AddDoc
<1>7. ColumnsTyped /\ CountsFit /\ HeaderIsMemory /\ FileIsMemory /\ EntriesAreOwn
      /\ RecordedAreOwn /\ FirstRun
  BY DEF ColumnIInv
<1>8. /\ Len(tableDocs) \in Nat /\ Len(entries) \in Nat /\ count \in Nat
      /\ \A i \in 1 .. Len(tableDocs) : tableDocs[i].fields \subseteq Fields
      /\ \A i \in 1 .. Len(entries) : entries[i] \in EntryLists
      /\ \A f \in Fields : columns[f] \in Seq(Vals) /\ Len(columns[f]) \in Nat
      /\ colFile.count \in Nat /\ crashes \in 0 .. MaxCrashes /\ crashes \in Nat
  BY <1>7, ColumnsAre, ColumnBounds DEF ColumnsTyped
<1>9. /\ Len(order) \in Nat /\ DOMAIN order = 1 .. Len(order) /\ Len(order) > 0
      /\ \A i \in 1 .. Len(order) : order[i] \in Fields
      /\ named \subseteq Fields
  BY OrderIs
<1>10. \A f \in DOMAIN fieldId : fieldId[f] \in Nat
  BY <1>7, IdMapsAre DEF ColumnsTyped
<1>11. d \in 1 .. MaxDocs /\ d > 0
  BY <1>1, <1>6, <1>8, ColumnBounds
<1>12. doc \in TableDocs /\ doc.fields = named \ empties /\ doc.life = crashes
  BY <1>2, <1>8, <1>9 DEF TableDocs
<1>13. value \in Vals
  BY <1>5, <1>8, <1>11 DEF Vals
<1>14. /\ entry \in EntryLists /\ Len(entry) = Len(order)
       /\ \A n \in 1 .. Len(entry) : entry[n].fid = fieldId[order[n]]
                                     /\ entry[n].vid = Len(columns[order[n]]) + 1
  <2> DEFINE pair(i) == [fid |-> fieldId[order[i]], vid |-> Len(columns[order[i]]) + 1]
  <2>1. \A i \in 1 .. Len(order) : pair(i) \in Pairs
    <3> SUFFICES ASSUME NEW i \in 1 .. Len(order) PROVE pair(i) \in Pairs
      OBVIOUS
    <3>1. order[i] \in Fields /\ order[i] \in DOMAIN fieldId
      BY <1>6, <1>9
    <3>2. fieldId[order[i]] \in Nat /\ Len(columns[order[i]]) + 1 \in Nat \ {0}
      BY <1>8, <1>10, <3>1
    <3> QED
      BY <3>2 DEF Pairs
  <2>2. entry = [i \in 1 .. Len(order) |-> pair(i)]
    BY <1>4 DEF Entry, ValueId
  <2>3. \A i \in 1 .. Len(order) : pair(i).fid = fieldId[order[i]]
                                   /\ pair(i).vid = Len(columns[order[i]]) + 1
    OBVIOUS
  <2> HIDE DEF pair
  <2>4. entry \in EntryLists
    BY <1>9, <2>1, <2>2, IsASeq DEF EntryLists
  <2>5. Len(entry) = Len(order) /\ \A n \in 1 .. Len(order) : entry[n] = pair(n)
    BY <1>9, <2>2
  <2> QED
    BY <2>3, <2>4, <2>5
<1> HIDE DEF named
<1>15. /\ room \in Seq(EntryLists) /\ Len(room) \in Nat /\ Len(entries) <= Len(room)
       /\ \A i \in 1 .. Len(room) :
            \/ i \in 1 .. Len(entries) /\ room[i] = entries[i]
            \/ room[i] = NoEntry /\ i > count
  <2>1. d \in Nat \ {0}
    BY <1>11
  <2> QED
    BY <1>3, <1>6, <1>7, <2>1, RoomIs
<1>16. /\ entries' \in Seq(EntryLists) /\ Len(entries') = Len(room)
       /\ d \in 1 .. Len(room) /\ entries'[d] = entry
       /\ \A i \in 1 .. Len(room) : i # d => entries'[i] = room[i]
  <2>1. d \in 1 .. Len(room)
    BY <1>6, <1>11, <1>15
  <2>2. /\ [room EXCEPT ![d] = entry] \in Seq(EntryLists)
        /\ Len([room EXCEPT ![d] = entry]) = Len(room)
        /\ \A i \in 1 .. Len(room) :
             [room EXCEPT ![d] = entry][i] = IF i = d THEN entry ELSE room[i]
    BY <1>14, <1>15, <2>1, ExceptSeq
  <2> QED
    BY <1>6, <2>1, <2>2
<1>17. \A f \in Fields :
         IF f \in named \ empties
         THEN /\ columns'[f] \in Seq(Vals) /\ Len(columns'[f]) = Len(columns[f]) + 1
              /\ \A i \in 1 .. Len(columns[f]) : columns'[f][i] = columns[f][i]
              /\ columns'[f][Len(columns[f]) + 1] = value
         ELSE columns'[f] = columns[f]
  <2> SUFFICES ASSUME NEW f \in Fields
      PROVE  IF f \in named \ empties
             THEN /\ columns'[f] \in Seq(Vals) /\ Len(columns'[f]) = Len(columns[f]) + 1
                  /\ \A i \in 1 .. Len(columns[f]) : columns'[f][i] = columns[f][i]
                  /\ columns'[f][Len(columns[f]) + 1] = value
             ELSE columns'[f] = columns[f]
    OBVIOUS
  <2>1. columns'[f] = IF f \in named \ empties THEN Append(columns[f], value) ELSE columns[f]
    BY <1>5, <1>6 DEF PutValue, OwnValue
  <2>2. columns[f] \in Seq(Vals)
    BY <1>8
  <2>3. /\ Append(columns[f], value) \in Seq(Vals)
        /\ Len(Append(columns[f], value)) = Len(columns[f]) + 1
        /\ \A i \in 1 .. Len(columns[f]) : Append(columns[f], value)[i] = columns[f][i]
        /\ Append(columns[f], value)[Len(columns[f]) + 1] = value
    BY <1>13, <2>2, AppendProperties
  <2> QED
    BY <2>1, <2>3
<1>18. columns' \in [Fields -> Seq(Vals)]
       /\ \A f \in Fields : Len(columns'[f]) \in Nat
  <2>1. \A f \in Fields : columns'[f] \in Seq(Vals) /\ Len(columns'[f]) \in Nat
    BY <1>8, <1>17
  <2> QED
    BY <1>6, <2>1
<1>19. Longer(columns, columns')
  BY <1>8, <1>17 DEF Longer
<1>20. /\ tableDocs' \in Seq(TableDocs) /\ Len(tableDocs') = d
       /\ \A i \in 1 .. Len(tableDocs) : tableDocs'[i] = tableDocs[i]
       /\ tableDocs'[d] = doc
  <2>1. tableDocs \in Seq(TableDocs)
    BY <1>7 DEF ColumnsTyped
  <2> QED
    BY <1>1, <1>6, <1>12, <2>1, AppendProperties
<1>21. \A i \in 1 .. d : i = d \/ (i \in 1 .. Len(tableDocs) /\ i # d)
  BY <1>1, <1>8
<1>22. ListsOwn(entry, fieldId, columns', doc, d) \/ ~Differ(fieldId)
  <2> SUFFICES ASSUME Differ(fieldId), NEW f \in doc.fields
               PROVE  /\ f \in DOMAIN fieldId
                      /\ \A n \in 1 .. Len(entry) : entry[n].fid = fieldId[f] =>
                           /\ entry[n].vid \in 1 .. Len(columns'[f])
                           /\ columns'[f][entry[n].vid] = <<d, doc.life>>
    BY DEF ListsOwn
  <2>1. f \in DOMAIN fieldId /\ f \in Fields /\ f \in named \ empties
    BY <1>6, <1>9, <1>12
  <2>2. ASSUME NEW n \in 1 .. Len(entry), entry[n].fid = fieldId[f]
        PROVE  /\ entry[n].vid \in 1 .. Len(columns'[f])
               /\ columns'[f][entry[n].vid] = <<d, doc.life>>
    <3>1. order[n] \in DOMAIN fieldId
      BY <1>6, <1>14 DEF named
    <3>2. order[n] = f
      BY <1>14, <2>1, <2>2, <3>1 DEF Differ
    <3>3. entry[n].vid = Len(columns[f]) + 1
      BY <1>14, <3>2
    <3> QED
      BY <1>5, <1>8, <1>12, <1>17, <2>1, <3>3
  <2> QED
    BY <2>1, <2>2
<1>23. ColumnsTyped'
  <2>1. count' \in Nat /\ flushed' \in 0 .. count' /\ reused' \subseteq 1 .. colFile'.count
    BY <1>6, <1>7, <1>8, <1>11 DEF ColumnsTyped
  <2> QED
    BY <1>6, <1>7, <1>16, <1>18, <1>20, <2>1 DEF ColumnsTyped
<1>24. CountsFit'
  <2>1. \A i \in 1 .. Len(tableDocs') : ~(i > Len(entries'))
    BY <1>11, <1>15, <1>16, <1>20
  <2>2. Len(entries) <= Len(entries') /\ count <= count'
    BY <1>6, <1>8, <1>15, <1>16
  <2>3. /\ colFile.count <= count' /\ colFile.count <= Len(entries')
        /\ flushed <= Len(entries')
    BY <1>6, <1>7, <1>8, <1>15, <1>16, <2>2 DEF CountsFit, ColumnsTyped
  <2> QED
    BY <1>6, <1>7, <2>1, <2>3 DEF CountsFit
<1>25. HeaderIsMemory'
  BY <1>6, <1>7 DEF HeaderIsMemory
<1>26. \A i \in 1 .. Len(entries') : i # d =>
         \/ i \in 1 .. Len(entries) /\ entries'[i] = entries[i]
         \/ entries'[i] = NoEntry /\ i > count
  BY <1>15, <1>16
<1>27. FileIsMemory'
  <2> SUFFICES ASSUME colFile.state = "whole", NEW i \in 1 .. colFile.count, i \notin reused'
               PROVE  colFile.entries[i] = entries'[i]
    BY <1>6 DEF FileIsMemory
  <2>1. i # d /\ i \notin reused
    BY <1>6, <1>8
  <2>2. i \in 1 .. Len(entries') /\ ~(i > count)
    BY <1>7, <1>8, <1>15, <1>16 DEF CountsFit
  <2>3. entries'[i] = entries[i]
    BY <1>26, <2>1, <2>2
  <2> QED
    BY <1>7, <2>1, <2>3 DEF FileIsMemory
<1>28. ASSUME NEW i \in 1 .. Len(tableDocs), i # d, i \in 1 .. Len(entries'),
              entries'[i] # NoEntry, NEW ids,
              Listed(i) => ListsOwn(entries[i], ids, columns, tableDocs[i], i)
       PROVE  Listed(i) /\ ListsOwn(entries'[i], ids, columns', tableDocs'[i], i)
  <2>1. i \in 1 .. Len(entries) /\ entries'[i] = entries[i]
    BY <1>26, <1>28
  <2>2. ListsOwn(entries[i], ids, columns, tableDocs[i], i) /\ Listed(i)
    BY <1>28, <2>1 DEF Listed
  <2>3. entries[i] \in EntryLists /\ tableDocs[i].fields \subseteq Fields
    BY <1>8, <2>1
  <2>4. ListsOwn(entries[i], ids, columns', tableDocs[i], i)
    BY <1>8, <1>18, <1>19, <2>2, <2>3, OwnKept
  <2> QED
    BY <1>20, <2>1, <2>2, <2>4
<1>29. EntriesAreOwn'
  <2> SUFFICES ASSUME ~lostValues, Differ(fieldId), NEW i \in 1 .. d,
                      i \in 1 .. Len(entries'), entries'[i] # NoEntry
               PROVE  ListsOwn(entries'[i], fieldId, columns', tableDocs'[i], i)
    BY <1>6, <1>20 DEF EntriesAreOwn, Listed
  <2>1. CASE i = d
    BY <1>16, <1>20, <1>22, <2>1
  <2>2. CASE i # d
    <3>1. i \in 1 .. Len(tableDocs)
      BY <1>21, <2>2
    <3>2. Listed(i) => ListsOwn(entries[i], fieldId, columns, tableDocs[i], i)
      BY <1>7, <3>1 DEF EntriesAreOwn
    <3> QED
      BY <1>28, <2>2, <3>1, <3>2
  <2> QED
    BY <2>1, <2>2
<1>30. RecordedAreOwn'
  <2> SUFFICES ASSUME ~lostValues, Differ(colFile.fieldId), NEW i \in 1 .. d,
                      i \in 1 .. Len(entries'), entries'[i] # NoEntry,
                      i <= colFile.count, i \notin reused'
               PROVE  ListsOwn(entries'[i], colFile.fieldId, columns', tableDocs'[i], i)
    BY <1>6, <1>20 DEF RecordedAreOwn, Listed
  <2>1. i # d /\ i \notin reused
    BY <1>6
  <2>2. i \in 1 .. Len(tableDocs)
    BY <1>21, <2>1
  <2>3. Listed(i) => ListsOwn(entries[i], colFile.fieldId, columns, tableDocs[i], i)
    BY <1>7, <2>1, <2>2 DEF RecordedAreOwn
  <2> QED
    BY <1>28, <2>1, <2>2, <2>3
<1>31. FirstRun'
  <2> SUFFICES ASSUME crashes = 0
               PROVE  /\ count' <= d /\ reused' = {}
                      /\ AllHaveColumns' => NoneLeftOut'
    BY <1>6, <1>7, <1>20 DEF FirstRun
  <2>1. count <= Len(tableDocs) /\ reused = {} /\ (AllHaveColumns => NoneLeftOut)
    BY <1>7 DEF FirstRun
  <2>2. count' <= d /\ reused' = {}
    <3>1. ~(d <= colFile.count)
      BY <1>1, <1>7, <1>8, <2>1 DEF CountsFit
    <3> QED
      BY <1>1, <1>6, <1>8, <2>1, <3>1
  <2>3. ASSUME AllHaveColumns' PROVE NoneLeftOut'
    <3>1. AllHaveColumns
      <4> SUFFICES ASSUME NEW i \in 1 .. Len(tableDocs) PROVE tableDocs[i].fields # {}
        BY DEF AllHaveColumns
      <4>1. i \in 1 .. d
        BY <1>1, <1>8
      <4> QED
        BY <1>20, <2>3, <4>1 DEF AllHaveColumns
    <3>2. /\ count = Len(tableDocs) /\ count <= Len(entries)
          /\ \A i \in 1 .. Len(tableDocs) : \A f \in tableDocs[i].fields :
               f \in DOMAIN fieldId
               /\ ListsValue(entries[i], fieldId[f], columns[f], <<i, 0>>)
      BY <2>1, <3>1 DEF NoneLeftOut
    <3>3. count' = d /\ d <= Len(entries')
      BY <1>1, <1>6, <1>8, <1>16, <3>2
    <3>4. ASSUME NEW i \in 1 .. d, NEW f \in tableDocs'[i].fields
          PROVE  f \in DOMAIN fieldId
                 /\ ListsValue(entries'[i], fieldId[f], columns'[f], <<i, 0>>)
      <4>1. CASE i = d
        <5>1. f \in named \ empties /\ f \in DOMAIN fieldId /\ f \in Fields
          BY <1>6, <1>9, <1>12, <1>20, <3>4, <4>1
        <5>2. PICK n \in 1 .. Len(order) : order[n] = f
          BY <5>1 DEF named
        <5>3. n \in 1 .. Len(entry) /\ entry[n].fid = fieldId[f]
              /\ entry[n].vid = Len(columns[f]) + 1
          BY <1>14, <5>2
        <5>4. /\ entry[n].vid \in 1 .. Len(columns'[f])
              /\ columns'[f][entry[n].vid] = <<d, 0>>
          BY <1>5, <1>8, <1>17, <5>1, <5>3
        <5>5. ListsValue(entry, fieldId[f], columns'[f], <<d, 0>>)
          BY <5>3, <5>4 DEF ListsValue
        <5> QED
          BY <1>16, <4>1, <5>1, <5>5
      <4>2. CASE i # d
        <5>1. i \in 1 .. Len(tableDocs) /\ f \in tableDocs[i].fields /\ f \in Fields
          BY <1>8, <1>20, <1>21, <3>4, <4>2
        <5>2. f \in DOMAIN fieldId
              /\ ListsValue(entries[i], fieldId[f], columns[f], <<i, 0>>)
          BY <3>2, <5>1
        <5>3. i \in 1 .. Len(entries') /\ ~(i > count)
          BY <1>8, <1>15, <1>16, <3>2, <5>1
        <5>4. entries'[i] = entries[i]
          BY <1>26, <4>2, <5>3
        <5>5. PICK n \in 1 .. Len(entries[i]) :
                /\ entries[i][n].fid = fieldId[f]
                /\ entries[i][n].vid \in 1 .. Len(columns[f])
                /\ columns[f][entries[i][n].vid] = <<i, 0>>
          BY <5>2 DEF ListsValue
        <5>6. /\ entries[i][n].vid \in 1 .. Len(columns'[f])
              /\ columns'[f][entries[i][n].vid] = <<i, 0>>
          <6>1. Len(columns[f]) <= Len(columns'[f])
                /\ columns'[f][entries[i][n].vid] = columns[f][entries[i][n].vid]
            BY <1>19, <5>1, <5>5 DEF Longer
          <6> QED
            BY <1>8, <1>18, <5>1, <5>5, <6>1
        <5>7. ListsValue(entries[i], fieldId[f], columns'[f], <<i, 0>>)
          BY <5>5, <5>6 DEF ListsValue
        <5> QED
          BY <5>2, <5>4, <5>7
      <4> QED
        BY <4>1, <4>2
    <3> QED
      BY <1>6, <1>20, <3>3, <3>4 DEF NoneLeftOut
  <2> QED
    BY <2>2, <2>3
<1> QED
  BY <1>23, <1>24, <1>25, <1>27, <1>29, <1>30, <1>31 DEF ColumnIInv

LEMMA AddDocKeeps ==
  ASSUME ColumnIInv, NEW order \in Orders, NEW empties \in SUBSET Lists,
         AddDoc(order, empties)
  PROVE  ColumnIInv'
<1>1. CASE order # << >>
  BY <1>1, AddFieldsKeeps
<1>2. CASE order = << >>
  <2>1. PICK life : life = crashes
    OBVIOUS
  <2>2. life \in Nat
    BY <2>1, ColumnBounds DEF ColumnIInv, ColumnsTyped
  <2>3. {order[i] : i \in 1 .. Len(order)} \ empties = {}
    BY <1>2
  <2>4. /\ tableDocs' = Append(tableDocs, [fields |-> {}, life |-> life])
        /\ UNCHANGED <<columns, fieldId, fieldNum, entries, count, flushed, flushing,
                       colFile, reused, lostValues>>
        /\ crashes' = crashes
    BY <1>2, <2>1, <2>3 DEF AddDoc
  <2> QED
    BY <2>2, <2>4, AddPlainDocKeeps
<1> QED
  BY <1>1, <1>2

\* The header takes over the ids and the count of memory.
LEMMA FlushBeginKeeps ==
  ASSUME ColumnIInv, FlushBegin
  PROVE  ColumnIInv'
<1>1. /\ count <= Len(entries) /\ flushed' = count /\ flushing' = TRUE
      /\ colFile' = [state |-> "partial", count |-> count, capacity |-> Len(entries),
                     fieldId |-> fieldId, entries |-> << >>]
      /\ reused' = {}
      /\ columns' = columns /\ fieldId' = fieldId /\ fieldNum' = fieldNum
      /\ entries' = entries /\ count' = count /\ tableDocs' = tableDocs
      /\ crashes' = crashes /\ lostValues' = lostValues
  BY DEF FlushBegin
<1>2. /\ colFile'.state = "partial" /\ colFile'.count = count
      /\ colFile'.capacity = Len(entries)
      /\ colFile'.fieldId = fieldId
  BY <1>1
<1>3. ColumnsTyped /\ CountsFit /\ EntriesAreOwn /\ FirstRun
  BY DEF ColumnIInv
<1>4. Len(entries) \in Nat /\ count \in Nat /\ fieldId \in IdMaps
  BY <1>3, ColumnsAre DEF ColumnsTyped
<1>5. ColumnsTyped'
  <2>1. << >> \in Seq(EntryLists)
    OBVIOUS
  <2>2. colFile' \in ColFiles
    BY <1>1, <1>4, <2>1 DEF ColFiles
  <2>3. flushed' \in 0 .. count' /\ flushing' \in BOOLEAN /\ reused' \subseteq 1 .. colFile'.count
    BY <1>1, <1>4
  <2> QED
    BY <1>1, <1>3, <2>2, <2>3 DEF ColumnsTyped
<1>6. CountsFit'
  BY <1>1, <1>2, <1>3, <1>4 DEF CountsFit
<1>7. HeaderIsMemory' /\ FileIsMemory'
  BY <1>1, <1>2 DEF HeaderIsMemory, FileIsMemory
<1>8. EntriesAreOwn' /\ RecordedAreOwn'
  BY <1>1, <1>2, <1>3 DEF EntriesAreOwn, RecordedAreOwn, Listed
<1>9. FirstRun'
  BY <1>1, <1>3 DEF FirstRun, AllHaveColumns, NoneLeftOut
<1> QED
  BY <1>5, <1>6, <1>7, <1>8, <1>9 DEF ColumnIInv

\* The file gets the entries of memory.
LEMMA FlushEndKeeps ==
  ASSUME ColumnIInv, FlushEnd
  PROVE  ColumnIInv'
<1>1. /\ flushing /\ flushing' = FALSE
      /\ colFile' = IF \E i \in 1 .. flushed : entries[i] = NoEntry THEN colFile
                    ELSE [colFile EXCEPT !.state = "whole", !.entries = FlushedEntries]
      /\ columns' = columns /\ fieldId' = fieldId /\ fieldNum' = fieldNum
      /\ entries' = entries /\ count' = count /\ flushed' = flushed
      /\ tableDocs' = tableDocs /\ crashes' = crashes /\ reused' = reused
      /\ lostValues' = lostValues
  BY DEF FlushEnd
<1>2. ColumnsTyped /\ CountsFit /\ HeaderIsMemory /\ EntriesAreOwn /\ RecordedAreOwn
      /\ FirstRun
  BY DEF ColumnIInv
<1>3. /\ Len(entries) \in Nat /\ count \in Nat /\ flushed \in Nat /\ flushed <= count
      /\ flushed <= Len(entries)
      /\ colFile.state = "partial" /\ colFile.count = flushed
      /\ colFile \in ColFiles
  BY <1>1, <1>2, ColumnsAre DEF ColumnsTyped, CountsFit
<1>4. /\ FlushedEntries \in Seq(EntryLists) /\ Len(FlushedEntries) = flushed
      /\ \A i \in 1 .. flushed : FlushedEntries[i] = entries[i]
  <2>1. \A i \in 1 .. flushed : entries[i] \in EntryLists
    <3>1. \A i \in 1 .. flushed : i \in 1 .. Len(entries)
      BY <1>3
    <3> QED
      BY <1>2, <3>1, ColumnsAre
  <2>2. /\ SubSeq(entries, 1, flushed) \in Seq(EntryLists)
        /\ Len(SubSeq(entries, 1, flushed)) = IF 1 <= flushed THEN flushed - 1 + 1 ELSE 0
        /\ \A i \in 1 .. flushed - 1 + 1 : SubSeq(entries, 1, flushed)[i] = entries[1 + i - 1]
    BY <1>3, <2>1, SubSeqProperties
  <2>3. \A i \in 1 .. flushed : i \in 1 .. flushed - 1 + 1 /\ 1 + i - 1 = i
    BY <1>3
  <2>4. Len(SubSeq(entries, 1, flushed)) = flushed
    BY <1>3, <2>2
  <2> QED
    BY <2>2, <2>3, <2>4 DEF FlushedEntries
<1>5. CASE \E i \in 1 .. flushed : entries[i] = NoEntry
  <2>1. colFile' = colFile
    BY <1>1, <1>5
  <2>2. ColumnsTyped'
    BY <1>1, <1>2, <2>1 DEF ColumnsTyped
  <2>3. CountsFit'
    BY <1>1, <1>2, <2>1 DEF CountsFit
  <2>4. HeaderIsMemory' /\ FileIsMemory' /\ EntriesAreOwn' /\ RecordedAreOwn'
    BY <1>1, <1>2, <1>3, <2>1
       DEF HeaderIsMemory, FileIsMemory, EntriesAreOwn, RecordedAreOwn, Listed
  <2>5. FirstRun'
    BY <1>1, <1>2 DEF FirstRun, AllHaveColumns, NoneLeftOut
  <2> QED
    BY <2>2, <2>3, <2>4, <2>5 DEF ColumnIInv
<1>6. CASE ~ \E i \in 1 .. flushed : entries[i] = NoEntry
  <2>1. /\ colFile' \in ColFiles /\ colFile'.state = "whole" /\ colFile'.count = flushed
        /\ colFile'.entries = FlushedEntries /\ colFile'.fieldId = colFile.fieldId
        /\ colFile'.capacity = colFile.capacity
    BY <1>1, <1>3, <1>4, <1>6 DEF ColFiles
  <2>2. ColumnsTyped'
    BY <1>1, <1>2, <1>3, <2>1 DEF ColumnsTyped
  <2>3. CountsFit'
    BY <1>1, <1>2, <1>3, <1>4, <2>1, ColumnsAre DEF CountsFit
  <2>4. HeaderIsMemory'
    BY <1>1, <1>2, <2>1 DEF HeaderIsMemory
  <2>5. FileIsMemory'
    BY <1>1, <1>4, <2>1 DEF FileIsMemory
  <2>6. EntriesAreOwn' /\ RecordedAreOwn'
    BY <1>1, <1>2, <1>3, <2>1 DEF EntriesAreOwn, RecordedAreOwn, Listed
  <2>7. FirstRun'
    BY <1>1, <1>2 DEF FirstRun, AllHaveColumns, NoneLeftOut
  <2> QED
    BY <2>2, <2>3, <2>4, <2>5, <2>6, <2>7 DEF ColumnIInv
<1> QED
  BY <1>5, <1>6

\* The table of entries that a restart loads, and the columns it opens.
LEMMA LoadedIs ==
  ASSUME ColumnIInv, colFile.state \in {"none", "whole"}
  PROVE  /\ Loaded \in Seq(EntryLists) /\ Len(Loaded) \in Nat
         /\ colFile.count <= Len(Loaded)
         /\ \A d \in 1 .. Len(Loaded) :
              IF d <= colFile.count
              THEN colFile.state = "whole" /\ Loaded[d] = colFile.entries[d]
              ELSE Loaded[d] = NoEntry
<1>1. ColumnsTyped /\ CountsFit
  BY DEF ColumnIInv
<1>2. /\ colFile.count \in Nat /\ colFile.capacity \in Nat
      /\ colFile.entries \in Seq(EntryLists)
  BY <1>1, ColumnsAre
<1>3. NoEntry \in EntryLists
  BY DEF NoEntry, EntryLists
<1>4. CASE colFile.state = "none"
  <2>1. Loaded = [i \in 1 .. BlockDocs |-> NoEntry] /\ colFile.count = 0
    BY <1>1, <1>4 DEF Loaded, CountsFit
  <2>2. Loaded \in Seq(EntryLists) /\ Len(Loaded) = BlockDocs
    BY <1>3, <2>1, ColumnBounds, IsASeq
  <2>3. \A d \in 1 .. Len(Loaded) : Loaded[d] = NoEntry /\ ~(d <= colFile.count)
    BY <2>1, <2>2, ColumnBounds
  <2> QED
    BY <2>1, <2>2, <2>3, ColumnBounds
<1>5. CASE colFile.state = "whole"
  <2> DEFINE place(i) == IF i <= colFile.count THEN colFile.entries[i] ELSE NoEntry
  <2>1. Loaded = [i \in 1 .. colFile.capacity |-> place(i)]
    BY <1>5 DEF Loaded
  <2>2. Len(colFile.entries) = colFile.count /\ colFile.count <= colFile.capacity
    BY <1>1, <1>5 DEF CountsFit
  <2>3. \A i \in 1 .. colFile.count : colFile.entries[i] \in EntryLists
    BY <1>2, <2>2
  <2>4. \A i \in 1 .. colFile.capacity : place(i) \in EntryLists
    BY <1>2, <1>3, <2>3
  <2>5. \A i \in 1 .. colFile.capacity :
          (i <= colFile.count => place(i) = colFile.entries[i])
          /\ (~(i <= colFile.count) => place(i) = NoEntry)
    OBVIOUS
  <2> HIDE DEF place
  <2>6. Loaded \in Seq(EntryLists) /\ Len(Loaded) = colFile.capacity
        /\ \A i \in 1 .. colFile.capacity : Loaded[i] = place(i)
    BY <1>2, <2>1, <2>4, IsASeq
  <2> QED
    BY <1>2, <1>5, <2>2, <2>5, <2>6
<1> QED
  BY <1>4, <1>5

LEMMA ReopenedIs ==
  ASSUME ColumnsTyped, NEW kept \in [Fields -> 0 .. MaxDocs - 1],
         \A f \in Fields : kept[f] <= Len(columns[f])
  PROVE  /\ Reopened(kept) \in [Fields -> Seq(Vals)]
         /\ \A f \in Fields :
              /\ Len(Reopened(kept)[f]) = kept[f] /\ kept[f] \in Nat
              /\ \A i \in 1 .. kept[f] : Reopened(kept)[f][i] = columns[f][i]
              /\ kept[f] = Len(columns[f]) => Reopened(kept)[f] = columns[f]
<1>1. ASSUME NEW f \in Fields
      PROVE  /\ SubSeq(columns[f], 1, kept[f]) \in Seq(Vals)
             /\ Len(SubSeq(columns[f], 1, kept[f])) = kept[f] /\ kept[f] \in Nat
             /\ \A i \in 1 .. kept[f] : SubSeq(columns[f], 1, kept[f])[i] = columns[f][i]
             /\ kept[f] = Len(columns[f]) => SubSeq(columns[f], 1, kept[f]) = columns[f]
  <2>1. columns[f] \in Seq(Vals) /\ Len(columns[f]) \in Nat
    BY ColumnsAre
  <2>2. PICK k \in Nat : k = kept[f]
    BY ColumnBounds
  <2>3. k <= Len(columns[f])
    BY <2>2
  <2>4. \A i \in 1 .. k : columns[f][i] \in Vals
    BY <2>1, <2>3
  <2>5. /\ SubSeq(columns[f], 1, k) \in Seq(Vals)
        /\ Len(SubSeq(columns[f], 1, k)) = IF 1 <= k THEN k - 1 + 1 ELSE 0
        /\ \A i \in 1 .. k - 1 + 1 : SubSeq(columns[f], 1, k)[i] = columns[f][1 + i - 1]
    BY <2>2, <2>4, SubSeqProperties
  <2>6. Len(SubSeq(columns[f], 1, k)) = k
    BY <2>2, <2>5
  <2>7. \A i \in 1 .. k : i \in 1 .. k - 1 + 1 /\ 1 + i - 1 = i
    BY <2>2
  <2>8. \A i \in 1 .. k : SubSeq(columns[f], 1, k)[i] = columns[f][i]
    BY <2>5, <2>7
  <2>9. k = Len(columns[f]) => SubSeq(columns[f], 1, k) = columns[f]
    BY <2>1, <2>5, <2>6, <2>8, SeqEqual
  <2> QED
    BY <2>2, <2>5, <2>6, <2>8, <2>9
<1> QED
  BY <1>1 DEF Reopened

\* A crash and a restart: what is loaded was in memory.
LEMMA RestartKeeps ==
  ASSUME ColumnIInv, NEW kept \in [Fields -> 0 .. MaxDocs - 1],
         NEW docsKept \in 0 .. MaxDocs - 1, Restart(kept, docsKept)
  PROVE  ColumnIInv'
<1>1. /\ crashes < MaxCrashes
      /\ colFile.state \in {"none", "whole"}
      /\ \A f \in Fields : kept[f] <= Len(columns[f])
      /\ docsKept <= Len(tableDocs)
      /\ crashes' = crashes + 1 /\ columns' = Reopened(kept)
      /\ tableDocs' = SubSeq(tableDocs, 1, docsKept)
      /\ fieldId' = colFile.fieldId /\ fieldNum' = SchemaFields
      /\ entries' = Loaded /\ count' = colFile.count /\ flushed' = 0
      /\ flushing' = FALSE /\ reused' = {} /\ colFile' = colFile
      /\ lostValues' = \/ lostValues
                       \/ \E f \in Fields : kept[f] < Len(columns[f])
                       \/ \E d \in reused : d <= docsKept
  BY DEF Restart
<1>2. ColumnsTyped /\ CountsFit /\ FileIsMemory /\ RecordedAreOwn
  BY DEF ColumnIInv
<1>3. /\ Len(tableDocs) \in Nat /\ tableDocs \in Seq(TableDocs) /\ Len(entries) \in Nat
      /\ colFile.count \in Nat /\ colFile.count <= Len(entries) /\ docsKept \in Nat
      /\ crashes \in 0 .. MaxCrashes /\ lostValues \in BOOLEAN
      /\ \A f \in Fields : Len(columns[f]) \in Nat
      /\ colFile.state = "none" => colFile.count = 0
  BY <1>2, ColumnsAre, ColumnBounds DEF ColumnsTyped, CountsFit
<1>4. /\ entries' \in Seq(EntryLists) /\ Len(entries') \in Nat
      /\ colFile.count <= Len(entries')
      /\ \A d \in 1 .. Len(entries') :
           IF d <= colFile.count
           THEN colFile.state = "whole" /\ entries'[d] = colFile.entries[d]
           ELSE entries'[d] = NoEntry
  BY <1>1, LoadedIs
<1>5. /\ columns' \in [Fields -> Seq(Vals)]
      /\ \A f \in Fields : kept[f] = Len(columns[f]) => columns'[f] = columns[f]
  BY <1>1, <1>2, ReopenedIs
<1>6. /\ tableDocs' \in Seq(TableDocs) /\ Len(tableDocs') = docsKept
      /\ \A d \in 1 .. docsKept : d \in 1 .. Len(tableDocs) /\ tableDocs'[d] = tableDocs[d]
  <2>1. \A d \in 1 .. docsKept : d \in 1 .. Len(tableDocs) /\ tableDocs[d] \in TableDocs
    BY <1>1, <1>3
  <2>2. /\ SubSeq(tableDocs, 1, docsKept) \in Seq(TableDocs)
        /\ Len(SubSeq(tableDocs, 1, docsKept)) =
             IF 1 <= docsKept THEN docsKept - 1 + 1 ELSE 0
        /\ \A i \in 1 .. docsKept - 1 + 1 :
             SubSeq(tableDocs, 1, docsKept)[i] = tableDocs[1 + i - 1]
    BY <1>3, <2>1, SubSeqProperties
  <2>3. \A i \in 1 .. docsKept : i \in 1 .. docsKept - 1 + 1 /\ 1 + i - 1 = i
    BY <1>3
  <2>4. Len(SubSeq(tableDocs, 1, docsKept)) = docsKept
    BY <1>3, <2>2
  <2>5. \A i \in 1 .. docsKept : SubSeq(tableDocs, 1, docsKept)[i] = tableDocs[i]
    BY <2>2, <2>3
  <2> QED
    BY <1>1, <2>1, <2>2, <2>4, <2>5
<1>7. \A d \in 1 .. Len(entries') : Listed(d)' =>
        d <= colFile.count /\ colFile.state = "whole" /\ entries'[d] = colFile.entries[d]
  BY <1>4 DEF Listed
<1>8. ColumnsTyped'
  <2>1. /\ colFile.fieldId \in IdMaps /\ SchemaFields \in Nat /\ 0 \in 0 .. colFile.count
        /\ crashes + 1 \in 0 .. MaxCrashes
    BY <1>1, <1>2, <1>3, ColumnsAre, ColumnBounds
  <2>2. lostValues' \in BOOLEAN
    BY <1>1, <1>3
  <2>3. colFile \in ColFiles
    BY <1>2 DEF ColumnsTyped
  <2> QED
    BY <1>1, <1>3, <1>4, <1>5, <1>6, <2>1, <2>2, <2>3 DEF ColumnsTyped
<1>9. CountsFit'
  <2>1. CountsFit
    BY <1>2
  <2>2. 0 <= Len(entries') /\ colFile.count <= colFile.count
    BY <1>3, <1>4
  <2> QED
    BY <1>1, <1>4, <2>1, <2>2 DEF CountsFit
<1>10. HeaderIsMemory'
  BY <1>1 DEF HeaderIsMemory
<1>11. FileIsMemory'
  <2> SUFFICES ASSUME colFile.state = "whole", NEW d \in 1 .. colFile.count
               PROVE  colFile.entries[d] = entries'[d]
    BY <1>1 DEF FileIsMemory
  <2>1. d \in 1 .. Len(entries') /\ d <= colFile.count
    BY <1>3, <1>4
  <2> QED
    BY <1>4, <2>1
<1>12. ASSUME ~lostValues', Differ(colFile.fieldId), NEW d \in 1 .. docsKept,
              d \in 1 .. Len(entries'), entries'[d] # NoEntry
       PROVE  ListsOwn(entries'[d], colFile.fieldId, columns', tableDocs'[d], d)
  <2>1. d <= colFile.count /\ colFile.state = "whole" /\ entries'[d] = colFile.entries[d]
    BY <1>4, <1>12
  <2>2. ~lostValues /\ d \notin reused
    <3>1. d <= docsKept
      BY <1>3
    <3>2. lostValues' = \/ lostValues
                        \/ \E f \in Fields : kept[f] < Len(columns[f])
                        \/ \E i \in reused : i <= docsKept
      BY <1>1
    <3>3. d \in reused => \E i \in reused : i <= docsKept
      BY <3>1
    <3> QED
      BY <1>12, <3>2, <3>3, Zenon
  <2>3. d \in 1 .. colFile.count /\ d \in 1 .. Len(entries)
    BY <1>3, <2>1
  <2>4. entries[d] = entries'[d]
    BY <1>2, <2>1, <2>2, <2>3 DEF FileIsMemory
  <2>5. Listed(d) /\ d \in 1 .. Len(tableDocs) /\ tableDocs'[d] = tableDocs[d]
    BY <1>6, <1>12, <2>3, <2>4 DEF Listed
  <2>6. ListsOwn(entries[d], colFile.fieldId, columns, tableDocs[d], d)
    BY <1>2, <1>12, <2>1, <2>2, <2>5 DEF RecordedAreOwn
  <2>7. \A f \in Fields : kept[f] = Len(columns[f])
    <3> SUFFICES ASSUME NEW f \in Fields PROVE kept[f] = Len(columns[f])
      OBVIOUS
    <3>1. ~(kept[f] < Len(columns[f])) /\ kept[f] <= Len(columns[f])
      BY <1>1, <1>12
    <3>2. kept[f] \in Nat /\ Len(columns[f]) \in Nat
      BY <1>3, ColumnBounds
    <3> QED
      BY <3>1, <3>2
  <2>8. columns' = columns
    <3>1. columns \in [Fields -> Seq(Vals)]
      BY <1>2 DEF ColumnsTyped
    <3>2. \A f \in Fields : columns'[f] = columns[f]
      BY <1>5, <2>7
    <3> QED
      BY <1>5, <3>1, <3>2
  <2> QED
    BY <2>4, <2>5, <2>6, <2>8
<1>13. EntriesAreOwn' /\ RecordedAreOwn'
  <2>1. EntriesAreOwn'
    BY <1>1, <1>6, <1>12 DEF EntriesAreOwn, Listed
  <2>2. RecordedAreOwn'
    BY <1>1, <1>6, <1>12 DEF RecordedAreOwn, Listed
  <2> QED
    BY <2>1, <2>2
<1>14. FirstRun'
  <2>1. crashes' # 0
    BY <1>1, <1>3, ColumnBounds
  <2> QED
    BY <2>1 DEF FirstRun
<1> QED
  BY <1>8, <1>9, <1>10, <1>11, <1>13, <1>14 DEF ColumnIInv

\* The first sentence of the invariant: it holds of every step.
LEMMA ColumnStepHolds == ColumnIInv /\ [ColumnNext]_columnVars => ColumnIInv'
<1> SUFFICES ASSUME ColumnIInv, [ColumnNext]_columnVars PROVE ColumnIInv'
  OBVIOUS
<1>1. CASE \E f \in Fields : AddNewField(f)
  BY <1>1, AddNewFieldKeeps
<1>2. CASE \E order \in Orders, empties \in SUBSET Lists : AddDoc(order, empties)
  BY <1>2, AddDocKeeps
<1>3. CASE FlushBegin
  BY <1>3, FlushBeginKeeps
<1>4. CASE FlushEnd
  BY <1>4, FlushEndKeeps
<1>5. CASE \E kept \in [Fields -> 0 .. MaxDocs - 1], docsKept \in 0 .. MaxDocs - 1 :
             Restart(kept, docsKept)
  BY <1>5, RestartKeeps
<1>6. CASE UNCHANGED columnVars
  BY <1>6 DEF columnVars, ColumnIInv, ColumnsTyped, CountsFit, HeaderIsMemory, FileIsMemory,
              EntriesAreOwn, RecordedAreOwn, Listed, FirstRun, AllHaveColumns, NoneLeftOut
<1> QED
  BY <1>1, <1>2, <1>3, <1>4, <1>5, <1>6 DEF ColumnNext

\* A restart reads of a document of the file what was read before it, or
\* nothing: the ids of its values and of its fields come back as they were.
LEMMA RestartReads ==
  ASSUME ColumnIInv, NEW kept \in [Fields -> 0 .. MaxDocs - 1],
         NEW docsKept \in 0 .. MaxDocs - 1, Restart(kept, docsKept),
         NEW d \in (1 .. count') \ reused, NEW f \in DOMAIN fieldId'
  PROVE  Read(d, f)' \in {Read(d, f), Missing}
<1>1. /\ colFile.state \in {"none", "whole"}
      /\ \A g \in Fields : kept[g] <= Len(columns[g])
      /\ columns' = Reopened(kept) /\ fieldId' = colFile.fieldId
      /\ entries' = Loaded /\ count' = colFile.count
  BY DEF Restart
<1>2. ColumnsTyped /\ CountsFit /\ HeaderIsMemory /\ FileIsMemory
  BY DEF ColumnIInv
<1>3. /\ Len(entries) \in Nat /\ colFile.count \in Nat /\ colFile.count <= Len(entries)
      /\ count \in Nat /\ colFile.count <= count
      /\ \A i \in 1 .. Len(entries) : entries[i] \in EntryLists
      /\ \A g \in Fields : Len(columns[g]) \in Nat
      /\ \A g \in DOMAIN colFile.fieldId : g \in Fields /\ colFile.fieldId[g] \in Nat
  BY <1>2, ColumnsAre, IdMapsAre DEF ColumnsTyped, CountsFit
<1>4. d \in 1 .. colFile.count /\ d \in 1 .. Len(entries) /\ d <= count /\ d <= count'
  BY <1>1, <1>3
<1>5. f \in Fields /\ f \in DOMAIN fieldId /\ fieldId[f] = fieldId'[f] /\ fieldId[f] \in Nat
  BY <1>1, <1>2, <1>3 DEF HeaderIsMemory
<1>6. entries'[d] = entries[d]
  <2>1. d \in 1 .. Len(Loaded) /\ d <= colFile.count
    BY <1>1, <1>3, <1>4, LoadedIs
  <2>2. colFile.state = "whole" /\ entries'[d] = colFile.entries[d]
    BY <1>1, <2>1, LoadedIs
  <2> QED
    BY <1>2, <1>4, <2>2 DEF FileIsMemory
<1>7. PICK entry : entry = entries[d]
  OBVIOUS
<1>8. PICK fid \in Nat : fid = fieldId[f]
  BY <1>5
<1>9. PICK at : at = Find(entry, fid)
  OBVIOUS
<1>10. Read(d, f) = IF entry = NoEntry \/ at = 0 THEN Missing
                    ELSE Value(f, entry[at].vid)
  BY <1>3, <1>4, <1>5, <1>7, <1>8, <1>9 DEF Read
<1>11. Read(d, f)' = IF entry = NoEntry \/ at = 0 THEN Missing
                     ELSE IF entry[at].vid > Len(columns'[f]) THEN Missing
                     ELSE columns'[f][entry[at].vid]
  BY <1>1, <1>3, <1>4, <1>5, <1>6, <1>7, <1>8, <1>9 DEF Read, Value
<1>12. CASE entry = NoEntry \/ at = 0
  BY <1>11, <1>12
<1>13. CASE entry # NoEntry /\ at # 0
  <2>1. entry \in EntryLists
    BY <1>3, <1>4, <1>7
  <2>2. at \in 0 .. Len(entry)
    BY <1>9, <2>1, FindIs
  <2>3. at \in 1 .. Len(entry)
    BY <1>13, <2>1, <2>2, EntryIs
  <2>4. entry[at].vid \in Nat \ {0}
    BY <2>1, <2>3, EntryIs
  <2>5. /\ Len(columns'[f]) = kept[f] /\ kept[f] \in Nat
        /\ \A i \in 1 .. kept[f] : columns'[f][i] = columns[f][i]
    BY <1>1, <1>2, <1>5, ReopenedIs
  <2>6. CASE entry[at].vid > kept[f]
    BY <1>11, <1>13, <2>5, <2>6
  <2>7. CASE entry[at].vid <= kept[f]
    <3>1. entry[at].vid \in 1 .. kept[f] /\ ~(entry[at].vid > Len(columns[f]))
      BY <1>1, <1>3, <1>5, <2>4, <2>5, <2>7
    <3>2. Read(d, f) = columns[f][entry[at].vid]
      BY <1>10, <1>13, <3>1 DEF Value
    <3>3. Read(d, f)' = columns[f][entry[at].vid]
      BY <1>11, <1>13, <2>5, <2>7, <3>1
    <3> QED
      BY <3>2, <3>3
  <2> QED
    BY <2>4, <2>5, <2>6, <2>7
<1> QED
  BY <1>12, <1>13

\* Only a restart counts a crash.
LEMMA ColumnStepLoads ==
  ColumnIInv /\ [ColumnNext]_columnVars =>
    [crashes' # crashes =>
       \A d \in (1 .. count') \ reused : \A f \in DOMAIN fieldId' :
         Read(d, f)' \in {Read(d, f), Missing}]_columnVars
<1> SUFFICES ASSUME ColumnIInv, [ColumnNext]_columnVars, crashes' # crashes,
                    NEW d \in (1 .. count') \ reused, NEW f \in DOMAIN fieldId'
             PROVE  Read(d, f)' \in {Read(d, f), Missing}
  OBVIOUS
<1>1. CASE \E g \in Fields : AddNewField(g)
  BY <1>1 DEF AddNewField
<1>2. CASE \E order \in Orders, empties \in SUBSET Lists : AddDoc(order, empties)
  BY <1>2 DEF AddDoc
<1>3. CASE FlushBegin \/ FlushEnd \/ UNCHANGED columnVars
  BY <1>3 DEF FlushBegin, FlushEnd, columnVars
<1>4. CASE \E kept \in [Fields -> 0 .. MaxDocs - 1], docsKept \in 0 .. MaxDocs - 1 :
             Restart(kept, docsKept)
  BY <1>4, RestartReads
<1> QED
  BY <1>1, <1>2, <1>3, <1>4 DEF ColumnNext

THEOREM ColumnIInvHolds == ColumnSpec => []ColumnIInv
<1>1. ColumnInit => ColumnIInv
  BY ColumnInitHolds
<1>2. ColumnIInv /\ [ColumnNext]_columnVars => ColumnIInv'
  BY ColumnStepHolds
<1> QED
  BY <1>1, <1>2, PTL DEF ColumnSpec

\* A read of a field is the document's own value, or nothing; in the first run
\* it is found.
THEOREM ColumnInvariant == ColumnSpec => []ColumnInv
BY ColumnIInvHolds, ColumnIInvImplies, PTL

\* What a whole file lists reads after a crash as it did before.
THEOREM ColumnFileLoads == ColumnSpec => LoadKeepsWhatWasFlushed
<1>1. ColumnSpec => []ColumnIInv /\ [][ColumnNext]_columnVars
  BY ColumnIInvHolds, PTL DEF ColumnSpec
<1> QED
  BY <1>1, ColumnStepLoads, PTL DEF LoadKeepsWhatWasFlushed
=============================================================================
