----------------------------- MODULE BlockCache -----------------------------
(***************************************************************************)
(* The cache of disk blocks (LRUCache, MemoryPool) between the threads     *)
(* that read blocks and the one that updates them (Block, StringBlock).    *)
(* A read that misses registers an insert, loads the block under the lock  *)
(* of the insert and then puts it into the cache under the lock of the     *)
(* cache.  What a read returns is a pointer to a buffer, copied after the  *)
(* locks are gone; an evicted buffer goes back to a pool and is used       *)
(* again.  Loading cannot fail: no block is longer than MAX_BLOCK_SIZE.    *)
(*                                                                         *)
(* A block's content is its key and how often it was updated.  Writing a   *)
(* block, loading one and copying one is a step each.                      *)
(***************************************************************************)
EXTENDS Integers, Sequences, FiniteSets, SequencesExt

CONSTANTS
  Blocks,         \* keys of the cache: the full blocks of a file
  BlockReaders,   \* reading threads
  CacheSizes,     \* sizes that AlterCacheSize may be asked for, in blocks
  OverflowShare,  \* a cache may exceed max_size_ by this part of its size
  PoolSpare,      \* buffers the pool may hold beyond the cache
  HitsToMove,     \* THRESHOLD_OF_SWAP
  UpdatedBlocks,  \* the blocks whose rows are updated
  MaxUpdates      \* bound: updates of a block

NoBlock == "none"

ASSUME BlockCacheAssumption ==
  /\ IsFiniteSet(Blocks) /\ IsFiniteSet(BlockReaders) /\ NoBlock \notin Blocks
  /\ CacheSizes \subseteq Nat \ {0} /\ CacheSizes # {}
  /\ UpdatedBlocks \subseteq Blocks
  /\ OverflowShare \in Nat \ {0}
  /\ {PoolSpare, HitsToMove, MaxUpdates} \subseteq Nat

VARIABLES
  disk,       \* how often each block was updated in the file
  settled,    \* the updates of each block that returned
  cacheSize,  \* max_size_ + max_overflow_
  cells,      \* cells_: the cached blocks, a buffer and its hits
  queue,      \* queue_: their order of eviction
  inserts,    \* insert_infos_: a buffer for each block that is being loaded
  content,    \* what each buffer holds
  pool,       \* que_ of the MemoryPool
  maxPool,    \* max_cell_num_: how many buffers there may be, used or not
  reading,    \* the SetOrGet call of each reader
  updating    \* the Block::Update call

cacheVars == <<disk, settled, cacheSize, cells, queue, inserts, content, pool,
               maxPool, reading, updating>>

Buffers == 1 .. 2 * Cardinality(Blocks) + Cardinality(BlockReaders) + PoolSpare

NoBuffer == 0
NotReadingBlock == [step |-> "idle", block |-> NoBlock, buffer |-> NoBuffer,
                    due |-> 0, reclaimed |-> FALSE]
NotUpdating == [step |-> "idle", block |-> NoBlock, loaded |-> FALSE]

MaxOverflow(size) == size \div OverflowShare
MaxSize(size) == size - MaxOverflow(size)

CacheInit ==
  /\ disk = [k \in Blocks |-> 0]
  /\ settled = disk
  /\ cacheSize \in CacheSizes
  /\ cells = << >>
  /\ queue = << >>
  /\ inserts = << >>
  /\ content = [b \in Buffers |-> << >>]
  /\ pool = << >>
  /\ maxPool = cacheSize + PoolSpare
  /\ reading = [r \in BlockReaders |-> NotReadingBlock]
  /\ updating = NotUpdating

-----------------------------------------------------------------------------
Cached == {cells[k].buffer : k \in DOMAIN cells}
Loading == {inserts[k].buffer : k \in DOMAIN inserts}
InUse == Cached \cup Loading

\* GetBuffer: the first of the pool, or new memory.
NextBuffer ==
  IF pool # << >> THEN Head(pool)
  ELSE CHOOSE b \in Buffers : b \notin InUse
\* Mutant: the buffer stays in the pool.
PoolKept == pool
PoolAfterGet == IF pool # << >> THEN Tail(pool) ELSE pool

With(f, k, v) == [j \in DOMAIN f \cup {k} |-> IF j = k THEN v ELSE f[j]]
Without(f, ks) == [j \in DOMAIN f \ ks |-> f[j]]

\* Mutants: the hits go on; the block is queued twice.
HitForEver(k) == [cells EXCEPT ![k].hits = @ + 1]
QueueAfterHitTwice(k) == Append(queue, k)

\* GetImpl moves a block to the end of the queue after enough hits.
Hit(k) == [cells EXCEPT ![k].hits = IF @ >= HitsToMove THEN 0 ELSE @ + 1]
QueueAfterHit(k) ==
  IF cells[k].hits >= HitsToMove
  THEN Append(RemoveAt(queue, CHOOSE n \in DOMAIN queue : queue[n] = k), k)
  ELSE queue

\* SetOrGet, under the lock of the cache: a hit; or the reader waits for the
\* insert of the block, which the first one registers.
Lookup(r, k) ==
  /\ reading[r].step = "idle"
  /\ UNCHANGED <<disk, settled, cacheSize, maxPool, content, updating>>
  /\ \/ /\ k \in DOMAIN cells
        /\ cells' = Hit(k)
        /\ queue' = QueueAfterHit(k)
        /\ reading' = [reading EXCEPT ![r] =
             [NotReadingBlock EXCEPT !.step = "copy", !.block = k,
                !.buffer = cells[k].buffer, !.due = settled[k]]]
        /\ UNCHANGED <<inserts, pool>>
     \/ /\ k \notin DOMAIN cells
        /\ IF k \in DOMAIN inserts
           THEN UNCHANGED <<inserts, pool>>
           ELSE /\ inserts' = With(inserts, k, [buffer |-> NextBuffer,
                                                locked |-> FALSE])
                /\ pool' = PoolAfterGet
        /\ reading' = [reading EXCEPT ![r] =
             [NotReadingBlock EXCEPT !.step = "wait", !.block = k,
                                     !.due = settled[k]]]
        /\ UNCHANGED <<cells, queue>>

\* The lock of the insert, for the reader that will load the block.
LockInsert(r) ==
  /\ reading[r].step = "wait"
  /\ ~inserts[reading[r].block].locked
  /\ inserts' = [inserts EXCEPT ![reading[r].block].locked = TRUE]
  /\ reading' = [reading EXCEPT ![r].step = "load"]
  /\ UNCHANGED <<disk, settled, cacheSize, maxPool, cells, queue, content, pool,
                 updating>>

\* load_func_: the block is read from the file.
LoadBlock(r) ==
  LET k == reading[r].block
  IN  /\ reading[r].step = "load"
      /\ reading' = [reading EXCEPT ![r].step = "publish"]
      /\ content' = [content EXCEPT ![inserts[k].buffer] = <<k, disk[k]>>]
      /\ UNCHANGED <<disk, settled, cacheSize, maxPool, cells, queue, inserts,
                     pool, updating>>

\* Mutant: the insert stays registered.
InsertsKept(k) == inserts
InsertsAfter(k) == Without(inserts, {k})

\* How many blocks EvictOverflow takes from the front of a queue.
Evicted(order, size) ==
  IF Len(order) >= size THEN Len(order) - MaxSize(size) ELSE 0

Clamped(n, most) == IF n <= 0 THEN 0 ELSE IF n > most THEN most ELSE n

\* ReclaimBuffer, for each of some buffers: the pool takes it and drops its
\* front when it and the buffers in use are too many.
Reclaim(buffers, used) ==
  LET all == pool \o buffers
      dropped == Clamped(Len(all) + used - maxPool, Len(buffers))
  IN  SubSeq(all, dropped + 1, Len(all))

\* What a free buffer holds is forgotten.
Forgotten(buffers) ==
  [b \in Buffers |-> IF b \in buffers THEN << >> ELSE content[b]]
\* Readers that are about to copy a reclaimed buffer.
Reclaimed(state, buffers) ==
  [r \in BlockReaders |->
     IF state[r].buffer \in buffers THEN [state[r] EXCEPT !.reclaimed = TRUE]
     ELSE state[r]]

\* The readers of block k that wait for its insert get its product.
Served(k, b) ==
  [r \in BlockReaders |->
     IF reading[r].block = k /\ reading[r].step \in {"wait", "publish"}
     THEN [reading[r] EXCEPT !.step = "copy", !.buffer = b]
     ELSE reading[r]]

\* SetImpl and EvictOverflow for the loaded block; the insert is unregistered.
Publish(r) ==
  LET k == reading[r].block
      b == inserts[k].buffer
      order == Append(queue, k)
      gone == SubSeq(order, 1, Evicted(order, cacheSize))
      held == With(cells, k, [buffer |-> b, hits |-> 0])
      freed == [n \in 1 .. Len(gone) |-> held[gone[n]].buffer]
      used == Cardinality(InUse) - Len(gone)
  IN  /\ reading[r].step = "publish"
      /\ queue' = SubSeq(order, Len(gone) + 1, Len(order))
      /\ cells' = Without(held, ToSet(gone))
      /\ inserts' = InsertsAfter(k)
      /\ pool' = Reclaim(freed, used)
      /\ content' = Forgotten(ToSet(freed))
      /\ reading' = Reclaimed(Served(k, b), ToSet(freed))
      /\ updating' = [updating EXCEPT !.loaded = @ \/ updating.block = k]
      /\ UNCHANGED <<disk, settled, cacheSize, maxPool>>

\* Block::Read copies what the pointer shows, without a lock.
Copy(r) ==
  /\ reading[r].step = "copy"
  /\ reading' = [reading EXCEPT ![r] = NotReadingBlock]
  /\ UNCHANGED <<disk, settled, cacheSize, maxPool, cells, queue, inserts, content,
                 pool, updating>>

-----------------------------------------------------------------------------
\* Block::Update writes the file first.
WriteBlock(k) ==
  /\ updating.step = "idle"
  /\ disk[k] < MaxUpdates
  /\ disk' = [disk EXCEPT ![k] = @ + 1]
  /\ updating' = [NotUpdating EXCEPT !.step = "lookup", !.block = k]
  /\ UNCHANGED <<settled, cacheSize, maxPool, cells, queue, inserts, content,
                 pool, reading>>

\* Mutant: a cached block is left as it was.
PatchedNever(k) == content
Patched(k) ==
  IF k \in DOMAIN cells
  THEN [content EXCEPT ![cells[k].buffer] = <<k, disk[k]>>]
  ELSE content

\* Mutant: an insert is not waited for.
NeverWaits(k) == FALSE
\* LRUCache::Update waits for an insert that is registered for the block;
\* without one it patches the cached block, if there is one.
WaitsForInsert(k) == k \in DOMAIN inserts

LookupForUpdate ==
  LET k == updating.block
  IN  /\ updating.step = "lookup"
      /\ \/ /\ WaitsForInsert(k)
            /\ updating' = [updating EXCEPT !.step = "patch",
                                             !.loaded = FALSE]
            /\ UNCHANGED <<content, settled>>
         \/ /\ ~WaitsForInsert(k)
            /\ content' = Patched(k)
            /\ settled' = [settled EXCEPT ![k] = disk[k]]
            /\ updating' = NotUpdating
      /\ UNCHANGED <<disk, cacheSize, maxPool, cells, queue, inserts, pool,
                     reading>>

PatchBlock ==
  LET k == updating.block
  IN  /\ updating.step = "patch"
      /\ ~(~updating.loaded /\ inserts[k].locked)
      /\ content' = Patched(k)
      /\ settled' = [settled EXCEPT ![k] = disk[k]]
      /\ updating' = NotUpdating
      /\ UNCHANGED <<disk, cacheSize, maxPool, cells, queue, inserts, pool,
                     reading>>

\* AlterCacheSize evicts at once; the pool then drops what exceeds it.
AlterCacheSize(size) ==
  LET gone == SubSeq(queue, 1, Evicted(queue, size))
      freed == [n \in 1 .. Len(gone) |-> cells[gone[n]].buffer]
      used == Cardinality(InUse) - Len(gone)
      refilled == Reclaim(freed, used)
      limit == MaxSize(size) + PoolSpare
      over == Len(refilled) + used - limit
      dropped == Clamped(over, Len(refilled))
  IN  /\ size # cacheSize
      /\ cacheSize' = size
      /\ queue' = SubSeq(queue, Len(gone) + 1, Len(queue))
      /\ cells' = Without(cells, ToSet(gone))
      /\ pool' = SubSeq(refilled, dropped + 1, Len(refilled))
      /\ maxPool' = IF over <= 0 THEN limit ELSE maxPool - dropped
      /\ reading' = Reclaimed(reading, ToSet(freed))
      /\ content' = Forgotten(ToSet(freed))
      /\ UNCHANGED <<disk, settled, inserts, updating>>

CacheNext ==
  \/ \E r \in BlockReaders, k \in Blocks : Lookup(r, k)
  \/ \E r \in BlockReaders : LockInsert(r) \/ LoadBlock(r) \/ Publish(r) \/ Copy(r)
  \/ \E k \in UpdatedBlocks : WriteBlock(k)
  \/ LookupForUpdate \/ PatchBlock
  \/ \E size \in CacheSizes : AlterCacheSize(size)

\* A thread that can go on does; locks are given to somebody who waits.
CacheFairness ==
  /\ \A r \in BlockReaders :
       /\ SF_cacheVars(LockInsert(r))
       /\ WF_cacheVars(LoadBlock(r) \/ Publish(r) \/ Copy(r))
  /\ WF_cacheVars(LookupForUpdate)
  /\ SF_cacheVars(PatchBlock)

CacheSpec == CacheInit /\ [][CacheNext]_cacheVars /\ CacheFairness

-----------------------------------------------------------------------------
CacheTypeOK ==
  /\ disk \in [Blocks -> 0 .. MaxUpdates]
  /\ DOMAIN cells \subseteq Blocks /\ DOMAIN inserts \subseteq Blocks
  /\ \A k \in DOMAIN cells :
       cells[k] \in [buffer : Buffers, hits : 0 .. HitsToMove]
  /\ \A k \in DOMAIN inserts : inserts[k].buffer \in Buffers
  /\ pool \in Seq(Buffers)
  /\ \A r \in BlockReaders :
       reading[r].step \in {"idle", "wait", "load", "publish", "copy"}
  /\ updating.step \in {"idle", "lookup", "patch"}

\* A cached block is what the file holds, except while its update is on the
\* way: LRUCache::Update waits for a load that may have read the old block.
CachedBlocksAreCurrent ==
  \A k \in DOMAIN cells :
    updating.block # k => content[cells[k].buffer] = <<k, disk[k]>>

\* What a reader is about to copy is its block, at least as new as when the
\* read began, unless the buffer was evicted meanwhile: LRUCache::SetOrGet
\* hands out a pointer that only the lock protected.
CopiesAreFresh ==
  \A r \in BlockReaders :
    reading[r].step = "copy" /\ ~reading[r].reclaimed =>
      LET held == content[reading[r].buffer]
      IN  held # << >> /\ held[1] = reading[r].block /\ held[2] >= reading[r].due

\* A buffer is in the pool, in the cache or being loaded, never two of them:
\* SetOrGet registers one insert for a block and gives its buffer to one place.
BuffersHaveOneOwner ==
  /\ Cached \cap Loading = {}
  /\ ToSet(pool) \cap InUse = {}
  /\ IsInjective(pool)
  /\ \A j, k \in DOMAIN cells : cells[j].buffer = cells[k].buffer => j = k
  /\ \A j, k \in DOMAIN inserts :
       inserts[j].buffer = inserts[k].buffer => j = k

\* The queue orders exactly the cached blocks, and they fit: EvictOverflow
\* counts what it takes by cur_size_ and takes it by the queue.
QueueOrdersTheCache ==
  /\ ToSet(queue) = DOMAIN cells
  /\ IsInjective(queue)
  /\ Len(queue) <= cacheSize

\* Every read returns: SetOrGet holds the lock of an insert while it takes the
\* lock of the cache, and nobody takes them the other way round.
BlockReadsReturn ==
  \A r \in BlockReaders : reading[r].step = "wait" ~> reading[r].step = "idle"

\* Copies of blocks are current, also under updates and evictions; a buffer
\* belongs to one of them; the queue and the map name the same blocks.
CacheInv ==
  /\ CacheTypeOK
  /\ CachedBlocksAreCurrent
  /\ CopiesAreFresh
  /\ BuffersHaveOneOwner
  /\ QueueOrdersTheCache
=============================================================================
