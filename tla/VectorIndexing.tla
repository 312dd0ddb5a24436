--------------------------- MODULE VectorIndexing ---------------------------
(***************************************************************************)
(* Vectors on their way into an IVF index.  GammaEngine's add, update and  *)
(* delete change the raw vectors, the bitmap and the queue updated_vids_.  *)
(* The indexing thread (GammaEngine::Indexing) calls                       *)
(* VectorManager::AddRTVecsToIndex again and again: new vectors go in      *)
(* batches to the buckets, then the queued updates are applied and the     *)
(* buckets compacted.  Searches read the buckets at any time.              *)
(*                                                                         *)
(* One vector field, one thread that calls the engine; the vectors of a    *)
(* batch are read in one step.  Training is the step that starts the loop. *)
(***************************************************************************)
EXTENDS RTBuckets

CONSTANTS
  Bucket,        \* Bucket[vec]: the list the quantizer assigns a vector to
  BatchSize,     \* MAX_NUM_PER_INDEX
  UpdateBatch,   \* updates applied in one round (20000)
  IndexingSize   \* vectors that start the indexing

ASSUME IndexingAssumption ==
  /\ 1 \in Versions
  /\ Bucket \in [Vectors -> Buckets]
  /\ {BatchSize, UpdateBatch} \subseteq Nat \ {0}
  /\ IndexingSize \in Nat

VARIABLES
  raw,            \* the raw vectors: the version of each, in id order
  indexed_count_, \* vectors the retrieval model has been given
  updated_vids_,  \* queue of updated ids
  gone,           \* documents whose key was deleted with them
  caller,         \* where the engine's caller is
  worker,         \* the indexing thread
  revived,        \* documents added again after a delete by query (history)
  refused         \* a bucket refused its keys (history)

history == <<revived, refused>>
storeVars == <<raw, gone>>
loopVars == <<storeVars, indexed_count_, updated_vids_, caller, worker,
              history>>
vars == <<bucketVars, loopVars>>

Returned == [pc |-> "idle", vid |-> 0]
Round == [pc |-> "round", batches |-> 0, total |-> 0, todo |-> << >>,
          vecs |-> << >>, next |-> 0, failed |-> FALSE]

Stored == {v \in Vids : v < Len(raw)}
Current(v) == <<v, raw[v + 1]>>
Live(v) == v \in Stored /\ v \notin deleted

Init ==
  /\ BucketsInit
  /\ raw = << >>
  /\ indexed_count_ = 0
  /\ updated_vids_ = << >>
  /\ gone = {}
  /\ caller = Returned
  /\ worker = [Round EXCEPT !.pc = "off"]
  /\ revived = {}
  /\ refused = FALSE

----------------------------------------------------------------------------
(* The caller.                                                             *)

\* AddToStore; BuildIndex when the table has enough documents.
AddVector ==
  /\ caller = Returned
  /\ Len(raw) \in Vids
  /\ raw' = Append(raw, 1)
  /\ worker' = IF worker.pc = "off" /\ Len(raw) + 1 >= IndexingSize
               THEN Round ELSE worker
  /\ UNCHANGED <<bucketVars, gone, indexed_count_, updated_vids_, caller,
                 history>>

\* VectorManager::Update, the raw vector.  A document deleted by query still has
\* its key and is updated when the key is added again.
UpdateRaw(v) ==
  /\ caller = Returned
  /\ v \in Stored \ gone
  /\ raw[v + 1] + 1 \in Versions
  /\ raw' = [raw EXCEPT ![v + 1] = @ + 1]
  /\ caller' = [pc |-> "push", vid |-> v]
  /\ UNCHANGED <<bucketVars, gone, indexed_count_, updated_vids_, worker,
                 history>>

\* Mutant: only updates of vectors that were counted as indexed are queued.
PushUpdateIfIndexed ==
  /\ caller.pc = "push"
  /\ updated_vids_' = IF caller.vid >= indexed_count_ THEN updated_vids_
                      ELSE Append(updated_vids_, caller.vid)
  /\ \/ caller' = Returned
     \/ caller.vid \in deleted /\ caller' = [caller EXCEPT !.pc = "unset"]
  /\ UNCHANGED <<bucketVars, storeVars, indexed_count_, worker, history>>

\* VectorManager::Update, the queue.  The batch form of AddOrUpdateDocs goes on
\* to clear the bit of such a document, the other forms do not.
PushUpdate ==
  /\ caller.pc = "push"
  /\ updated_vids_' = Append(updated_vids_, caller.vid)
  /\ \/ caller' = Returned
     \/ caller.vid \in deleted /\ caller' = [caller EXCEPT !.pc = "unset"]
  /\ UNCHANGED <<bucketVars, storeVars, indexed_count_, worker, history>>

\* AddOrUpdateDocs: docids_bitmap_->Unset.
UnsetDeleted ==
  /\ caller.pc = "unset"
  /\ deleted' = deleted \ {caller.vid}
  /\ revived' = revived \cup {caller.vid}
  /\ caller' = Returned
  /\ UNCHANGED <<ids, codes, size, capacity, place, dead, filling, packing,
                 readers, storeVars, indexed_count_, updated_vids_, worker,
                 refused>>

\* GammaEngine::Delete and DelDocByFilter: the bit and the key.
DeleteDoc(v) ==
  /\ caller = Returned
  /\ Live(v)
  /\ deleted' = deleted \cup {v}
  /\ gone' = gone \cup {v}
  /\ caller' = [pc |-> "count", vid |-> v]
  /\ UNCHANGED <<ids, codes, size, capacity, place, dead, filling, packing,
                 readers, raw, indexed_count_, updated_vids_, worker, history>>

\* They end with VectorManager::Delete.
CountDeleted ==
  /\ caller.pc = "count"
  /\ CountDead(caller.vid)
  /\ caller' = Returned
  /\ UNCHANGED <<storeVars, indexed_count_, updated_vids_, worker, history>>

\* GammaEngine::DelDocByQuery sets the bit and nothing else.
DelDocByQuery(v) ==
  /\ caller = Returned
  /\ Live(v)
  /\ deleted' = deleted \cup {v}
  /\ UNCHANGED <<ids, codes, size, capacity, place, dead, filling, packing,
                 readers, loopVars>>

Caller ==
  \/ AddVector
  \/ \E v \in Vids : UpdateRaw(v) \/ DeleteDoc(v) \/ DelDocByQuery(v)
  \/ PushUpdate \/ UnsetDeleted \/ CountDeleted

----------------------------------------------------------------------------
(* The indexing thread: new vectors.                                       *)

Free(pc) == worker.pc = pc /\ WriterFree

\* AddRTVecsToIndex counts the batches before the first.
StartRound ==
  /\ Free("round")
  /\ worker' = [Round EXCEPT
                  !.pc = "batch",
                  !.total = Len(raw),
                  !.batches =
                    IF indexed_count_ = Len(raw) THEN 0
                    ELSE (Len(raw) - indexed_count_) \div BatchSize + 1]
  /\ UNCHANGED <<bucketVars, storeVars, indexed_count_, updated_vids_, caller,
                 history>>

BatchCount ==
  IF worker.batches = 1 THEN worker.total - indexed_count_ ELSE BatchSize

\* GammaIVFPQIndex::Add assigns the vectors of a batch to their buckets.
ReadBatch ==
  /\ Free("batch") /\ worker.batches > 0 /\ BatchCount > 0
  /\ worker' = [worker EXCEPT
                  !.pc = "add", !.next = 0,
                  !.vecs = [k \in 1 .. BatchCount |->
                              Current(indexed_count_ + k - 1)]]
  /\ UNCHANGED <<bucketVars, storeVars, indexed_count_, updated_vids_, caller,
                 history>>

\* The buckets of a batch that are still to be filled, lowest first.
BucketsLeft ==
  {b \in Buckets : /\ b >= worker.next
                   /\ \E k \in DOMAIN worker.vecs : Bucket[worker.vecs[k]] = b}

\* The positions of a batch that bucket b gets, in ascending order.
IsShareOf(order, b) ==
  /\ {order[n] : n \in DOMAIN order} = {k \in DOMAIN worker.vecs : Bucket[worker.vecs[k]] = b}
  /\ \A m, n \in DOMAIN order : m < n => order[m] < order[n]

\* RTInvertIndex::AddKeys: the next bucket of the batch.
NextBucket ==
  /\ Free("add") /\ BucketsLeft # {}
  /\ LET b == CHOOSE x \in BucketsLeft : \A y \in BucketsLeft : x <= y
     IN /\ \E length \in DOMAIN worker.vecs :
             \E order \in [1 .. length -> DOMAIN worker.vecs] :
               /\ IsShareOf(order, b)
               /\ BeginFill(b, [n \in 1 .. length |-> worker.vecs[order[n]]])
        /\ worker' = [worker EXCEPT !.next = b + 1]
  /\ UNCHANGED <<ids, codes, size, capacity, place, dead, deleted, packing,
                 readers, storeVars, indexed_count_, updated_vids_, caller,
                 history>>

\* Mutant: vectors stored meanwhile are counted as indexed.
EndBatchAtSize ==
  /\ Free("add") /\ BucketsLeft = {}
  /\ indexed_count_' = Len(raw)
  /\ worker' = [worker EXCEPT !.pc = "batch", !.batches = @ - 1, !.vecs = << >>]
  /\ UNCHANGED <<bucketVars, storeVars, updated_vids_, caller, history>>

EndBatch ==
  /\ Free("add") /\ BucketsLeft = {}
  /\ indexed_count_' = indexed_count_ + Len(worker.vecs)
  /\ worker' = [worker EXCEPT !.pc = "batch", !.batches = @ - 1, !.vecs = << >>]
  /\ UNCHANGED <<bucketVars, storeVars, updated_vids_, caller, history>>

\* A bucket refuses its keys.  A batch fails and the next starts at the same
\* vector; the result of an update is not looked at.
Refused ==
  /\ RefuseKeys
  /\ worker' = IF worker.pc = "add"
               THEN [worker EXCEPT !.pc = "batch", !.batches = @ - 1,
                                   !.vecs = << >>, !.failed = TRUE]
               ELSE worker
  /\ refused' = TRUE
  /\ UNCHANGED <<storeVars, indexed_count_, updated_vids_, caller, revived>>

----------------------------------------------------------------------------
(* The indexing thread: updates.                                           *)

PopsLeft == Len(worker.todo) < UpdateBatch /\ updated_vids_ # << >>
BatchesDone == Free("batch") /\ (worker.batches = 0 \/ BatchCount = 0)

\* A deleted document's update is dropped, one ahead of the index goes back to
\* the end of the queue and ends the round, the others are collected.
PopUpdate ==
  LET v == Head(updated_vids_) IN
  /\ BatchesDone /\ PopsLeft
  /\ IF v \in deleted
     THEN /\ updated_vids_' = Tail(updated_vids_)
          /\ UNCHANGED worker
     ELSE IF v >= indexed_count_
     THEN /\ updated_vids_' = Append(Tail(updated_vids_), v)
          /\ worker' = [worker EXCEPT !.pc = "gets"]
     ELSE /\ updated_vids_' = Tail(updated_vids_)
          /\ worker' = [worker EXCEPT !.todo = Append(@, v)]
  /\ UNCHANGED <<bucketVars, storeVars, indexed_count_, caller, history>>

Rested == [Round EXCEPT !.pc = IF worker.failed THEN "failed" ELSE "round"]

\* RawVector::Gets, then GammaIVFPQIndex::Update; without updates the round
\* ends.  A round whose batches failed is the last.
ReadUpdates ==
  /\ (BatchesDone /\ ~PopsLeft) \/ Free("gets")
  /\ worker' = IF worker.todo # << >>
               THEN [worker EXCEPT
                       !.pc = "update", !.todo = << >>,
                       !.vecs = [k \in DOMAIN worker.todo |->
                                   Current(worker.todo[k])]]
               ELSE Rested
  /\ UNCHANGED <<bucketVars, storeVars, indexed_count_, updated_vids_, caller,
                 history>>

\* RealTimeMemData::Update of the next vector.
ApplyUpdate ==
  /\ Free("update") /\ worker.vecs # << >>
  /\ LET vec == Head(worker.vecs) IN
       \/ UpdateNothing(vec)
       \/ OverwriteCode(Bucket[vec], vec)
       \/ MoveEntry(Bucket[vec], vec)
  /\ worker' = [worker EXCEPT !.vecs = Tail(@), !.next = 0]
  /\ UNCHANGED <<storeVars, indexed_count_, updated_vids_, caller,
                 history>>

\* CompactIfNeed looks at one bucket after the other.
ToCompact == {b \in Buckets : b >= worker.next}

CheckBucket ==
  /\ Free("update") /\ worker.vecs = << >> /\ ToCompact # {}
  /\ LET b == CHOOSE x \in ToCompact : \A y \in ToCompact : x <= y
     IN /\ IF Compactable(b) THEN BeginCompact(b) ELSE UNCHANGED bucketVars
        /\ worker' = [worker EXCEPT !.next = b + 1]
  /\ UNCHANGED <<storeVars, indexed_count_, updated_vids_, caller,
                 history>>

EndRound ==
  /\ Free("update") /\ worker.vecs = << >> /\ ToCompact = {}
  /\ worker' = Rested
  /\ UNCHANGED <<bucketVars, storeVars, indexed_count_, updated_vids_, caller,
                 history>>

Worker ==
  \/ StartRound \/ ReadBatch \/ NextBucket \/ EndBatch \/ Refused
  \/ PopUpdate \/ ReadUpdates \/ ApplyUpdate \/ CheckBucket \/ EndRound
  \/ BucketStep /\ UNCHANGED loopVars

----------------------------------------------------------------------------
(* Searches.                                                               *)

\* Bucket b lists the vector, with this code.
Lists(b, vec) == \E i \in 1 .. size[b] :
  /\ i \in DOMAIN ids[b] /\ i \in DOMAIN codes[b]
  /\ ids[b][i] = Entry(Vid(vec)) /\ codes[b][i] = vec

\* The vectors a search of bucket b that starts now must find.
Due(b) == {vec \in Vectors : Live(Vid(vec)) /\ vec = Current(Vid(vec))
                             /\ Lists(b, vec)}

Search ==
  \E r \in Readers :
    /\ \/ \E b \in Buckets : ReadSize(r, b, Due(b))
       \/ ReadIds(r)
       \/ Scan(r)
    /\ UNCHANGED loopVars

Next == Caller \/ Worker \/ Search

Spec == Init /\ [][Next]_vars

\* The indexing thread is a loop until the engine closes; a call of the engine
\* that has begun runs on.
FairSpec == /\ Spec
            /\ WF_vars(Worker)
            /\ WF_vars(PushUpdate \/ UnsetDeleted \/ CountDeleted)

----------------------------------------------------------------------------
(* Properties.  Most are claimed until a bucket at its limit refuses keys   *)
(* or a document that was deleted by query is added again.                 *)

Claimed == revived = {} /\ ~refused

EntryType == [vid : Vids, masked : BOOLEAN]
Flight == {worker.vecs[k] : k \in DOMAIN worker.vecs}
          \cup {filling.vecs[k] : k \in DOMAIN filling.vecs}

\* The thread is in AddKeys only between two buckets of a batch or two updates,
\* and in CompactBucket only after them; arrays hold what searches may read.
TypeOK ==
  /\ \A b \in Buckets :
       /\ ids[b] \in Seq(EntryType) /\ codes[b] \in Seq(Vectors)
       /\ size[b] <= capacity[b]
       /\ packing.step \notin {"codes", "size"} \/ packing.bucket # b
            => size[b] <= Len(ids[b]) /\ Len(ids[b]) = Len(codes[b])
  /\ \A v \in Vids : place[v] = NoPlace \/ place[v] \in Buckets \X (Nat \ {0})
  /\ dead \in [Buckets -> Nat]
  /\ gone \subseteq deleted /\ deleted \subseteq Stored
  /\ raw \in Seq(Versions) /\ indexed_count_ \in 0 .. Len(raw)
  /\ filling # NotFilling =>
       worker.pc \in {"add", "update"} /\ packing = NotPacking
  /\ packing # NotPacking => worker.pc = "update" /\ worker.vecs = << >>

\* Between the steps of the thread an entry holds a code of its own vector:
\* moving, growing and compacting never pair an id with another's code.
CodesBelongToTheirIds ==
  WriterFree =>
    \A b \in Buckets : \A i \in 1 .. size[b] :
      ~ids[b][i].masked => Vid(codes[b][i]) = ids[b][i].vid

\* They do where it is claimed.  A move that is refused has masked its entry and
\* left the place: once the entry is compacted away, the next update of the
\* vector writes its code to another vector's entry, or masks that entry.
CodesBelongWhileClaimed == Claimed => CodesBelongToTheirIds

\* The places of the entries of a vector that searches read.
Listings(v) ==
  UNION {{<<b, i>> : i \in {j \in 1 .. size[b] : ids[b][j] = Entry(v)}} : b \in Buckets}

\* Between the steps of the thread an indexed vector that is not deleted has
\* exactly one entry, at the place vid_bucket_no_pos_ gives, in the bucket its
\* code is assigned to: no step of AddKeys, Update or CompactBucket, with the
\* deletes of the caller in between, loses or doubles it.
LiveVectorsAreListedOnce ==
  Claimed /\ WriterFree =>
    \A v \in Vids : Live(v) /\ v < indexed_count_ =>
      /\ Listings(v) = {place[v]}
      /\ Bucket[codes[place[v][1]][place[v][2]]] = place[v][1]

\* The code of an indexed vector is the current one or an update of it is on
\* its way: in the caller's hands, in updated_vids_ or with the thread.
FreshOrPending ==
  Claimed =>
    \A v \in Vids : Live(v) /\ v < indexed_count_ =>
      \/ \E b \in Buckets : \E i \in DOMAIN codes[b] : codes[b][i] = Current(v)
      \/ caller = [pc |-> "push", vid |-> v]
      \/ \E k \in DOMAIN updated_vids_ : updated_vids_[k] = v
      \/ \E k \in DOMAIN worker.todo : worker.todo[k] = v
      \/ Current(v) \in Flight

\* A search that no compaction of its bucket overlaps pairs every id with a
\* code its vector had, and reads nothing that was not written, whatever is
\* appended, moved or grown meanwhile.
ScanPairsIdsWithTheirCodes ==
  Claimed =>
    \A r \in Readers : readers[r].pc = "scan" /\ ~readers[r].torn =>
      /\ Written(r)
      /\ \A pair \in Scanned(r) :
           Vid(pair[2]) = pair[1] /\ Version(pair[2]) <= raw[pair[1] + 1]

\* A vector that was listed when the search began and was neither updated nor
\* deleted since is among the ids read, compactions included.
ScanFindsEveryLive ==
  Claimed =>
    \A r \in Readers : readers[r].pc = "scan" =>
      \A vec \in readers[r].due :
        Live(Vid(vec)) /\ Current(Vid(vec)) = vec =>
          \E i \in 1 .. readers[r].size :
            i \in DOMAIN IdsRead(r) /\ IdsRead(r)[i] = Entry(Vid(vec))

\* When the caller has made its last call, the loop over AddRTVecsToIndex lists
\* every vector that is not deleted with its current code, and keeps it listed.
VectorsGetIndexed ==
  <>[](Claimed /\ worker.pc # "off" =>
         \A v \in Stored : Live(v) => \E b \in Buckets : Lists(b, Current(v)))

\* The arrays of the lists: their shape, and whose codes they hold.
VectorInv ==
  /\ TypeOK
  /\ CodesBelongWhileClaimed

\* What a search fetches while lists grow and are compacted: ids with their
\* own codes, and every vector that stays.
ScansAreSound ==
  /\ ScanPairsIdsWithTheirCodes
  /\ ScanFindsEveryLive
=============================================================================
