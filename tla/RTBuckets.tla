----------------------------- MODULE RTBuckets -----------------------------
(***************************************************************************)
(* The inverted lists of an IVF index (RealTimeMemData and                 *)
(* RTInvertBucketData).  A bucket is an array of ids, a parallel array of  *)
(* codes and the number of entries that searches may read.  One thread     *)
(* appends, moves and compacts entries without a lock; searches fetch the  *)
(* number, the ids and the codes of a bucket one after the other.          *)
(*                                                                         *)
(* Growing and compacting replace an array.  A search that already fetched *)
(* the old ids keeps them: its record then holds a frozen copy.  Old       *)
(* arrays are freed after a second; searches are taken to be faster.       *)
(* Codes are fetched last, so fetching them and reading the entries is one *)
(* step here.                                                              *)
(***************************************************************************)
EXTENDS Integers, Sequences, FiniteSets

CONSTANTS
  Vids,        \* vector ids, 0 .. n - 1
  Versions,    \* the versions of a vector, 1 .. m
  Buckets,     \* bucket numbers
  BucketKeys,  \* capacity of a new bucket
  KeysLimit,   \* bucket_keys_limit_
  Slack,       \* bound: how far beyond the need a bucket grows
  Readers      \* searches that may run at once

ASSUME BucketsAssumption ==
  /\ Vids \subseteq Nat
  /\ Versions \subseteq Nat \ {0}
  /\ Buckets \subseteq Nat
  /\ {BucketKeys, KeysLimit, Slack} \subseteq Nat

VARIABLES
  ids,       \* idx_array_: [Buckets -> Seq(entries)]
  codes,     \* codes_array_: [Buckets -> Seq(vectors)]
  size,      \* retrieve_idx_pos_: entries that searches read
  capacity,  \* cur_bucket_keys_
  place,     \* vid_bucket_no_pos_
  dead,      \* deleted_nums_: entries believed to be dead
  deleted,   \* docids_bitmap_
  filling,   \* the AddKeys call of the writer
  packing,   \* the CompactBucket call of the writer
  readers    \* the searches

bucketVars == <<ids, codes, size, capacity, place, dead, deleted, filling,
                packing, readers>>

\* A vector is known by its id and its version; its code tells them apart.
Vectors == Vids \X Versions
Vid(vec) == vec[1]
Version(vec) == vec[2]

Entry(v) == [vid |-> v, masked |-> FALSE]
NoPlace == << >>
NotFilling == [step |-> "none", bucket |-> 0, vecs |-> << >>]
NotPacking == [step |-> "none", bucket |-> 0, next |-> 0, ids |-> << >>,
               codes |-> << >>]
NotReading == [pc |-> "idle", bucket |-> 0, size |-> 0, current |-> FALSE,
               ids |-> << >>, torn |-> FALSE, due |-> {}]

BucketsInit ==
  /\ ids = [b \in Buckets |-> << >>]
  /\ codes = [b \in Buckets |-> << >>]
  /\ size = [b \in Buckets |-> 0]
  /\ capacity = [b \in Buckets |-> BucketKeys]
  /\ place = [v \in Vids |-> NoPlace]
  /\ dead = [b \in Buckets |-> 0]
  /\ deleted = {}
  /\ filling = NotFilling
  /\ packing = NotPacking
  /\ readers = [r \in Readers |-> NotReading]

WriterFree == filling = NotFilling /\ packing = NotPacking

\* Mutant: the old array is freed at once.
DetachedFreed(b) ==
  [r \in Readers |->
     IF readers[r].current /\ readers[r].bucket = b
     THEN [readers[r] EXCEPT !.current = FALSE]
     ELSE readers[r]]

\* The searches that fetched the ids of bucket b keep the array as it is now.
Detached(b) ==
  [r \in Readers |->
     IF readers[r].current /\ readers[r].bucket = b
     THEN [readers[r] EXCEPT !.current = FALSE, !.ids = ids[b]]
     ELSE readers[r]]

\* The searches of bucket b between their first and their last fetch.
Torn(b, rs) ==
  [r \in Readers |-> IF rs[r].pc # "idle" /\ rs[r].bucket = b
                     THEN [rs[r] EXCEPT !.torn = TRUE] ELSE rs[r]]

----------------------------------------------------------------------------
(* AddKeys: make room, copy the entries and their places, publish.          *)

BeginFill(b, vecs) ==
  filling' = [step |-> "room", bucket |-> b, vecs |-> vecs]

Needed == size[filling.bucket] + Len(filling.vecs)

\* Mutant: one key more than there is room for.
FitsOneMore == Needed <= capacity[filling.bucket] + 1

Fits == Needed <= capacity[filling.bucket]
AtLimit(b) == 2 * capacity[b] >= KeysLimit

\* RTInvertBucketData::ExtendBucketMem by way of AdjustBucketMem.  The factor
\* depends on how often the bucket grew; any size from the need upwards is.
GrowBucket ==
  LET b == filling.bucket IN
  /\ filling.step = "room" /\ ~Fits /\ ~AtLimit(b)
  /\ \E c \in Needed .. (Needed + Slack) :
       capacity' = [capacity EXCEPT ![b] = c]
  /\ readers' = Detached(b)
  /\ filling' = [filling EXCEPT !.step = "fill"]
  /\ UNCHANGED <<ids, codes, size, place, dead, deleted, packing>>

\* AddKeys up to the switch of retrieve_idx_pos_.  Nothing is read beyond it,
\* so the copies and the places are one step.
FillKeys ==
  LET b == filling.bucket
      vecs == filling.vecs
      kept(s) == SubSeq(s, 1, size[b])
      new == {Vid(vecs[k]) : k \in DOMAIN vecs}
      at(v) == CHOOSE k \in DOMAIN vecs : Vid(vecs[k]) = v
  IN /\ filling.step = "fill" \/ (filling.step = "room" /\ Fits)
     /\ ids' = [ids EXCEPT ![b] =
                  kept(@) \o [k \in DOMAIN vecs |-> Entry(Vid(vecs[k]))]]
     /\ codes' = [codes EXCEPT ![b] = kept(@) \o vecs]
     /\ place' = [v \in Vids |-> IF v \in new THEN <<b, size[b] + at(v)>>
                                 ELSE place[v]]
     /\ dead' = [dead EXCEPT ![b] = @ + Cardinality(new \cap deleted)]
     /\ filling' = [filling EXCEPT !.step = "publish"]
     /\ UNCHANGED <<size, capacity, deleted, packing, readers>>

PublishKeys ==
  /\ filling.step = "publish"
  /\ size' = [size EXCEPT ![filling.bucket] = Needed]
  /\ filling' = NotFilling
  /\ UNCHANGED <<ids, codes, capacity, place, dead, deleted, packing, readers>>

\* ExtendBucketIfNeed returns -1: AddKeys fails and has changed nothing.
RefuseKeys ==
  /\ filling.step = "room" /\ ~Fits /\ AtLimit(filling.bucket)
  /\ filling' = NotFilling
  /\ UNCHANGED <<ids, codes, size, capacity, place, dead, deleted, packing,
                 readers>>

----------------------------------------------------------------------------
(* RealTimeMemData::Update and Delete.                                      *)

\* The place of an id may be left over from a longer array; what is beyond
\* size is not read.
WithCode(s, i, vec) == IF i \in DOMAIN s THEN [s EXCEPT ![i] = vec] ELSE s
WithMask(s, i) == IF i \in DOMAIN s THEN [s EXCEPT ![i].masked = TRUE] ELSE s

\* The id was never indexed: nothing to do.
UpdateNothing(vec) ==
  /\ place[Vid(vec)] = NoPlace
  /\ UNCHANGED bucketVars

\* Mutant: the code goes one entry too far.
OverwriteCodeNext(b, vec) ==
  LET p == place[Vid(vec)]
  IN /\ p # NoPlace /\ p[1] = b
     /\ codes' = [codes EXCEPT ![b] = WithCode(@, p[2] + 1, vec)]
     /\ UNCHANGED <<ids, size, capacity, place, dead, deleted, filling,
                    packing, readers>>

\* The vector stays in its bucket: its code is overwritten.
OverwriteCode(b, vec) ==
  LET p == place[Vid(vec)]
  IN /\ p # NoPlace /\ p[1] = b
     /\ codes' = [codes EXCEPT ![b] = WithCode(@, p[2], vec)]
     /\ UNCHANGED <<ids, size, capacity, place, dead, deleted, filling,
                    packing, readers>>

\* The vector moves: its entry is masked and the new one is added.
MoveEntry(b, vec) ==
  LET p == place[Vid(vec)]
  IN /\ p # NoPlace /\ p[1] # b
     /\ ids' = [ids EXCEPT ![p[1]] = WithMask(@, p[2])]
     /\ dead' = [dead EXCEPT ![p[1]] = @ + 1]
     /\ BeginFill(b, <<vec>>)
     /\ UNCHANGED <<codes, size, capacity, place, deleted, packing, readers>>

\* RTInvertBucketData::Delete, on the thread of the caller: only counts.
CountDead(v) ==
  /\ dead' = IF place[v] = NoPlace THEN dead
             ELSE [dead EXCEPT ![place[v][1]] = @ + 1]
  /\ UNCHANGED <<ids, codes, size, capacity, place, deleted, filling, packing,
                 readers>>

----------------------------------------------------------------------------
(* CompactBucket.                                                           *)

\* Three of ten entries are dead.  The quotient of an empty bucket is not a
\* number or infinite.
Compactable(b) == dead[b] > 0 /\ 10 * dead[b] >= 3 * size[b]

BeginCompact(b) ==
  /\ WriterFree
  /\ packing' = [step |-> "copy", bucket |-> b, next |-> 1, ids |-> << >>,
                 codes |-> << >>]
  /\ UNCHANGED <<ids, codes, size, capacity, place, dead, deleted, filling,
                 readers>>

\* Mutant: the place keeps the position in the old array.
CompactOneOldPlace ==
  LET b == packing.bucket
      e == ids[b][packing.next]
      keep == ~e.masked /\ e.vid \notin deleted
  IN /\ packing.step = "copy" /\ packing.next <= size[b]
     /\ packing' =
          [packing EXCEPT
             !.next = @ + 1,
             !.ids = IF keep THEN Append(@, e) ELSE @,
             !.codes = IF keep THEN Append(@, codes[b][packing.next]) ELSE @]
     /\ UNCHANGED <<ids, codes, size, capacity, place, dead, deleted, filling,
                    readers>>

CompactOne ==
  LET b == packing.bucket
      e == ids[b][packing.next]
      keep == ~e.masked /\ e.vid \notin deleted
  IN /\ packing.step = "copy" /\ packing.next <= size[b]
     /\ packing' =
          [packing EXCEPT
             !.next = @ + 1,
             !.ids = IF keep THEN Append(@, e) ELSE @,
             !.codes = IF keep THEN Append(@, codes[b][packing.next]) ELSE @]
     /\ place' = IF ~keep THEN place
                 ELSE [place EXCEPT ![e.vid] = <<b, Len(packing.ids) + 1>>]
     /\ UNCHANGED <<ids, codes, size, capacity, dead, deleted, filling,
                    readers>>

\* Mutant: the last entry is not copied.
SwitchIdsEarly ==
  LET b == packing.bucket IN
  /\ packing.step = "copy" /\ packing.next >= size[b]
  /\ ids' = [ids EXCEPT ![b] = packing.ids]
  /\ readers' = Torn(b, Detached(b))
  /\ packing' = [packing EXCEPT !.step = "codes"]
  /\ UNCHANGED <<codes, size, capacity, place, dead, deleted, filling>>

SwitchIds ==
  LET b == packing.bucket IN
  /\ packing.step = "copy" /\ packing.next > size[b]
  /\ ids' = [ids EXCEPT ![b] = packing.ids]
  /\ readers' = Torn(b, Detached(b))
  /\ packing' = [packing EXCEPT !.step = "codes"]
  /\ UNCHANGED <<codes, size, capacity, place, dead, deleted, filling>>

SwitchCodes ==
  LET b == packing.bucket IN
  /\ packing.step = "codes"
  /\ codes' = [codes EXCEPT ![b] = packing.codes]
  /\ readers' = Torn(b, readers)
  /\ packing' = [packing EXCEPT !.step = "size"]
  /\ UNCHANGED <<ids, size, capacity, place, dead, deleted, filling>>

\* The end of CompactBucket; counts made meanwhile are lost.
SwitchSize ==
  LET b == packing.bucket IN
  /\ packing.step = "size"
  /\ size' = [size EXCEPT ![b] = Len(packing.ids)]
  /\ dead' = [dead EXCEPT ![b] = 0]
  /\ readers' = Torn(b, readers)
  /\ packing' = NotPacking
  /\ UNCHANGED <<ids, codes, capacity, place, deleted, filling>>

BucketStep ==
  \/ GrowBucket \/ FillKeys \/ PublishKeys
  \/ CompactOne \/ SwitchIds \/ SwitchCodes \/ SwitchSize

----------------------------------------------------------------------------
(* A search of one bucket (scan_one_list).                                  *)

\* InvertedLists::list_size; an empty list is not read.  due is what a search
\* that starts now must find.
ReadSize(r, b, expected) ==
  /\ readers[r].pc = "idle"
  /\ size[b] > 0
  /\ readers' = [readers EXCEPT ![r] =
       [NotReading EXCEPT
          !.pc = "ids", !.bucket = b, !.size = size[b], !.due = expected,
          !.torn = packing.bucket = b /\ packing.step \in {"codes", "size"}]]
  /\ UNCHANGED <<ids, codes, size, capacity, place, dead, deleted, filling,
                 packing>>

\* InvertedLists::get_ids
ReadIds(r) ==
  /\ readers[r].pc = "ids"
  /\ readers' = [readers EXCEPT ![r].pc = "scan", ![r].current = TRUE]
  /\ UNCHANGED <<ids, codes, size, capacity, place, dead, deleted, filling,
                 packing>>

\* InvertedLists::get_codes and scan_codes: what is read is Scanned(r).
Scan(r) ==
  /\ readers[r].pc = "scan"
  /\ readers' = [readers EXCEPT ![r] = NotReading]
  /\ UNCHANGED <<ids, codes, size, capacity, place, dead, deleted, filling,
                 packing>>

\* The ids a search in its last step reads, by position.
IdsRead(r) ==
  IF readers[r].current THEN ids[readers[r].bucket] ELSE readers[r].ids

\* Every position a search reads was written.
Written(r) ==
  /\ readers[r].size <= Len(IdsRead(r))
  /\ readers[r].size <= Len(codes[readers[r].bucket])

\* The ids with the codes a search in its last step pairs them with; entries
\* beyond what was written are not vectors and are told by Written.
Scanned(r) ==
  {<<IdsRead(r)[i].vid, codes[readers[r].bucket][i]>> :
     i \in {j \in 1 .. readers[r].size :
              /\ j \in DOMAIN IdsRead(r)
              /\ j \in DOMAIN codes[readers[r].bucket]
              /\ ~IdsRead(r)[j].masked}}
=============================================================================
