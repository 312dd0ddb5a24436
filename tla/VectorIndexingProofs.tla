------------------------ MODULE VectorIndexingProofs ------------------------
(***************************************************************************)
(* Proofs about VectorIndexing, for every set of vectors, versions and     *)
(* buckets, every assignment of vectors to buckets, and every limit of the *)
(* buckets, the batches and the rounds.                                    *)
(***************************************************************************)
EXTENDS VectorIndexing, FiniteSetTheorems, WellFoundedInduction, TLAPS

Positions == Nat \ {0}

Calls == [pc : {"idle", "push", "unset", "count"}, vid : Nat]
Rounds == [pc : {"off", "round", "batch", "add", "gets", "update", "failed"},
           batches : Nat, total : Nat, todo : Seq(Vids), vecs : Seq(Vectors), next : Nat,
           failed : BOOLEAN]
Fills == [step : {"room", "fill", "publish"}, bucket : Buckets, vecs : Seq(Vectors)]
Packs == [step : {"copy", "codes", "size"}, bucket : Buckets, next : Positions,
          ids : Seq(EntryType), codes : Seq(Vectors)]

-----------------------------------------------------------------------------
(* The inductive invariant: what holds whatever was refused or revived.     *)

\* The arrays of the buckets.
ListsTyped ==
  /\ ids \in [Buckets -> Seq(EntryType)] /\ codes \in [Buckets -> Seq(Vectors)]
  /\ size \in [Buckets -> Nat] /\ capacity \in [Buckets -> Nat] /\ dead \in [Buckets -> Nat]
  /\ place \in [Vids -> {NoPlace} \cup (Buckets \X Positions)]

\* The raw vectors, and what the caller does to them.
CallerTyped ==
  /\ raw \in Seq(Versions) /\ 0 .. Len(raw) - 1 \subseteq Vids
  /\ indexed_count_ \in 0 .. Len(raw)
  /\ gone \subseteq deleted /\ deleted \subseteq Stored
  /\ updated_vids_ \in Seq(Vids)
  /\ caller \in Calls
  /\ caller.pc # "idle" => caller.vid \in Stored
  /\ caller.pc \in {"push", "unset"} => caller.vid \notin gone

\* The indexing thread: a batch holds the vectors after those that were
\* indexed, and as many as there are; updates are of indexed vectors.
WorkerTyped ==
  /\ worker \in Rounds
  /\ worker.pc \in {"batch", "add"} /\ worker.batches > 0 =>
       /\ worker.total <= Len(raw)
       /\ indexed_count_ + (worker.batches - 1) * BatchSize <= worker.total
  /\ worker.pc \notin {"add", "update"} => worker.vecs = << >>
  /\ worker.pc \notin {"batch", "gets"} => worker.todo = << >>
  /\ worker.pc = "batch" /\ worker.todo # << >> => worker.batches = 0 \/ BatchCount = 0
  /\ \A k \in DOMAIN worker.todo : worker.todo[k] < indexed_count_
  /\ worker.pc = "add" =>
       /\ worker.batches > 0 /\ Len(worker.vecs) = BatchCount
       /\ \A k \in DOMAIN worker.vecs : Vid(worker.vecs[k]) = indexed_count_ + k - 1
  /\ worker.pc = "update" =>
       \A k \in DOMAIN worker.vecs : Vid(worker.vecs[k]) < indexed_count_

\* The vectors of AddKeys are those of a batch that belong to its bucket.
FillsShare(b, vecs) ==
  /\ worker.next = b + 1
  /\ \A n \in DOMAIN vecs : \E k \in DOMAIN worker.vecs : vecs[n] = worker.vecs[k]
  /\ \A k \in DOMAIN worker.vecs :
       Bucket[worker.vecs[k]] = b => \E n \in DOMAIN vecs : vecs[n] = worker.vecs[k]

\* AddKeys: the vectors of a batch that belong to the bucket, or one that moves.
FillingTyped ==
  filling # NotFilling =>
    /\ filling \in Fills
    /\ packing = NotPacking /\ worker.pc \in {"add", "update"}
    /\ \A n \in DOMAIN filling.vecs : Bucket[filling.vecs[n]] = filling.bucket
    /\ \A m, n \in DOMAIN filling.vecs : Vid(filling.vecs[m]) = Vid(filling.vecs[n]) => m = n
    /\ worker.pc = "update" => \A n \in DOMAIN filling.vecs : Vid(filling.vecs[n]) < indexed_count_
    /\ worker.pc = "add" => FillsShare(filling.bucket, filling.vecs)
    /\ filling.step \in {"fill", "publish"} => Needed <= capacity[filling.bucket]

\* CompactBucket copies after the updates of a round.
PackingTyped ==
  packing # NotPacking =>
    /\ packing \in Packs /\ Len(packing.ids) = Len(packing.codes)
    /\ filling = NotFilling /\ worker.pc = "update" /\ worker.vecs = << >>
    /\ packing.step = "copy" =>
         Len(packing.ids) < packing.next /\ packing.next <= size[packing.bucket] + 1

\* The bucket's lists are being switched or extended.
Packed(b, steps) == packing.step \in steps /\ packing.bucket = b
Filled(b) == filling.step = "publish" /\ filling.bucket = b

\* The arrays end where searches stop to read, but while keys are copied or a
\* compacted list is switched.
ListsEnd ==
  \A b \in Buckets :
    /\ size[b] <= capacity[b]
    /\ Len(ids[b]) = IF Packed(b, {"codes", "size"}) THEN Len(packing.ids)
                     ELSE IF Filled(b) THEN Needed ELSE size[b]
    /\ Len(codes[b]) = IF Packed(b, {"size"}) THEN Len(packing.codes)
                       ELSE IF Filled(b) THEN Needed ELSE size[b]
    /\ Packed(b, {"codes", "size"}) => ids[b] = packing.ids /\ Len(packing.ids) <= size[b]
    /\ Packed(b, {"size"}) => codes[b] = packing.codes

Shaped ==
  /\ ListsTyped
  /\ CallerTyped
  /\ WorkerTyped
  /\ FillingTyped
  /\ PackingTyped
  /\ ListsEnd

-----------------------------------------------------------------------------
(* What holds where it is claimed.                                          *)

\* The codes that go with the ids of a bucket.
CodesOf(b) == IF Packed(b, {"codes"}) THEN packing.codes ELSE codes[b]

\* Bucket b lists vector v at position i.
ListedAt(v, b, i) == i \in DOMAIN ids[b] /\ ids[b][i] = Entry(v)
Listed(v) == \E b \in Buckets, i \in Positions : ListedAt(v, b, i)

\* The vector is in a batch and was copied to its bucket.
Added(v) ==
  /\ worker.pc = "add"
  /\ \E k \in DOMAIN worker.vecs :
       /\ Vid(worker.vecs[k]) = v /\ Bucket[worker.vecs[k]] < worker.next
       /\ ~(filling.step \in {"room", "fill"} /\ filling.bucket = Bucket[worker.vecs[k]])

\* The vector is between its old entry and its new one.
Moving(v) ==
  /\ worker.pc = "update" /\ filling.step \in {"room", "fill"}
  /\ \E n \in DOMAIN filling.vecs : Vid(filling.vecs[n]) = v

\* An update of the vector was taken from the queue, or is being applied.
ToDo(v) == \E k \in DOMAIN worker.todo : worker.todo[k] = v
Updating(v) == worker.pc = "update" /\ \E k \in DOMAIN worker.vecs : Vid(worker.vecs[k]) = v

\* The vector has an entry.
Wanted(v) ==
  \/ v < indexed_count_ /\ v \notin deleted
  \/ ToDo(v)
  \/ Updating(v)
  \/ Added(v)

\* An update of the vector is with the caller or in the queue.
Queued(v) ==
  \/ caller.pc = "push" /\ caller.vid = v
  \/ \E k \in DOMAIN updated_vids_ : updated_vids_[k] = v

\* A compaction has passed the position.
Passed(b, i) == packing.step = "copy" /\ packing.bucket = b /\ i < packing.next

\* No vector has two entries, and an entry is at the place of its vector unless
\* a compaction has passed it.
EntriesAreAtPlaces ==
  \A v \in Vids, b \in Buckets, i \in Positions :
    ListedAt(v, b, i) =>
      /\ \A c \in Buckets, j \in Positions : ListedAt(v, c, j) => c = b /\ j = i
      /\ ~Passed(b, i) => place[v] = <<b, i>>

\* A code belongs to its entry and to its bucket.
CodesAreTheirs ==
  \A v \in Vids, b \in Buckets, i \in Positions :
    ListedAt(v, b, i) => Vid(CodesOf(b)[i]) = v /\ Bucket[CodesOf(b)[i]] = b

\* The compacted list holds vector v at position j with this code.
PackedAt(v, j, code) ==
  j \in DOMAIN packing.ids /\ packing.ids[j] = Entry(v) /\ packing.codes[j] = code

\* The compacted list holds entries of the old one with their codes, at their
\* places, and all that are neither masked nor deleted.
PackedIsKept ==
  /\ packing.step = "copy" =>
       /\ \A j \in DOMAIN packing.ids : \E v \in Vids :
            /\ packing.ids[j] = Entry(v) /\ place[v] = <<packing.bucket, j>>
            /\ \E i \in 1 .. packing.next - 1 :
                 /\ ListedAt(v, packing.bucket, i)
                 /\ codes[packing.bucket][i] = packing.codes[j]
       /\ \A v \in Vids, i \in 1 .. packing.next - 1 :
            ListedAt(v, packing.bucket, i) /\ v \notin deleted =>
              \E j \in Positions : PackedAt(v, j, codes[packing.bucket][i])
  /\ packing.step = "codes" =>
       \A j \in DOMAIN packing.codes : \E i \in DOMAIN codes[packing.bucket] :
         codes[packing.bucket][i] = packing.codes[j]

\* Only vectors that are indexed or of the batch have entries and places, and
\* none that is moving has an entry.
NoEntryTooEarly ==
  \A v \in Vids :
    /\ v >= indexed_count_ /\ ~Added(v) => place[v] = NoPlace /\ ~Listed(v)
    /\ Moving(v) => ~Listed(v)

\* Wanted vectors have entries.
WantedAreListed == \A v \in Vids : Wanted(v) /\ ~Moving(v) => Listed(v)

\* What is in flight is the current vector or an update follows.
FlightIsNew ==
  worker.pc \in {"add", "update"} =>
    \A vec \in Flight : vec = Current(Vid(vec)) \/ Queued(Vid(vec))

\* Every entry of the vector has its code.
HasCode(vec) ==
  \A b \in Buckets, i \in Positions : ListedAt(Vid(vec), b, i) => codes[b][i] = vec

\* An entry that was just added has the code that was in flight.
AddedHaveCodes ==
  /\ worker.pc = "add" => \A k \in DOMAIN worker.vecs : HasCode(worker.vecs[k])
  /\ filling.step = "publish" => \A n \in DOMAIN filling.vecs : HasCode(filling.vecs[n])

\* The vector is listed with its current code.
Fresh(v) ==
  \E b \in Buckets, i \in Positions : ListedAt(v, b, i) /\ CodesOf(b)[i] = Current(v)

\* The entry has the current code or an update is on its way.
ListedAreFresh ==
  \A v \in Vids : v < indexed_count_ /\ v \notin deleted =>
    Fresh(v) \/ Queued(v) \/ ToDo(v) \/ Current(v) \in Flight

Sound ==
  /\ EntriesAreAtPlaces
  /\ CodesAreTheirs
  /\ PackedIsKept
  /\ NoEntryTooEarly
  /\ WantedAreListed
  /\ FlightIsNew
  /\ AddedHaveCodes
  /\ ListedAreFresh

IInv == Shaped /\ (Claimed => Sound)

-----------------------------------------------------------------------------
(* Constants and numbers. *)

\* What is assumed of the constants.
LEMMA Bounds ==
  /\ Vids \subseteq Nat /\ Buckets \subseteq Nat
  /\ Versions \subseteq Nat \ {0} /\ 1 \in Versions
  /\ Bucket \in [Vectors -> Buckets]
  /\ BucketKeys \in Nat /\ Slack \in Nat /\ BatchSize \in Nat \ {0}
  /\ NoPlace \notin Buckets \X Positions
  BY BucketsAssumption, IndexingAssumption DEF NoPlace, Positions

\* The batches that are counted hold no more vectors than there are.
LEMMA BatchesFit ==
  ASSUME NEW n \in Nat, NEW k \in Nat \ {0}
  PROVE  n \div k \in Nat /\ (n \div k) * k <= n
  BY SMT

\* One batch less.
LEMMA OneBatchLess ==
  ASSUME NEW n \in Nat \ {0}, NEW k \in Nat
  PROVE  /\ (n - 1) * k \in Nat
         /\ n > 1 => (n - 1) * k = (n - 1 - 1) * k + k /\ k <= (n - 1) * k
                     /\ (n - 1 - 1) * k \in Nat
<1>1. (n - 1) * k \in Nat
  BY SMT
<1>2. ASSUME n > 1
      PROVE  (n - 1) * k = (n - 1 - 1) * k + k /\ (n - 1 - 1) * k \in Nat
  BY <1>2, SMT
<1>. QED
  BY <1>1, <1>2

\* A round that begins.
LEMMA NewRound ==
  /\ Round \in Rounds
  /\ [Round EXCEPT !.pc = "off"] \in Rounds
  /\ Round.pc = "round" /\ Round.todo = << >> /\ Round.vecs = << >> /\ Round.batches = 0
<1>1. << >> \in Seq(Vids) /\ << >> \in Seq(Vectors)
  OBVIOUS
<1>2. Round \in Rounds
  BY <1>1, Zenon DEF Round, Rounds
<1>. QED
  BY <1>2 DEF Round, Rounds

-----------------------------------------------------------------------------
(* The first state. *)

\* Nothing is stored and nothing is on its way.
LEMMA InitInvariant ==
  ASSUME Init
  PROVE  IInv
<1>. USE DEF Init, BucketsInit
<1>1. /\ filling = NotFilling /\ packing = NotPacking /\ worker = [Round EXCEPT !.pc = "off"]
      /\ caller = Returned /\ raw = << >> /\ indexed_count_ = 0 /\ updated_vids_ = << >>
      /\ gone = {} /\ deleted = {}
  OBVIOUS
<1>2. /\ worker.pc = "off" /\ worker.todo = << >> /\ worker.vecs = << >> /\ worker.batches = 0
      /\ filling.step = "none" /\ filling.vecs = << >> /\ packing.step = "none"
      /\ caller.pc = "idle"
  BY <1>1 DEF Round, NotFilling, NotPacking, Returned
<1>3. ListsTyped
  <2>1. /\ ids \in [Buckets -> Seq(EntryType)] /\ codes \in [Buckets -> Seq(Vectors)]
        /\ size \in [Buckets -> Nat]
        /\ capacity \in [Buckets -> Nat] /\ dead \in [Buckets -> Nat]
    BY Bounds
  <2>2. place \in [Vids -> {NoPlace} \cup (Buckets \X Positions)]
    OBVIOUS
  <2>. QED
    BY <2>1, <2>2 DEF ListsTyped
<1>4. CallerTyped
  <2>1. caller \in Calls
    BY <1>1 DEF Returned, Calls
  <2>. QED
    BY <1>1, <1>2, <2>1 DEF CallerTyped, Stored
<1>5. WorkerTyped
  <2>1. worker \in Rounds
    BY <1>1, NewRound
  <2>. QED
    BY <1>2, <2>1 DEF WorkerTyped
<1>6. FillingTyped /\ PackingTyped
  BY <1>1 DEF FillingTyped, PackingTyped
<1>7. ListsEnd
  BY <1>2, Bounds DEF ListsEnd, Packed, Filled
<1>8. \A v, b, i : ~ListedAt(v, b, i) \/ b \notin Buckets
  BY DEF ListedAt
<1>9. \A v \in Vids : ~Added(v) /\ ~Moving(v) /\ ~ToDo(v) /\ ~Updating(v) /\ v >= indexed_count_
  BY <1>1, <1>2, Bounds DEF Added, Moving, ToDo, Updating
<1>10. Sound
  <2>1. EntriesAreAtPlaces /\ CodesAreTheirs
    BY <1>8 DEF EntriesAreAtPlaces, CodesAreTheirs
  <2>2. PackedIsKept
    BY <1>2 DEF PackedIsKept
  <2>3. NoEntryTooEarly
    BY <1>8 DEF NoEntryTooEarly, Listed
  <2>4. WantedAreListed
    BY <1>1, <1>9, Bounds DEF WantedAreListed, Wanted
  <2>5. FlightIsNew /\ AddedHaveCodes
    BY <1>2 DEF FlightIsNew, AddedHaveCodes
  <2>6. ListedAreFresh
    BY <1>1, Bounds DEF ListedAreFresh
  <2>. QED
    BY <2>1, <2>2, <2>3, <2>4, <2>5, <2>6 DEF Sound
<1>. QED
  BY <1>3, <1>4, <1>5, <1>6, <1>7, <1>10 DEF IInv, Shaped

-----------------------------------------------------------------------------
(* Steps that leave the lists alone. *)

\* The lists, their codes and places, and the bucket being compacted.
ListsKept == UNCHANGED <<ids, codes, place, packing>>

\* What is listed stays listed, with its code.
LEMMA KeptListings ==
  ASSUME ListsKept
  PROVE  /\ \A v, b, i : ListedAt(v, b, i)' <=> ListedAt(v, b, i)
         /\ \A v : Listed(v)' <=> Listed(v)
         /\ \A b : CodesOf(b)' = CodesOf(b)
         /\ \A b, i : Passed(b, i)' <=> Passed(b, i)
         /\ \A vec : HasCode(vec)' <=> HasCode(vec)
  BY DEF ListsKept, ListedAt, Listed, CodesOf, Packed, Passed, HasCode

\* No vector is wanted or early that was not before, so the lists are right.
LEMMA KeptListsAreSound ==
  ASSUME Sound, ListsKept, deleted \subseteq deleted',
         \A v \in Vids : Wanted(v)' /\ ~Moving(v)' => Wanted(v) /\ ~Moving(v),
         \A v \in Vids : (v >= indexed_count_)' /\ ~Added(v)' => v >= indexed_count_ /\ ~Added(v),
         \A v \in Vids : Moving(v)' => Moving(v),
         FlightIsNew', AddedHaveCodes', ListedAreFresh'
  PROVE  Sound'
<1>1. /\ \A v, b, i : ListedAt(v, b, i)' <=> ListedAt(v, b, i)
      /\ \A v : Listed(v)' <=> Listed(v)
      /\ \A b : CodesOf(b)' = CodesOf(b)
      /\ \A b, i : Passed(b, i)' <=> Passed(b, i)
  BY KeptListings
<1>2. EntriesAreAtPlaces'
  BY <1>1 DEF Sound, EntriesAreAtPlaces, ListsKept
<1>3. CodesAreTheirs'
  BY <1>1 DEF Sound, CodesAreTheirs
<1>4. PackedIsKept'
  <2>1. /\ packing' = packing /\ codes' = codes /\ place' = place
        /\ \A v, j, code : PackedAt(v, j, code)' <=> PackedAt(v, j, code)
    BY DEF ListsKept, PackedAt
  <2>2. PackedIsKept
    BY DEF Sound
  <2>. QED
    BY <1>1, <2>1, <2>2, ZenonT(40) DEF PackedIsKept
<1>5. NoEntryTooEarly'
  <2>1. NoEntryTooEarly /\ place' = place
    BY DEF Sound, ListsKept
  <2>. QED
    BY <1>1, <2>1, Zenon DEF NoEntryTooEarly
<1>6. WantedAreListed'
  BY <1>1, Zenon DEF Sound, WantedAreListed
<1>. QED
  BY <1>2, <1>3, <1>4, <1>5, <1>6 DEF Sound

\* What is in flight are vectors that are stored.
LEMMA FlightIsStored ==
  ASSUME Shaped
  PROVE  /\ \A k \in DOMAIN worker.vecs : worker.vecs[k] \in Flight
         /\ \A n \in DOMAIN filling.vecs : filling.vecs[n] \in Flight
         /\ \A vec \in Flight : vec \in Vectors /\ Vid(vec) \in Vids /\ Vid(vec) < Len(raw)
         /\ worker.pc \notin {"add", "update"} => Flight = {} /\ filling = NotFilling /\ packing = NotPacking
         /\ worker.pc = "add" => \A vec \in Flight : Vid(vec) >= indexed_count_
         /\ worker.pc = "add" =>
              Len(worker.vecs) \in Nat /\ indexed_count_ + Len(worker.vecs) <= Len(raw)
<1>1. /\ worker \in Rounds /\ filling \in Fills \cup {NotFilling} /\ packing \in Packs \cup {NotPacking}
      /\ indexed_count_ \in Nat /\ Len(raw) \in Nat /\ indexed_count_ <= Len(raw)
  BY DEF Shaped, WorkerTyped, FillingTyped, PackingTyped, CallerTyped
<1>2. /\ worker.vecs \in Seq(Vectors) /\ filling.vecs \in Seq(Vectors) /\ worker.batches \in Nat
      /\ worker.total \in Nat
  <2>1. worker.vecs \in Seq(Vectors) /\ worker.batches \in Nat /\ worker.total \in Nat
    BY <1>1 DEF Rounds
  <2>2. CASE filling \in Fills
    BY <2>1, <2>2 DEF Fills
  <2>3. CASE filling = NotFilling
    <3>1. filling.vecs = << >> /\ << >> \in Seq(Vectors)
      BY <2>3 DEF NotFilling
    <3>. QED
      BY <2>1, <3>1
  <2>. QED
    BY <1>1, <2>2, <2>3
<1>3. /\ \A k \in DOMAIN worker.vecs : worker.vecs[k] \in Flight
      /\ \A n \in DOMAIN filling.vecs : filling.vecs[n] \in Flight
  BY DEF Flight
<1>4. \A vec \in Flight : vec \in Vectors /\ Vid(vec) \in Vids
  BY <1>2 DEF Flight, Vectors, Vid
<1>5. ASSUME worker.pc = "add"
      PROVE  Len(worker.vecs) \in Nat /\ indexed_count_ + Len(worker.vecs) <= Len(raw)
  <2>1. /\ worker.batches > 0 /\ Len(worker.vecs) = BatchCount /\ worker.total <= Len(raw)
        /\ indexed_count_ + (worker.batches - 1) * BatchSize <= worker.total
    BY <1>5 DEF Shaped, WorkerTyped
  <2>2. CASE worker.batches = 1
    BY <1>1, <1>2, <2>1, <2>2 DEF BatchCount
  <2>3. CASE worker.batches > 1
    <3>1. BatchSize <= (worker.batches - 1) * BatchSize /\ (worker.batches - 1) * BatchSize \in Nat
      <4>1. PICK n, k : n = worker.batches /\ k = BatchSize
        OBVIOUS
      <4>2. n \in Nat \ {0} /\ k \in Nat /\ n > 1
        BY <1>2, <2>3, <4>1, Bounds
      <4>3. (n - 1) * k \in Nat /\ k <= (n - 1) * k
        BY <4>2, OneBatchLess
      <4>. QED
        BY <4>1, <4>3
    <3>2. PICK held : held = (worker.batches - 1) * BatchSize
      OBVIOUS
    <3>3. Len(worker.vecs) = BatchSize
      BY <1>2, <2>1, <2>3 DEF BatchCount
    <3>4. BatchSize <= held /\ held \in Nat /\ indexed_count_ + held <= worker.total
      BY <2>1, <3>1, <3>2
    <3>5. worker.total <= Len(raw) /\ BatchSize \in Nat
      BY <2>1, Bounds
    <3>. QED
      BY <1>1, <1>2, <3>3, <3>4, <3>5
  <2>. QED
    BY <1>2, <2>1, <2>2, <2>3
<1>6. ASSUME worker.pc = "add"
      PROVE  \A vec \in Flight : Vid(vec) >= indexed_count_ /\ Vid(vec) < Len(raw)
  <2>1. \A k \in DOMAIN worker.vecs : Vid(worker.vecs[k]) >= indexed_count_ /\ Vid(worker.vecs[k]) < Len(raw)
    BY <1>1, <1>2, <1>5, <1>6 DEF Shaped, WorkerTyped
  <2>2. \A n \in DOMAIN filling.vecs : \E k \in DOMAIN worker.vecs : filling.vecs[n] = worker.vecs[k]
    <3>1. CASE filling = NotFilling
      BY <3>1 DEF NotFilling
    <3>2. CASE filling # NotFilling
      BY <1>6, <3>2 DEF Shaped, FillingTyped, FillsShare
    <3>. QED
      BY <3>1, <3>2
  <2>. QED
    BY <2>1, <2>2 DEF Flight
<1>7. /\ \A k \in DOMAIN worker.vecs : Vid(worker.vecs[k]) \in Nat
      /\ \A n \in DOMAIN filling.vecs : Vid(filling.vecs[n]) \in Nat
  BY <1>3, <1>4, Bounds
<1>8. ASSUME worker.pc = "update"
      PROVE  \A vec \in Flight : Vid(vec) < Len(raw)
  <2>1. \A k \in DOMAIN worker.vecs : Vid(worker.vecs[k]) < Len(raw)
    <3>1. \A k \in DOMAIN worker.vecs : Vid(worker.vecs[k]) < indexed_count_
      BY <1>8 DEF Shaped, WorkerTyped
    <3>. QED
      BY <1>1, <1>7, <3>1
  <2>2. \A n \in DOMAIN filling.vecs : Vid(filling.vecs[n]) < Len(raw)
    <3>1. CASE filling = NotFilling
      BY <3>1 DEF NotFilling
    <3>2. CASE filling # NotFilling
      <4>1. \A n \in DOMAIN filling.vecs : Vid(filling.vecs[n]) < indexed_count_
        BY <1>8, <3>2 DEF Shaped, FillingTyped
      <4>. QED
        BY <1>1, <1>7, <4>1
    <3>. QED
      BY <3>1, <3>2
  <2>. QED
    BY <2>1, <2>2 DEF Flight
<1>9. ASSUME worker.pc \notin {"add", "update"}
      PROVE  Flight = {} /\ filling = NotFilling /\ packing = NotPacking
  <2>1. filling = NotFilling /\ packing = NotPacking /\ worker.vecs = << >>
    BY <1>9 DEF Shaped, FillingTyped, PackingTyped, WorkerTyped
  <2>. QED
    BY <2>1 DEF Flight, NotFilling
<1>10. \A vec \in Flight : Vid(vec) < Len(raw)
  BY <1>6, <1>8, <1>9
<1>. QED
  BY <1>3, <1>4, <1>5, <1>6, <1>9, <1>10

-----------------------------------------------------------------------------
(* The caller. *)

\* A call leaves the thread, the lists and the counts where they are.
ThreadKept ==
  /\ ListsKept
  /\ UNCHANGED <<size, capacity, filling, indexed_count_, worker>>

\* A call of the caller does not disturb the shape of what the thread holds.
LEMMA CallsKeepShape ==
  ASSUME Shaped, ThreadKept, CallerTyped', dead' \in [Buckets -> Nat], Len(raw) <= Len(raw')
  PROVE  Shaped'
<1>1. /\ ids' = ids /\ codes' = codes /\ place' = place /\ packing' = packing /\ size' = size
      /\ capacity' = capacity /\ filling' = filling /\ indexed_count_' = indexed_count_
      /\ worker' = worker
  BY DEF ThreadKept, ListsKept
<1>2. ListsTyped'
  BY <1>1 DEF Shaped, ListsTyped
<1>3. WorkerTyped'
  <2>1. BatchCount' = BatchCount
    BY <1>1 DEF BatchCount
  <2>2. worker \in Rounds /\ Len(raw) \in Nat /\ Len(raw') \in Nat
    BY DEF Shaped, WorkerTyped, CallerTyped
  <2>3. worker.total \in Nat
    BY <2>2 DEF Rounds
  <2>4. worker.total <= Len(raw) => worker.total <= Len(raw')
    BY <2>2, <2>3
  <2>. QED
    BY <1>1, <2>1, <2>4 DEF Shaped, WorkerTyped
<1>4. FillingTyped'
  <2>1. /\ Needed' = Needed
        /\ FillsShare(filling.bucket, filling.vecs)' <=> FillsShare(filling.bucket, filling.vecs)
    BY <1>1 DEF Needed, FillsShare
  <2>. QED
    BY <1>1, <2>1 DEF Shaped, FillingTyped
<1>5. PackingTyped'
  BY <1>1 DEF Shaped, PackingTyped
<1>6. ListsEnd'
  <2>1. /\ Needed' = Needed /\ \A b : Filled(b)' <=> Filled(b)
        /\ \A b, steps : Packed(b, steps)' <=> Packed(b, steps)
    BY <1>1 DEF Needed, Filled, Packed
  <2>. QED
    BY <1>1, <2>1 DEF Shaped, ListsEnd
<1>. QED
  BY <1>2, <1>3, <1>4, <1>5, <1>6 DEF Shaped

\* Nor whether the lists are right, if each vector that is changed is queued.
LEMMA CallsKeepSound ==
  ASSUME Shaped, Sound, ThreadKept, deleted \subseteq deleted',
         \A v \in Vids : Queued(v) => Queued(v)',
         \A v \in Vids : v < Len(raw) => Current(v)' = Current(v) \/ Queued(v)'
  PROVE  Sound'
<1>1. /\ ListsKept /\ filling' = filling /\ indexed_count_' = indexed_count_ /\ worker' = worker
  BY DEF ThreadKept
<1>2. /\ \A v : Moving(v)' <=> Moving(v)
      /\ \A v : Added(v)' <=> Added(v)
      /\ \A v : ToDo(v)' <=> ToDo(v)
      /\ \A v : Updating(v)' <=> Updating(v)
      /\ Flight' = Flight
  BY <1>1 DEF Moving, Added, ToDo, Updating, Flight
<1>3. \A v : Wanted(v)' => Wanted(v)
  BY <1>1, <1>2 DEF Wanted
<1>4. FlightIsNew'
  <2>1. \A vec \in Flight : Vid(vec) \in Vids /\ Vid(vec) < Len(raw)
    BY FlightIsStored
  <2>2. FlightIsNew
    BY DEF Sound
  <2>3. SUFFICES ASSUME worker.pc \in {"add", "update"}, NEW vec \in Flight
                 PROVE  vec = Current(Vid(vec))' \/ Queued(Vid(vec))'
    BY <1>1, <1>2, Zenon DEF FlightIsNew, Vid
  <2>4. vec = Current(Vid(vec)) \/ Queued(Vid(vec))
    BY <2>2, <2>3, Zenon DEF FlightIsNew
  <2>5. PICK v \in Vids : v = Vid(vec)
    BY <2>1
  <2>. QED
    BY <2>1, <2>4, <2>5
<1>5. AddedHaveCodes'
  <2>1. \A vec : HasCode(vec)' <=> HasCode(vec)
    BY <1>1, KeptListings
  <2>2. AddedHaveCodes
    BY DEF Sound
  <2>. QED
    BY <1>1, <2>1, <2>2, Zenon DEF AddedHaveCodes
<1>6. ListedAreFresh'
  <2>1. SUFFICES ASSUME NEW v \in Vids, v < indexed_count_, v \notin deleted'
                 PROVE  Fresh(v)' \/ Queued(v)' \/ ToDo(v)' \/ Current(v)' \in Flight'
    BY <1>1 DEF ListedAreFresh
  <2>2. Fresh(v) \/ Queued(v) \/ ToDo(v) \/ Current(v) \in Flight
    BY <2>1 DEF Sound, ListedAreFresh
  <2>3. v < Len(raw)
    <3>1. indexed_count_ \in Nat /\ Len(raw) \in Nat /\ indexed_count_ <= Len(raw) /\ v \in Nat
      BY Bounds DEF Shaped, CallerTyped
    <3>. QED
      BY <2>1, <3>1
  <2>4. CASE Current(v)' = Current(v)
    <3>1. \A b, i : ListedAt(v, b, i)' <=> ListedAt(v, b, i)
      BY <1>1, KeptListings
    <3>2. \A b : CodesOf(b)' = CodesOf(b)
      BY <1>1, KeptListings
    <3>3. Fresh(v) => Fresh(v)'
      BY <2>4, <3>1, <3>2 DEF Fresh
    <3>. QED
      BY <1>2, <2>2, <2>4, <3>3
  <2>5. CASE Queued(v)'
    BY <2>5
  <2>. QED
    BY <2>3, <2>4, <2>5
<1>. QED
  BY <1>1, <1>2, <1>3, <1>4, <1>5, <1>6, KeptListsAreSound

\* Types of what the caller changes.
LEMMA CallerTypes ==
  ASSUME Shaped
  PROVE  /\ raw \in Seq(Versions) /\ Len(raw) \in Nat /\ DOMAIN raw = 1 .. Len(raw)
         /\ indexed_count_ \in Nat /\ indexed_count_ <= Len(raw)
         /\ gone \subseteq deleted /\ deleted \subseteq Stored /\ Stored \subseteq Vids
         /\ updated_vids_ \in Seq(Vids) /\ caller \in Calls
         /\ caller.pc # "idle" => caller.vid \in Stored
         /\ caller.pc \in {"push", "unset"} => caller.vid \notin gone
         /\ dead \in [Buckets -> Nat]
  BY DEF Shaped, CallerTyped, ListsTyped, Stored

\* A call that has returned waits for nothing.
LEMMA ReturnedIsIdle ==
  /\ Returned \in Calls /\ Returned.pc = "idle"
  /\ caller = Returned => \A v : Queued(v) <=> \E k \in DOMAIN updated_vids_ : updated_vids_[k] = v
  BY DEF Returned, Calls, Queued

\* The vector that is stored is the last one.
LEMMA AddVectorStep ==
  ASSUME IInv, AddVector
  PROVE  IInv'
<1>. USE DEF IInv
<1>1. /\ Shaped /\ (Claimed => Sound) /\ Len(raw) \in Vids /\ raw' = Append(raw, 1)
      /\ caller = Returned /\ caller' = caller /\ gone' = gone /\ updated_vids_' = updated_vids_
      /\ deleted' = deleted /\ indexed_count_' = indexed_count_ /\ dead' = dead
      /\ filling' = filling /\ packing' = packing /\ size' = size /\ capacity' = capacity
      /\ ListsKept
  BY DEF AddVector, bucketVars, ListsKept
<1>2. Claimed' => Claimed
  BY DEF AddVector, Claimed, history
<1>3. /\ raw \in Seq(Versions) /\ Len(raw) \in Nat /\ Len(raw') = Len(raw) + 1 /\ raw' \in Seq(Versions)
      /\ \A k \in 1 .. Len(raw) : raw'[k] = raw[k]
  BY <1>1, CallerTypes, Bounds
<1>4. Stored \subseteq Stored'
  <2>1. \A v \in Vids : v \in Nat
    BY Bounds
  <2>2. \A v \in Vids : v < Len(raw) => v < Len(raw')
    BY <1>3, <2>1
  <2>. QED
    BY <2>2, Zenon DEF Stored
<1>5. CallerTyped'
  <2>1. 0 .. Len(raw') - 1 \subseteq Vids
    <3>1. 0 .. Len(raw) - 1 \subseteq Vids
      BY DEF Shaped, CallerTyped
    <3>. QED
      BY <1>1, <1>3, <3>1
  <2>2. indexed_count_ \in 0 .. Len(raw')
    BY <1>3, CallerTypes
  <2>. QED
    BY <1>1, <1>3, <1>4, <2>1, <2>2, CallerTypes DEF CallerTyped
<1>6. \A v \in Vids : v < Len(raw) => Current(v)' = Current(v)
  BY <1>3, Bounds DEF Current
<1>7. dead' \in [Buckets -> Nat] /\ Len(raw) <= Len(raw')
  BY <1>1, <1>3, CallerTypes
<1>8. \A v : Queued(v)' <=> Queued(v)
  BY <1>1 DEF Queued
<1>9. CASE worker' = worker
  <2>1. ThreadKept
    BY <1>1, <1>9 DEF ThreadKept
  <2>2. Shaped'
    BY <1>1, <1>5, <1>7, <2>1, CallsKeepShape
  <2>3. Sound => Sound'
    BY <1>1, <1>6, <1>8, <2>1, CallsKeepSound
  <2>. QED
    BY <1>1, <1>2, <2>2, <2>3
<1>10. CASE worker.pc = "off" /\ worker' = Round
  <2>1. filling = NotFilling /\ packing = NotPacking /\ Flight = {} /\ worker.todo = << >>
    BY <1>1, <1>10, FlightIsStored DEF Shaped, WorkerTyped
  <2>2. Shaped'
    <3>1. ListsTyped'
      BY <1>1 DEF ListsKept, Shaped, ListsTyped
    <3>2. WorkerTyped'
      BY <1>10, NewRound DEF WorkerTyped
    <3>3. FillingTyped' /\ PackingTyped'
      BY <1>1, <2>1 DEF FillingTyped, PackingTyped
    <3>4. ListsEnd'
      <4>1. /\ Needed' = Needed /\ \A b : Filled(b)' <=> Filled(b)
            /\ \A b, steps : Packed(b, steps)' <=> Packed(b, steps)
        BY <1>1 DEF Needed, Filled, Packed
      <4>. QED
        BY <1>1, <4>1 DEF Shaped, ListsEnd, ListsKept
    <3>. QED
      BY <1>5, <3>1, <3>2, <3>3, <3>4 DEF Shaped
  <2>3. ASSUME Sound
        PROVE  Sound'
    <3>1. /\ Flight' = {} /\ worker'.todo = << >> /\ worker'.pc = "round" /\ filling'.step = "none"
      BY <1>1, <1>10, <2>1, NewRound DEF Flight, NotFilling
    <3>2. /\ \A v : ~Moving(v)' /\ ~Moving(v) /\ ~Added(v)' /\ ~Added(v) /\ ~ToDo(v)' /\ ~ToDo(v)
          /\ \A v : ~Updating(v)'
      BY <1>1, <1>10, <2>1, <3>1 DEF Moving, Added, ToDo, Updating, NotFilling
    <3>3. \A v : Wanted(v)' => Wanted(v)
      BY <1>1, <3>2 DEF Wanted
    <3>4. FlightIsNew' /\ AddedHaveCodes'
      BY <3>1 DEF FlightIsNew, AddedHaveCodes
    <3>5. ListedAreFresh'
      <4>1. SUFFICES ASSUME NEW v \in Vids, v < indexed_count_, v \notin deleted
                     PROVE  Fresh(v)' \/ Queued(v)'
        BY <1>1 DEF ListedAreFresh
      <4>2. Fresh(v) \/ Queued(v)
        BY <2>1, <2>3, <3>2, <4>1 DEF Sound, ListedAreFresh
      <4>3. Current(v)' = Current(v)
        BY <1>3, <1>6, <4>1, CallerTypes, Bounds
      <4>4. /\ \A b, i : ListedAt(v, b, i)' <=> ListedAt(v, b, i)
            /\ \A b : CodesOf(b)' = CodesOf(b)
        BY <1>1, KeptListings
      <4>. QED
        BY <1>8, <4>2, <4>3, <4>4 DEF Fresh
    <3>. QED
      BY <1>1, <2>3, <3>2, <3>3, <3>4, <3>5, KeptListsAreSound
  <2>. QED
    BY <1>1, <1>2, <2>2, <2>3
<1>. QED
  BY <1>9, <1>10 DEF AddVector

\* The update that is due is with the caller.
LEMMA UpdateRawStep ==
  ASSUME IInv, NEW u \in Vids, UpdateRaw(u)
  PROVE  IInv'
<1>. USE DEF IInv
<1>1. /\ Shaped /\ (Claimed => Sound) /\ caller = Returned /\ u \in Stored \ gone
      /\ raw[u + 1] + 1 \in Versions /\ raw' = [raw EXCEPT ![u + 1] = raw[u + 1] + 1]
      /\ caller' = [pc |-> "push", vid |-> u] /\ gone' = gone /\ updated_vids_' = updated_vids_
      /\ deleted' = deleted /\ indexed_count_' = indexed_count_ /\ dead' = dead
      /\ ThreadKept
  BY DEF UpdateRaw, bucketVars, ListsKept, ThreadKept
<1>2. Claimed' => Claimed
  BY DEF UpdateRaw, Claimed, history
<1>3. u \in Nat /\ u + 1 \in DOMAIN raw
  BY <1>1, CallerTypes, Bounds DEF Stored
<1>4. /\ Len(raw') = Len(raw) /\ raw' \in Seq(Versions)
      /\ \A k \in 1 .. Len(raw) : k # u + 1 => raw'[k] = raw[k]
  BY <1>1, <1>3, CallerTypes
<1>5. CallerTyped'
  <2>1. caller' \in Calls /\ caller'.vid = u
    BY <1>1, <1>3 DEF Calls
  <2>2. Stored' = Stored
    BY <1>4 DEF Stored
  <2>. QED
    BY <1>1, <1>4, <2>1, <2>2, CallerTypes DEF CallerTyped, Shaped
<1>6. Shaped'
  BY <1>1, <1>4, <1>5, CallerTypes, CallsKeepShape
<1>7. \A v : Queued(v) => Queued(v)'
  BY <1>1, ReturnedIsIdle DEF Queued
<1>8. \A v \in Vids : v < Len(raw) => Current(v)' = Current(v) \/ Queued(v)'
  <2>1. Queued(u)'
    BY <1>1 DEF Queued
  <2>2. \A v \in Vids : v < Len(raw) /\ v # u => Current(v)' = Current(v)
    <3>1. \A v \in Vids : v \in Nat
      BY Bounds
    <3>2. \A v \in Vids : v < Len(raw) /\ v # u => v + 1 \in 1 .. Len(raw) /\ v + 1 # u + 1
      BY <1>1, <1>3, <3>1, CallerTypes
    <3>3. \A v \in Vids : v < Len(raw) /\ v # u => raw'[v + 1] = raw[v + 1]
      BY <1>4, <3>2
    <3>. QED
      BY <3>3 DEF Current
  <2>. QED
    BY <2>1, <2>2
<1>9. Sound => Sound'
  BY <1>1, <1>7, <1>8, CallsKeepSound
<1>. QED
  BY <1>1, <1>2, <1>6, <1>9

\* The update goes to the queue.
LEMMA PushUpdateStep ==
  ASSUME IInv, PushUpdate
  PROVE  IInv'
<1>. USE DEF IInv
<1>1. /\ Shaped /\ (Claimed => Sound) /\ caller.pc = "push" /\ raw' = raw /\ gone' = gone
      /\ updated_vids_' = Append(updated_vids_, caller.vid) /\ deleted' = deleted /\ dead' = dead
      /\ indexed_count_' = indexed_count_ /\ ThreadKept
      /\ \/ caller' = Returned
         \/ caller' = [caller EXCEPT !.pc = "unset"]
  BY DEF PushUpdate, bucketVars, ListsKept, ThreadKept, storeVars
<1>2. Claimed' => Claimed
  BY DEF PushUpdate, Claimed, history
<1>3. caller.vid \in Stored /\ caller.vid \notin gone /\ caller.vid \in Vids
  BY <1>1, CallerTypes
<1>4. /\ updated_vids_' \in Seq(Vids)
      /\ \A v : (\E k \in DOMAIN updated_vids_ : updated_vids_[k] = v) \/ v = caller.vid
                  => \E k \in DOMAIN updated_vids_' : updated_vids_'[k] = v
  <2>1. /\ updated_vids_ \in Seq(Vids) /\ Len(updated_vids_) \in Nat
        /\ DOMAIN updated_vids_ = 1 .. Len(updated_vids_)
    BY <1>1, CallerTypes
  <2>2. /\ updated_vids_' \in Seq(Vids) /\ DOMAIN updated_vids_' = 1 .. Len(updated_vids_) + 1
        /\ updated_vids_'[Len(updated_vids_) + 1] = caller.vid
        /\ \A k \in DOMAIN updated_vids_ : updated_vids_'[k] = updated_vids_[k]
    BY <1>1, <1>3, <2>1
  <2>. QED
    BY <2>1, <2>2
<1>5. CallerTyped'
  <2>1. Stored' = Stored
    BY <1>1 DEF Stored
  <2>2. caller' \in Calls /\ (caller'.pc # "idle" => caller'.vid = caller.vid)
    <3>1. CASE caller' = Returned
      BY <3>1, ReturnedIsIdle
    <3>2. CASE caller' = [caller EXCEPT !.pc = "unset"]
      BY <3>2, <1>1, CallerTypes DEF Calls
    <3>. QED
      BY <1>1, <3>1, <3>2
  <2>. QED
    BY <1>1, <1>3, <1>4, <2>1, <2>2, CallerTypes DEF CallerTyped, Shaped
<1>6. Shaped'
  BY <1>1, <1>5, CallerTypes, CallsKeepShape
<1>7. \A v : Queued(v) => Queued(v)'
  BY <1>4 DEF Queued
<1>8. \A v : Current(v)' = Current(v)
  BY <1>1 DEF Current
<1>9. Sound => Sound'
  BY <1>1, <1>7, <1>8, CallsKeepSound
<1>. QED
  BY <1>1, <1>2, <1>6, <1>9

\* The bit of a document that is added again is cleared; nothing more is claimed.
LEMMA UnsetDeletedStep ==
  ASSUME IInv, UnsetDeleted
  PROVE  IInv'
<1>. USE DEF IInv
<1>1. /\ Shaped /\ caller.pc = "unset" /\ raw' = raw /\ gone' = gone
      /\ updated_vids_' = updated_vids_ /\ deleted' = deleted \ {caller.vid} /\ dead' = dead
      /\ indexed_count_' = indexed_count_ /\ ThreadKept /\ caller' = Returned
  BY DEF UnsetDeleted, ListsKept, ThreadKept, storeVars
<1>2. ~Claimed'
  BY DEF UnsetDeleted, Claimed
<1>3. CallerTyped'
  <2>1. Stored' = Stored
    BY <1>1 DEF Stored
  <2>. QED
    BY <1>1, <2>1, CallerTypes, ReturnedIsIdle DEF CallerTyped, Shaped
<1>4. Shaped'
  BY <1>1, <1>3, CallerTypes, CallsKeepShape
<1>. QED
  BY <1>2, <1>4

\* The bit and the key of a document go in one call.
LEMMA DeleteDocStep ==
  ASSUME IInv, NEW u \in Vids, DeleteDoc(u)
  PROVE  IInv'
<1>. USE DEF IInv
<1>1. /\ Shaped /\ (Claimed => Sound) /\ caller = Returned /\ u \in Stored /\ raw' = raw
      /\ updated_vids_' = updated_vids_ /\ deleted' = deleted \cup {u} /\ gone' = gone \cup {u}
      /\ dead' = dead /\ indexed_count_' = indexed_count_ /\ ThreadKept
      /\ caller' = [pc |-> "count", vid |-> u]
  BY DEF DeleteDoc, Live, ListsKept, ThreadKept
<1>2. Claimed' => Claimed
  BY DEF DeleteDoc, Claimed, history
<1>3. CallerTyped'
  <2>1. Stored' = Stored
    BY <1>1 DEF Stored
  <2>2. caller' \in Calls /\ caller'.vid = u /\ caller'.pc = "count"
    BY <1>1, Bounds DEF Calls
  <2>. QED
    BY <1>1, <2>1, <2>2, CallerTypes DEF CallerTyped, Shaped
<1>4. Shaped'
  BY <1>1, <1>3, CallerTypes, CallsKeepShape
<1>5. \A v : Queued(v) => Queued(v)'
  BY <1>1, ReturnedIsIdle DEF Queued
<1>6. \A v : Current(v)' = Current(v)
  BY <1>1 DEF Current
<1>7. Sound => Sound'
  BY <1>1, <1>5, <1>6, CallsKeepSound
<1>. QED
  BY <1>1, <1>2, <1>4, <1>7

\* The entry of a deleted document is counted.
LEMMA CountDeletedStep ==
  ASSUME IInv, CountDeleted
  PROVE  IInv'
<1>. USE DEF IInv
<1>1. /\ Shaped /\ (Claimed => Sound) /\ caller.pc = "count" /\ raw' = raw /\ gone' = gone
      /\ updated_vids_' = updated_vids_ /\ deleted' = deleted
      /\ indexed_count_' = indexed_count_ /\ ThreadKept /\ caller' = Returned
      /\ dead' = IF place[caller.vid] = NoPlace THEN dead
                 ELSE [dead EXCEPT ![place[caller.vid][1]] = dead[place[caller.vid][1]] + 1]
  BY DEF CountDeleted, CountDead, ListsKept, ThreadKept, storeVars
<1>2. Claimed' => Claimed
  BY DEF CountDeleted, Claimed, history
<1>3. CallerTyped'
  <2>1. Stored' = Stored
    BY <1>1 DEF Stored
  <2>. QED
    BY <1>1, <2>1, CallerTypes, ReturnedIsIdle DEF CallerTyped, Shaped
<1>4. dead' \in [Buckets -> Nat]
  <2>1. caller.vid \in Vids /\ dead \in [Buckets -> Nat]
    BY <1>1, CallerTypes
  <2>2. place[caller.vid] = NoPlace \/ place[caller.vid] \in Buckets \X Positions
    BY <1>1, <2>1 DEF Shaped, ListsTyped
  <2>. QED
    BY <1>1, <2>1, <2>2
<1>5. Shaped'
  BY <1>1, <1>3, <1>4, CallerTypes, CallsKeepShape
<1>6. \A v : Queued(v) => Queued(v)'
  BY <1>1 DEF Queued
<1>7. \A v : Current(v)' = Current(v)
  BY <1>1 DEF Current
<1>8. Sound => Sound'
  BY <1>1, <1>6, <1>7, CallsKeepSound
<1>. QED
  BY <1>1, <1>2, <1>5, <1>8

\* The bit of a document, and nothing else.
LEMMA DelDocByQueryStep ==
  ASSUME IInv, NEW u \in Vids, DelDocByQuery(u)
  PROVE  IInv'
<1>. USE DEF IInv
<1>1. /\ Shaped /\ (Claimed => Sound) /\ caller = Returned /\ u \in Stored /\ raw' = raw
      /\ updated_vids_' = updated_vids_ /\ deleted' = deleted \cup {u} /\ gone' = gone
      /\ dead' = dead /\ indexed_count_' = indexed_count_ /\ ThreadKept /\ caller' = caller
  BY DEF DelDocByQuery, Live, ListsKept, ThreadKept, loopVars, storeVars
<1>2. Claimed' => Claimed
  BY DEF DelDocByQuery, Claimed, loopVars, history
<1>3. CallerTyped'
  <2>1. Stored' = Stored
    BY <1>1 DEF Stored
  <2>. QED
    BY <1>1, <2>1, CallerTypes, ReturnedIsIdle DEF CallerTyped, Shaped
<1>4. Shaped'
  BY <1>1, <1>3, CallerTypes, CallsKeepShape
<1>5. \A v : Queued(v) => Queued(v)'
  BY <1>1 DEF Queued
<1>6. \A v : Current(v)' = Current(v)
  BY <1>1 DEF Current
<1>7. Sound => Sound'
  BY <1>1, <1>5, <1>6, CallsKeepSound
<1>. QED
  BY <1>1, <1>2, <1>4, <1>7

-----------------------------------------------------------------------------
(* The indexing thread between two calls of AddKeys and CompactBucket. *)

\* The fields of the worker.
LEMMA WorkerTypes ==
  ASSUME Shaped
  PROVE  /\ worker \in Rounds /\ worker.batches \in Nat /\ worker.total \in Nat /\ worker.next \in Nat
         /\ worker.todo \in Seq(Vids) /\ worker.vecs \in Seq(Vectors) /\ worker.failed \in BOOLEAN
         /\ DOMAIN worker.todo = 1 .. Len(worker.todo) /\ Len(worker.todo) \in Nat
         /\ DOMAIN worker.vecs = 1 .. Len(worker.vecs) /\ Len(worker.vecs) \in Nat
         /\ worker.pc \notin {"add", "update"} => worker.vecs = << >>
         /\ worker.pc \notin {"batch", "gets"} => worker.todo = << >>
         /\ \A k \in DOMAIN worker.todo : worker.todo[k] < indexed_count_
<1>1. worker \in Rounds
  BY DEF Shaped, WorkerTyped
<1>2. /\ worker.batches \in Nat /\ worker.total \in Nat /\ worker.next \in Nat
      /\ worker.todo \in Seq(Vids) /\ worker.vecs \in Seq(Vectors) /\ worker.failed \in BOOLEAN
  BY <1>1 DEF Rounds
<1>. QED
  BY <1>1, <1>2 DEF Shaped, WorkerTyped

\* A thread that is not in AddKeys or CompactBucket leaves the shape of lists.
LEMMA FreeStepsKeepShape ==
  ASSUME Shaped, WriterFree, UNCHANGED <<bucketVars, storeVars, caller>>,
         indexed_count_' \in 0 .. Len(raw), updated_vids_' \in Seq(Vids), WorkerTyped'
  PROVE  Shaped'
<1>1. /\ ids' = ids /\ codes' = codes /\ place' = place /\ packing' = packing /\ size' = size
      /\ capacity' = capacity /\ filling' = filling /\ dead' = dead /\ deleted' = deleted
      /\ raw' = raw /\ gone' = gone /\ caller' = caller
      /\ filling = NotFilling /\ packing = NotPacking
  BY DEF bucketVars, storeVars, WriterFree
<1>2. ListsTyped'
  BY <1>1 DEF Shaped, ListsTyped
<1>3. CallerTyped'
  BY <1>1 DEF Shaped, CallerTyped, Stored
<1>4. FillingTyped' /\ PackingTyped'
  BY <1>1 DEF FillingTyped, PackingTyped
<1>5. ListsEnd'
  <2>1. /\ Needed' = Needed /\ \A b : Filled(b)' <=> Filled(b)
        /\ \A b, steps : Packed(b, steps)' <=> Packed(b, steps)
    BY <1>1 DEF Needed, Filled, Packed
  <2>. QED
    BY <1>1, <2>1 DEF Shaped, ListsEnd
<1>. QED
  BY <1>2, <1>3, <1>4, <1>5 DEF Shaped

\* Outside batches what is on its way stays on its way, so the lists are right.
LEMMA FreeStepsKeepSound ==
  ASSUME Sound, WriterFree, UNCHANGED <<bucketVars, storeVars, indexed_count_>>,
         worker.pc # "add", worker'.pc # "add", FlightIsNew',
         \A v \in Vids : ToDo(v)' \/ Updating(v)' => Wanted(v),
         \A v \in Vids : v < indexed_count_ /\ v \notin deleted
           /\ (Queued(v) \/ ToDo(v) \/ Current(v) \in Flight) =>
             Queued(v)' \/ ToDo(v)' \/ Current(v) \in Flight'
  PROVE  Sound'
<1>1. /\ ListsKept /\ filling' = filling /\ deleted' = deleted /\ raw' = raw
      /\ filling = NotFilling /\ indexed_count_' = indexed_count_
  BY DEF bucketVars, storeVars, WriterFree, ListsKept
<1>2. \A v : ~Moving(v) /\ ~Moving(v)' /\ ~Added(v) /\ ~Added(v)'
  BY <1>1 DEF Moving, Added, NotFilling
<1>3. \A v \in Vids : Wanted(v)' => Wanted(v)
  <2>1. \A v : Wanted(v)' => (v < indexed_count_ /\ v \notin deleted) \/ ToDo(v)' \/ Updating(v)'
    BY <1>1, <1>2 DEF Wanted
  <2>. QED
    BY <2>1 DEF Wanted
<1>4. AddedHaveCodes'
  BY <1>1 DEF AddedHaveCodes, NotFilling
<1>5. ListedAreFresh'
  <2>1. SUFFICES ASSUME NEW v \in Vids, v < indexed_count_, v \notin deleted
                 PROVE  Fresh(v)' \/ Queued(v)' \/ ToDo(v)' \/ Current(v)' \in Flight'
    BY <1>1 DEF ListedAreFresh
  <2>2. Fresh(v) \/ Queued(v) \/ ToDo(v) \/ Current(v) \in Flight
    BY <2>1 DEF Sound, ListedAreFresh
  <2>3. Current(v)' = Current(v)
    BY <1>1 DEF Current
  <2>4. /\ \A b, i : ListedAt(v, b, i)' <=> ListedAt(v, b, i)
        /\ \A b : CodesOf(b)' = CodesOf(b)
    BY <1>1, KeptListings
  <2>5. Fresh(v)' <=> Fresh(v)
    BY <2>3, <2>4 DEF Fresh
  <2>. QED
    BY <2>1, <2>2, <2>3, <2>5
<1>. QED
  BY <1>1, <1>2, <1>3, <1>4, <1>5, KeptListsAreSound

\* The batches of a round are counted.
LEMMA StartRoundStep ==
  ASSUME IInv, StartRound
  PROVE  IInv'
<1>. USE DEF IInv
<1>1. /\ Shaped /\ (Claimed => Sound) /\ worker.pc = "round" /\ WriterFree
      /\ UNCHANGED <<bucketVars, storeVars, caller>> /\ indexed_count_' = indexed_count_
      /\ updated_vids_' = updated_vids_ /\ raw' = raw
      /\ worker' = [Round EXCEPT
                      !.pc = "batch", !.total = Len(raw),
                      !.batches = IF indexed_count_ = Len(raw) THEN 0
                                  ELSE (Len(raw) - indexed_count_) \div BatchSize + 1]
  BY DEF StartRound, Free, storeVars
<1>2. Claimed' => Claimed
  BY DEF StartRound, Claimed, history
<1>3. PICK n : n = IF indexed_count_ = Len(raw) THEN 0
                   ELSE (Len(raw) - indexed_count_) \div BatchSize + 1
  OBVIOUS
<1>4. /\ Len(raw) \in Nat /\ indexed_count_ \in Nat /\ indexed_count_ <= Len(raw)
      /\ BatchSize \in Nat \ {0}
  BY <1>1, CallerTypes, Bounds
<1>5. n \in Nat /\ (n > 0 => indexed_count_ + (n - 1) * BatchSize <= Len(raw))
  <2>1. PICK rest : rest = Len(raw) - indexed_count_
    OBVIOUS
  <2>2. rest \in Nat
    BY <1>4, <2>1
  <2>3. PICK d : d = rest \div BatchSize
    OBVIOUS
  <2>4. d \in Nat /\ d * BatchSize <= rest
    BY <1>4, <2>2, <2>3, BatchesFit
  <2>5. CASE n = 0
    BY <2>5
  <2>6. CASE n = d + 1
    <3>1. n - 1 = d
      BY <2>4, <2>6
    <3>2. PICK held : held = d * BatchSize
      OBVIOUS
    <3>3. held \in Nat
      BY <1>4, <2>4, <3>2
    <3>4. indexed_count_ + held <= Len(raw)
      <4>1. held <= rest
        BY <2>4, <3>2
      <4>. QED
        BY <1>4, <2>1, <3>3, <4>1
    <3>. QED
      BY <2>4, <2>6, <3>1, <3>2, <3>4
  <2>. QED
    BY <1>3, <2>1, <2>3, <2>5, <2>6
<1>6. /\ worker' \in Rounds /\ worker'.pc = "batch" /\ worker'.todo = << >> /\ worker'.vecs = << >>
      /\ worker'.batches = n /\ worker'.total = Len(raw)
  <2>1. worker' = [Round EXCEPT !.pc = "batch", !.total = Len(raw), !.batches = n]
    BY <1>1, <1>3
  <2>. QED
    BY <1>4, <1>5, <2>1, NewRound DEF Rounds
<1>7. WorkerTyped'
  BY <1>1, <1>4, <1>5, <1>6 DEF WorkerTyped
<1>8. Shaped'
  BY <1>1, <1>4, <1>7, CallerTypes, FreeStepsKeepShape
<1>9. ASSUME Sound
      PROVE  Sound'
  <2>1. Flight = {} /\ worker.todo = << >>
    BY <1>1, FlightIsStored, WorkerTypes
  <2>2. \A v : ~ToDo(v) /\ ~ToDo(v)' /\ ~Updating(v)' /\ (Queued(v)' <=> Queued(v))
    BY <1>1, <1>6, <2>1 DEF ToDo, Updating, Queued
  <2>3. FlightIsNew'
    BY <1>6 DEF FlightIsNew
  <2>. QED
    BY <1>1, <1>6, <1>9, <2>1, <2>2, <2>3, FreeStepsKeepSound
<1>. QED
  BY <1>1, <1>2, <1>8, <1>9

\* An update is taken from the queue, dropped or put back.
LEMMA PopUpdateStep ==
  ASSUME IInv, PopUpdate
  PROVE  IInv'
<1>. USE DEF IInv
<1>1. PICK u : u = Head(updated_vids_)
  OBVIOUS
<1>2. /\ Shaped /\ (Claimed => Sound) /\ worker.pc = "batch" /\ WriterFree
      /\ worker.batches = 0 \/ BatchCount = 0
      /\ updated_vids_ # << >>
      /\ UNCHANGED <<bucketVars, storeVars, caller>> /\ indexed_count_' = indexed_count_
      /\ \/ /\ u \in deleted /\ updated_vids_' = Tail(updated_vids_) /\ worker' = worker
         \/ /\ u \notin deleted /\ updated_vids_' = Append(Tail(updated_vids_), u)
            /\ worker' = [worker EXCEPT !.pc = "gets"]
         \/ /\ u \notin deleted /\ ~(u >= indexed_count_) /\ updated_vids_' = Tail(updated_vids_)
            /\ worker' = [worker EXCEPT !.todo = Append(worker.todo, u)]
  BY <1>1 DEF PopUpdate, BatchesDone, PopsLeft, Free
<1>3. Claimed' => Claimed
  BY DEF PopUpdate, Claimed, history
<1>4. /\ updated_vids_ \in Seq(Vids) /\ Tail(updated_vids_) \in Seq(Vids) /\ u \in Vids
      /\ Append(Tail(updated_vids_), u) \in Seq(Vids)
      /\ \A v : (\E k \in DOMAIN updated_vids_ : updated_vids_[k] = v) =>
           v = u \/ \E k \in DOMAIN Tail(updated_vids_) : Tail(updated_vids_)[k] = v
      /\ \A v : v = u \/ (\E k \in DOMAIN Tail(updated_vids_) : Tail(updated_vids_)[k] = v) =>
           \E k \in DOMAIN Append(Tail(updated_vids_), u) : Append(Tail(updated_vids_), u)[k] = v
  <2>1. updated_vids_ \in Seq(Vids) /\ updated_vids_ # << >>
    BY <1>2, CallerTypes
  <2>2. PICK rest : rest = Tail(updated_vids_)
    OBVIOUS
  <2>3. /\ rest \in Seq(Vids) /\ u \in Vids /\ Len(rest) \in Nat /\ DOMAIN rest = 1 .. Len(rest)
        /\ Len(updated_vids_) = Len(rest) + 1 /\ DOMAIN updated_vids_ = 1 .. Len(rest) + 1
        /\ updated_vids_[1] = u
        /\ \A k \in 1 .. Len(rest) : rest[k] = updated_vids_[k + 1]
    BY <1>1, <2>1, <2>2
  <2>4. /\ Append(rest, u) \in Seq(Vids) /\ DOMAIN Append(rest, u) = 1 .. Len(rest) + 1
        /\ Append(rest, u)[Len(rest) + 1] = u
        /\ \A k \in 1 .. Len(rest) : Append(rest, u)[k] = rest[k]
    BY <2>3
  <2>5. \A k \in 1 .. Len(rest) + 1 : k = 1 \/ (k - 1 \in 1 .. Len(rest) /\ rest[k - 1] = updated_vids_[k])
    BY <2>3
  <2>6. \A v : (\E k \in DOMAIN updated_vids_ : updated_vids_[k] = v) =>
           v = u \/ \E k \in DOMAIN rest : rest[k] = v
    BY <2>3, <2>5
  <2>7. \A v : v = u \/ (\E k \in DOMAIN rest : rest[k] = v) =>
           \E k \in DOMAIN Append(rest, u) : Append(rest, u)[k] = v
    BY <2>3, <2>4
  <2>. QED
    BY <2>1, <2>2, <2>3, <2>4, <2>6, <2>7
<1>5. /\ worker' \in Rounds /\ worker'.pc \in {"batch", "gets"} /\ worker'.vecs = worker.vecs
      /\ worker'.batches = worker.batches /\ worker'.total = worker.total
      /\ worker'.todo = worker.todo \/
           (u \notin deleted /\ ~(u >= indexed_count_) /\ worker'.todo = Append(worker.todo, u)
             /\ updated_vids_' = Tail(updated_vids_))
  <2>1. worker \in Rounds /\ worker.todo \in Seq(Vids) /\ worker.pc = "batch" /\ u \in Vids
    BY <1>2, <1>4, WorkerTypes
  <2>2. CASE worker' = worker
    BY <2>1, <2>2
  <2>3. CASE worker' = [worker EXCEPT !.pc = "gets"]
    BY <2>1, <2>3 DEF Rounds
  <2>4. CASE /\ u \notin deleted /\ ~(u >= indexed_count_) /\ updated_vids_' = Tail(updated_vids_)
             /\ worker' = [worker EXCEPT !.todo = Append(worker.todo, u)]
    <3>1. Append(worker.todo, u) \in Seq(Vids)
      BY <2>1
    <3>. QED
      BY <2>1, <2>4, <3>1 DEF Rounds
  <2>. QED
    BY <1>2, <2>2, <2>3, <2>4
<1>6. /\ DOMAIN worker.todo \subseteq DOMAIN worker'.todo
      /\ \A k \in DOMAIN worker.todo : worker'.todo[k] = worker.todo[k]
      /\ \A k \in DOMAIN worker'.todo : worker'.todo[k] = u \/
            (k \in DOMAIN worker.todo /\ worker'.todo[k] = worker.todo[k])
      /\ worker'.todo # worker.todo => u < indexed_count_ /\ \E k \in DOMAIN worker'.todo : worker'.todo[k] = u
  <2>1. CASE worker'.todo = worker.todo
    BY <2>1
  <2>2. CASE ~(u >= indexed_count_) /\ worker'.todo = Append(worker.todo, u)
    <3>1. worker.todo \in Seq(Vids) /\ DOMAIN worker.todo = 1 .. Len(worker.todo) /\ Len(worker.todo) \in Nat
      BY <1>2, WorkerTypes
    <3>2. /\ DOMAIN worker'.todo = 1 .. Len(worker.todo) + 1 /\ worker'.todo[Len(worker.todo) + 1] = u
          /\ \A k \in 1 .. Len(worker.todo) : worker'.todo[k] = worker.todo[k]
      BY <1>4, <2>2, <3>1
    <3>3. u < indexed_count_
      BY <1>2, <1>4, <2>2, CallerTypes, Bounds
    <3>. QED
      BY <3>1, <3>2, <3>3
  <2>. QED
    BY <1>5, <2>1, <2>2
<1>7. WorkerTyped'
  <2>1. BatchCount' = BatchCount
    BY <1>2, <1>5 DEF BatchCount
  <2>2. \A k \in DOMAIN worker'.todo : worker'.todo[k] < indexed_count_
    BY <1>2, <1>6, WorkerTypes
  <2>3. /\ worker'.batches > 0 => worker.total <= Len(raw)
             /\ indexed_count_ + (worker.batches - 1) * BatchSize <= worker.total
        /\ worker'.vecs = << >>
    BY <1>2, <1>5 DEF Shaped, WorkerTyped
  <2>4. raw' = raw
    BY <1>2 DEF storeVars
  <2>. QED
    BY <1>2, <1>5, <2>1, <2>2, <2>3, <2>4 DEF WorkerTyped
<1>8. Shaped'
  <2>1. indexed_count_' \in 0 .. Len(raw)
    <3>1. Shaped /\ indexed_count_' = indexed_count_
      BY <1>2
    <3>. QED
      BY <3>1 DEF Shaped, CallerTyped
  <2>2. updated_vids_' \in Seq(Vids)
    BY <1>2, <1>4
  <2>. QED
    BY <1>2, <1>7, <2>1, <2>2, FreeStepsKeepShape
<1>9. ASSUME Sound
      PROVE  Sound'
  <2>1. Flight = {} /\ caller' = caller
    BY <1>2, FlightIsStored
  <2>2. FlightIsNew' /\ \A v : ~Updating(v)'
    BY <1>5 DEF FlightIsNew, Updating
  <2>3. \A v \in Vids : ToDo(v)' => Wanted(v)
    <3>1. \A v : ToDo(v)' => ToDo(v) \/ (v = u /\ worker'.todo # worker.todo)
      BY <1>6 DEF ToDo
    <3>2. worker'.todo # worker.todo => u < indexed_count_ /\ u \notin deleted
      BY <1>5, <1>6
    <3>. QED
      BY <3>1, <3>2 DEF Wanted
  <2>4. \A v : ToDo(v) => ToDo(v)'
    BY <1>6 DEF ToDo
  <2>5. \A v \in Vids : v < indexed_count_ /\ v \notin deleted /\ Queued(v) => Queued(v)' \/ ToDo(v)'
    <3>1. SUFFICES ASSUME NEW v \in Vids, v \notin deleted,
                          \E k \in DOMAIN updated_vids_ : updated_vids_[k] = v
                   PROVE  (\E k \in DOMAIN updated_vids_' : updated_vids_'[k] = v) \/ ToDo(v)'
      BY <2>1, Zenon DEF Queued
    <3>2. v = u \/ \E k \in DOMAIN Tail(updated_vids_) : Tail(updated_vids_)[k] = v
      BY <1>4, <3>1
    <3>3. CASE updated_vids_' = Append(Tail(updated_vids_), u)
      BY <1>4, <3>2, <3>3
    <3>4. CASE updated_vids_' = Tail(updated_vids_)
      <4>1. CASE v = u
        <5>1. u \notin deleted
          BY <3>1, <4>1
        <5>2. worker' = [worker EXCEPT !.todo = Append(worker.todo, u)] \/ updated_vids_' = Append(Tail(updated_vids_), u)
          BY <1>2, <5>1
        <5>3. CASE worker' = [worker EXCEPT !.todo = Append(worker.todo, u)]
          <6>1. worker.todo \in Seq(Vids) /\ worker'.todo = Append(worker.todo, u)
            BY <1>2, <5>3, WorkerTypes DEF Rounds
          <6>2. Len(worker.todo) + 1 \in DOMAIN worker'.todo /\ worker'.todo[Len(worker.todo) + 1] = u
            BY <1>4, <6>1
          <6>. QED
            BY <4>1, <6>2 DEF ToDo
        <5>. QED
          BY <3>3, <5>2, <5>3
      <4>2. CASE v # u
        BY <3>2, <3>4, <4>2
      <4>. QED
        BY <4>1, <4>2
    <3>. QED
      BY <1>2, <3>3, <3>4
  <2>. QED
    BY <1>2, <1>5, <1>9, <2>1, <2>2, <2>3, <2>4, <2>5, FreeStepsKeepSound
<1>. QED
  BY <1>2, <1>3, <1>8, <1>9

\* The current vector of an id that is stored.
LEMMA CurrentIsVector ==
  ASSUME Shaped
  PROVE  /\ \A v : Vid(Current(v)) = v
         /\ \A v \in Vids : v < Len(raw) => Current(v) \in Vectors
<1>1. raw \in Seq(Versions) /\ DOMAIN raw = 1 .. Len(raw) /\ Len(raw) \in Nat
  BY CallerTypes
<1>2. \A v \in Vids : v < Len(raw) => v + 1 \in DOMAIN raw
  BY <1>1, Bounds
<1>. QED
  BY <1>1, <1>2 DEF Current, Vid, Vectors

\* A vector that is indexed is stored.
LEMMA IndexedAreStored ==
  ASSUME Shaped
  PROVE  \A v \in Vids : v < indexed_count_ => v < Len(raw)
<1>1. /\ indexed_count_ \in Nat /\ Len(raw) \in Nat /\ indexed_count_ <= Len(raw)
      /\ \A v \in Vids : v \in Nat
  BY Bounds, CallerTypes
<1>. QED
  BY <1>1

\* The next round, or none.
LEMMA RestedRound ==
  /\ Rested \in Rounds /\ Rested.pc \in {"round", "failed"}
  /\ Rested.todo = << >> /\ Rested.vecs = << >>
<1>1. PICK p : p = IF worker.failed THEN "failed" ELSE "round"
  OBVIOUS
<1>2. Rested = [Round EXCEPT !.pc = p]
  BY <1>1 DEF Rested
<1>. QED
  BY <1>1, <1>2, NewRound DEF Rounds

\* The round ends.
LEMMA RoundEnds ==
  ASSUME IInv, WriterFree, worker.pc \in {"batch", "gets", "update"},
         worker.todo = << >>, worker.vecs = << >>, worker' = Rested,
         UNCHANGED <<bucketVars, storeVars, indexed_count_, updated_vids_, caller, history>>
  PROVE  IInv'
<1>. USE DEF IInv
<1>1. /\ Claimed' => Claimed
      /\ raw' = raw /\ indexed_count_' = indexed_count_ /\ caller' = caller
      /\ updated_vids_' = updated_vids_
  BY DEF Claimed, history, storeVars
<1>2. WorkerTyped'
  BY RestedRound DEF WorkerTyped
<1>3. Shaped'
  <2>1. indexed_count_' \in 0 .. Len(raw)
    BY <1>1 DEF Shaped, CallerTyped
  <2>. QED
    BY <1>1, <1>2, <2>1, CallerTypes, FreeStepsKeepShape
<1>4. ASSUME Sound
      PROVE  Sound'
  <2>1. Flight = {}
    BY DEF Flight, WriterFree, NotFilling
  <2>2. \A v : ~ToDo(v) /\ ~ToDo(v)' /\ ~Updating(v)' /\ (Queued(v)' <=> Queued(v))
    BY <1>1, RestedRound DEF ToDo, Updating, Queued
  <2>3. FlightIsNew' /\ worker'.pc # "add"
    BY RestedRound DEF FlightIsNew
  <2>. QED
    BY <1>1, <1>4, <2>1, <2>2, <2>3, FreeStepsKeepSound
<1>. QED
  BY <1>1, <1>3, <1>4

\* The vectors that were updated are read.
LEMMA ReadUpdatesStep ==
  ASSUME IInv, ReadUpdates
  PROVE  IInv'
<1>. USE DEF IInv
<1>1. /\ Shaped /\ (Claimed => Sound) /\ worker.pc \in {"batch", "gets"} /\ WriterFree
      /\ UNCHANGED <<bucketVars, storeVars, caller>> /\ indexed_count_' = indexed_count_
      /\ updated_vids_' = updated_vids_ /\ raw' = raw /\ caller' = caller /\ deleted' = deleted
      /\ UNCHANGED <<bucketVars, storeVars, indexed_count_, updated_vids_, caller, history>>
  BY DEF ReadUpdates, BatchesDone, Free, storeVars, bucketVars
<1>2. Claimed' => Claimed
  BY <1>1 DEF Claimed, history
<1>3. worker.vecs = << >>
  BY <1>1, WorkerTypes
<1>4. CASE worker.todo = << >>
  <2>1. worker' = Rested
    BY <1>4 DEF ReadUpdates
  <2>. QED
    BY <1>1, <1>3, <1>4, <2>1, RoundEnds
<1>5. CASE worker.todo # << >>
  <2>1. PICK vecs : vecs = [k \in DOMAIN worker.todo |-> Current(worker.todo[k])]
    OBVIOUS
  <2>2. worker' = [worker EXCEPT !.pc = "update", !.todo = << >>, !.vecs = vecs]
    BY <1>5, <2>1 DEF ReadUpdates
  <2>3. /\ worker.todo \in Seq(Vids) /\ DOMAIN worker.todo = 1 .. Len(worker.todo)
        /\ Len(worker.todo) \in Nat
        /\ \A k \in DOMAIN worker.todo : worker.todo[k] < indexed_count_ /\ worker.todo[k] \in Vids
    BY <1>1, WorkerTypes
  <2>4. \A k \in DOMAIN worker.todo : Current(worker.todo[k]) \in Vectors
    <3>1. \A k \in DOMAIN worker.todo : worker.todo[k] < Len(raw)
      BY <1>1, <2>3, IndexedAreStored
    <3>. QED
      BY <1>1, <2>3, <3>1, CurrentIsVector
  <2>5. vecs \in Seq(Vectors) /\ DOMAIN vecs = DOMAIN worker.todo
    <3>1. vecs \in [1 .. Len(worker.todo) -> Vectors]
      BY <2>1, <2>3, <2>4
    <3>. QED
      BY <2>1, <2>3, <3>1
  <2>6. /\ worker' \in Rounds /\ worker'.pc = "update" /\ worker'.todo = << >> /\ worker'.vecs = vecs
    <3>1. worker \in Rounds /\ << >> \in Seq(Vids)
      BY <1>1, WorkerTypes
    <3>. QED
      BY <2>2, <2>5, <3>1 DEF Rounds
  <2>7. \A k \in DOMAIN vecs : vecs[k] = Current(worker.todo[k]) /\ Vid(vecs[k]) = worker.todo[k]
    BY <1>1, <2>1, CurrentIsVector
  <2>8. WorkerTyped'
    BY <1>1, <2>3, <2>5, <2>6, <2>7 DEF WorkerTyped
  <2>9. Shaped'
    <3>1. indexed_count_' \in 0 .. Len(raw)
      BY <1>1 DEF Shaped, CallerTyped
    <3>. QED
      BY <1>1, <2>8, <3>1, CallerTypes, FreeStepsKeepShape
  <2>10. ASSUME Sound
         PROVE  Sound'
    <3>1. Flight = {}
      BY <1>1, FlightIsStored
    <3>2. Flight' = {vecs[k] : k \in DOMAIN vecs}
      BY <1>1, <2>6 DEF Flight, WriterFree, NotFilling, bucketVars
    <3>3. FlightIsNew'
      <4>1. ASSUME NEW vec \in Flight'
            PROVE  vec = Current(Vid(vec))'
        <5>1. PICK k \in DOMAIN vecs : vec = vecs[k]
          BY <3>2
        <5>2. vec = Current(Vid(vec))
          BY <2>7, <5>1
        <5>. QED
          BY <1>1, <5>2 DEF Current
      <4>. QED
        BY <4>1 DEF FlightIsNew
    <3>4. /\ \A v : ~ToDo(v)' /\ (Queued(v)' <=> Queued(v))
          /\ \A v : Updating(v)' => ToDo(v)
          /\ \A v : ToDo(v) => Current(v) \in Flight'
      <4>1. /\ \A v : ~ToDo(v)'
            /\ \A v : Queued(v)' <=> Queued(v)
        BY <1>1, <2>6 DEF ToDo, Queued
      <4>2. \A v : Updating(v)' => ToDo(v)
        BY <2>5, <2>6, <2>7 DEF Updating, ToDo
      <4>3. \A v : ToDo(v) => Current(v) \in Flight'
        BY <2>5, <2>7, <3>2 DEF ToDo
      <4>. QED
        BY <4>1, <4>2, <4>3
    <3>5. \A v : ToDo(v) => Wanted(v)
      BY DEF Wanted
    <3>. QED
      BY <1>1, <2>6, <2>10, <3>1, <3>3, <3>4, <3>5, FreeStepsKeepSound
  <2>. QED
    BY <1>1, <1>2, <2>9, <2>10
<1>. QED
  BY <1>4, <1>5

\* All buckets were looked at.
LEMMA EndRoundStep ==
  ASSUME IInv, EndRound
  PROVE  IInv'
<1>1. worker.todo = << >>
  BY WorkerTypes DEF IInv, EndRound, Free
<1>. QED
  BY <1>1, RoundEnds DEF EndRound, Free

\* The vectors of a sequence and their buckets.
LEMMA MembersOfBatch ==
  ASSUME NEW vecs \in Seq(Vectors)
  PROVE  \A k \in DOMAIN vecs : /\ vecs[k] \in Vectors /\ Vid(vecs[k]) \in Vids /\ Vid(vecs[k]) \in Nat
                                /\ Bucket[vecs[k]] \in Buckets /\ Bucket[vecs[k]] \in Nat
<1>1. \A k \in DOMAIN vecs : vecs[k] \in Vectors
  OBVIOUS
<1>2. \A vec \in Vectors : Vid(vec) \in Vids
  BY DEF Vectors, Vid
<1>3. \A vec \in Vectors : Bucket[vec] \in Buckets
  BY Bounds
<1>4. Buckets \subseteq Nat /\ Vids \subseteq Nat
  BY Bounds
<1>. QED
  BY <1>1, <1>2, <1>3, <1>4

\* The vectors of the next batch are read: none has an entry.
LEMMA ReadBatchStep ==
  ASSUME IInv, ReadBatch
  PROVE  IInv'
<1>. USE DEF IInv
<1>1. PICK n : n = BatchCount
  OBVIOUS
<1>2. PICK vecs : vecs = [k \in 1 .. n |-> Current(indexed_count_ + k - 1)]
  OBVIOUS
<1>3. /\ Shaped /\ (Claimed => Sound) /\ worker.pc = "batch" /\ WriterFree
      /\ worker.batches > 0 /\ n > 0
      /\ UNCHANGED <<bucketVars, storeVars, caller>> /\ indexed_count_' = indexed_count_
      /\ updated_vids_' = updated_vids_ /\ raw' = raw /\ caller' = caller /\ deleted' = deleted
      /\ worker' = [worker EXCEPT !.pc = "add", !.next = 0, !.vecs = vecs]
      /\ ListsKept
  BY <1>1, <1>2 DEF ReadBatch, Free, storeVars, bucketVars, ListsKept
<1>4. Claimed' => Claimed
  BY DEF ReadBatch, Claimed, history
<1>5. /\ worker \in Rounds /\ worker.batches \in Nat \ {0} /\ worker.total \in Nat
      /\ indexed_count_ \in Nat /\ Len(raw) \in Nat /\ BatchSize \in Nat \ {0}
      /\ worker.total <= Len(raw)
      /\ indexed_count_ + (worker.batches - 1) * BatchSize <= worker.total
  BY <1>3, WorkerTypes, CallerTypes, Bounds DEF Shaped, WorkerTyped
<1>6. n \in Nat /\ indexed_count_ + n <= Len(raw)
  <2>1. CASE worker.batches = 1
    <3>1. n = worker.total - indexed_count_
      BY <1>1, <2>1 DEF BatchCount
    <3>. QED
      BY <1>3, <1>5, <3>1
  <2>2. CASE worker.batches > 1
    <3>1. BatchSize <= (worker.batches - 1) * BatchSize /\ (worker.batches - 1) * BatchSize \in Nat
      BY <1>5, <2>2, OneBatchLess
    <3>2. PICK held : held = (worker.batches - 1) * BatchSize
      OBVIOUS
    <3>3. n = BatchSize
      BY <1>1, <1>5, <2>2 DEF BatchCount
    <3>4. BatchSize <= held /\ held \in Nat /\ indexed_count_ + held <= worker.total
      BY <1>5, <3>1, <3>2
    <3>. QED
      BY <1>5, <3>3, <3>4
  <2>. QED
    BY <1>5, <2>1, <2>2
<1>7. \A k \in 1 .. n : /\ indexed_count_ + k - 1 \in Vids /\ indexed_count_ + k - 1 < Len(raw)
  <2>1. 0 .. Len(raw) - 1 \subseteq Vids
    BY <1>3 DEF Shaped, CallerTyped
  <2>2. \A k \in 1 .. n : indexed_count_ + k - 1 \in 0 .. Len(raw) - 1
    BY <1>5, <1>6
  <2>. QED
    <3>1. worker.batches = 1 \/ worker.batches > 1
      <4>1. PICK k : k = worker.batches
        OBVIOUS
      <4>2. k \in Nat \ {0}
        BY <1>5, <4>1, Zenon
      <4>. QED
        BY <4>1, <4>2
    <3>. QED
      BY <2>1, <2>2, <3>1
<1>8. /\ vecs \in Seq(Vectors) /\ Len(vecs) = n /\ DOMAIN vecs = 1 .. n
      /\ \A k \in 1 .. n : vecs[k] = Current(indexed_count_ + k - 1) /\ Vid(vecs[k]) = indexed_count_ + k - 1
  <2>1. \A k \in 1 .. n : /\ Current(indexed_count_ + k - 1) \in Vectors
                          /\ Vid(Current(indexed_count_ + k - 1)) = indexed_count_ + k - 1
    BY <1>3, <1>7, CurrentIsVector
  <2>2. vecs \in [1 .. n -> Vectors]
    BY <1>2, <2>1
  <2>3. vecs \in Seq(Vectors) /\ Len(vecs) = n /\ DOMAIN vecs = 1 .. n
    BY <1>2, <1>6, <2>2
  <2>. QED
    BY <1>2, <2>1, <2>3
<1>9. worker.todo = << >>
  <2>1. worker.batches # 0 /\ BatchCount # 0
    BY <1>1, <1>3, <1>6
  <2>. QED
    BY <1>3, <2>1 DEF Shaped, WorkerTyped
<1>10. /\ worker' \in Rounds /\ worker'.pc = "add" /\ worker'.todo = << >> /\ worker'.vecs = vecs
       /\ worker'.next = 0 /\ worker'.batches = worker.batches /\ worker'.total = worker.total
  BY <1>3, <1>5, <1>8, <1>9 DEF Rounds
<1>11. WorkerTyped'
  <2>1. BatchCount' = n
    BY <1>1, <1>3, <1>10 DEF BatchCount
  <2>. QED
    BY <1>3, <1>5, <1>8, <1>10, <2>1 DEF WorkerTyped
<1>12. Shaped'
  <2>1. indexed_count_' \in 0 .. Len(raw)
    BY <1>3 DEF Shaped, CallerTyped
  <2>. QED
    BY <1>3, <1>11, <2>1, CallerTypes, FreeStepsKeepShape
<1>13. ASSUME Sound
       PROVE  Sound'
  <2>1. Flight = {} /\ Flight' = {vecs[k] : k \in DOMAIN vecs}
    <3>1. Flight = {} /\ filling = NotFilling
      BY <1>3, FlightIsStored
    <3>2. DOMAIN filling'.vecs = {}
      BY <1>3, <3>1 DEF bucketVars, NotFilling
    <3>. QED
      BY <1>10, <3>1, <3>2 DEF Flight
  <2>2. \A v : /\ ~Moving(v) /\ ~Moving(v)' /\ ~Added(v) /\ ~ToDo(v) /\ ~ToDo(v)' /\ ~Updating(v)'
               /\ (Queued(v)' <=> Queued(v))
    BY <1>3, <1>9, <1>10 DEF Moving, Added, ToDo, Updating, Queued
  <2>3. \A v : ~Added(v)'
    <3>1. \A k \in DOMAIN vecs : Bucket[vecs[k]] \in Nat
      BY <1>8, MembersOfBatch
    <3>. QED
      BY <1>10, <3>1 DEF Added
  <2>4. \A v : Wanted(v)' => Wanted(v)
    BY <1>3, <2>2, <2>3 DEF Wanted
  <2>5. FlightIsNew'
    <3>1. ASSUME NEW x \in Flight'
          PROVE  x = Current(Vid(x))'
      <4>1. PICK k \in DOMAIN vecs : x = vecs[k]
        BY <2>1
      <4>2. x = Current(Vid(x))
        BY <1>8, <4>1
      <4>. QED
        BY <1>3, <4>2 DEF Current
    <3>. QED
      BY <3>1 DEF FlightIsNew
  <2>6. AddedHaveCodes'
    <3>1. \A k \in DOMAIN vecs : ~Listed(Vid(vecs[k]))
      <4>1. \A k \in DOMAIN vecs : Vid(vecs[k]) \in Vids /\ Vid(vecs[k]) >= indexed_count_
        BY <1>5, <1>7, <1>8
      <4>. QED
        BY <1>13, <2>2, <4>1 DEF Sound, NoEntryTooEarly
    <3>2. \A k \in DOMAIN vecs : HasCode(vecs[k])
      BY <3>1 DEF HasCode, Listed
    <3>3. \A k \in DOMAIN vecs : HasCode(vecs[k])'
      BY <1>3, <3>2, KeptListings
    <3>4. filling' = NotFilling
      BY <1>3 DEF bucketVars, WriterFree
    <3>. QED
      BY <1>10, <3>3, <3>4 DEF AddedHaveCodes, NotFilling
  <2>7. ListedAreFresh'
    <3>1. SUFFICES ASSUME NEW v \in Vids, v < indexed_count_, v \notin deleted
                   PROVE  Fresh(v)' \/ Queued(v)'
      BY <1>3 DEF ListedAreFresh
    <3>2. Fresh(v) \/ Queued(v)
      BY <1>13, <2>1, <2>2, <3>1 DEF Sound, ListedAreFresh
    <3>3. /\ Current(v)' = Current(v)
          /\ \A b, i : ListedAt(v, b, i)' <=> ListedAt(v, b, i)
          /\ \A b : CodesOf(b)' = CodesOf(b)
      BY <1>3, KeptListings DEF Current
    <3>. QED
      BY <2>2, <3>2, <3>3 DEF Fresh
  <2>. QED
    BY <1>3, <1>13, <2>2, <2>3, <2>4, <2>5, <2>6, <2>7, KeptListsAreSound
<1>. QED
  BY <1>3, <1>4, <1>12, <1>13

\* The lowest of some bucket numbers.
LEMMA LowestNumber ==
  ASSUME NEW S, S \subseteq Nat, S # {}
  PROVE  \E m \in S : \A k \in S : m <= k
<1>. DEFINE R == StrictSubsetOrdering(Nat)
           F == FiniteSubsetsOf(Nat)
           T == {0 .. n : n \in S}
<1>1. IsWellFoundedOn(R, F)
  BY FS_StrictSubsetOrderingWellFounded
<1>2. T \subseteq F
  <2>1. ASSUME NEW n \in S PROVE 0 .. n \in F
    <3>1. n \in Nat /\ 0 .. n \subseteq Nat
      OBVIOUS
    <3>2. IsFiniteSet(0 .. n)
      BY <3>1, FS_Interval
    <3>. QED
      BY <3>1, <3>2 DEF FiniteSubsetsOf
  <2>. HIDE DEF F
  <2>. QED
    BY <2>1
<1>3. T # {}
  OBVIOUS
<1>4. PICK x \in T : \A y \in T : ~(<<y, x>> \in R)
  <2>. HIDE DEF R, F, T
  <2>. QED
    BY <1>1, <1>2, <1>3, WFMin
<1>5. PICK m \in S : x = 0 .. m
  OBVIOUS
<1>6. ASSUME NEW k \in S, k < m PROVE FALSE
  <2>1. m \in Nat /\ k \in Nat
    OBVIOUS
  <2>2. 0 .. k \subseteq 0 .. m /\ m \in 0 .. m /\ m \notin 0 .. k
    BY <1>6, <2>1
  <2>3. 0 .. k \in T /\ 0 .. k \subseteq Nat /\ 0 .. m \subseteq Nat
    BY <2>1
  <2>4. <<0 .. k, 0 .. m>> \in R
    BY <2>2, <2>3 DEF StrictSubsetOrdering
  <2>. QED
    BY <2>3, <2>4, <1>4, <1>5
<1>. QED
  BY <1>6

\* The bucket that comes next.
LEMMA NextIsLowest ==
  ASSUME NEW S, S \subseteq Buckets, S # {}, NEW b, b = CHOOSE x \in S : \A y \in S : x <= y
  PROVE  b \in S /\ \A y \in S : b <= y
<1>1. S \subseteq Nat
  BY Bounds
<1>2. \E m \in S : \A y \in S : m <= y
  BY <1>1, LowestNumber
<1>. QED
  BY <1>2

\* The next bucket of the batch gets its vectors, in the order of the batch.
LEMMA NextBucketStep ==
  ASSUME IInv, NextBucket
  PROVE  IInv'
<1>. USE DEF IInv
<1>1. PICK b : b = CHOOSE x \in BucketsLeft : \A y \in BucketsLeft : x <= y
  OBVIOUS
<1>2. PICK length \in DOMAIN worker.vecs : \E order \in [1 .. length -> DOMAIN worker.vecs] :
        /\ IsShareOf(order, b)
        /\ filling' = [step |-> "room", bucket |-> b,
                       vecs |-> [n \in 1 .. length |-> worker.vecs[order[n]]]]
  BY <1>1 DEF NextBucket, BeginFill
<1>3. PICK order \in [1 .. length -> DOMAIN worker.vecs] :
        /\ IsShareOf(order, b)
        /\ filling' = [step |-> "room", bucket |-> b,
                       vecs |-> [n \in 1 .. length |-> worker.vecs[order[n]]]]
  BY <1>2
<1>4. PICK share : share = [n \in 1 .. length |-> worker.vecs[order[n]]]
  OBVIOUS
<1>5. /\ Shaped /\ (Claimed => Sound) /\ worker.pc = "add" /\ WriterFree /\ BucketsLeft # {}
      /\ filling' = [step |-> "room", bucket |-> b, vecs |-> share]
      /\ worker' = [worker EXCEPT !.next = b + 1]
      /\ ids' = ids /\ codes' = codes /\ size' = size /\ capacity' = capacity /\ place' = place
      /\ dead' = dead /\ deleted' = deleted /\ packing' = packing
      /\ raw' = raw /\ gone' = gone /\ caller' = caller
      /\ indexed_count_' = indexed_count_ /\ updated_vids_' = updated_vids_
      /\ filling = NotFilling /\ packing = NotPacking
      /\ ListsKept
  BY <1>1, <1>3, <1>4 DEF NextBucket, Free, storeVars, ListsKept, WriterFree
<1>6. Claimed' => Claimed
  BY DEF NextBucket, Claimed, history
<1>7. /\ worker \in Rounds /\ worker.vecs \in Seq(Vectors) /\ worker.next \in Nat
      /\ DOMAIN worker.vecs = 1 .. Len(worker.vecs) /\ Len(worker.vecs) \in Nat
      /\ \A k \in DOMAIN worker.vecs : /\ worker.vecs[k] \in Vectors /\ Vid(worker.vecs[k]) = indexed_count_ + k - 1
                                       /\ Bucket[worker.vecs[k]] \in Buckets /\ Bucket[worker.vecs[k]] \in Nat
      /\ indexed_count_ \in Nat
  BY <1>5, WorkerTypes, MembersOfBatch, CallerTypes DEF Shaped, WorkerTyped
<1>8. /\ b \in Buckets /\ b \in Nat /\ b >= worker.next
      /\ \A k \in DOMAIN worker.vecs : Bucket[worker.vecs[k]] < b <=> Bucket[worker.vecs[k]] < worker.next
  <2>1. BucketsLeft \subseteq Buckets
    BY DEF BucketsLeft
  <2>2. b \in BucketsLeft /\ \A y \in BucketsLeft : b <= y
    BY <1>1, <1>5, <2>1, NextIsLowest
  <2>3. b \in Buckets /\ b \in Nat /\ b >= worker.next
    BY <2>2, Bounds DEF BucketsLeft
  <2>4. \A k \in DOMAIN worker.vecs : Bucket[worker.vecs[k]] >= worker.next => b <= Bucket[worker.vecs[k]]
    BY <1>7, <2>2 DEF BucketsLeft
  <2>5. ASSUME NEW k \in DOMAIN worker.vecs
        PROVE  Bucket[worker.vecs[k]] < b <=> Bucket[worker.vecs[k]] < worker.next
    <3>1. PICK c : c = Bucket[worker.vecs[k]]
      OBVIOUS
    <3>2. c \in Nat /\ worker.next \in Nat /\ (c >= worker.next => b <= c)
      BY <1>7, <2>4, <3>1
    <3>3. c < b <=> c < worker.next
      BY <2>3, <3>2
    <3>. QED
      BY <3>1, <3>3
  <2>. QED
    BY <2>3, <2>5
<1>9. /\ share \in Seq(Vectors) /\ DOMAIN share = 1 .. length /\ length \in Nat
      /\ \A n \in 1 .. length : order[n] \in DOMAIN worker.vecs /\ share[n] = worker.vecs[order[n]]
  <2>1. length \in Nat /\ order \in [1 .. length -> DOMAIN worker.vecs]
    BY <1>7
  <2>2. share \in [1 .. length -> Vectors]
    BY <1>4, <1>7, <2>1
  <2>3. share \in Seq(Vectors)
    BY <2>1, <2>2
  <2>. QED
    BY <1>4, <2>1, <2>2, <2>3
<1>10. /\ \A n \in DOMAIN share : Bucket[share[n]] = b
       /\ \A n \in DOMAIN share : \E k \in DOMAIN worker.vecs : share[n] = worker.vecs[k]
       /\ \A k \in DOMAIN worker.vecs : Bucket[worker.vecs[k]] = b => \E n \in DOMAIN share : share[n] = worker.vecs[k]
       /\ \A m, n \in DOMAIN share : Vid(share[m]) = Vid(share[n]) => m = n
  <2>1. /\ DOMAIN order = 1 .. length
        /\ {order[n] : n \in DOMAIN order} = {k \in DOMAIN worker.vecs : Bucket[worker.vecs[k]] = b}
        /\ \A m, n \in DOMAIN order : m < n => order[m] < order[n]
    BY <1>3 DEF IsShareOf
  <2>2. \A n \in 1 .. length : Bucket[worker.vecs[order[n]]] = b
    BY <2>1
  <2>3. \A k \in DOMAIN worker.vecs : Bucket[worker.vecs[k]] = b => \E n \in 1 .. length : order[n] = k
    BY <2>1
  <2>4. \A m, n \in 1 .. length : order[m] = order[n] => m = n
    <3>1. \A m \in 1 .. length : order[m] \in Nat
      BY <1>7, <1>9
    <3>. QED
      BY <1>9, <2>1, <3>1
  <2>5. \A m, n \in 1 .. length : Vid(share[m]) = Vid(share[n]) => order[m] = order[n]
    <3>1. \A m \in 1 .. length : Vid(share[m]) = indexed_count_ + order[m] - 1 /\ order[m] \in Nat
      <4>1. TAKE m \in 1 .. length
      <4>2. order[m] \in DOMAIN worker.vecs /\ share[m] = worker.vecs[order[m]]
        BY <1>9
      <4>3. order[m] \in Nat
        BY <1>7, <4>2
      <4>. QED
        BY <1>7, <4>2, <4>3
    <3>. QED
      <4>1. TAKE m, n \in 1 .. length
      <4>2. HAVE Vid(share[m]) = Vid(share[n])
      <4>3. PICK x, y : x = order[m] /\ y = order[n]
        OBVIOUS
      <4>4. x \in Nat /\ y \in Nat /\ indexed_count_ + x - 1 = indexed_count_ + y - 1
        BY <3>1, <4>2, <4>3
      <4>5. indexed_count_ \in Nat
        BY <1>7
      <4>. QED
        BY <4>3, <4>4, <4>5
  <2>. QED
    BY <1>9, <2>2, <2>3, <2>4, <2>5
<1>11. /\ worker' \in Rounds /\ worker'.pc = "add" /\ worker'.vecs = worker.vecs /\ worker'.next = b + 1
       /\ worker'.todo = worker.todo /\ worker'.batches = worker.batches /\ worker'.total = worker.total
       /\ filling' \in Fills /\ filling'.step = "room" /\ filling'.bucket = b /\ filling'.vecs = share
  <2>1. b + 1 \in Nat /\ worker \in Rounds
    BY <1>7, <1>8
  <2>2. /\ worker' \in Rounds /\ worker'.pc = "add" /\ worker'.vecs = worker.vecs /\ worker'.next = b + 1
        /\ worker'.todo = worker.todo /\ worker'.batches = worker.batches /\ worker'.total = worker.total
    BY <1>5, <2>1 DEF Rounds
  <2>3. filling' \in Fills /\ filling'.step = "room" /\ filling'.bucket = b /\ filling'.vecs = share
    BY <1>5, <1>8, <1>9 DEF Fills
  <2>. QED
    BY <2>2, <2>3
<1>12. Shaped'
  <2>1. ListsTyped'
    BY <1>5 DEF Shaped, ListsTyped
  <2>2. CallerTyped'
    BY <1>5 DEF Shaped, CallerTyped, Stored
  <2>3. WorkerTyped'
    <3>1. BatchCount' = BatchCount
      BY <1>5, <1>11 DEF BatchCount
    <3>. QED
      BY <1>5, <1>11, <3>1 DEF Shaped, WorkerTyped
  <2>4. FillingTyped'
    <3>1. FillsShare(b, share)'
      BY <1>10, <1>11 DEF FillsShare
    <3>2. FillsShare(filling.bucket, filling.vecs)'
      BY <1>11, <3>1 DEF FillsShare
    <3>. QED
      BY <1>5, <1>10, <1>11, <3>2 DEF FillingTyped
  <2>5. PackingTyped'
    BY <1>5 DEF PackingTyped
  <2>6. ListsEnd'
    <3>1. /\ \A c : ~Filled(c)' /\ ~Filled(c)
          /\ \A c, steps : Packed(c, steps)' <=> Packed(c, steps)
      BY <1>5, <1>11 DEF Filled, Packed, NotFilling
    <3>. QED
      BY <1>5, <3>1 DEF Shaped, ListsEnd
  <2>. QED
    BY <2>1, <2>2, <2>3, <2>4, <2>5, <2>6 DEF Shaped
<1>13. ASSUME Sound
       PROVE  Sound'
  <2>1. \A v : ~Moving(v) /\ ~Moving(v)' /\ (ToDo(v)' <=> ToDo(v)) /\ (Queued(v)' <=> Queued(v))
               /\ ~Updating(v)'
    BY <1>5, <1>11 DEF Moving, ToDo, Queued, Updating
  <2>2. \A v : Added(v)' <=> Added(v)
    <3>1. \A v : Added(v) <=> \E k \in DOMAIN worker.vecs :
                                Vid(worker.vecs[k]) = v /\ Bucket[worker.vecs[k]] < worker.next
      BY <1>5 DEF Added, NotFilling
    <3>2. \A v : Added(v)' <=> \E k \in DOMAIN worker.vecs :
                                Vid(worker.vecs[k]) = v /\ Bucket[worker.vecs[k]] < b + 1
                                  /\ Bucket[worker.vecs[k]] # b
      BY <1>11 DEF Added, Vid
    <3>3. \A k \in DOMAIN worker.vecs : Bucket[worker.vecs[k]] < b + 1 /\ Bucket[worker.vecs[k]] # b
                                          <=> Bucket[worker.vecs[k]] < worker.next
      <4>1. TAKE k \in DOMAIN worker.vecs
      <4>2. PICK c : c = Bucket[worker.vecs[k]]
        OBVIOUS
      <4>3. c \in Nat /\ (c < b <=> c < worker.next)
        BY <1>7, <1>8, <4>2
      <4>4. b \in Nat
        BY <1>8
      <4>5. c < b + 1 /\ c # b <=> c < b
        BY <4>3, <4>4
      <4>. QED
        BY <4>2, <4>3, <4>5
    <3>. QED
      BY <3>1, <3>2, <3>3
  <2>3. \A v : Wanted(v)' => Wanted(v)
    BY <1>5, <2>1, <2>2 DEF Wanted
  <2>4. Flight' = Flight
    <3>1. Flight = {worker.vecs[k] : k \in DOMAIN worker.vecs}
      BY <1>5 DEF Flight, NotFilling
    <3>2. Flight' = {worker.vecs[k] : k \in DOMAIN worker.vecs} \cup {share[n] : n \in DOMAIN share}
      BY <1>11 DEF Flight
    <3>. QED
      BY <1>10, <3>1, <3>2
  <2>5. FlightIsNew'
    <3>1. \A v : Current(v)' = Current(v)
      BY <1>5 DEF Current
    <3>2. \A vec \in Flight : vec = Current(Vid(vec)) \/ Queued(Vid(vec))
      BY <1>5, <1>13 DEF Sound, FlightIsNew
    <3>. QED
      BY <2>1, <2>4, <3>1, <3>2 DEF FlightIsNew, Vid
  <2>6. AddedHaveCodes'
    <3>1. \A k \in DOMAIN worker.vecs : HasCode(worker.vecs[k])
      BY <1>5, <1>13 DEF Sound, AddedHaveCodes
    <3>2. \A vec : HasCode(vec)' <=> HasCode(vec)
      BY <1>5, KeptListings
    <3>. QED
      BY <1>11, <3>1, <3>2 DEF AddedHaveCodes
  <2>7. ListedAreFresh'
    <3>1. SUFFICES ASSUME NEW v \in Vids, v < indexed_count_, v \notin deleted
                   PROVE  Fresh(v)' \/ Queued(v)' \/ ToDo(v)' \/ Current(v)' \in Flight'
      BY <1>5 DEF ListedAreFresh
    <3>2. Fresh(v) \/ Queued(v) \/ ToDo(v) \/ Current(v) \in Flight
      BY <1>13, <3>1 DEF Sound, ListedAreFresh
    <3>3. /\ Current(v)' = Current(v)
          /\ \A c, i : ListedAt(v, c, i)' <=> ListedAt(v, c, i)
          /\ \A c : CodesOf(c)' = CodesOf(c)
      BY <1>5, KeptListings DEF Current
    <3>. QED
      BY <2>1, <2>4, <3>2, <3>3 DEF Fresh
  <2>. QED
    BY <1>5, <1>13, <2>1, <2>2, <2>3, <2>5, <2>6, <2>7, KeptListsAreSound
<1>. QED
  BY <1>5, <1>6, <1>12, <1>13

\* The vectors of the batch are counted as indexed: all were added.
LEMMA EndBatchStep ==
  ASSUME IInv, EndBatch
  PROVE  IInv'
<1>. USE DEF IInv
<1>1. /\ Shaped /\ (Claimed => Sound) /\ worker.pc = "add" /\ WriterFree /\ BucketsLeft = {}
      /\ indexed_count_' = indexed_count_ + Len(worker.vecs)
      /\ worker' = [worker EXCEPT !.pc = "batch", !.batches = worker.batches - 1, !.vecs = << >>]
      /\ UNCHANGED <<bucketVars, storeVars, caller>>
      /\ updated_vids_' = updated_vids_ /\ raw' = raw /\ caller' = caller /\ deleted' = deleted
      /\ ListsKept /\ filling = NotFilling /\ packing = NotPacking /\ filling' = NotFilling
  BY DEF EndBatch, Free, storeVars, bucketVars, ListsKept, WriterFree
<1>2. Claimed' => Claimed
  BY DEF EndBatch, Claimed, history
<1>3. /\ worker \in Rounds /\ worker.vecs \in Seq(Vectors) /\ worker.batches \in Nat \ {0}
      /\ worker.total \in Nat /\ worker.next \in Nat /\ worker.todo = << >>
      /\ DOMAIN worker.vecs = 1 .. Len(worker.vecs) /\ Len(worker.vecs) \in Nat
      /\ indexed_count_ \in Nat /\ Len(raw) \in Nat /\ BatchSize \in Nat \ {0}
      /\ Len(worker.vecs) = BatchCount
      /\ worker.total <= Len(raw)
      /\ indexed_count_ + (worker.batches - 1) * BatchSize <= worker.total
      /\ indexed_count_ + Len(worker.vecs) <= Len(raw)
  <2>1. /\ worker.batches > 0 /\ Len(worker.vecs) = BatchCount /\ worker.total <= Len(raw)
        /\ indexed_count_ + (worker.batches - 1) * BatchSize <= worker.total
    BY <1>1 DEF Shaped, WorkerTyped
  <2>. QED
    BY <1>1, <2>1, WorkerTypes, CallerTypes, Bounds, FlightIsStored
<1>4. /\ \A k \in DOMAIN worker.vecs : Vid(worker.vecs[k]) = indexed_count_ + k - 1
      /\ \A k \in DOMAIN worker.vecs : Bucket[worker.vecs[k]] \in Buckets /\ Bucket[worker.vecs[k]] \in Nat
                                       /\ Vid(worker.vecs[k]) \in Nat
  BY <1>1, <1>3, MembersOfBatch DEF Shaped, WorkerTyped
<1>5. \A k \in DOMAIN worker.vecs : Added(Vid(worker.vecs[k]))
  <2>1. \A k \in DOMAIN worker.vecs : ~(Bucket[worker.vecs[k]] >= worker.next)
    BY <1>1, <1>4 DEF BucketsLeft
  <2>2. \A k \in DOMAIN worker.vecs : Bucket[worker.vecs[k]] < worker.next
    <3>1. TAKE k \in DOMAIN worker.vecs
    <3>2. PICK c, next : c = Bucket[worker.vecs[k]] /\ next = worker.next
      OBVIOUS
    <3>3. c \in Nat /\ next \in Nat /\ ~(c >= next)
      BY <1>3, <1>4, <2>1, <3>2, Zenon
    <3>. QED
      BY <3>2, <3>3
  <2>. QED
    BY <1>1, <2>2 DEF Added, NotFilling
<1>6. /\ worker' \in Rounds /\ worker'.pc = "batch" /\ worker'.todo = << >> /\ worker'.vecs = << >>
      /\ worker'.batches = worker.batches - 1 /\ worker'.total = worker.total
  <2>1. worker.batches - 1 \in Nat /\ << >> \in Seq(Vectors)
    <3>1. PICK n : n = worker.batches
      OBVIOUS
    <3>2. n \in Nat \ {0}
      BY <1>3, <3>1, Zenon
    <3>3. n - 1 \in Nat
      BY <3>2
    <3>. QED
      BY <3>1, <3>3
  <2>. QED
    BY <1>1, <1>3, <2>1 DEF Rounds
<1>7. WorkerTyped'
  <2>1. ASSUME worker.batches - 1 > 0
        PROVE  indexed_count_' + (worker.batches - 1 - 1) * BatchSize <= worker.total
    <3>1. /\ (worker.batches - 1) * BatchSize = (worker.batches - 1 - 1) * BatchSize + BatchSize
          /\ (worker.batches - 1 - 1) * BatchSize \in Nat
      <4>1. worker.batches \in Nat \ {0} /\ worker.batches > 1 /\ BatchSize \in Nat
        BY <1>3, <2>1
      <4>. QED
        BY <4>1, OneBatchLess
    <3>2. Len(worker.vecs) = BatchSize
      BY <1>3, <2>1 DEF BatchCount
    <3>3. PICK held : held = (worker.batches - 1 - 1) * BatchSize
      OBVIOUS
    <3>4. PICK all : all = (worker.batches - 1) * BatchSize
      OBVIOUS
    <3>5. all = held + BatchSize /\ held \in Nat /\ indexed_count_ + all <= worker.total
      BY <1>3, <3>1, <3>3, <3>4
    <3>6. indexed_count_' + held <= worker.total
      BY <1>1, <1>3, <3>2, <3>5
    <3>. QED
      BY <3>3, <3>6
  <2>. QED
    BY <1>1, <1>3, <1>6, <2>1 DEF WorkerTyped
<1>8. Shaped'
  <2>1. indexed_count_' \in 0 .. Len(raw)
    BY <1>1, <1>3
  <2>. QED
    BY <1>1, <1>7, <2>1, CallerTypes, FreeStepsKeepShape
<1>9. ASSUME Sound
      PROVE  Sound'
  <2>1. \A v : /\ ~Moving(v) /\ ~Moving(v)' /\ ~Added(v)' /\ ~ToDo(v) /\ ~ToDo(v)' /\ ~Updating(v)'
               /\ (Queued(v)' <=> Queued(v))
    BY <1>1, <1>3, <1>6 DEF Moving, Added, ToDo, Updating, Queued
  <2>2. \A v \in Vids : v < indexed_count_' => v < indexed_count_ \/ (v >= indexed_count_ /\ \E k \in DOMAIN worker.vecs : Vid(worker.vecs[k]) = v)
    <3>1. SUFFICES ASSUME NEW v \in Vids, v < indexed_count_ + Len(worker.vecs), ~(v < indexed_count_)
                   PROVE  v >= indexed_count_ /\ \E k \in DOMAIN worker.vecs : Vid(worker.vecs[k]) = v
      BY <1>1
    <3>2. v \in Nat
      BY Bounds
    <3>3. v >= indexed_count_ /\ v - indexed_count_ + 1 \in 1 .. Len(worker.vecs)
      BY <1>3, <3>1, <3>2
    <3>4. Vid(worker.vecs[v - indexed_count_ + 1]) = v
      <4>1. PICK k \in DOMAIN worker.vecs : k = v - indexed_count_ + 1
        BY <1>3, <3>3
      <4>2. Vid(worker.vecs[k]) = indexed_count_ + k - 1
        BY <1>3, <1>4
      <4>3. indexed_count_ + k - 1 = v
        BY <1>3, <3>2, <4>1
      <4>. QED
        BY <4>1, <4>2, <4>3
    <3>. QED
      BY <1>3, <3>3, <3>4
  <2>3. \A v \in Vids : Wanted(v)' => Wanted(v)
    <3>1. \A v \in Vids : Wanted(v)' => v < indexed_count_' /\ v \notin deleted
      BY <1>1, <2>1 DEF Wanted
    <3>. QED
      BY <1>5, <2>2, <3>1 DEF Wanted
  <2>4. \A v \in Vids : v >= indexed_count_' => v >= indexed_count_ /\ ~Added(v)
    <3>1. SUFFICES ASSUME NEW v \in Vids, v >= indexed_count_ + Len(worker.vecs)
                   PROVE  v >= indexed_count_ /\ ~Added(v)
      BY <1>1
    <3>2. v \in Nat
      BY Bounds
    <3>3. \A k \in DOMAIN worker.vecs : Vid(worker.vecs[k]) < v
      BY <1>3, <1>4, <3>1, <3>2
    <3>4. \A k \in DOMAIN worker.vecs : Vid(worker.vecs[k]) # v
      BY <1>4, <3>2, <3>3
    <3>. QED
      BY <1>3, <3>1, <3>2, <3>4 DEF Added
  <2>5. FlightIsNew' /\ AddedHaveCodes'
    BY <1>1, <1>6 DEF FlightIsNew, AddedHaveCodes, NotFilling
  <2>6. ListedAreFresh'
    <3>1. SUFFICES ASSUME NEW v \in Vids, v < indexed_count_', v \notin deleted
                   PROVE  Fresh(v)' \/ Queued(v)'
      BY <1>1 DEF ListedAreFresh
    <3>2. Current(v)' = Current(v) /\ (Fresh(v) => Fresh(v)')
      <4>1. /\ Current(v)' = Current(v)
            /\ \A c, i : ListedAt(v, c, i)' <=> ListedAt(v, c, i)
            /\ \A c : CodesOf(c)' = CodesOf(c)
        BY <1>1, KeptListings DEF Current
      <4>. QED
        BY <4>1 DEF Fresh
    <3>3. CASE v < indexed_count_
      <4>1. Fresh(v) \/ Queued(v) \/ Current(v) \in Flight
        BY <1>9, <2>1, <3>1, <3>3 DEF Sound, ListedAreFresh
      <4>2. Current(v) \notin Flight
        <5>1. \A vec \in Flight : Vid(vec) >= indexed_count_ /\ Vid(vec) \in Vids
          BY <1>1, FlightIsStored
        <5>2. Vid(Current(v)) = v /\ v \in Nat
          BY <1>1, CurrentIsVector, Bounds
        <5>. QED
          BY <1>3, <3>3, <5>1, <5>2
      <4>. QED
        BY <2>1, <3>2, <4>1, <4>2
    <3>4. CASE \E k \in DOMAIN worker.vecs : Vid(worker.vecs[k]) = v
      <4>1. PICK k \in DOMAIN worker.vecs : Vid(worker.vecs[k]) = v
        BY <3>4
      <4>2. Listed(v)
        <5>1. Wanted(v)
          BY <1>5, <4>1 DEF Wanted
        <5>. QED
          BY <1>9, <2>1, <5>1 DEF Sound, WantedAreListed
      <4>3. PICK c \in Buckets, i \in Positions : ListedAt(v, c, i)
        BY <4>2 DEF Listed
      <4>4. codes[c][i] = worker.vecs[k]
        <5>1. HasCode(worker.vecs[k])
          BY <1>1, <1>9 DEF Sound, AddedHaveCodes
        <5>. QED
          BY <4>1, <4>3, <5>1 DEF HasCode
      <4>5. worker.vecs[k] = Current(v) \/ Queued(v)
        <5>1. worker.vecs[k] \in Flight
          BY <1>1, FlightIsStored
        <5>. QED
          BY <1>1, <1>9, <4>1, <5>1 DEF Sound, FlightIsNew
      <4>6. CodesOf(c) = codes[c]
        BY <1>1 DEF CodesOf, Packed, NotPacking
      <4>7. worker.vecs[k] = Current(v) => Fresh(v)
        BY <4>3, <4>4, <4>6 DEF Fresh
      <4>. QED
        BY <2>1, <3>2, <4>5, <4>7
    <3>. QED
      BY <2>2, <3>1, <3>3, <3>4
  <2>. QED
    BY <1>1, <1>9, <2>1, <2>3, <2>4, <2>5, <2>6, KeptListsAreSound
<1>. QED
  BY <1>1, <1>2, <1>8, <1>9

\* A refused batch or move: the next batch begins at the same vector, and
\* nothing more is claimed.
LEMMA RefusedStep ==
  ASSUME IInv, Refused
  PROVE  IInv'
<1>. USE DEF IInv
<1>1. /\ Shaped /\ filling.step = "room" /\ filling' = NotFilling
      /\ ids' = ids /\ codes' = codes /\ size' = size /\ capacity' = capacity /\ place' = place
      /\ dead' = dead /\ deleted' = deleted /\ packing' = packing
      /\ raw' = raw /\ gone' = gone /\ caller' = caller
      /\ indexed_count_' = indexed_count_ /\ updated_vids_' = updated_vids_
      /\ \/ worker.pc = "add" /\ worker' = [worker EXCEPT !.pc = "batch", !.batches = worker.batches - 1,
                                                          !.vecs = << >>, !.failed = TRUE]
         \/ worker.pc # "add" /\ worker' = worker
  BY DEF Refused, RefuseKeys, storeVars
<1>2. ~Claimed'
  BY DEF Refused, Claimed
<1>3. filling # NotFilling /\ packing = NotPacking /\ worker.pc \in {"add", "update"}
  <2>1. filling # NotFilling
    BY <1>1 DEF NotFilling
  <2>. QED
    BY <1>1, <2>1 DEF Shaped, FillingTyped
<1>4. WorkerTyped'
  <2>1. CASE worker.pc # "add"
    <3>1. worker' = worker /\ BatchCount' = BatchCount
      BY <1>1, <2>1 DEF BatchCount
    <3>. QED
      BY <1>1, <3>1 DEF Shaped, WorkerTyped
  <2>2. CASE worker.pc = "add"
    <3>1. /\ worker \in Rounds /\ worker.batches \in Nat \ {0} /\ worker.total \in Nat /\ worker.todo = << >>
          /\ indexed_count_ \in Nat /\ BatchSize \in Nat \ {0} /\ worker.total <= Len(raw) /\ Len(raw) \in Nat
          /\ indexed_count_ + (worker.batches - 1) * BatchSize <= worker.total
      <4>1. /\ worker.batches > 0 /\ worker.total <= Len(raw)
            /\ indexed_count_ + (worker.batches - 1) * BatchSize <= worker.total
        BY <2>2 DEF Shaped, WorkerTyped
      <4>. QED
        BY <1>1, <2>2, <4>1, WorkerTypes, CallerTypes, Bounds
    <3>2. /\ worker' \in Rounds /\ worker'.pc = "batch" /\ worker'.todo = << >> /\ worker'.vecs = << >>
          /\ worker'.batches = worker.batches - 1 /\ worker'.total = worker.total
      <4>1. worker.batches - 1 \in Nat /\ << >> \in Seq(Vectors)
        BY <3>1
      <4>. QED
        BY <1>1, <2>2, <3>1, <4>1 DEF Rounds
    <3>3. ASSUME worker.batches - 1 > 0
          PROVE  indexed_count_ + (worker.batches - 1 - 1) * BatchSize <= worker.total
      <4>1. worker.batches \in Nat \ {0} /\ worker.batches > 1 /\ BatchSize \in Nat
        BY <3>1, <3>3
      <4>2. /\ (worker.batches - 1) * BatchSize = (worker.batches - 1 - 1) * BatchSize + BatchSize
            /\ (worker.batches - 1 - 1) * BatchSize \in Nat
        BY <4>1, OneBatchLess
      <4>3. PICK held : held = (worker.batches - 1 - 1) * BatchSize
        OBVIOUS
      <4>4. PICK all : all = (worker.batches - 1) * BatchSize
        OBVIOUS
      <4>5. indexed_count_ + all <= worker.total
        BY <3>1, <4>4
      <4>6. all = held + BatchSize /\ held \in Nat
        BY <4>2, <4>3, <4>4
      <4>7. indexed_count_ + held <= worker.total
        BY <3>1, <4>1, <4>5, <4>6
      <4>. QED
        BY <4>3, <4>7
    <3>. QED
      BY <1>1, <3>1, <3>2, <3>3 DEF WorkerTyped
  <2>. QED
    BY <2>1, <2>2
<1>5. ListsTyped' /\ CallerTyped'
  BY <1>1 DEF Shaped, ListsTyped, CallerTyped, Stored
<1>6. FillingTyped' /\ PackingTyped'
  BY <1>1, <1>3 DEF FillingTyped, PackingTyped
<1>7. ListsEnd'
  <2>1. /\ \A b : ~Filled(b)' /\ ~Filled(b)
        /\ \A b, steps : Packed(b, steps)' <=> Packed(b, steps)
    BY <1>1 DEF Filled, Packed, NotFilling
  <2>. QED
    BY <1>1, <2>1 DEF Shaped, ListsEnd
<1>. QED
  BY <1>2, <1>4, <1>5, <1>6, <1>7 DEF Shaped

-----------------------------------------------------------------------------
(* AddKeys. *)

\* What is being filled.
LEMMA FillingTypes ==
  ASSUME Shaped, filling.step \in {"room", "fill", "publish"}
  PROVE  /\ filling # NotFilling /\ filling \in Fills /\ filling.bucket \in Buckets
         /\ filling.vecs \in Seq(Vectors) /\ Len(filling.vecs) \in Nat
         /\ DOMAIN filling.vecs = 1 .. Len(filling.vecs)
         /\ packing = NotPacking /\ worker.pc \in {"add", "update"}
         /\ size[filling.bucket] \in Nat /\ capacity[filling.bucket] \in Nat /\ Needed \in Nat
         /\ size[filling.bucket] <= Needed
         /\ Needed = size[filling.bucket] + Len(filling.vecs)
         /\ size \in [Buckets -> Nat] /\ capacity \in [Buckets -> Nat]
         /\ ids \in [Buckets -> Seq(EntryType)] /\ codes \in [Buckets -> Seq(Vectors)]
         /\ \A b, steps : ~Packed(b, steps) \/ steps \notin {{"codes"}, {"size"}, {"codes", "size"}}
         /\ \A b \in Buckets : size[b] <= capacity[b]
<1>1. filling # NotFilling
  BY DEF NotFilling
<1>2. filling \in Fills /\ packing = NotPacking /\ worker.pc \in {"add", "update"}
  BY <1>1 DEF Shaped, FillingTyped
<1>3. /\ filling.bucket \in Buckets /\ filling.vecs \in Seq(Vectors)
      /\ Len(filling.vecs) \in Nat /\ DOMAIN filling.vecs = 1 .. Len(filling.vecs)
  BY <1>2 DEF Fills
<1>4. /\ size \in [Buckets -> Nat] /\ capacity \in [Buckets -> Nat]
      /\ ids \in [Buckets -> Seq(EntryType)] /\ codes \in [Buckets -> Seq(Vectors)]
  BY DEF Shaped, ListsTyped
<1>5. size[filling.bucket] \in Nat /\ capacity[filling.bucket] \in Nat
  BY <1>3, <1>4
<1>6. \A b, steps : ~Packed(b, steps) \/ steps \notin {{"codes"}, {"size"}, {"codes", "size"}}
  BY <1>2 DEF Packed, NotPacking
<1>. QED
  BY <1>1, <1>2, <1>3, <1>4, <1>5, <1>6 DEF Needed, Shaped, ListsEnd

\* A bucket grows: searches that read its ids keep them.
LEMMA GrowBucketStep ==
  ASSUME IInv, GrowBucket, UNCHANGED loopVars
  PROVE  IInv'
<1>. USE DEF IInv
<1>1. PICK c \in Needed .. (Needed + Slack) : capacity' = [capacity EXCEPT ![filling.bucket] = c]
  BY DEF GrowBucket
<1>2. /\ Shaped /\ (Claimed => Sound) /\ filling.step = "room" /\ filling' = [filling EXCEPT !.step = "fill"]
      /\ ids' = ids /\ codes' = codes /\ size' = size /\ place' = place
      /\ dead' = dead /\ deleted' = deleted /\ packing' = packing
      /\ raw' = raw /\ gone' = gone /\ caller' = caller /\ worker' = worker
      /\ indexed_count_' = indexed_count_ /\ updated_vids_' = updated_vids_
      /\ history' = history /\ ListsKept
  BY DEF GrowBucket, loopVars, storeVars, ListsKept
<1>3. Claimed' => Claimed
  BY <1>2 DEF Claimed, history
<1>4. /\ filling # NotFilling /\ filling \in Fills /\ filling.bucket \in Buckets
      /\ packing = NotPacking /\ capacity \in [Buckets -> Nat] /\ Needed \in Nat
      /\ size[filling.bucket] \in Nat /\ size[filling.bucket] <= Needed
  BY <1>2, FillingTypes
<1>5. /\ filling' \in Fills /\ filling'.step = "fill" /\ filling'.bucket = filling.bucket
      /\ filling'.vecs = filling.vecs
  BY <1>2, <1>4 DEF Fills
<1>6. c \in Nat /\ c >= Needed /\ capacity' \in [Buckets -> Nat] /\ capacity'[filling.bucket] = c
      /\ \A b \in Buckets : b # filling.bucket => capacity'[b] = capacity[b]
  BY <1>1, <1>4, Bounds
<1>7. Needed' = Needed
  BY <1>2, <1>5 DEF Needed
<1>8. Shaped'
  <2>1. ListsTyped'
    BY <1>2, <1>6 DEF Shaped, ListsTyped
  <2>2. CallerTyped'
    BY <1>2 DEF Shaped, CallerTyped, Stored
  <2>3. WorkerTyped'
    <3>1. BatchCount' = BatchCount
      BY <1>2 DEF BatchCount
    <3>. QED
      BY <1>2, <3>1 DEF Shaped, WorkerTyped
  <2>4. FillingTyped'
    <3>1. FillsShare(filling.bucket, filling.vecs)' <=> FillsShare(filling.bucket, filling.vecs)
      BY <1>2, <1>5 DEF FillsShare
    <3>2. Needed' <= capacity'[filling'.bucket]
      BY <1>4, <1>5, <1>6, <1>7
    <3>. QED
      BY <1>2, <1>4, <1>5, <3>1, <3>2 DEF Shaped, FillingTyped
  <2>5. PackingTyped'
    BY <1>2, <1>4 DEF PackingTyped
  <2>6. ListsEnd'
    <3>1. /\ \A b : ~Filled(b)' /\ ~Filled(b)
          /\ \A b, steps : Packed(b, steps)' <=> Packed(b, steps)
      BY <1>2, <1>5 DEF Filled, Packed
    <3>2. \A b \in Buckets : size[b] <= capacity'[b]
      <4>1. \A b \in Buckets : size[b] <= capacity[b]
        BY <1>2, FillingTypes
      <4>. QED
        BY <1>4, <1>6, <4>1
    <3>. QED
      BY <1>2, <3>1, <3>2 DEF Shaped, ListsEnd
  <2>. QED
    BY <2>1, <2>2, <2>3, <2>4, <2>5, <2>6 DEF Shaped
<1>9. ASSUME Sound
      PROVE  Sound'
  <2>1. /\ \A v : Moving(v)' <=> Moving(v)
        /\ \A v : Added(v)' <=> Added(v)
        /\ \A v : (ToDo(v)' <=> ToDo(v)) /\ (Updating(v)' <=> Updating(v)) /\ (Queued(v)' <=> Queued(v))
        /\ \A v : Current(v)' = Current(v)
    BY <1>2, <1>5 DEF Moving, Added, ToDo, Updating, Queued, Current, Vid
  <2>2. \A v : Wanted(v)' <=> Wanted(v)
    BY <1>2, <2>1 DEF Wanted
  <2>3. Flight' = Flight
    BY <1>2, <1>5 DEF Flight
  <2>4. FlightIsNew'
    BY <1>2, <1>9, <2>1, <2>3, Zenon DEF Sound, FlightIsNew, Vid
  <2>5. /\ \A vec : HasCode(vec)' <=> HasCode(vec)
        /\ \A v, b, i : ListedAt(v, b, i)' <=> ListedAt(v, b, i)
        /\ \A b : CodesOf(b)' = CodesOf(b)
    BY <1>2, KeptListings
  <2>6. AddedHaveCodes'
    BY <1>2, <1>5, <1>9, <2>5 DEF Sound, AddedHaveCodes
  <2>7. ListedAreFresh'
    <3>1. \A v : Fresh(v)' <=> Fresh(v)
      BY <2>1, <2>5 DEF Fresh
    <3>. QED
      BY <1>2, <1>9, <2>1, <2>3, <3>1 DEF Sound, ListedAreFresh
  <2>. QED
    BY <1>2, <1>9, <2>1, <2>2, <2>4, <2>6, <2>7, KeptListsAreSound
<1>. QED
  BY <1>2, <1>3, <1>8, <1>9

\* The keys that were copied are published.
LEMMA PublishKeysStep ==
  ASSUME IInv, PublishKeys, UNCHANGED loopVars
  PROVE  IInv'
<1>. USE DEF IInv
<1>1. /\ Shaped /\ (Claimed => Sound) /\ filling.step = "publish" /\ filling' = NotFilling
      /\ size' = [size EXCEPT ![filling.bucket] = Needed]
      /\ ids' = ids /\ codes' = codes /\ capacity' = capacity /\ place' = place
      /\ dead' = dead /\ deleted' = deleted /\ packing' = packing
      /\ raw' = raw /\ gone' = gone /\ caller' = caller /\ worker' = worker
      /\ indexed_count_' = indexed_count_ /\ updated_vids_' = updated_vids_
      /\ history' = history /\ ListsKept
  BY DEF PublishKeys, loopVars, storeVars, ListsKept
<1>2. Claimed' => Claimed
  BY <1>1 DEF Claimed, history
<1>3. /\ filling # NotFilling /\ filling \in Fills /\ filling.bucket \in Buckets
      /\ packing = NotPacking /\ size \in [Buckets -> Nat] /\ capacity \in [Buckets -> Nat] /\ Needed \in Nat
      /\ filling.vecs \in Seq(Vectors)
      /\ worker.pc \in {"add", "update"}
  BY <1>1, FillingTypes
<1>4. Needed <= capacity[filling.bucket]
  BY <1>1, <1>3 DEF Shaped, FillingTyped
<1>5. /\ size' \in [Buckets -> Nat] /\ size'[filling.bucket] = Needed
      /\ \A b \in Buckets : b # filling.bucket => size'[b] = size[b]
  BY <1>1, <1>3
<1>6. Shaped'
  <2>1. ListsTyped'
    BY <1>1, <1>5 DEF Shaped, ListsTyped
  <2>2. CallerTyped'
    BY <1>1 DEF Shaped, CallerTyped, Stored
  <2>3. WorkerTyped'
    <3>1. BatchCount' = BatchCount
      BY <1>1 DEF BatchCount
    <3>. QED
      BY <1>1, <3>1 DEF Shaped, WorkerTyped
  <2>4. FillingTyped' /\ PackingTyped'
    BY <1>1, <1>3 DEF FillingTyped, PackingTyped
  <2>5. ListsEnd'
    <3>1. /\ \A b : ~Packed(b, {"codes", "size"}) /\ ~Packed(b, {"size"})
          /\ \A b : ~Packed(b, {"codes", "size"})' /\ ~Packed(b, {"size"})'
          /\ \A b : ~Filled(b)' /\ (Filled(b) <=> b = filling.bucket)
      BY <1>1, <1>3 DEF Packed, Filled, NotFilling, NotPacking
    <3>2. \A b \in Buckets : size'[b] <= capacity[b]
      BY <1>1, <1>3, <1>4, <1>5, FillingTypes
    <3>3. \A b \in Buckets : /\ Len(ids[b]) = IF b = filling.bucket THEN Needed ELSE size[b]
                             /\ Len(codes[b]) = IF b = filling.bucket THEN Needed ELSE size[b]
      BY <1>1, <3>1 DEF Shaped, ListsEnd
    <3>4. \A b \in Buckets : Len(ids[b]) = size'[b] /\ Len(codes[b]) = size'[b]
      BY <1>3, <1>5, <3>3
    <3>. QED
      BY <1>1, <3>1, <3>2, <3>4 DEF ListsEnd
  <2>. QED
    BY <2>1, <2>2, <2>3, <2>4, <2>5 DEF Shaped
<1>7. ASSUME Sound
      PROVE  Sound'
  <2>1. /\ \A v : ~Moving(v)' /\ ~Moving(v)
        /\ \A v : Added(v)' <=> Added(v)
        /\ \A v : (ToDo(v)' <=> ToDo(v)) /\ (Updating(v)' <=> Updating(v)) /\ (Queued(v)' <=> Queued(v))
        /\ \A v : Current(v)' = Current(v)
    BY <1>1 DEF Moving, Added, ToDo, Updating, Queued, Current, Vid, NotFilling
  <2>2. \A v : Wanted(v)' <=> Wanted(v)
    BY <1>1, <2>1 DEF Wanted
  <2>3. Flight' = {worker.vecs[k] : k \in DOMAIN worker.vecs} /\ Flight' \subseteq Flight
        /\ Flight = Flight' \cup {filling.vecs[n] : n \in DOMAIN filling.vecs}
    BY <1>1 DEF Flight, NotFilling
  <2>4. FlightIsNew'
    BY <1>1, <1>7, <2>1, <2>3, Zenon DEF Sound, FlightIsNew, Vid
  <2>5. /\ \A vec : HasCode(vec)' <=> HasCode(vec)
        /\ \A v, b, i : ListedAt(v, b, i)' <=> ListedAt(v, b, i)
        /\ \A b : CodesOf(b)' = CodesOf(b)
    BY <1>1, KeptListings
  <2>6. AddedHaveCodes'
    BY <1>1, <1>7, <2>5 DEF Sound, AddedHaveCodes, NotFilling
  <2>7. ListedAreFresh'
    <3>1. SUFFICES ASSUME NEW v \in Vids, v < indexed_count_, v \notin deleted
                   PROVE  Fresh(v) \/ Queued(v) \/ ToDo(v) \/ Current(v) \in Flight'
      BY <1>1, <2>1, <2>5 DEF ListedAreFresh, Fresh
    <3>2. Fresh(v) \/ Queued(v) \/ ToDo(v) \/ Current(v) \in Flight
      BY <1>7, <3>1 DEF Sound, ListedAreFresh
    <3>3. ASSUME NEW n \in DOMAIN filling.vecs, Current(v) = filling.vecs[n]
          PROVE  Fresh(v)
      <4>1. Listed(v)
        BY <1>7, <2>1, <3>1 DEF Sound, WantedAreListed, Wanted
      <4>2. PICK c \in Buckets, i \in Positions : ListedAt(v, c, i)
        BY <4>1 DEF Listed
      <4>3. HasCode(filling.vecs[n]) /\ Vid(filling.vecs[n]) = v
        BY <1>1, <1>7, <3>3, CurrentIsVector DEF Sound, AddedHaveCodes
      <4>4. codes[c][i] = Current(v)
        BY <3>3, <4>2, <4>3 DEF HasCode
      <4>5. CodesOf(c) = codes[c]
        BY <1>3 DEF CodesOf, Packed, NotPacking
      <4>. QED
        BY <4>2, <4>4, <4>5 DEF Fresh
    <3>. QED
      BY <2>3, <3>2, <3>3
  <2>. QED
    BY <1>1, <1>7, <2>1, <2>2, <2>4, <2>6, <2>7, KeptListsAreSound
<1>. QED
  BY <1>1, <1>2, <1>6, <1>7

\* A sequence that is extended by another.
Joined(s, t) == SubSeq(s, 1, Len(s)) \o t

\* It has the members of the two.
LEMMA Extended ==
  ASSUME NEW S, NEW s \in Seq(S), NEW t \in Seq(S)
  PROVE  /\ Joined(s, t) \in Seq(S)
         /\ Len(Joined(s, t)) = Len(s) + Len(t)
         /\ \A i \in 1 .. Len(s) : Joined(s, t)[i] = s[i]
<1>1. PICK r : r = SubSeq(s, 1, Len(s))
  OBVIOUS
<1>2. r \in Seq(S) /\ Len(r) = Len(s) /\ \A i \in 1 .. Len(s) : r[i] = s[i]
  BY <1>1
<1>3. Len(s) \in Nat /\ Len(t) \in Nat
  OBVIOUS
<1>4. r \o t \in Seq(S) /\ Len(r \o t) = Len(s) + Len(t)
  BY <1>2, <1>3
<1>5. \A i \in 1 .. Len(s) : (r \o t)[i] = r[i]
  BY <1>2, <1>3
<1>. QED
  BY <1>1, <1>2, <1>4, <1>5 DEF Joined

\* The other sequence follows.
LEMMA ExtendedBy ==
  ASSUME NEW S, NEW s \in Seq(S), NEW t \in Seq(S), NEW k \in 1 .. Len(t)
  PROVE  Joined(s, t)[Len(s) + k] = t[k]
<1>1. PICK r : r = SubSeq(s, 1, Len(s))
  OBVIOUS
<1>2. r \in Seq(S) /\ Len(r) = Len(s)
  BY <1>1
<1>3. Len(s) \in Nat /\ Len(t) \in Nat
  OBVIOUS
<1>4. (r \o t)[Len(s) + k] = t[k]
  BY <1>2, <1>3
<1>. QED
  BY <1>1, <1>4 DEF Joined

\* The vector is among those AddKeys copies, at position k.
Copied(v, k) == k \in DOMAIN filling.vecs /\ Vid(filling.vecs[k]) = v

\* What FillKeys does to the arrays of its bucket, the places and the counts.
LEMMA FillKeysArrays ==
  ASSUME Shaped, FillKeys
  PROVE  /\ ids' \in [Buckets -> Seq(EntryType)] /\ codes' \in [Buckets -> Seq(Vectors)]
         /\ place' \in [Vids -> {NoPlace} \cup (Buckets \X Positions)]
         /\ dead' \in [Buckets -> Nat]
         /\ Len(ids[filling.bucket]) = size[filling.bucket] /\ Len(codes[filling.bucket]) = size[filling.bucket]
         /\ Len(ids'[filling.bucket]) = Needed /\ Len(codes'[filling.bucket]) = Needed
         /\ \A c \in Buckets : c # filling.bucket => ids'[c] = ids[c] /\ codes'[c] = codes[c]
         /\ \A i \in 1 .. size[filling.bucket] : /\ ids'[filling.bucket][i] = ids[filling.bucket][i]
                                                 /\ codes'[filling.bucket][i] = codes[filling.bucket][i]
         /\ \A k \in DOMAIN filling.vecs :
              /\ ids'[filling.bucket][size[filling.bucket] + k] = Entry(Vid(filling.vecs[k]))
              /\ codes'[filling.bucket][size[filling.bucket] + k] = filling.vecs[k]
         /\ \A v \in Vids : (\A k : ~Copied(v, k)) => place'[v] = place[v]
         /\ \A v \in Vids : \A k : Copied(v, k) => place'[v] = <<filling.bucket, size[filling.bucket] + k>>
<1>1. PICK b : b = filling.bucket
  OBVIOUS
<1>2. PICK vecs : vecs = filling.vecs
  OBVIOUS
<1>3. PICK n : n = size[b]
  OBVIOUS
<1>4. PICK added : added = [k \in DOMAIN vecs |-> Entry(Vid(vecs[k]))]
  OBVIOUS
<1>5. PICK new : new = {Vid(vecs[k]) : k \in DOMAIN vecs}
  OBVIOUS
<1>6. /\ filling.step \in {"room", "fill"}
      /\ ids' = [ids EXCEPT ![b] = SubSeq(ids[b], 1, n) \o added]
      /\ codes' = [codes EXCEPT ![b] = SubSeq(codes[b], 1, n) \o vecs]
      /\ place' = [v \in Vids |-> IF v \in new
                                  THEN <<b, n + CHOOSE k \in DOMAIN vecs : Vid(vecs[k]) = v>>
                                  ELSE place[v]]
      /\ dead' = [dead EXCEPT ![b] = dead[b] + Cardinality(new \cap deleted)]
  BY <1>1, <1>2, <1>3, <1>4, <1>5 DEF FillKeys
<1>7. /\ filling # NotFilling /\ b \in Buckets /\ vecs \in Seq(Vectors) /\ Len(vecs) \in Nat
      /\ DOMAIN vecs = 1 .. Len(vecs) /\ n \in Nat /\ Needed = n + Len(vecs)
      /\ ids \in [Buckets -> Seq(EntryType)] /\ codes \in [Buckets -> Seq(Vectors)]
      /\ packing = NotPacking
  BY <1>1, <1>2, <1>3, <1>6, FillingTypes
<1>8. /\ \A k \in DOMAIN vecs : Vid(vecs[k]) \in Vids
      /\ \A i, k \in DOMAIN vecs : Vid(vecs[i]) = Vid(vecs[k]) => i = k
  <2>1. \A k \in DOMAIN vecs : Vid(vecs[k]) \in Vids
    BY <1>7, MembersOfBatch
  <2>. QED
    BY <1>2, <1>7, <2>1 DEF Shaped, FillingTyped
<1>9. /\ added \in Seq(EntryType) /\ Len(added) = Len(vecs)
      /\ \A k \in DOMAIN vecs : added[k] = Entry(Vid(vecs[k]))
  <2>1. \A v \in Vids : Entry(v) \in EntryType
    BY DEF Entry, EntryType
  <2>2. added \in [1 .. Len(vecs) -> EntryType]
    BY <1>4, <1>7, <1>8, <2>1
  <2>3. added \in Seq(EntryType) /\ Len(added) = Len(vecs)
    BY <1>4, <1>7, <2>2
  <2>. QED
    BY <1>4, <2>3
<1>10. ids[b] \in Seq(EntryType) /\ Len(ids[b]) = n /\ codes[b] \in Seq(Vectors) /\ Len(codes[b]) = n
  <2>1. ~Packed(b, {"codes", "size"}) /\ ~Packed(b, {"size"}) /\ ~Filled(b)
    BY <1>6, <1>7 DEF Packed, Filled, NotPacking
  <2>. QED
    BY <1>3, <1>7, <2>1 DEF Shaped, ListsEnd
<1>11. PICK moreIds : moreIds = SubSeq(ids[b], 1, n) \o added
  OBVIOUS
<1>12. PICK moreCodes : moreCodes = SubSeq(codes[b], 1, n) \o vecs
  OBVIOUS
<1>13. /\ moreIds \in Seq(EntryType) /\ Len(moreIds) = n + Len(vecs)
       /\ \A i \in 1 .. n : moreIds[i] = ids[b][i]
       /\ \A k \in DOMAIN vecs : moreIds[n + k] = Entry(Vid(vecs[k]))
  <2>1. ids[b] \in Seq(EntryType) /\ added \in Seq(EntryType) /\ n = Len(ids[b])
    BY <1>9, <1>10
  <2>2. /\ moreIds \in Seq(EntryType) /\ Len(moreIds) = n + Len(added)
        /\ \A i \in 1 .. n : moreIds[i] = ids[b][i]
        /\ \A k \in 1 .. Len(added) : moreIds[n + k] = added[k]
    <3>1. moreIds = Joined(ids[b], added)
      BY <1>11, <2>1 DEF Joined
    <3>2. /\ Joined(ids[b], added) \in Seq(EntryType)
          /\ Len(Joined(ids[b], added)) = Len(ids[b]) + Len(added)
          /\ \A i \in 1 .. Len(ids[b]) : Joined(ids[b], added)[i] = ids[b][i]
          /\ \A k \in 1 .. Len(added) : Joined(ids[b], added)[Len(ids[b]) + k] = added[k]
      <4>1. ids[b] \in Seq(EntryType) /\ added \in Seq(EntryType)
        BY <1>7, <2>1
      <4>2. /\ Joined(ids[b], added) \in Seq(EntryType)
            /\ Len(Joined(ids[b], added)) = Len(ids[b]) + Len(added)
            /\ \A i \in 1 .. Len(ids[b]) : Joined(ids[b], added)[i] = ids[b][i]
        BY <4>1, Extended
      <4>3. \A k \in 1 .. Len(added) : Joined(ids[b], added)[Len(ids[b]) + k] = added[k]
        BY <4>1, ExtendedBy
      <4>. QED
        BY <4>2, <4>3
    <3>. QED
      BY <2>1, <3>1, <3>2
  <2>. QED
    BY <1>7, <1>9, <2>2
<1>14. /\ moreCodes \in Seq(Vectors) /\ Len(moreCodes) = n + Len(vecs)
       /\ \A i \in 1 .. n : moreCodes[i] = codes[b][i]
       /\ \A k \in DOMAIN vecs : moreCodes[n + k] = vecs[k]
  <2>1. codes[b] \in Seq(Vectors) /\ n = Len(codes[b])
    BY <1>10
  <2>2. /\ moreCodes \in Seq(Vectors) /\ Len(moreCodes) = n + Len(vecs)
        /\ \A i \in 1 .. n : moreCodes[i] = codes[b][i]
        /\ \A k \in 1 .. Len(vecs) : moreCodes[n + k] = vecs[k]
    <3>1. moreCodes = Joined(codes[b], vecs) /\ vecs \in Seq(Vectors)
      BY <1>7, <1>12, <2>1 DEF Joined
    <3>2. /\ Joined(codes[b], vecs) \in Seq(Vectors)
          /\ Len(Joined(codes[b], vecs)) = Len(codes[b]) + Len(vecs)
          /\ \A i \in 1 .. Len(codes[b]) : Joined(codes[b], vecs)[i] = codes[b][i]
          /\ \A k \in 1 .. Len(vecs) : Joined(codes[b], vecs)[Len(codes[b]) + k] = vecs[k]
      <4>1. codes[b] \in Seq(Vectors) /\ vecs \in Seq(Vectors)
        BY <1>7, <2>1
      <4>2. /\ Joined(codes[b], vecs) \in Seq(Vectors)
            /\ Len(Joined(codes[b], vecs)) = Len(codes[b]) + Len(vecs)
            /\ \A i \in 1 .. Len(codes[b]) : Joined(codes[b], vecs)[i] = codes[b][i]
        BY <4>1, Extended
      <4>3. \A k \in 1 .. Len(vecs) : Joined(codes[b], vecs)[Len(codes[b]) + k] = vecs[k]
        BY <4>1, ExtendedBy
      <4>. QED
        BY <4>2, <4>3
    <3>. QED
      BY <2>1, <3>1, <3>2
  <2>. QED
    BY <1>7, <2>2
<1>15. /\ ids' \in [Buckets -> Seq(EntryType)] /\ ids'[b] = moreIds
       /\ \A c \in Buckets : c # b => ids'[c] = ids[c]
  BY <1>6, <1>7, <1>11, <1>13
<1>16. /\ codes' \in [Buckets -> Seq(Vectors)] /\ codes'[b] = moreCodes
       /\ \A c \in Buckets : c # b => codes'[c] = codes[c]
  BY <1>6, <1>7, <1>12, <1>14
<1>17. \A v, k : Copied(v, k) => (CHOOSE j \in DOMAIN vecs : Vid(vecs[j]) = v) = k
  BY <1>2, <1>8, Zenon DEF Copied
<1>18. \A v : v \in new <=> \E k : Copied(v, k)
  BY <1>2, <1>5, Zenon DEF Copied
<1>19. /\ \A v \in Vids : (\A k : ~Copied(v, k)) => place'[v] = place[v]
       /\ \A v \in Vids : \A k : Copied(v, k) => place'[v] = <<b, n + k>>
  <2>1. ASSUME NEW v \in Vids, \A k : ~Copied(v, k)
        PROVE  place'[v] = place[v]
    BY <1>6, <1>18, <2>1, Zenon
  <2>2. ASSUME NEW v \in Vids, NEW k, Copied(v, k)
        PROVE  place'[v] = <<b, n + k>>
    BY <1>6, <1>17, <1>18, <2>2, Zenon
  <2>. QED
    BY <2>1, <2>2
<1>20. place' \in [Vids -> {NoPlace} \cup (Buckets \X Positions)]
  <2>1. \A v \in Vids : place'[v] \in {NoPlace} \cup (Buckets \X Positions)
    <3>1. SUFFICES ASSUME NEW v \in Vids
                   PROVE  place'[v] \in {NoPlace} \cup (Buckets \X Positions)
      OBVIOUS
    <3>2. CASE \A k : ~Copied(v, k)
      BY <1>19, <3>2 DEF Shaped, ListsTyped
    <3>3. CASE \E k : Copied(v, k)
      <4>1. PICK k : Copied(v, k)
        BY <3>3
      <4>2. k \in Nat \ {0} /\ place'[v] = <<b, n + k>>
        BY <1>2, <1>7, <1>19, <4>1 DEF Copied
      <4>. QED
        BY <1>7, <4>2 DEF Positions
    <3>. QED
      BY <3>2, <3>3
  <2>2. place' = [v \in Vids |-> place'[v]]
    BY <1>6
  <2>. QED
    BY <2>1, <2>2
<1>21. dead' \in [Buckets -> Nat]
  <2>1. IsFiniteSet(new \cap deleted)
    <3>1. IsFiniteSet(0 .. Len(raw) - 1) /\ deleted \subseteq 0 .. Len(raw) - 1
      <4>1. Len(raw) - 1 \in Int /\ 0 \in Int /\ Len(raw) \in Nat /\ deleted \subseteq Stored
        BY CallerTypes
      <4>2. Stored \subseteq 0 .. Len(raw) - 1
        <5>1. \A v \in Stored : v \in Nat /\ v < Len(raw)
          BY Bounds DEF Stored
        <5>. QED
          BY <4>1, <5>1
      <4>. QED
        BY <4>1, <4>2, FS_Interval
    <3>2. new \cap deleted \subseteq 0 .. Len(raw) - 1
      BY <3>1
    <3>. QED
      BY <3>1, <3>2, FS_Subset
  <2>2. Cardinality(new \cap deleted) \in Nat
    BY <2>1, FS_CardinalityType
  <2>3. dead \in [Buckets -> Nat]
    BY CallerTypes
  <2>. QED
    BY <1>6, <1>7, <2>2, <2>3
<1>22. \A i \in 1 .. n : ids'[b][i] = ids[b][i] /\ codes'[b][i] = codes[b][i]
  BY <1>13, <1>14, <1>15, <1>16
<1>23. \A k \in DOMAIN vecs : ids'[b][n + k] = Entry(Vid(vecs[k])) /\ codes'[b][n + k] = vecs[k]
  BY <1>13, <1>14, <1>15, <1>16
<1>24. Len(ids'[b]) = Needed /\ Len(codes'[b]) = Needed
  BY <1>7, <1>13, <1>14, <1>15, <1>16
<1>25. \A c \in Buckets : c # b => ids'[c] = ids[c] /\ codes'[c] = codes[c]
  BY <1>15, <1>16
<1>26. /\ Len(ids[filling.bucket]) = size[filling.bucket]
       /\ Len(codes[filling.bucket]) = size[filling.bucket]
       /\ Len(ids'[filling.bucket]) = Needed /\ Len(codes'[filling.bucket]) = Needed
       /\ \A c \in Buckets : c # filling.bucket => ids'[c] = ids[c] /\ codes'[c] = codes[c]
  BY <1>1, <1>3, <1>10, <1>24, <1>25
<1>27. \A i \in 1 .. size[filling.bucket] : /\ ids'[filling.bucket][i] = ids[filling.bucket][i]
                                            /\ codes'[filling.bucket][i] = codes[filling.bucket][i]
  BY <1>1, <1>3, <1>22
<1>28. \A k \in DOMAIN filling.vecs :
         /\ ids'[filling.bucket][size[filling.bucket] + k] = Entry(Vid(filling.vecs[k]))
         /\ codes'[filling.bucket][size[filling.bucket] + k] = filling.vecs[k]
  BY <1>1, <1>2, <1>3, <1>23
<1>29. /\ \A v \in Vids : (\A k : ~Copied(v, k)) => place'[v] = place[v]
       /\ \A v \in Vids : \A k : Copied(v, k) => place'[v] = <<filling.bucket, size[filling.bucket] + k>>
  BY <1>1, <1>3, <1>19
<1>. QED
  BY <1>15, <1>16, <1>20, <1>21, <1>26, <1>27, <1>28, <1>29

\* What FillKeys leaves alone.
LEMMA FillKeysFrame ==
  ASSUME FillKeys, UNCHANGED loopVars
  PROVE  /\ filling.step \in {"room", "fill"} /\ filling' = [filling EXCEPT !.step = "publish"]
         /\ size' = size /\ capacity' = capacity /\ deleted' = deleted /\ packing' = packing
         /\ raw' = raw /\ gone' = gone /\ caller' = caller /\ worker' = worker
         /\ indexed_count_' = indexed_count_ /\ updated_vids_' = updated_vids_
         /\ history' = history
  BY DEF FillKeys, loopVars, storeVars

\* The keys are copied behind those that searches read.
LEMMA FillKeysKeepsShape ==
  ASSUME Shaped, FillKeys, UNCHANGED loopVars
  PROVE  Shaped'
<1>1. /\ filling.step \in {"room", "fill"} /\ filling' = [filling EXCEPT !.step = "publish"]
      /\ size' = size /\ capacity' = capacity /\ deleted' = deleted /\ packing' = packing
      /\ raw' = raw /\ gone' = gone /\ caller' = caller /\ worker' = worker
      /\ indexed_count_' = indexed_count_ /\ updated_vids_' = updated_vids_
  BY FillKeysFrame
<1>2. /\ filling # NotFilling /\ filling \in Fills /\ filling.bucket \in Buckets
      /\ packing = NotPacking /\ Needed \in Nat
  BY <1>1, FillingTypes
<1>3. /\ filling' \in Fills /\ filling'.step = "publish" /\ filling'.bucket = filling.bucket
      /\ filling'.vecs = filling.vecs
  BY <1>1, <1>2 DEF Fills
<1>4. Needed' = Needed
  BY <1>1, <1>3 DEF Needed
<1>5. /\ ids' \in [Buckets -> Seq(EntryType)] /\ codes' \in [Buckets -> Seq(Vectors)]
      /\ place' \in [Vids -> {NoPlace} \cup (Buckets \X Positions)]
      /\ dead' \in [Buckets -> Nat]
      /\ Len(ids'[filling.bucket]) = Needed /\ Len(codes'[filling.bucket]) = Needed
      /\ \A c \in Buckets : c # filling.bucket => ids'[c] = ids[c] /\ codes'[c] = codes[c]
  BY FillKeysArrays
<1>6. ListsTyped'
  BY <1>1, <1>5 DEF Shaped, ListsTyped
<1>7. CallerTyped'
  BY <1>1 DEF Shaped, CallerTyped, Stored
<1>8. WorkerTyped'
  <2>1. BatchCount' = BatchCount
    BY <1>1 DEF BatchCount
  <2>. QED
    BY <1>1, <2>1 DEF Shaped, WorkerTyped
<1>9. FillingTyped'
  <2>1. FillsShare(filling.bucket, filling.vecs)' <=> FillsShare(filling.bucket, filling.vecs)
    BY <1>1, <1>3 DEF FillsShare
  <2>2. Needed <= capacity[filling.bucket]
    <3>1. CASE filling.step = "fill"
      BY <1>2, <3>1 DEF Shaped, FillingTyped
    <3>2. CASE filling.step = "room"
      BY <3>2 DEF FillKeys, Fits
    <3>. QED
      BY <1>1, <3>1, <3>2
  <2>. QED
    BY <1>1, <1>2, <1>3, <1>4, <2>1, <2>2 DEF Shaped, FillingTyped
<1>10. PackingTyped'
  BY <1>1, <1>2 DEF PackingTyped
<1>11. ListsEnd'
  <2>1. /\ \A b : ~Packed(b, {"codes", "size"}) /\ ~Packed(b, {"size"})
        /\ \A b : ~Packed(b, {"codes", "size"})' /\ ~Packed(b, {"size"})'
        /\ \A b : ~Filled(b) /\ (Filled(b)' <=> b = filling.bucket)
    BY <1>1, <1>2, <1>3 DEF Packed, Filled, NotPacking
  <2>2. \A b \in Buckets : size[b] <= capacity[b] /\ Len(ids[b]) = size[b] /\ Len(codes[b]) = size[b]
    BY <2>1 DEF Shaped, ListsEnd
  <2>3. \A b \in Buckets : /\ Len(ids'[b]) = IF b = filling.bucket THEN Needed ELSE size[b]
                           /\ Len(codes'[b]) = IF b = filling.bucket THEN Needed ELSE size[b]
    BY <1>5, <2>2
  <2>. QED
    BY <1>1, <1>4, <2>1, <2>2, <2>3 DEF ListsEnd
<1>. QED
  BY <1>6, <1>7, <1>8, <1>9, <1>10, <1>11 DEF Shaped

\* What is copied had no entry, and is copied once.
LEMMA CopiedAreNew ==
  ASSUME Shaped, Sound, filling.step \in {"room", "fill"}
  PROVE  \A v, k : Copied(v, k) =>
           /\ v \in Vids /\ ~Listed(v) /\ k \in Positions
           /\ \A j : Copied(v, j) => j = k
           /\ worker.pc = "add" => v >= indexed_count_
           /\ worker.pc = "update" => v < indexed_count_ /\ Moving(v)
<1>1. SUFFICES ASSUME NEW v, NEW k, Copied(v, k)
               PROVE  /\ v \in Vids /\ ~Listed(v) /\ k \in Positions
                      /\ \A j : Copied(v, j) => j = k
                      /\ worker.pc = "add" => v >= indexed_count_
                      /\ worker.pc = "update" => v < indexed_count_ /\ Moving(v)
  BY Zenon
<1>2. /\ filling # NotFilling /\ filling.vecs \in Seq(Vectors) /\ worker.pc \in {"add", "update"}
      /\ DOMAIN filling.vecs = 1 .. Len(filling.vecs) /\ Len(filling.vecs) \in Nat
  BY FillingTypes
<1>3. k \in DOMAIN filling.vecs /\ Vid(filling.vecs[k]) = v
  BY <1>1 DEF Copied
<1>4. v \in Vids /\ k \in Positions
  BY <1>2, <1>3, MembersOfBatch DEF Positions
<1>5. \A j : Copied(v, j) => j = k
  BY <1>2, <1>3 DEF Shaped, FillingTyped, Copied
<1>6. ASSUME worker.pc = "add"
      PROVE  v >= indexed_count_ /\ ~Listed(v)
  <2>1. FillsShare(filling.bucket, filling.vecs) /\ Bucket[filling.vecs[k]] = filling.bucket
    BY <1>2, <1>3, <1>6 DEF Shaped, FillingTyped
  <2>2. PICK m \in DOMAIN worker.vecs : filling.vecs[k] = worker.vecs[m]
    BY <1>3, <2>1 DEF FillsShare
  <2>3. /\ \A j \in DOMAIN worker.vecs : Vid(worker.vecs[j]) = indexed_count_ + j - 1
        /\ DOMAIN worker.vecs = 1 .. Len(worker.vecs) /\ Len(worker.vecs) \in Nat /\ indexed_count_ \in Nat
    BY <1>6, WorkerTypes, CallerTypes DEF Shaped, WorkerTyped
  <2>4. v = indexed_count_ + m - 1
    BY <1>3, <2>2, <2>3
  <2>5. v >= indexed_count_
    BY <2>2, <2>3, <2>4
  <2>6. \A j \in DOMAIN worker.vecs : Vid(worker.vecs[j]) = v => j = m
    BY <2>2, <2>3, <2>4
  <2>7. ~Added(v)
    BY <2>1, <2>2, <2>6 DEF Added
  <2>. QED
    BY <1>4, <2>5, <2>7 DEF Sound, NoEntryTooEarly
<1>7. ASSUME worker.pc = "update"
      PROVE  v < indexed_count_ /\ Moving(v) /\ ~Listed(v)
  <2>1. v < indexed_count_
    BY <1>2, <1>3, <1>7 DEF Shaped, FillingTyped
  <2>2. Moving(v)
    BY <1>3, <1>7 DEF Moving
  <2>. QED
    BY <1>4, <2>1, <2>2 DEF Sound, NoEntryTooEarly
<1>. QED
  BY <1>2, <1>4, <1>5, <1>6, <1>7

\* Entries after FillKeys are those before it and those that were copied.
LEMMA FillKeysListings ==
  ASSUME Shaped, FillKeys
  PROVE  /\ \A v \in Vids, c \in Buckets, i \in Positions :
              ListedAt(v, c, i)' <=>
                \/ ListedAt(v, c, i)
                \/ c = filling.bucket /\ \E k : Copied(v, k) /\ i = size[filling.bucket] + k
         /\ \A v : \A c \in Buckets : \A i : ListedAt(v, c, i) => codes'[c][i] = codes[c][i]
         /\ \A v, k : Copied(v, k) => codes'[filling.bucket][size[filling.bucket] + k] = filling.vecs[k]
<1>1. PICK b : b = filling.bucket
  OBVIOUS
<1>2. PICK n : n = size[b]
  OBVIOUS
<1>3. /\ b \in Buckets /\ n \in Nat /\ Needed = n + Len(filling.vecs) /\ Len(filling.vecs) \in Nat
      /\ DOMAIN filling.vecs = 1 .. Len(filling.vecs)
      /\ ids \in [Buckets -> Seq(EntryType)] /\ codes \in [Buckets -> Seq(Vectors)]
  BY <1>1, <1>2, FillingTypes DEF FillKeys
<1>4. /\ ids' \in [Buckets -> Seq(EntryType)] /\ codes' \in [Buckets -> Seq(Vectors)]
      /\ Len(ids[b]) = n /\ Len(codes[b]) = n /\ Len(ids'[b]) = Needed /\ Len(codes'[b]) = Needed
  BY <1>1, <1>2, FillKeysArrays
<1>5. /\ \A c \in Buckets : c # b => ids'[c] = ids[c] /\ codes'[c] = codes[c]
      /\ \A i \in 1 .. n : ids'[b][i] = ids[b][i] /\ codes'[b][i] = codes[b][i]
      /\ \A k \in DOMAIN filling.vecs : ids'[b][n + k] = Entry(Vid(filling.vecs[k])) /\ codes'[b][n + k] = filling.vecs[k]
  BY <1>1, <1>2, FillKeysArrays
<1>6. DOMAIN ids[b] = 1 .. n /\ DOMAIN ids'[b] = 1 .. n + Len(filling.vecs)
  BY <1>3, <1>4
<1>7. \A v \in Vids, c \in Buckets, i \in Positions : c # b => (ListedAt(v, c, i)' <=> ListedAt(v, c, i))
  BY <1>5 DEF ListedAt, Entry
<1>8. \A v \in Vids, i \in Positions :
        ListedAt(v, b, i)' <=> ListedAt(v, b, i) \/ \E k : Copied(v, k) /\ i = n + k
  <2>1. SUFFICES ASSUME NEW v \in Vids, NEW i \in Positions
                 PROVE  ListedAt(v, b, i)' <=> ListedAt(v, b, i) \/ \E k : Copied(v, k) /\ i = n + k
    OBVIOUS
  <2>2. ListedAt(v, b, i)' <=> i \in DOMAIN ids'[b] /\ ids'[b][i] = Entry(v)
    BY DEF ListedAt, Entry
  <2>3. CASE i \in 1 .. n
    <3>1. ~\E k : Copied(v, k) /\ i = n + k
      BY <1>3, <2>3 DEF Copied
    <3>2. i \in DOMAIN ids[b] /\ i \in DOMAIN ids'[b] /\ ids'[b][i] = ids[b][i]
      BY <1>3, <1>5, <1>6, <2>3
    <3>. QED
      BY <2>2, <3>1, <3>2 DEF ListedAt
  <2>4. CASE i \notin 1 .. n
    <3>1. ~ListedAt(v, b, i)
      BY <1>6, <2>4 DEF ListedAt
    <3>2. ASSUME ListedAt(v, b, i)'
          PROVE  \E k : Copied(v, k) /\ i = n + k
      <4>1. PICK k : k = i - n
        OBVIOUS
      <4>2. k \in DOMAIN filling.vecs /\ i = n + k
        BY <1>3, <1>6, <2>2, <2>4, <3>2, <4>1 DEF Positions
      <4>3. Entry(Vid(filling.vecs[k])) = Entry(v)
        BY <1>5, <2>2, <3>2, <4>2
      <4>4. Vid(filling.vecs[k]) = v
        BY <4>3 DEF Entry
      <4>. QED
        BY <4>2, <4>4 DEF Copied
    <3>3. ASSUME NEW k, Copied(v, k), i = n + k
          PROVE  ListedAt(v, b, i)'
      <4>1. k \in DOMAIN filling.vecs /\ Vid(filling.vecs[k]) = v
        BY <3>3 DEF Copied
      <4>2. i \in DOMAIN ids'[b]
        BY <1>3, <1>6, <3>3, <4>1
      <4>. QED
        BY <1>5, <2>2, <3>3, <4>1, <4>2
    <3>. QED
      BY <3>1, <3>2, <3>3
  <2>. QED
    BY <2>3, <2>4
<1>9. \A v : \A c \in Buckets : \A i : ListedAt(v, c, i) => codes'[c][i] = codes[c][i]
  BY <1>5, <1>6 DEF ListedAt
<1>10. \A v, k : Copied(v, k) => codes'[b][n + k] = filling.vecs[k]
  BY <1>5 DEF Copied
<1>. QED
  BY <1>1, <1>2, <1>7, <1>8, <1>9, <1>10

\* The copied vectors have their entries, places and codes.
LEMMA FillKeysKeepsSound ==
  ASSUME Shaped, Sound, FillKeys, UNCHANGED loopVars
  PROVE  Sound'
<1>1. /\ filling.step \in {"room", "fill"} /\ filling' = [filling EXCEPT !.step = "publish"]
      /\ size' = size /\ capacity' = capacity /\ deleted' = deleted /\ packing' = packing
      /\ raw' = raw /\ gone' = gone /\ caller' = caller /\ worker' = worker
      /\ indexed_count_' = indexed_count_ /\ updated_vids_' = updated_vids_
  BY FillKeysFrame
<1>2. /\ filling # NotFilling /\ filling \in Fills /\ filling.bucket \in Buckets
      /\ packing = NotPacking /\ filling.vecs \in Seq(Vectors)
      /\ worker.pc \in {"add", "update"} /\ size[filling.bucket] \in Nat
  BY <1>1, FillingTypes
<1>3. /\ filling'.step = "publish" /\ filling'.bucket = filling.bucket
      /\ filling'.vecs = filling.vecs
  BY <1>1, <1>2 DEF Fills
<1>4. PICK b \in Buckets : b = filling.bucket
  BY <1>2
<1>5. PICK n \in Nat : n = size[b]
  BY <1>2, <1>4
<1>6. /\ \A v \in Vids, c \in Buckets, i \in Positions :
           ListedAt(v, c, i)' <=> ListedAt(v, c, i) \/ (c = b /\ \E k : Copied(v, k) /\ i = n + k)
      /\ \A v : \A c \in Buckets : \A i : ListedAt(v, c, i) => codes'[c][i] = codes[c][i]
      /\ \A v, k : Copied(v, k) => codes'[b][n + k] = filling.vecs[k]
  BY <1>4, <1>5, FillKeysListings
<1>7. \A v, k : Copied(v, k) =>
        /\ v \in Vids /\ ~Listed(v) /\ k \in Positions
        /\ \A j : Copied(v, j) => j = k
        /\ worker.pc = "add" => v >= indexed_count_
        /\ worker.pc = "update" => v < indexed_count_ /\ Moving(v)
  BY <1>1, CopiedAreNew
<1>8. /\ \A v \in Vids : (\A k : ~Copied(v, k)) => place'[v] = place[v]
      /\ \A v \in Vids : \A k : Copied(v, k) => place'[v] = <<b, n + k>>
  BY <1>4, <1>5, FillKeysArrays
<1>9. \A v, k : \A c \in Buckets, i \in Positions : Copied(v, k) => ~ListedAt(v, c, i)
  BY <1>7 DEF Listed
<1>10. \A v, k : Copied(v, k) => n + k \in Positions /\ ListedAt(v, b, n + k)'
  <2>1. SUFFICES ASSUME NEW v, NEW k, Copied(v, k)
                 PROVE  n + k \in Positions /\ ListedAt(v, b, n + k)'
    BY Zenon
  <2>2. v \in Vids /\ k \in Positions
    BY <1>7, <2>1
  <2>3. n + k \in Positions
    BY <2>2 DEF Positions
  <2>4. ListedAt(v, b, n + k) \/ (b = b /\ \E j : Copied(v, j) /\ n + k = n + j)
    BY <2>1
  <2>. QED
    BY <1>6, <2>2, <2>3, <2>4
<1>11. /\ \A c : CodesOf(c) = codes[c]
       /\ \A c : CodesOf(c)' = codes'[c]
       /\ \A c, i : ~Passed(c, i) /\ ~Passed(c, i)'
  BY <1>1, <1>2 DEF CodesOf, Packed, Passed, NotPacking
<1>12. EntriesAreAtPlaces'
  <2>1. SUFFICES ASSUME NEW v \in Vids, NEW c \in Buckets, NEW i \in Positions, ListedAt(v, c, i)'
                 PROVE  /\ \A d \in Buckets, j \in Positions : ListedAt(v, d, j)' => d = c /\ j = i
                        /\ place'[v] = <<c, i>>
    BY DEF EntriesAreAtPlaces
  <2>2. CASE \E k : Copied(v, k)
    <3>1. PICK k : Copied(v, k)
      BY <2>2
    <3>2. ASSUME NEW d \in Buckets, NEW j \in Positions, ListedAt(v, d, j)'
          PROVE  d = b /\ j = n + k
      <4>1. ~ListedAt(v, d, j)
        BY <1>9, <3>1
      <4>2. d = b /\ \E m : Copied(v, m) /\ j = n + m
        BY <1>6, <3>2, <4>1
      <4>. QED
        BY <1>7, <3>1, <4>2
    <3>. QED
      BY <1>8, <2>1, <3>1, <3>2
  <2>3. CASE \A k : ~Copied(v, k)
    <3>1. \A d \in Buckets, j \in Positions : ListedAt(v, d, j)' => ListedAt(v, d, j)
      BY <1>6, <2>3
    <3>2. EntriesAreAtPlaces
      BY DEF Sound
    <3>3. /\ \A d \in Buckets, j \in Positions : ListedAt(v, d, j) => d = c /\ j = i
          /\ place[v] = <<c, i>>
      BY <1>11, <2>1, <3>1, <3>2 DEF EntriesAreAtPlaces
    <3>. QED
      BY <1>8, <2>3, <3>1, <3>3
  <2>. QED
    BY <2>2, <2>3
<1>13. CodesAreTheirs'
  <2>1. SUFFICES ASSUME NEW v \in Vids, NEW c \in Buckets, NEW i \in Positions, ListedAt(v, c, i)'
                 PROVE  Vid(codes'[c][i]) = v /\ Bucket[codes'[c][i]] = c
    BY <1>11 DEF CodesAreTheirs, Vid
  <2>2. CASE ListedAt(v, c, i)
    <3>1. Vid(codes[c][i]) = v /\ Bucket[codes[c][i]] = c
      BY <1>11, <2>2 DEF Sound, CodesAreTheirs
    <3>. QED
      BY <1>6, <2>2, <3>1
  <2>3. CASE c = b /\ \E k : Copied(v, k) /\ i = n + k
    <3>1. PICK k : Copied(v, k) /\ i = n + k
      BY <2>3
    <3>2. codes'[c][i] = filling.vecs[k] /\ k \in DOMAIN filling.vecs /\ Vid(filling.vecs[k]) = v
      BY <1>6, <2>3, <3>1 DEF Copied
    <3>3. Bucket[filling.vecs[k]] = b
      BY <1>2, <1>4, <3>2 DEF Shaped, FillingTyped
    <3>. QED
      BY <2>3, <3>2, <3>3
  <2>. QED
    BY <1>6, <2>1, <2>2, <2>3
<1>14. PackedIsKept'
  BY <1>1, <1>2 DEF PackedIsKept, NotPacking
<1>16. /\ \A v : ~Moving(v)'
       /\ \A v : Moving(v) => \E k : Copied(v, k)
       /\ \A v : (ToDo(v)' <=> ToDo(v)) /\ (Updating(v)' <=> Updating(v)) /\ (Queued(v)' <=> Queued(v))
       /\ \A v : Current(v)' = Current(v)
       /\ \A v : Added(v) => Added(v)'
       /\ Flight' = Flight
  BY <1>1, <1>3 DEF Moving, Copied, ToDo, Updating, Queued, Current, Added, Vid, Flight
<1>17. \A v : Added(v)' => Added(v) \/ \E k : Copied(v, k)
  <2>1. SUFFICES ASSUME NEW v, Added(v)', ~Added(v)
                 PROVE  \E k : Copied(v, k)
    BY Zenon
  <2>2. worker.pc = "add" /\ \E k \in DOMAIN worker.vecs : Vid(worker.vecs[k]) = v /\ Bucket[worker.vecs[k]] < worker.next
    BY <1>1, <2>1 DEF Added, Vid
  <2>3. PICK k \in DOMAIN worker.vecs : Vid(worker.vecs[k]) = v /\ Bucket[worker.vecs[k]] < worker.next
    BY <2>2
  <2>4. Bucket[worker.vecs[k]] = filling.bucket
    BY <1>1, <2>1, <2>2, <2>3 DEF Added
  <2>5. FillsShare(filling.bucket, filling.vecs)
    BY <1>2, <2>2 DEF Shaped, FillingTyped
  <2>6. PICK m \in DOMAIN filling.vecs : filling.vecs[m] = worker.vecs[k]
    BY <2>4, <2>5 DEF FillsShare
  <2>. QED
    BY <2>3, <2>6 DEF Copied
<1>18. \A v : worker.pc = "add" /\ (\E k : Copied(v, k)) => Added(v)'
  <2>1. SUFFICES ASSUME NEW v, NEW k, worker.pc = "add", Copied(v, k)
                 PROVE  Added(v)'
    BY Zenon
  <2>2. FillsShare(b, filling.vecs) /\ Bucket[filling.vecs[k]] = b /\ k \in DOMAIN filling.vecs
        /\ Vid(filling.vecs[k]) = v
    BY <1>2, <1>4, <2>1 DEF Shaped, FillingTyped, Copied
  <2>3. PICK m \in DOMAIN worker.vecs : filling.vecs[k] = worker.vecs[m]
    BY <2>2 DEF FillsShare
  <2>4. worker.next = b + 1 /\ b \in Nat
    BY <2>2, Bounds DEF FillsShare
  <2>5. Bucket[worker.vecs[m]] < worker.next /\ Vid(worker.vecs[m]) = v
    BY <2>2, <2>3, <2>4
  <2>. QED
    BY <1>1, <1>3, <2>1, <2>5 DEF Added, Vid
<1>19. /\ \A v \in Vids : Listed(v) => Listed(v)'
       /\ \A v : (\E k : Copied(v, k)) => Listed(v)'
       /\ \A v \in Vids : Listed(v)' => Listed(v) \/ \E k : Copied(v, k)
  <2>1. \A v \in Vids : Listed(v) => Listed(v)'
    BY <1>6 DEF Listed
  <2>2. \A v : (\E k : Copied(v, k)) => Listed(v)'
    BY <1>10 DEF Listed
  <2>3. \A v \in Vids : Listed(v)' => Listed(v) \/ \E k : Copied(v, k)
    BY <1>6 DEF Listed
  <2>. QED
    BY <2>1, <2>2, <2>3
<1>20. NoEntryTooEarly'
  <2>1. SUFFICES ASSUME NEW v \in Vids, v >= indexed_count_, ~Added(v)'
                 PROVE  place'[v] = NoPlace /\ ~Listed(v)'
    BY <1>1, <1>16 DEF NoEntryTooEarly
  <2>2. \A k : ~Copied(v, k)
    <3>1. ~(v < indexed_count_)
      BY <2>1, CallerTypes, Bounds
    <3>. QED
      BY <1>2, <1>7, <1>18, <2>1, <3>1
  <2>3. place[v] = NoPlace /\ ~Listed(v)
    BY <1>16, <2>1 DEF Sound, NoEntryTooEarly
  <2>. QED
    BY <1>8, <1>19, <2>2, <2>3
<1>21. WantedAreListed'
  <2>1. SUFFICES ASSUME NEW v \in Vids, Wanted(v)'
                 PROVE  Listed(v)'
    BY DEF WantedAreListed
  <2>2. CASE \E k : Copied(v, k)
    BY <1>19, <2>2
  <2>3. CASE \A k : ~Copied(v, k)
    <3>1. Wanted(v) /\ ~Moving(v)
      BY <1>1, <1>16, <1>17, <2>1, <2>3 DEF Wanted
    <3>. QED
      BY <1>19, <3>1 DEF Sound, WantedAreListed
  <2>. QED
    BY <2>2, <2>3
<1>22. FlightIsNew'
  BY <1>1, <1>16, Zenon DEF Sound, FlightIsNew, Vid
<1>23. \A k \in DOMAIN filling.vecs : HasCode(filling.vecs[k])'
  <2>1. SUFFICES ASSUME NEW k \in DOMAIN filling.vecs
                 PROVE  HasCode(filling.vecs[k])'
    OBVIOUS
  <2>2. PICK vec : vec = filling.vecs[k]
    OBVIOUS
  <2>3. PICK v : v = Vid(vec)
    OBVIOUS
  <2>4. Copied(v, k)
    BY <2>2, <2>3 DEF Copied
  <2>5. v \in Vids
    BY <1>7, <2>4
  <2>6. ASSUME NEW c \in Buckets, NEW i \in Positions, ListedAt(v, c, i)'
        PROVE  codes'[c][i] = vec
    <3>1. ~ListedAt(v, c, i)
      BY <1>9, <2>4
    <3>2. c = b /\ \E m : Copied(v, m) /\ i = n + m
      BY <1>6, <2>5, <2>6, <3>1
    <3>3. c = b /\ i = n + k
      BY <1>7, <2>4, <3>2
    <3>. QED
      BY <1>6, <2>2, <2>4, <3>3
  <2>7. HasCode(vec)'
    BY <2>3, <2>6 DEF HasCode
  <2>. QED
    BY <1>3, <2>2, <2>7
<1>24. AddedHaveCodes'
  <2>1. ASSUME worker.pc = "add", NEW m \in DOMAIN worker.vecs
        PROVE  HasCode(worker.vecs[m])'
    <3>0. PICK vec : vec = worker.vecs[m]
      OBVIOUS
    <3>2. PICK v : v = Vid(vec)
      OBVIOUS
    <3>3. v \in Vids
      BY <3>0, <3>2, <2>1, WorkerTypes, MembersOfBatch
    <3>1. SUFFICES ASSUME NEW c \in Buckets, NEW i \in Positions, ListedAt(v, c, i)'
                   PROVE  codes'[c][i] = vec
      <4>1. SUFFICES HasCode(vec)'
        BY <1>1, <3>0
      <4>. QED
        BY <3>2 DEF HasCode
    <3>4. CASE ListedAt(v, c, i)
      <4>1. HasCode(worker.vecs[m])
        BY <2>1 DEF Sound, AddedHaveCodes
      <4>2. codes[c][i] = vec
        BY <3>0, <3>2, <3>4, <4>1 DEF HasCode
      <4>. QED
        BY <1>6, <3>4, <4>2
    <3>5. CASE c = b /\ \E k : Copied(v, k) /\ i = n + k
      <4>1. PICK k : Copied(v, k) /\ i = n + k
        BY <3>5
      <4>2. codes'[c][i] = filling.vecs[k] /\ k \in DOMAIN filling.vecs /\ Vid(filling.vecs[k]) = v
        BY <1>6, <3>5, <4>1 DEF Copied
      <4>3. FillsShare(b, filling.vecs)
        BY <1>2, <1>4, <2>1 DEF Shaped, FillingTyped
      <4>4. PICK j \in DOMAIN worker.vecs : filling.vecs[k] = worker.vecs[j]
        BY <4>2, <4>3 DEF FillsShare
      <4>5. Vid(worker.vecs[j]) = Vid(worker.vecs[m])
        BY <3>0, <3>2, <4>2, <4>4
      <4>6. /\ \A l \in DOMAIN worker.vecs : Vid(worker.vecs[l]) = indexed_count_ + l - 1
            /\ DOMAIN worker.vecs = 1 .. Len(worker.vecs) /\ Len(worker.vecs) \in Nat /\ indexed_count_ \in Nat
        BY <2>1, WorkerTypes, CallerTypes DEF Shaped, WorkerTyped
      <4>7. j = m
        BY <2>1, <4>4, <4>5, <4>6
      <4>. QED
        BY <3>0, <4>2, <4>4, <4>7
    <3>. QED
      BY <1>6, <3>1, <3>2, <3>3, <3>4, <3>5
  <2>. QED
    BY <1>1, <1>3, <1>23, <2>1 DEF AddedHaveCodes
<1>25. ListedAreFresh'
  <2>1. SUFFICES ASSUME NEW v \in Vids, v < indexed_count_, v \notin deleted
                 PROVE  Fresh(v)' \/ Queued(v)' \/ ToDo(v)' \/ Current(v)' \in Flight'
    BY <1>1 DEF ListedAreFresh
  <2>2. Fresh(v) \/ Queued(v) \/ ToDo(v) \/ Current(v) \in Flight
    BY <2>1 DEF Sound, ListedAreFresh
  <2>3. ASSUME Fresh(v)
        PROVE  Fresh(v)'
    <3>1. PICK c \in Buckets, i \in Positions : ListedAt(v, c, i) /\ codes[c][i] = Current(v)
      BY <1>11, <2>3 DEF Fresh
    <3>2. ListedAt(v, c, i)' /\ codes'[c][i] = Current(v)
      BY <1>6, <3>1
    <3>. QED
      BY <1>11, <1>16, <3>2 DEF Fresh
  <2>. QED
    BY <1>16, <2>2, <2>3
<1>. QED
  BY <1>12, <1>13, <1>14, <1>20, <1>21, <1>22, <1>24, <1>25 DEF Sound

\* The keys of a bucket are copied.
LEMMA FillKeysStep ==
  ASSUME IInv, FillKeys, UNCHANGED loopVars
  PROVE  IInv'
<1>1. Claimed' => Claimed
  BY FillKeysFrame DEF Claimed, history
<1>. QED
  BY <1>1, FillKeysKeepsShape, FillKeysKeepsSound DEF IInv

-----------------------------------------------------------------------------
(* Updates. *)

\* A code that is overwritten.
LEMMA CodeIsWritten ==
  ASSUME NEW s \in Seq(Vectors), NEW i, NEW vec \in Vectors
  PROVE  /\ WithCode(s, i, vec) \in Seq(Vectors) /\ Len(WithCode(s, i, vec)) = Len(s)
         /\ \A j \in DOMAIN s : j # i => WithCode(s, i, vec)[j] = s[j]
         /\ i \in DOMAIN s => WithCode(s, i, vec)[i] = vec
<1>1. CASE i \in DOMAIN s
  <2>1. WithCode(s, i, vec) = [s EXCEPT ![i] = vec]
    BY <1>1 DEF WithCode
  <2>. QED
    BY <1>1, <2>1
<1>2. CASE i \notin DOMAIN s
  BY <1>2 DEF WithCode
<1>. QED
  BY <1>1, <1>2

\* An entry that is masked.
LEMMA EntryIsMasked ==
  ASSUME NEW s \in Seq(EntryType), NEW i
  PROVE  /\ WithMask(s, i) \in Seq(EntryType) /\ Len(WithMask(s, i)) = Len(s)
         /\ \A j \in DOMAIN s : j # i => WithMask(s, i)[j] = s[j]
         /\ i \in DOMAIN s => \A v : WithMask(s, i)[i] # Entry(v)
<1>1. CASE i \in DOMAIN s
  <2>1. PICK e : e = [s[i] EXCEPT !.masked = TRUE]
    OBVIOUS
  <2>2. WithMask(s, i) = [s EXCEPT ![i] = e]
    BY <1>1, <2>1 DEF WithMask
  <2>3. s[i] \in EntryType
    BY <1>1
  <2>4. e \in EntryType /\ e.masked = TRUE
    BY <2>1, <2>3 DEF EntryType
  <2>5. \A v : e # Entry(v)
    BY <2>4 DEF Entry
  <2>. QED
    BY <1>1, <2>2, <2>4, <2>5
<1>2. CASE i \notin DOMAIN s
  BY <1>2 DEF WithMask
<1>. QED
  BY <1>1, <1>2

\* The thread takes the next vector of its updates.
LEMMA NextUpdate ==
  ASSUME Shaped, ApplyUpdate
  PROVE  /\ filling = NotFilling /\ packing = NotPacking /\ worker.pc = "update" /\ worker.todo = << >>
         /\ Head(worker.vecs) \in Vectors /\ Vid(Head(worker.vecs)) \in Vids
         /\ Vid(Head(worker.vecs)) < indexed_count_ /\ Bucket[Head(worker.vecs)] \in Buckets
         /\ worker' \in Rounds /\ worker'.pc = "update" /\ worker'.todo = << >>
         /\ \A m \in DOMAIN worker'.vecs : \E k \in DOMAIN worker.vecs : worker'.vecs[m] = worker.vecs[k]
         /\ \A k \in DOMAIN worker.vecs :
              worker.vecs[k] = Head(worker.vecs) \/ \E m \in DOMAIN worker'.vecs : worker'.vecs[m] = worker.vecs[k]
         /\ \E k \in DOMAIN worker.vecs : worker.vecs[k] = Head(worker.vecs)
         /\ WorkerTyped'
<1>1. /\ filling = NotFilling /\ packing = NotPacking /\ worker.pc = "update" /\ worker.vecs # << >>
      /\ worker' = [worker EXCEPT !.vecs = Tail(worker.vecs), !.next = 0]
      /\ indexed_count_' = indexed_count_
  BY DEF ApplyUpdate, Free, WriterFree
<1>2. PICK vecs : vecs = worker.vecs
  OBVIOUS
<1>3. /\ worker \in Rounds /\ vecs \in Seq(Vectors) /\ vecs # << >> /\ worker.todo = << >>
      /\ DOMAIN vecs = 1 .. Len(vecs) /\ Len(vecs) \in Nat
  BY <1>1, <1>2, WorkerTypes
<1>4. /\ Tail(vecs) \in Seq(Vectors) /\ Len(Tail(vecs)) = Len(vecs) - 1 /\ Len(vecs) >= 1
      /\ DOMAIN Tail(vecs) = 1 .. Len(vecs) - 1
      /\ \A m \in 1 .. Len(vecs) - 1 : Tail(vecs)[m] = vecs[m + 1]
      /\ Head(vecs) = vecs[1] /\ 1 \in DOMAIN vecs
  BY <1>3
<1>5. /\ worker' \in Rounds /\ worker'.pc = "update" /\ worker'.todo = << >>
      /\ worker'.vecs = Tail(vecs)
  BY <1>1, <1>2, <1>3, <1>4 DEF Rounds
<1>6. \A m \in DOMAIN Tail(vecs) : \E k \in DOMAIN vecs : Tail(vecs)[m] = vecs[k]
  <2>1. SUFFICES ASSUME NEW m \in 1 .. Len(vecs) - 1
                 PROVE  \E k \in DOMAIN vecs : Tail(vecs)[m] = vecs[k]
    BY <1>4
  <2>2. m + 1 \in DOMAIN vecs
    BY <1>3
  <2>. QED
    BY <1>4, <2>2
<1>7. \A k \in DOMAIN vecs : vecs[k] = Head(vecs) \/ \E m \in DOMAIN Tail(vecs) : Tail(vecs)[m] = vecs[k]
  <2>1. SUFFICES ASSUME NEW k \in DOMAIN vecs, k # 1
                 PROVE  \E m \in DOMAIN Tail(vecs) : Tail(vecs)[m] = vecs[k]
    BY <1>4
  <2>2. k - 1 \in 1 .. Len(vecs) - 1 /\ (k - 1) + 1 = k
    BY <1>3, <2>1
  <2>. QED
    BY <1>4, <2>2
<1>8. \A k \in DOMAIN vecs : Vid(vecs[k]) < indexed_count_
  BY <1>1, <1>2 DEF Shaped, WorkerTyped
<1>9. vecs[1] \in Vectors /\ Vid(vecs[1]) \in Vids /\ Bucket[vecs[1]] \in Buckets
  BY <1>3, <1>4, MembersOfBatch
<1>10. WorkerTyped'
  <2>1. \A m \in DOMAIN worker'.vecs : Vid(worker'.vecs[m]) < indexed_count_
    BY <1>5, <1>6, <1>8
  <2>2. worker'.pc # "batch" /\ worker'.pc # "add" /\ DOMAIN worker'.todo = {}
    BY <1>5
  <2>. QED
    BY <1>1, <1>5, <2>1, <2>2 DEF WorkerTyped, Vid
<1>. QED
  BY <1>1, <1>2, <1>3, <1>4, <1>5, <1>6, <1>7, <1>8, <1>9, <1>10

\* The vector has one entry, at its place, and what is in flight are the
\* vectors that are left to update.
LEMMA NextUpdateIsListed ==
  ASSUME Shaped, Sound, ApplyUpdate, NEW v, v = Vid(Head(worker.vecs))
  PROVE  /\ \E b \in Buckets, i \in Positions : ListedAt(v, b, i) /\ place[v] = <<b, i>>
         /\ \A b \in Buckets, i \in Positions : ListedAt(v, b, i) => place[v] = <<b, i>>
         /\ Head(worker.vecs) = Current(v) \/ Queued(v)
         /\ \A u : ~Moving(u) /\ ~Added(u) /\ ~Added(u)'
         /\ \A b : CodesOf(b) = codes[b] /\ \A i : ~Passed(b, i)
         /\ \A u : Updating(u)' => Updating(u)
         /\ \A vec \in Flight : vec # Head(worker.vecs) => \E k \in DOMAIN worker'.vecs : worker'.vecs[k] = vec
         /\ \A k \in DOMAIN worker'.vecs : worker'.vecs[k] \in Flight
         /\ \A u : ToDo(u) <=> ToDo(u)'
<1>1. /\ filling = NotFilling /\ packing = NotPacking /\ worker.pc = "update" /\ worker.todo = << >>
      /\ v \in Vids
      /\ worker'.pc = "update" /\ worker'.todo = << >>
      /\ \A m \in DOMAIN worker'.vecs : \E k \in DOMAIN worker.vecs : worker'.vecs[m] = worker.vecs[k]
      /\ \A k \in DOMAIN worker.vecs :
           worker.vecs[k] = Head(worker.vecs) \/ \E m \in DOMAIN worker'.vecs : worker'.vecs[m] = worker.vecs[k]
      /\ \E k \in DOMAIN worker.vecs : worker.vecs[k] = Head(worker.vecs)
  BY NextUpdate
<1>2. filling.step = "none" /\ packing.step = "none" /\ filling.vecs = << >>
  BY <1>1 DEF NotFilling, NotPacking
<1>3. /\ \A u : ~Moving(u) /\ ~Added(u) /\ ~Added(u)'
      /\ \A b : CodesOf(b) = codes[b] /\ \A i : ~Passed(b, i)
      /\ \A u : ToDo(u) <=> ToDo(u)'
  BY <1>1, <1>2 DEF Moving, Added, CodesOf, Packed, Passed, ToDo
<1>4. \A vec : vec \in Flight <=> \E k \in DOMAIN worker.vecs : worker.vecs[k] = vec
  BY <1>2 DEF Flight
<1>5. Head(worker.vecs) \in Flight
  BY <1>1, <1>4
<1>6. Head(worker.vecs) = Current(v) \/ Queued(v)
  BY <1>1, <1>5 DEF Sound, FlightIsNew
<1>7. \A u : Updating(u)' => Updating(u)
  BY <1>1 DEF Updating, Vid
<1>8. Updating(v)
  BY <1>1 DEF Updating
<1>9. Listed(v)
  BY <1>1, <1>3, <1>8 DEF Sound, WantedAreListed, Wanted
<1>10. \A b \in Buckets, i \in Positions : ListedAt(v, b, i) => place[v] = <<b, i>>
  BY <1>1, <1>3 DEF Sound, EntriesAreAtPlaces
<1>11. \E b \in Buckets, i \in Positions : ListedAt(v, b, i) /\ place[v] = <<b, i>>
  BY <1>9, <1>10 DEF Listed
<1>. QED
  BY <1>1, <1>3, <1>4, <1>6, <1>7, <1>10, <1>11

\* The code of a vector that stays in its bucket is overwritten.
LEMMA OverwriteStep ==
  ASSUME IInv, ApplyUpdate, NEW vec, vec = Head(worker.vecs), OverwriteCode(Bucket[vec], vec)
  PROVE  IInv'
<1>. USE DEF IInv
<1>1. PICK v : v = Vid(vec)
  OBVIOUS
<1>2. PICK b : b = Bucket[vec]
  OBVIOUS
<1>3. PICK p : p = place[v]
  OBVIOUS
<1>4. /\ Shaped /\ filling = NotFilling /\ packing = NotPacking /\ worker.pc = "update"
      /\ vec \in Vectors /\ v \in Vids /\ b \in Buckets /\ WorkerTyped'
      /\ worker'.pc = "update" /\ worker'.todo = << >>
  BY <1>1, <1>2, NextUpdate
<1>5. /\ p # NoPlace /\ p[1] = b
      /\ codes' = [codes EXCEPT ![b] = WithCode(codes[b], p[2], vec)]
      /\ ids' = ids /\ size' = size /\ capacity' = capacity /\ place' = place /\ dead' = dead
      /\ deleted' = deleted /\ filling' = filling /\ packing' = packing
      /\ raw' = raw /\ gone' = gone /\ caller' = caller
      /\ indexed_count_' = indexed_count_ /\ updated_vids_' = updated_vids_
      /\ history' = history
  BY <1>1, <1>2, <1>3 DEF OverwriteCode, ApplyUpdate, storeVars
<1>6. Claimed' => Claimed
  BY <1>5 DEF Claimed, history
<1>7. /\ ids \in [Buckets -> Seq(EntryType)] /\ codes \in [Buckets -> Seq(Vectors)]
      /\ codes[b] \in Seq(Vectors) /\ ids[b] \in Seq(EntryType)
      /\ \A c \in Buckets : Len(ids[c]) = size[c] /\ Len(codes[c]) = size[c]
  <2>1. \A c : /\ ~Packed(c, {"codes", "size"}) /\ ~Packed(c, {"size"}) /\ ~Filled(c)
    BY <1>4 DEF Packed, Filled, NotFilling, NotPacking
  <2>. QED
    BY <1>4, <2>1 DEF Shaped, ListsTyped, ListsEnd
<1>8. /\ codes' \in [Buckets -> Seq(Vectors)] /\ Len(codes'[b]) = Len(codes[b])
      /\ \A j \in DOMAIN codes[b] : j # p[2] => codes'[b][j] = codes[b][j]
      /\ p[2] \in DOMAIN codes[b] => codes'[b][p[2]] = vec
      /\ \A c \in Buckets : c # b => codes'[c] = codes[c]
  <2>1. PICK written : written = WithCode(codes[b], p[2], vec)
    OBVIOUS
  <2>2. /\ written \in Seq(Vectors) /\ Len(written) = Len(codes[b])
        /\ \A j \in DOMAIN codes[b] : j # p[2] => written[j] = codes[b][j]
        /\ p[2] \in DOMAIN codes[b] => written[p[2]] = vec
    BY <1>4, <1>7, <2>1, CodeIsWritten
  <2>3. codes' = [codes EXCEPT ![b] = written]
    BY <1>5, <2>1
  <2>. QED
    BY <1>4, <1>7, <2>2, <2>3
<1>9. Shaped'
  <2>1. ListsTyped'
    BY <1>4, <1>5, <1>8 DEF Shaped, ListsTyped
  <2>2. CallerTyped'
    BY <1>4, <1>5 DEF Shaped, CallerTyped, Stored
  <2>3. FillingTyped' /\ PackingTyped'
    BY <1>4, <1>5 DEF FillingTyped, PackingTyped
  <2>4. ListsEnd'
    <3>1. \A c : /\ ~Packed(c, {"codes", "size"})' /\ ~Packed(c, {"size"})' /\ ~Filled(c)'
      BY <1>4, <1>5 DEF Packed, Filled, NotFilling, NotPacking
    <3>2. \A c \in Buckets : size[c] <= capacity[c]
      BY <1>4 DEF Shaped, ListsEnd
    <3>3. \A c \in Buckets : Len(codes'[c]) = size[c]
      BY <1>7, <1>8
    <3>. QED
      BY <1>5, <1>7, <3>1, <3>2, <3>3 DEF ListsEnd
  <2>. QED
    BY <1>4, <2>1, <2>2, <2>3, <2>4 DEF Shaped
<1>10. ASSUME Sound
       PROVE  Sound'
  <2>1. /\ \A c \in Buckets, i \in Positions : ListedAt(v, c, i) => place[v] = <<c, i>>
        /\ vec = Current(v) \/ Queued(v)
        /\ \A u : ~Moving(u) /\ ~Added(u) /\ ~Added(u)'
        /\ \A c : CodesOf(c) = codes[c] /\ \A i : ~Passed(c, i)
        /\ \A u : Updating(u)' => Updating(u)
        /\ \A x \in Flight : x # vec => \E k \in DOMAIN worker'.vecs : worker'.vecs[k] = x
        /\ \A k \in DOMAIN worker'.vecs : worker'.vecs[k] \in Flight
        /\ \A u : ToDo(u) <=> ToDo(u)'
    BY <1>1, <1>4, <1>10, NextUpdateIsListed
  <2>2. PICK i \in Positions : ListedAt(v, b, i) /\ p = <<b, i>>
    <3>1. \E c \in Buckets, i \in Positions : ListedAt(v, c, i) /\ place[v] = <<c, i>>
      BY <1>1, <1>4, <1>10, NextUpdateIsListed
    <3>. QED
      BY <1>3, <1>5, <3>1
  <2>0. \A c \in Buckets : DOMAIN ids[c] = DOMAIN codes[c]
    <3>1. \A c \in Buckets : DOMAIN ids[c] = 1 .. Len(ids[c]) /\ DOMAIN codes[c] = 1 .. Len(codes[c])
      BY <1>7
    <3>. QED
      BY <1>7, <3>1
  <2>3. i \in DOMAIN codes[b] /\ codes'[b][i] = vec
    <3>1. i \in DOMAIN codes[b]
      BY <1>4, <2>0, <2>2 DEF ListedAt
    <3>. QED
      BY <1>8, <2>2, <3>1
  <2>4. /\ \A u, c, j : ListedAt(u, c, j)' <=> ListedAt(u, c, j)
        /\ \A u : Listed(u)' <=> Listed(u)
    BY <1>5 DEF ListedAt, Listed
  <2>5. /\ \A c : CodesOf(c)' = codes'[c]
        /\ \A c, j : ~Passed(c, j)'
        /\ \A u : ~Moving(u)'
    BY <1>4, <1>5 DEF CodesOf, Packed, Passed, Moving, NotPacking, NotFilling
  <2>6. ASSUME NEW u \in Vids, NEW c \in Buckets, NEW j \in Positions, ListedAt(u, c, j)
        PROVE  (u = v /\ c = b /\ j = i) \/ (u # v /\ codes'[c][j] = codes[c][j])
    <3>1. CASE u = v
      <4>1. <<c, j>> = <<b, i>>
        BY <1>3, <2>1, <2>2, <2>6, <3>1
      <4>. QED
        BY <3>1, <4>1
    <3>2. CASE u # v
      <4>1. c # b \/ j # i
        BY <2>2, <2>6, <3>2 DEF ListedAt, Entry
      <4>2. j \in DOMAIN codes[c]
        BY <2>0, <2>6 DEF ListedAt
      <4>. QED
        BY <1>8, <2>2, <3>2, <4>1, <4>2
    <3>. QED
      BY <3>1, <3>2
  <2>7. EntriesAreAtPlaces'
    BY <1>5, <1>10, <2>1, <2>4, <2>5 DEF Sound, EntriesAreAtPlaces
  <2>8. CodesAreTheirs'
    <3>1. SUFFICES ASSUME NEW u \in Vids, NEW c \in Buckets, NEW j \in Positions, ListedAt(u, c, j)
                   PROVE  Vid(codes'[c][j]) = u /\ Bucket[codes'[c][j]] = c
      BY <2>4, <2>5 DEF CodesAreTheirs, Vid
    <3>2. Vid(codes[c][j]) = u /\ Bucket[codes[c][j]] = c
      BY <1>10, <2>1, <3>1 DEF Sound, CodesAreTheirs
    <3>. QED
      BY <1>1, <1>2, <2>3, <2>6, <3>1, <3>2
  <2>9. PackedIsKept'
    BY <1>4, <1>5 DEF PackedIsKept, NotPacking
  <2>10. NoEntryTooEarly'
    BY <1>5, <1>10, <2>1, <2>4, <2>5 DEF Sound, NoEntryTooEarly
  <2>11. WantedAreListed'
    BY <1>5, <1>10, <2>1, <2>4, <2>5 DEF Sound, WantedAreListed, Wanted
  <2>12. /\ \A x : x \in Flight' <=> \E k \in DOMAIN worker'.vecs : worker'.vecs[k] = x
         /\ \A u : (Current(u)' = Current(u)) /\ (Queued(u)' <=> Queued(u))
    BY <1>4, <1>5 DEF Flight, Current, Queued, NotFilling
  <2>13. FlightIsNew'
    <3>1. SUFFICES ASSUME NEW x \in Flight'
                   PROVE  x = Current(Vid(x)) \/ Queued(Vid(x))
      BY <2>12 DEF FlightIsNew, Vid
    <3>2. x \in Flight
      BY <2>1, <2>12, <3>1
    <3>. QED
      BY <1>4, <1>10, <3>2 DEF Sound, FlightIsNew
  <2>14. AddedHaveCodes'
    BY <1>4, <1>5 DEF AddedHaveCodes, NotFilling
  <2>15. ListedAreFresh'
    <3>1. SUFFICES ASSUME NEW u \in Vids, u < indexed_count_, u \notin deleted
                   PROVE  Fresh(u)' \/ Queued(u)' \/ ToDo(u)' \/ Current(u)' \in Flight'
      BY <1>5 DEF ListedAreFresh
    <3>2. Fresh(u) \/ Queued(u) \/ ToDo(u) \/ Current(u) \in Flight
      BY <1>10, <3>1 DEF Sound, ListedAreFresh
    <3>3. CASE u = v
      <4>1. CASE vec = Current(v)
        <5>1. ListedAt(v, b, i)' /\ CodesOf(b)'[i] = Current(v)'
          BY <2>2, <2>3, <2>4, <2>5, <2>12, <4>1
        <5>. QED
          BY <1>4, <3>3, <5>1 DEF Fresh
      <4>2. CASE Queued(v)
        BY <2>12, <3>3, <4>2
      <4>. QED
        BY <2>1, <4>1, <4>2
    <3>4. CASE u # v
      <4>1. ASSUME Fresh(u)
            PROVE  Fresh(u)'
        <5>1. PICK c \in Buckets, j \in Positions : ListedAt(u, c, j) /\ codes[c][j] = Current(u)
          BY <2>1, <4>1 DEF Fresh
        <5>2. ListedAt(u, c, j)' /\ CodesOf(c)'[j] = Current(u)'
          BY <2>4, <2>5, <2>6, <2>12, <3>4, <5>1
        <5>. QED
          BY <5>2 DEF Fresh
      <4>2. ASSUME Current(u) \in Flight
            PROVE  Current(u)' \in Flight'
        <5>1. Current(u) # vec
          BY <1>1, <3>4 DEF Current, Vid
        <5>. QED
          BY <2>1, <2>12, <4>2, <5>1
      <4>. QED
        BY <2>1, <2>12, <3>2, <4>1, <4>2
    <3>. QED
      BY <3>3, <3>4
  <2>. QED
    BY <2>7, <2>8, <2>9, <2>10, <2>11, <2>13, <2>14, <2>15 DEF Sound
<1>. QED
  BY <1>6, <1>9, <1>10

\* A vector that moves loses its entry and is on its way to its new bucket.
LEMMA MoveStep ==
  ASSUME IInv, ApplyUpdate, NEW vec, vec = Head(worker.vecs), MoveEntry(Bucket[vec], vec)
  PROVE  IInv'
<1>. USE DEF IInv
<1>1. PICK v : v = Vid(vec)
  OBVIOUS
<1>2. PICK b : b = Bucket[vec]
  OBVIOUS
<1>3. PICK p : p = place[v]
  OBVIOUS
<1>4. /\ Shaped /\ filling = NotFilling /\ packing = NotPacking /\ worker.pc = "update"
      /\ vec \in Vectors /\ v \in Vids /\ b \in Buckets /\ WorkerTyped' /\ v < indexed_count_
      /\ worker'.pc = "update" /\ worker'.todo = << >>
  BY <1>1, <1>2, NextUpdate
<1>5. PICK old : old = p[1]
  OBVIOUS
<1>6. /\ p # NoPlace /\ old # b
      /\ ids' = [ids EXCEPT ![old] = WithMask(ids[old], p[2])]
      /\ dead' = [dead EXCEPT ![old] = dead[old] + 1]
      /\ filling' = [step |-> "room", bucket |-> b, vecs |-> <<vec>>]
      /\ codes' = codes /\ size' = size /\ capacity' = capacity /\ place' = place
      /\ deleted' = deleted /\ packing' = packing
      /\ raw' = raw /\ gone' = gone /\ caller' = caller
      /\ indexed_count_' = indexed_count_ /\ updated_vids_' = updated_vids_
      /\ history' = history
  BY <1>1, <1>2, <1>3, <1>5 DEF MoveEntry, BeginFill, ApplyUpdate, storeVars
<1>7. Claimed' => Claimed
  BY <1>6 DEF Claimed, history
<1>8. /\ ids \in [Buckets -> Seq(EntryType)] /\ dead \in [Buckets -> Nat]
      /\ \A c \in Buckets : Len(ids[c]) = size[c] /\ Len(codes[c]) = size[c]
  <2>1. \A c : /\ ~Packed(c, {"codes", "size"}) /\ ~Packed(c, {"size"}) /\ ~Filled(c)
    BY <1>4 DEF Packed, Filled, NotFilling, NotPacking
  <2>. QED
    BY <1>4, <2>1 DEF Shaped, ListsTyped, ListsEnd
<1>9. old \in Buckets /\ p[2] \in Positions
  BY <1>3, <1>4, <1>5, <1>6 DEF Shaped, ListsTyped
<1>10. /\ ids' \in [Buckets -> Seq(EntryType)] /\ Len(ids'[old]) = Len(ids[old])
       /\ DOMAIN ids'[old] = DOMAIN ids[old]
       /\ \A j \in DOMAIN ids[old] : j # p[2] => ids'[old][j] = ids[old][j]
       /\ p[2] \in DOMAIN ids[old] => \A u : ids'[old][p[2]] # Entry(u)
       /\ \A c \in Buckets : c # old => ids'[c] = ids[c]
  <2>1. PICK masked : masked = WithMask(ids[old], p[2])
    OBVIOUS
  <2>2. ids[old] \in Seq(EntryType)
    BY <1>8, <1>9
  <2>3. /\ masked \in Seq(EntryType) /\ Len(masked) = Len(ids[old])
        /\ \A j \in DOMAIN ids[old] : j # p[2] => masked[j] = ids[old][j]
        /\ p[2] \in DOMAIN ids[old] => \A u : masked[p[2]] # Entry(u)
    BY <2>1, <2>2, EntryIsMasked
  <2>4. ids' = [ids EXCEPT ![old] = masked]
    BY <1>6, <2>1
  <2>5. DOMAIN masked = DOMAIN ids[old]
    BY <2>2, <2>3
  <2>. QED
    BY <1>8, <1>9, <2>3, <2>4, <2>5
<1>11. /\ filling' \in Fills /\ filling'.step = "room" /\ filling'.bucket = b /\ filling'.vecs = <<vec>>
       /\ DOMAIN filling'.vecs = {1} /\ filling'.vecs[1] = vec
  <2>1. <<vec>> \in Seq(Vectors) /\ DOMAIN <<vec>> = {1} /\ <<vec>>[1] = vec
    BY <1>4
  <2>. QED
    BY <1>4, <1>6, <2>1 DEF Fills
<1>12. Shaped'
  <2>1. ListsTyped'
    <3>1. dead' \in [Buckets -> Nat]
      <4>1. dead[old] + 1 \in Nat
        BY <1>8, <1>9
      <4>. QED
        BY <1>6, <1>8, <4>1
    <3>2. /\ codes \in [Buckets -> Seq(Vectors)] /\ size \in [Buckets -> Nat]
          /\ capacity \in [Buckets -> Nat]
          /\ place \in [Vids -> {NoPlace} \cup (Buckets \X Positions)]
      BY <1>4 DEF Shaped, ListsTyped
    <3>3. codes' = codes /\ size' = size /\ capacity' = capacity /\ place' = place
      BY <1>6
    <3>. QED
      BY <1>10, <3>1, <3>2, <3>3 DEF ListsTyped
  <2>2. CallerTyped'
    BY <1>4, <1>6 DEF Shaped, CallerTyped, Stored
  <2>3. FillingTyped'
    <3>1. /\ \A n \in DOMAIN filling'.vecs : Bucket[filling'.vecs[n]] = filling'.bucket
          /\ \A n \in DOMAIN filling'.vecs : Vid(filling'.vecs[n]) < indexed_count_
          /\ \A m, n \in DOMAIN filling'.vecs : m = n
      BY <1>1, <1>2, <1>4, <1>11
    <3>. QED
      BY <1>4, <1>6, <1>11, <3>1 DEF FillingTyped, Vid
  <2>4. PackingTyped'
    BY <1>4, <1>6 DEF PackingTyped
  <2>5. ListsEnd'
    <3>1. \A c : /\ ~Packed(c, {"codes", "size"})' /\ ~Packed(c, {"size"})' /\ ~Filled(c)'
      BY <1>4, <1>6, <1>11 DEF Packed, Filled, NotPacking
    <3>2. \A c \in Buckets : size[c] <= capacity[c]
      BY <1>4 DEF Shaped, ListsEnd
    <3>3. \A c \in Buckets : Len(ids'[c]) = size[c]
      BY <1>8, <1>10
    <3>. QED
      BY <1>6, <1>8, <3>1, <3>2, <3>3 DEF ListsEnd
  <2>. QED
    BY <1>4, <2>1, <2>2, <2>3, <2>4, <2>5 DEF Shaped
<1>13. ASSUME Sound
       PROVE  Sound'
  <2>1. /\ \A c \in Buckets, i \in Positions : ListedAt(v, c, i) => place[v] = <<c, i>>
        /\ vec = Current(v) \/ Queued(v)
        /\ \A u : ~Moving(u) /\ ~Added(u) /\ ~Added(u)'
        /\ \A c : CodesOf(c) = codes[c] /\ \A i : ~Passed(c, i)
        /\ \A u : Updating(u)' => Updating(u)
        /\ \A x \in Flight : x # vec => \E k \in DOMAIN worker'.vecs : worker'.vecs[k] = x
        /\ \A k \in DOMAIN worker'.vecs : worker'.vecs[k] \in Flight
        /\ \A u : ToDo(u) <=> ToDo(u)'
    BY <1>1, <1>4, <1>13, NextUpdateIsListed
  <2>2. PICK i \in Positions : ListedAt(v, old, i) /\ p = <<old, i>>
    <3>1. \E c \in Buckets, i \in Positions : ListedAt(v, c, i) /\ place[v] = <<c, i>>
      BY <1>1, <1>4, <1>13, NextUpdateIsListed
    <3>. QED
      BY <1>3, <1>5, <1>6, <3>1
  <2>3. \A u \in Vids, c \in Buckets, j \in Positions : ListedAt(u, c, j)' <=> ListedAt(u, c, j) /\ u # v
    <3>1. SUFFICES ASSUME NEW u \in Vids, NEW c \in Buckets, NEW j \in Positions
                   PROVE  ListedAt(u, c, j)' <=> ListedAt(u, c, j) /\ u # v
      OBVIOUS
    <3>2. ListedAt(u, c, j)' <=> j \in DOMAIN ids'[c] /\ ids'[c][j] = Entry(u)
      BY DEF ListedAt, Entry
    <3>3. CASE c = old /\ j = i
      <4>1. ~ListedAt(u, c, j)'
        BY <1>10, <2>2, <3>2, <3>3 DEF ListedAt
      <4>2. ListedAt(u, c, j) => u = v
        BY <2>2, <3>3 DEF ListedAt, Entry
      <4>. QED
        BY <4>1, <4>2
    <3>4. CASE c # old \/ j # i
      <4>1. ListedAt(u, c, j)' <=> ListedAt(u, c, j)
        BY <1>10, <2>2, <3>2, <3>4 DEF ListedAt
      <4>2. ListedAt(v, c, j) => <<c, j>> = <<old, i>>
        BY <1>3, <2>1, <2>2
      <4>. QED
        BY <3>4, <4>1, <4>2
    <3>. QED
      BY <3>3, <3>4
  <2>4. \A u \in Vids : Listed(u)' <=> Listed(u) /\ u # v
    BY <2>3 DEF Listed
  <2>5. /\ \A c : CodesOf(c)' = codes[c]
        /\ \A c, j : ~Passed(c, j)'
        /\ \A u : Moving(u)' <=> u = v
    BY <1>1, <1>4, <1>6, <1>11 DEF CodesOf, Packed, Passed, Moving, NotPacking, Vid
  <2>6. EntriesAreAtPlaces'
    BY <1>6, <1>13, <2>1, <2>3, <2>5 DEF Sound, EntriesAreAtPlaces
  <2>7. CodesAreTheirs'
    BY <1>13, <2>1, <2>3, <2>5 DEF Sound, CodesAreTheirs, Vid
  <2>8. PackedIsKept'
    BY <1>4, <1>6 DEF PackedIsKept, NotPacking
  <2>9. NoEntryTooEarly'
    BY <1>6, <1>13, <2>1, <2>4, <2>5 DEF Sound, NoEntryTooEarly
  <2>10. WantedAreListed'
    BY <1>6, <1>13, <2>1, <2>4, <2>5 DEF Sound, WantedAreListed, Wanted
  <2>11. /\ \A x : x \in Flight' <=> x = vec \/ \E k \in DOMAIN worker'.vecs : worker'.vecs[k] = x
         /\ \A u : (Current(u)' = Current(u)) /\ (Queued(u)' <=> Queued(u))
    BY <1>6, <1>11 DEF Flight, Current, Queued
  <2>12. FlightIsNew'
    <3>1. SUFFICES ASSUME NEW x \in Flight'
                   PROVE  x = Current(Vid(x)) \/ Queued(Vid(x))
      BY <2>11 DEF FlightIsNew, Vid
    <3>2. CASE x = vec
      BY <1>1, <2>1, <3>2
    <3>3. CASE x \in Flight
      BY <1>4, <1>13, <3>3 DEF Sound, FlightIsNew
    <3>. QED
      BY <2>1, <2>11, <3>1, <3>2, <3>3
  <2>13. AddedHaveCodes'
    BY <1>4, <1>11 DEF AddedHaveCodes
  <2>14. ListedAreFresh'
    <3>1. SUFFICES ASSUME NEW u \in Vids, u < indexed_count_, u \notin deleted
                   PROVE  Fresh(u)' \/ Queued(u)' \/ ToDo(u)' \/ Current(u)' \in Flight'
      BY <1>6 DEF ListedAreFresh
    <3>2. CASE u = v
      BY <2>1, <2>11, <3>2
    <3>3. CASE u # v
      <4>1. Fresh(u) \/ Queued(u) \/ ToDo(u) \/ Current(u) \in Flight
        BY <1>13, <3>1 DEF Sound, ListedAreFresh
      <4>2. ASSUME Fresh(u)
            PROVE  Fresh(u)'
        <5>1. PICK c \in Buckets, j \in Positions : ListedAt(u, c, j) /\ codes[c][j] = Current(u)
          BY <2>1, <4>2 DEF Fresh
        <5>2. ListedAt(u, c, j)' /\ CodesOf(c)'[j] = Current(u)'
          BY <2>3, <2>5, <2>11, <3>3, <5>1
        <5>. QED
          BY <5>2 DEF Fresh
      <4>. QED
        BY <2>1, <2>11, <4>1, <4>2
    <3>. QED
      BY <3>2, <3>3
  <2>. QED
    BY <2>6, <2>7, <2>8, <2>9, <2>10, <2>12, <2>13, <2>14 DEF Sound
<1>. QED
  BY <1>7, <1>12, <1>13

\* An update is applied.  One of a vector that has no place is of none that is
\* listed: it does nothing.
LEMMA ApplyUpdateStep ==
  ASSUME IInv, ApplyUpdate
  PROVE  IInv'
<1>. USE DEF IInv
<1>1. PICK vec : vec = Head(worker.vecs)
  OBVIOUS
<1>2. UpdateNothing(vec) \/ OverwriteCode(Bucket[vec], vec) \/ MoveEntry(Bucket[vec], vec)
  BY <1>1 DEF ApplyUpdate
<1>3. CASE UpdateNothing(vec)
  <2>1. /\ UNCHANGED <<bucketVars, storeVars, caller>> /\ indexed_count_' = indexed_count_
        /\ updated_vids_' = updated_vids_ /\ history' = history
    BY <1>3 DEF UpdateNothing, ApplyUpdate
  <2>2. WriterFree /\ WorkerTyped'
    BY NextUpdate DEF ApplyUpdate, Free
  <2>3. Shaped'
    <3>1. indexed_count_' \in 0 .. Len(raw) /\ updated_vids_' \in Seq(Vids)
      BY <2>1 DEF Shaped, CallerTyped
    <3>. QED
      BY <2>1, <2>2, <3>1, FreeStepsKeepShape
  <2>4. ~Sound
    <3>1. PICK v : v = Vid(vec)
      OBVIOUS
    <3>2. SUFFICES ASSUME Sound
                   PROVE  FALSE
      OBVIOUS
    <3>3. \E b \in Buckets, i \in Positions : ListedAt(v, b, i) /\ place[v] = <<b, i>>
      BY <1>1, <3>1, <3>2, NextUpdateIsListed
    <3>. QED
      BY <1>3, <3>1, <3>3 DEF UpdateNothing, NoPlace
  <2>5. Claimed' => Claimed
    BY <2>1 DEF Claimed, history
  <2>. QED
    BY <2>3, <2>4, <2>5
<1>. QED
  BY <1>1, <1>2, <1>3, OverwriteStep, MoveStep

-----------------------------------------------------------------------------
(* CompactBucket. *)

\* Nothing is in flight while buckets are looked at and compacted.
Resting == worker.pc = "update" /\ worker.vecs = << >> /\ worker.todo = << >> /\ filling = NotFilling

\* What a thread at rest has not.
LEMMA RestingThread ==
  ASSUME Resting
  PROVE  /\ \A v : ~Moving(v) /\ ~Added(v) /\ ~ToDo(v) /\ ~Updating(v)
         /\ Flight = {} /\ FlightIsNew /\ AddedHaveCodes
         /\ \A v : Wanted(v) <=> v < indexed_count_ /\ v \notin deleted
         /\ \A b : ~Filled(b)
<1>1. filling.step = "none" /\ filling.vecs = << >>
  BY DEF Resting, NotFilling
<1>2. \A v : ~Moving(v) /\ ~Added(v) /\ ~ToDo(v) /\ ~Updating(v)
  BY <1>1 DEF Resting, Moving, Added, ToDo, Updating
<1>3. Flight = {}
  BY <1>1 DEF Resting, Flight
<1>4. FlightIsNew /\ AddedHaveCodes
  BY <1>1, <1>3 DEF FlightIsNew, AddedHaveCodes, Resting
<1>. QED
  BY <1>1, <1>2, <1>3, <1>4 DEF Wanted, Filled

\* The same of the state after a step.
LEMMA RestingThreadNext ==
  ASSUME Resting'
  PROVE  /\ \A v : ~Moving(v)' /\ ~Added(v)' /\ ~ToDo(v)' /\ ~Updating(v)'
         /\ Flight' = {} /\ FlightIsNew' /\ AddedHaveCodes'
         /\ \A v : Wanted(v)' <=> (v < indexed_count_)' /\ (v \notin deleted)'
         /\ \A b : ~Filled(b)'
<1>1. filling'.step = "none" /\ filling'.vecs = << >>
  BY DEF Resting, NotFilling
<1>2. \A v : ~Moving(v)' /\ ~Added(v)' /\ ~ToDo(v)' /\ ~Updating(v)'
  BY <1>1 DEF Resting, Moving, Added, ToDo, Updating
<1>3. Flight' = {}
  BY <1>1 DEF Resting, Flight
<1>4. FlightIsNew' /\ AddedHaveCodes'
  BY <1>1, <1>3 DEF FlightIsNew, AddedHaveCodes, Resting
<1>. QED
  BY <1>1, <1>2, <1>3, <1>4 DEF Wanted, Filled

\* The next bucket is looked at, and its compaction begins or not.
LEMMA CheckBucketStep ==
  ASSUME IInv, CheckBucket
  PROVE  IInv'
<1>. USE DEF IInv
<1>1. PICK b : b = CHOOSE x \in ToCompact : \A y \in ToCompact : x <= y
  OBVIOUS
<1>2. PICK begun : begun = [step |-> "copy", bucket |-> b, next |-> 1, ids |-> << >>, codes |-> << >>]
  OBVIOUS
<1>3. /\ Shaped /\ worker.pc = "update" /\ worker.vecs = << >> /\ filling = NotFilling
      /\ packing = NotPacking /\ ToCompact # {}
      /\ worker' = [worker EXCEPT !.next = b + 1]
      /\ raw' = raw /\ gone' = gone /\ caller' = caller
      /\ indexed_count_' = indexed_count_ /\ updated_vids_' = updated_vids_
      /\ history' = history
  BY <1>1 DEF CheckBucket, Free, WriterFree, storeVars
<1>4. /\ ids' = ids /\ codes' = codes /\ size' = size /\ capacity' = capacity /\ place' = place
      /\ dead' = dead /\ deleted' = deleted /\ filling' = filling
      /\ packing' = NotPacking \/ packing' = begun
  <2>1. CASE Compactable(b)
    BY <1>1, <1>2, <2>1 DEF CheckBucket, BeginCompact
  <2>2. CASE ~Compactable(b)
    BY <1>1, <1>3, <2>2 DEF CheckBucket, bucketVars
  <2>. QED
    BY <2>1, <2>2
<1>5. Claimed' => Claimed
  BY <1>3 DEF Claimed, history
<1>6. b \in Buckets /\ b \in Nat
  <2>1. ToCompact \subseteq Buckets
    BY DEF ToCompact
  <2>. QED
    BY <1>1, <1>3, <2>1, NextIsLowest, Bounds
<1>7. /\ worker' \in Rounds /\ worker'.pc = "update" /\ worker'.vecs = << >> /\ worker'.todo = << >>
      /\ worker.todo = << >> /\ Resting /\ Resting'
  <2>1. worker \in Rounds /\ worker.todo = << >> /\ b + 1 \in Nat
    BY <1>3, <1>6, WorkerTypes
  <2>. QED
    BY <1>3, <1>4, <2>1 DEF Rounds, Resting
<1>8. begun \in Packs /\ begun.step = "copy" /\ begun.ids = << >> /\ begun.codes = << >> /\ begun.next = 1
      /\ begun.bucket = b
  <2>1. << >> \in Seq(EntryType) /\ << >> \in Seq(Vectors) /\ 1 \in Positions
    BY DEF Positions
  <2>. QED
    BY <1>2, <1>6, <2>1 DEF Packs
<1>9. size \in [Buckets -> Nat]
  BY <1>3 DEF Shaped, ListsTyped
<1>10. Shaped'
  <2>1. ListsTyped' /\ CallerTyped'
    BY <1>3, <1>4 DEF Shaped, ListsTyped, CallerTyped, Stored
  <2>2. WorkerTyped'
    BY <1>7 DEF WorkerTyped
  <2>3. FillingTyped'
    BY <1>3, <1>4 DEF FillingTyped
  <2>4. PackingTyped'
    <3>1. CASE packing' = begun
      <4>1. Len(<< >>) = 0 /\ 0 < 1 /\ 1 <= size[b] + 1
        BY <1>6, <1>9
      <4>. QED
        BY <1>3, <1>4, <1>7, <1>8, <3>1, <4>1 DEF PackingTyped
    <3>2. CASE packing' = NotPacking
      BY <3>2 DEF PackingTyped
    <3>. QED
      BY <1>4, <3>1, <3>2
  <2>5. ListsEnd'
    <3>1. /\ \A c : ~Packed(c, {"codes", "size"}) /\ ~Packed(c, {"size"}) /\ ~Filled(c)
          /\ \A c : ~Packed(c, {"codes", "size"})' /\ ~Packed(c, {"size"})' /\ ~Filled(c)'
      BY <1>3, <1>4, <1>8 DEF Packed, Filled, NotFilling, NotPacking
    <3>. QED
      BY <1>3, <1>4, <3>1 DEF Shaped, ListsEnd
  <2>. QED
    BY <2>1, <2>2, <2>3, <2>4, <2>5 DEF Shaped
<1>11. ASSUME Sound
       PROVE  Sound'
  <2>1. /\ \A v : ~Moving(v) /\ ~Added(v) /\ ~ToDo(v) /\ ~Updating(v)
        /\ Flight = {}
        /\ \A v : Wanted(v) <=> v < indexed_count_ /\ v \notin deleted
    BY <1>7, RestingThread
  <2>2. /\ \A v : ~Moving(v)' /\ ~Added(v)' /\ ~ToDo(v)' /\ ~Updating(v)'
        /\ FlightIsNew' /\ AddedHaveCodes'
        /\ \A v : Wanted(v)' <=> (v < indexed_count_)' /\ (v \notin deleted)'
    BY <1>7, RestingThreadNext
  <2>3. /\ \A v, c, i : ListedAt(v, c, i)' <=> ListedAt(v, c, i)
        /\ \A v : Listed(v)' <=> Listed(v)
        /\ \A v : Current(v)' = Current(v) /\ (Queued(v)' <=> Queued(v))
    BY <1>3, <1>4 DEF ListedAt, Listed, Current, Queued
  <2>4. /\ \A c : CodesOf(c)' = codes[c] /\ CodesOf(c) = codes[c]
        /\ \A c, i : ~Passed(c, i)
        /\ \A c, i : i \in Positions => ~Passed(c, i)'
    <3>1. \A i \in Positions : ~(i < 1)
      BY DEF Positions
    <3>. QED
      BY <1>3, <1>4, <1>8, <3>1 DEF CodesOf, Packed, Passed, NotPacking
  <2>5. EntriesAreAtPlaces' /\ CodesAreTheirs'
    BY <1>4, <1>11, <2>3, <2>4 DEF Sound, EntriesAreAtPlaces, CodesAreTheirs, Vid
  <2>6. PackedIsKept'
    <3>1. packing'.step = "copy" => packing'.ids = << >> /\ packing'.next = 1
      BY <1>4, <1>8 DEF NotPacking
    <3>2. packing'.step # "codes"
      BY <1>4, <1>8 DEF NotPacking
    <3>. QED
      BY <3>1, <3>2 DEF PackedIsKept
  <2>7. NoEntryTooEarly' /\ WantedAreListed'
    BY <1>3, <1>4, <1>11, <2>1, <2>2, <2>3 DEF Sound, NoEntryTooEarly, WantedAreListed
  <2>8. ListedAreFresh'
    <3>1. SUFFICES ASSUME NEW v \in Vids, v < indexed_count_, v \notin deleted
                   PROVE  Fresh(v)' \/ Queued(v)'
      BY <1>3, <1>4 DEF ListedAreFresh
    <3>2. Fresh(v) \/ Queued(v)
      BY <1>11, <2>1, <3>1 DEF Sound, ListedAreFresh
    <3>3. Fresh(v) => Fresh(v)'
      BY <2>3, <2>4 DEF Fresh
    <3>. QED
      BY <2>3, <3>2, <3>3
  <2>. QED
    BY <2>2, <2>5, <2>6, <2>7, <2>8 DEF Sound
<1>. QED
  BY <1>5, <1>10, <1>11

\* What is being compacted.
LEMMA PackingTypes ==
  ASSUME Shaped, packing.step \in {"copy", "codes", "size"}
  PROVE  /\ packing # NotPacking /\ packing \in Packs /\ packing.bucket \in Buckets
         /\ packing.next \in Positions
         /\ packing.ids \in Seq(EntryType) /\ packing.codes \in Seq(Vectors)
         /\ Len(packing.ids) = Len(packing.codes) /\ Len(packing.ids) \in Nat
         /\ DOMAIN packing.ids = 1 .. Len(packing.ids) /\ DOMAIN packing.codes = 1 .. Len(packing.ids)
         /\ Resting
         /\ ids \in [Buckets -> Seq(EntryType)] /\ codes \in [Buckets -> Seq(Vectors)]
         /\ size \in [Buckets -> Nat]
         /\ \A b : ~Filled(b)
<1>1. packing # NotPacking
  BY DEF NotPacking
<1>2. /\ packing \in Packs /\ Len(packing.ids) = Len(packing.codes)
      /\ filling = NotFilling /\ worker.pc = "update" /\ worker.vecs = << >>
  BY <1>1 DEF Shaped, PackingTyped
<1>3. Resting
  BY <1>2, WorkerTypes DEF Resting
<1>4. /\ packing.bucket \in Buckets /\ packing.next \in Positions
      /\ packing.ids \in Seq(EntryType) /\ packing.codes \in Seq(Vectors)
  BY <1>2 DEF Packs
<1>. QED
  BY <1>1, <1>2, <1>3, <1>4, RestingThread DEF Shaped, ListsTyped

\* The invariant is kept when the lists are, while nothing is in flight.
LEMMA RestingKeepsSound ==
  ASSUME Sound, Resting, Resting',
         UNCHANGED <<deleted, raw, indexed_count_, updated_vids_, caller>>,
         EntriesAreAtPlaces', CodesAreTheirs', PackedIsKept',
         \A v \in Vids : Listed(v)' => Listed(v),
         \A v \in Vids : ~Listed(v) => place'[v] = place[v],
         \A v \in Vids : Listed(v) /\ v \notin deleted => Listed(v)',
         \A v \in Vids : Fresh(v) /\ v \notin deleted => Fresh(v)'
  PROVE  Sound'
<1>1. /\ \A v : ~Moving(v) /\ ~Added(v) /\ ~ToDo(v) /\ ~Updating(v)
      /\ Flight = {}
      /\ \A v : Wanted(v) <=> v < indexed_count_ /\ v \notin deleted
  BY RestingThread
<1>2. /\ \A v : ~Moving(v)' /\ ~Added(v)' /\ ~ToDo(v)' /\ ~Updating(v)'
      /\ FlightIsNew' /\ AddedHaveCodes'
      /\ \A v : Wanted(v)' <=> (v < indexed_count_)' /\ (v \notin deleted)'
  BY RestingThreadNext
<1>3. \A v : Queued(v)' <=> Queued(v)
  BY DEF Queued
<1>4. NoEntryTooEarly'
  BY <1>1, <1>2 DEF Sound, NoEntryTooEarly
<1>5. WantedAreListed'
  BY <1>1, <1>2 DEF Sound, WantedAreListed
<1>6. ListedAreFresh'
  <2>1. SUFFICES ASSUME NEW v \in Vids, v < indexed_count_, v \notin deleted
                 PROVE  Fresh(v)' \/ Queued(v)'
    BY DEF ListedAreFresh
  <2>2. Fresh(v) \/ Queued(v)
    BY <1>1, <2>1 DEF Sound, ListedAreFresh
  <2>. QED
    BY <1>3, <2>1, <2>2
<1>. QED
  BY <1>2, <1>4, <1>5, <1>6 DEF Sound

\* A sequence with one more element.
LEMMA Appended ==
  ASSUME NEW S, NEW s \in Seq(S), NEW x \in S, NEW m, m = Len(s)
  PROVE  /\ Append(s, x) \in Seq(S) /\ Len(Append(s, x)) = m + 1
         /\ DOMAIN Append(s, x) = 1 .. m + 1 /\ Append(s, x)[m + 1] = x
         /\ \A j \in 1 .. m : Append(s, x)[j] = s[j]
  OBVIOUS

\* An entry is copied, or left out when it is masked or deleted.
LEMMA CompactOneStep ==
  ASSUME IInv, CompactOne, UNCHANGED loopVars
  PROVE  IInv'
<1>. USE DEF IInv
<1>1. PICK b : b = packing.bucket
  OBVIOUS
<1>2. PICK n : n = packing.next
  OBVIOUS
<1>3. PICK e : e = ids[b][n]
  OBVIOUS
<1>4. PICK m : m = Len(packing.ids)
  OBVIOUS
<1>5. PICK code : code = codes[b][n]
  OBVIOUS
<1>6. /\ Shaped /\ packing.step = "copy" /\ n <= size[b]
      /\ ids' = ids /\ codes' = codes /\ size' = size /\ capacity' = capacity
      /\ dead' = dead /\ deleted' = deleted /\ filling' = filling
      /\ raw' = raw /\ gone' = gone /\ caller' = caller /\ worker' = worker
      /\ indexed_count_' = indexed_count_ /\ updated_vids_' = updated_vids_
      /\ history' = history
  BY <1>1, <1>2 DEF CompactOne, loopVars, storeVars
<1>7. \/ /\ ~e.masked /\ e.vid \notin deleted
         /\ packing' = [packing EXCEPT !.next = n + 1, !.ids = Append(packing.ids, e),
                                       !.codes = Append(packing.codes, code)]
         /\ place' = [place EXCEPT ![e.vid] = <<b, m + 1>>]
      \/ /\ e.masked \/ e.vid \in deleted
         /\ packing' = [packing EXCEPT !.next = n + 1, !.ids = packing.ids, !.codes = packing.codes]
         /\ place' = place
  <2>1. CASE ~e.masked /\ e.vid \notin deleted
    BY <1>1, <1>2, <1>3, <1>4, <1>5, <2>1 DEF CompactOne
  <2>2. CASE e.masked \/ e.vid \in deleted
    BY <1>1, <1>2, <1>3, <1>4, <1>5, <2>2 DEF CompactOne
  <2>. QED
    BY <2>1, <2>2
<1>8. Claimed' => Claimed
  BY <1>6 DEF Claimed, history
<1>9. /\ packing \in Packs /\ b \in Buckets /\ n \in Positions /\ m \in Nat
      /\ packing.ids \in Seq(EntryType) /\ packing.codes \in Seq(Vectors) /\ Len(packing.codes) = m
      /\ DOMAIN packing.ids = 1 .. m /\ DOMAIN packing.codes = 1 .. m
      /\ Resting /\ ids[b] \in Seq(EntryType) /\ codes[b] \in Seq(Vectors) /\ size[b] \in Nat
      /\ packing # NotPacking /\ \A c : ~Filled(c)
  BY <1>1, <1>2, <1>4, <1>6, PackingTypes
<1>10. m < n /\ n <= size[b] + 1
  BY <1>1, <1>2, <1>4, <1>6, <1>9 DEF Shaped, PackingTyped
<1>11. \A c : ~Packed(c, {"codes", "size"}) /\ ~Packed(c, {"size"}) /\ ~Packed(c, {"codes"})
  BY <1>6 DEF Packed
<1>12. \A c \in Buckets : size[c] <= capacity[c] /\ Len(ids[c]) = size[c] /\ Len(codes[c]) = size[c]
  BY <1>6, <1>9, <1>11 DEF Shaped, ListsEnd
<1>13. /\ n \in DOMAIN ids[b] /\ n \in DOMAIN codes[b] /\ e \in EntryType /\ code \in Vectors
  <2>1. DOMAIN ids[b] = 1 .. size[b] /\ DOMAIN codes[b] = 1 .. size[b]
    BY <1>9, <1>12
  <2>2. n \in 1 .. size[b]
    BY <1>6, <1>9 DEF Positions
  <2>. QED
    BY <1>3, <1>5, <1>9, <2>1, <2>2
<1>14. e.vid \in Vids /\ (~e.masked => e = Entry(e.vid))
  BY <1>13 DEF EntryType, Entry
<1>15. n + 1 \in Positions /\ m + 1 \in Positions
  BY <1>9 DEF Positions
<1>16. PICK kept : kept <=> ~e.masked /\ e.vid \notin deleted
  OBVIOUS
<1>17. /\ Append(packing.ids, e) \in Seq(EntryType) /\ Len(Append(packing.ids, e)) = m + 1
       /\ DOMAIN Append(packing.ids, e) = 1 .. m + 1
       /\ Append(packing.ids, e)[m + 1] = e
       /\ \A j \in 1 .. m : Append(packing.ids, e)[j] = packing.ids[j]
       /\ Append(packing.codes, code) \in Seq(Vectors) /\ Len(Append(packing.codes, code)) = m + 1
       /\ Append(packing.codes, code)[m + 1] = code
       /\ \A j \in 1 .. m : Append(packing.codes, code)[j] = packing.codes[j]
  <2>1. /\ Append(packing.ids, e) \in Seq(EntryType) /\ Len(Append(packing.ids, e)) = m + 1
        /\ DOMAIN Append(packing.ids, e) = 1 .. m + 1
        /\ Append(packing.ids, e)[m + 1] = e
        /\ \A j \in 1 .. m : Append(packing.ids, e)[j] = packing.ids[j]
    BY <1>4, <1>9, <1>13, Appended
  <2>2. /\ Append(packing.codes, code) \in Seq(Vectors) /\ Len(Append(packing.codes, code)) = m + 1
        /\ Append(packing.codes, code)[m + 1] = code
        /\ \A j \in 1 .. m : Append(packing.codes, code)[j] = packing.codes[j]
    BY <1>9, <1>13, Appended
  <2>. QED
    BY <2>1, <2>2
<1>18. /\ packing' \in Packs /\ packing'.step = "copy" /\ packing'.bucket = b /\ packing'.next = n + 1
       /\ packing'.ids = (IF kept THEN Append(packing.ids, e) ELSE packing.ids)
       /\ packing'.codes = (IF kept THEN Append(packing.codes, code) ELSE packing.codes)
       /\ kept => place' = [place EXCEPT ![e.vid] = <<b, m + 1>>]
       /\ ~kept => place' = place
  <2>1. CASE kept
    BY <1>1, <1>6, <1>7, <1>9, <1>15, <1>16, <1>17, <2>1 DEF Packs
  <2>2. CASE ~kept
    BY <1>1, <1>6, <1>7, <1>9, <1>15, <1>16, <2>2 DEF Packs
  <2>. QED
    BY <2>1, <2>2
<1>19. place \in [Vids -> {NoPlace} \cup (Buckets \X Positions)]
  BY <1>6 DEF Shaped, ListsTyped
<1>20. /\ kept => /\ Len(packing'.ids) = m + 1 /\ Len(packing'.codes) = m + 1
                  /\ DOMAIN packing'.ids = 1 .. m + 1
                  /\ packing'.ids[m + 1] = e /\ packing'.codes[m + 1] = code
                  /\ e = Entry(e.vid) /\ place'[e.vid] = <<b, m + 1>>
                  /\ \A v \in Vids : v # e.vid => place'[v] = place[v]
       /\ ~kept => Len(packing'.ids) = m /\ Len(packing'.codes) = m /\ DOMAIN packing'.ids = 1 .. m
                   /\ place' = place
       /\ \A j \in 1 .. m : packing'.ids[j] = packing.ids[j] /\ packing'.codes[j] = packing.codes[j]
  <2>1. CASE kept
    BY <1>14, <1>16, <1>17, <1>18, <1>19, <2>1
  <2>2. CASE ~kept
    BY <1>4, <1>9, <1>18, <2>2
  <2>. QED
    BY <2>1, <2>2

<1>21. place' \in [Vids -> {NoPlace} \cup (Buckets \X Positions)]
  <2>1. <<b, m + 1>> \in Buckets \X Positions
    BY <1>9, <1>15
  <2>. QED
    BY <1>14, <1>18, <1>19, <2>1
<1>22. Resting'
  BY <1>6, <1>9 DEF Resting
<1>23. Shaped'
  <2>1. ListsTyped'
    BY <1>6, <1>21 DEF Shaped, ListsTyped
  <2>2. CallerTyped'
    BY <1>6 DEF Shaped, CallerTyped, Stored
  <2>3. WorkerTyped'
    <3>1. BatchCount' = BatchCount
      BY <1>6 DEF BatchCount
    <3>. QED
      BY <1>6, <3>1 DEF Shaped, WorkerTyped
  <2>4. FillingTyped'
    BY <1>6, <1>9 DEF FillingTyped, Resting
  <2>5. PackingTyped'
    <3>1. Len(packing'.ids) = Len(packing'.codes) /\ Len(packing'.ids) < n + 1
      <4>1. m < n + 1 /\ m + 1 < n + 1
        BY <1>9, <1>10 DEF Positions
      <4>. QED
        BY <1>20, <4>1
    <3>2. n + 1 <= size[b] + 1
      BY <1>6, <1>9 DEF Positions
    <3>. QED
      BY <1>6, <1>9, <1>18, <3>1, <3>2 DEF PackingTyped, Resting
  <2>6. ListsEnd'
    <3>1. \A c : ~Packed(c, {"codes", "size"})' /\ ~Packed(c, {"size"})'
      BY <1>18 DEF Packed
    <3>2. \A c : ~Filled(c)'
      BY <1>6, <1>9 DEF Filled
    <3>. QED
      BY <1>6, <1>12, <3>1, <3>2 DEF ListsEnd
  <2>. QED
    BY <2>1, <2>2, <2>3, <2>4, <2>5, <2>6 DEF Shaped
<1>24. ASSUME Sound
       PROVE  Sound'
  <2>1. /\ \A v, c, i : ListedAt(v, c, i)' <=> ListedAt(v, c, i)
        /\ \A v : Listed(v)' <=> Listed(v)
        /\ \A v : Current(v)' = Current(v)
    BY <1>6 DEF ListedAt, Listed, Current
  <2>2. /\ \A c : CodesOf(c) = codes[c] /\ CodesOf(c)' = codes[c]
        /\ \A c, i : Passed(c, i) <=> c = b /\ i < n
        /\ \A c, i : Passed(c, i)' <=> c = b /\ i < n + 1
    BY <1>1, <1>2, <1>6, <1>11, <1>18 DEF CodesOf, Packed, Passed
  <2>3. kept => ListedAt(e.vid, b, n)
    BY <1>3, <1>13, <1>20 DEF ListedAt
  <2>4. \A v \in Vids, c \in Buckets : \A i, d, j : 
          ListedAt(v, c, i) /\ i \in Positions /\ d \in Buckets /\ j \in Positions /\ ListedAt(v, d, j) => d = c /\ j = i
    BY <1>24 DEF Sound, EntriesAreAtPlaces
  <2>5. ASSUME NEW v \in Vids, NEW i \in Positions, ListedAt(v, b, i), i # n
        PROVE  place'[v] = place[v]
    <3>1. ~kept \/ v # e.vid
      BY <1>9, <2>3, <2>4, <2>5
    <3>. QED
      BY <1>20, <2>5, <3>1
  <2>6. EntriesAreAtPlaces'
    <3>1. SUFFICES ASSUME NEW v \in Vids, NEW c \in Buckets, NEW i \in Positions, ListedAt(v, c, i),
                          ~(c = b /\ i < n + 1)
                   PROVE  place'[v] = <<c, i>>
      BY <1>6, <2>1, <2>2, <2>4 DEF EntriesAreAtPlaces
    <3>2. ~(c = b /\ i < n) /\ ~(c = b /\ i = n)
      BY <1>9, <3>1 DEF Positions
    <3>3. place[v] = <<c, i>>
      BY <1>24, <2>2, <3>1, <3>2 DEF Sound, EntriesAreAtPlaces
    <3>4. ~kept \/ v # e.vid
      BY <1>9, <2>3, <2>4, <3>1, <3>2
    <3>. QED
      BY <1>20, <3>3, <3>4
  <2>7. CodesAreTheirs'
    BY <1>24, <2>1, <2>2 DEF Sound, CodesAreTheirs, Vid
  <2>8. 1 .. n - 1 \subseteq Positions /\ n \in 1 .. n /\ 1 .. n - 1 \subseteq 1 .. n
        /\ (n + 1) - 1 = n /\ \A i \in 1 .. n : i \in Positions /\ (i = n \/ i \in 1 .. n - 1)
    BY <1>9 DEF Positions
  <2>9. /\ \A j \in 1 .. m : \E v \in Vids :
             /\ packing.ids[j] = Entry(v) /\ place[v] = <<b, j>>
             /\ \E i \in 1 .. n - 1 : ListedAt(v, b, i) /\ codes[b][i] = packing.codes[j]
        /\ \A v \in Vids, i \in 1 .. n - 1 : ListedAt(v, b, i) /\ v \notin deleted =>
             \E j \in Positions : PackedAt(v, j, codes[b][i])
    <3>1. PackedIsKept
      BY <1>24 DEF Sound
    <3>. QED
      BY <1>1, <1>2, <1>6, <1>9, <3>1 DEF PackedIsKept
  <2>10. ASSUME NEW j \in DOMAIN packing'.ids
         PROVE  \E v \in Vids : /\ packing'.ids[j] = Entry(v) /\ place'[v] = <<b, j>>
                                /\ \E i \in 1 .. n : ListedAt(v, b, i) /\ codes[b][i] = packing'.codes[j]
    <3>1. CASE j \in 1 .. m
      <4>1. PICK v \in Vids : /\ packing.ids[j] = Entry(v) /\ place[v] = <<b, j>>
                              /\ \E i \in 1 .. n - 1 : ListedAt(v, b, i) /\ codes[b][i] = packing.codes[j]
        BY <2>9, <3>1
      <4>2. PICK i \in 1 .. n - 1 : ListedAt(v, b, i) /\ codes[b][i] = packing.codes[j]
        BY <4>1
      <4>3. i # n /\ i \in Positions /\ i \in 1 .. n
        BY <1>9, <2>8 DEF Positions
      <4>4. place'[v] = <<b, j>>
        BY <2>5, <4>1, <4>2, <4>3
      <4>. QED
        BY <1>20, <3>1, <4>1, <4>2, <4>3, <4>4
    <3>2. CASE j \notin 1 .. m
      <4>1. kept /\ j = m + 1
        BY <1>9, <1>20, <3>2
      <4>2. packing'.ids[j] = Entry(e.vid) /\ place'[e.vid] = <<b, j>>
        BY <1>20, <4>1
      <4>3. ListedAt(e.vid, b, n) /\ codes[b][n] = packing'.codes[j]
        BY <1>5, <1>20, <2>3, <4>1
      <4>. QED
        BY <1>14, <2>8, <4>2, <4>3
    <3>. QED
      BY <3>1, <3>2
  <2>11. ASSUME NEW v \in Vids, NEW i \in 1 .. n, ListedAt(v, b, i), v \notin deleted
         PROVE  \E j \in Positions : j \in DOMAIN packing'.ids /\ packing'.ids[j] = Entry(v)
                                     /\ packing'.codes[j] = codes[b][i]
    <3>1. CASE i \in 1 .. n - 1
      <4>1. PICK j \in Positions : PackedAt(v, j, codes[b][i])
        BY <2>9, <2>11, <3>1
      <4>2. j \in 1 .. m /\ packing.ids[j] = Entry(v) /\ packing.codes[j] = codes[b][i]
        BY <1>9, <4>1 DEF PackedAt
      <4>3. j \in DOMAIN packing'.ids
        BY <1>9, <1>20, <4>2
      <4>. QED
        BY <1>20, <4>2, <4>3
    <3>2. CASE i = n
      <4>1. e = Entry(v)
        BY <1>3, <2>11, <3>2 DEF ListedAt
      <4>2. kept
        BY <1>16, <2>11, <4>1 DEF Entry
      <4>3. m + 1 \in DOMAIN packing'.ids
        BY <1>9, <1>20, <4>2
      <4>. QED
        BY <1>5, <1>15, <1>20, <3>2, <4>1, <4>2, <4>3
    <3>. QED
      BY <2>8, <3>1, <3>2
  <2>12. PackedIsKept'
    <3>1. packing'.step = "copy" /\ packing'.bucket = b /\ packing'.next - 1 = n
      BY <1>18, <2>8
    <3>2. \A j \in DOMAIN packing'.ids : \E v \in Vids :
            /\ packing'.ids[j] = Entry(v) /\ place'[v] = <<b, j>>
            /\ \E i \in 1 .. n : ListedAt(v, b, i) /\ codes[b][i] = packing'.codes[j]
      BY <2>10
    <3>3. \A v \in Vids, i \in 1 .. n :
            ListedAt(v, b, i) /\ v \notin deleted =>
              \E j \in Positions : j \in DOMAIN packing'.ids /\ packing'.ids[j] = Entry(v)
                                  /\ packing'.codes[j] = codes[b][i]
      BY <2>11
    <3>. QED
      <4>1. ids' = ids /\ codes' = codes /\ deleted' = deleted
        BY <1>6
      <4>2. \A v, i : ListedAt(v, b, i)' <=> ListedAt(v, b, i)
        BY <4>1 DEF ListedAt
      <4>3. ASSUME NEW v \in Vids, NEW i \in 1 .. n, ListedAt(v, b, i), v \notin deleted
            PROVE  \E j \in Positions : PackedAt(v, j, codes[b][i])'
        <5>1. PICK j \in Positions : j \in DOMAIN packing'.ids /\ packing'.ids[j] = Entry(v)
                                     /\ packing'.codes[j] = codes[b][i]
          BY <3>3, <4>3
        <5>. QED
          BY <4>1, <5>1 DEF PackedAt
      <4>4. \A v \in Vids, i \in 1 .. (packing.next - 1)' :
              ListedAt(v, packing.bucket, i)' /\ v \notin deleted' =>
                \E j \in Positions : PackedAt(v, j, codes[packing.bucket][i])'
        BY <3>1, <4>1, <4>2, <4>3
      <4>5. \A j \in DOMAIN packing'.ids : \E v \in Vids :
              /\ packing'.ids[j] = Entry(v) /\ place'[v] = <<packing'.bucket, j>>
              /\ \E i \in 1 .. (packing.next - 1)' :
                   ListedAt(v, packing.bucket, i)' /\ codes'[packing'.bucket][i] = packing'.codes[j]
        BY <3>1, <3>2, <4>1, <4>2
      <4>. QED
        BY <3>1, <4>4, <4>5, Zenon DEF PackedIsKept
  <2>13. ASSUME NEW v \in Vids, ~Listed(v)
         PROVE  place'[v] = place[v]
    <3>1. ~kept \/ v # e.vid
      BY <1>9, <2>3, <2>13 DEF Listed
    <3>. QED
      BY <1>20, <3>1
  <2>14. \A v : Fresh(v) => Fresh(v)'
    BY <2>1, <2>2 DEF Fresh
  <2>. QED
    BY <1>6, <1>9, <1>22, <1>24, <2>1, <2>6, <2>7, <2>12, <2>13, <2>14, RestingKeepsSound
<1>. QED
  BY <1>8, <1>23, <1>24

\* A compaction that has copied all entries switches to its ids.
LEMMA SwitchIdsStep ==
  ASSUME IInv, SwitchIds, UNCHANGED loopVars
  PROVE  IInv'
<1>. USE DEF IInv
<1>1. PICK b : b = packing.bucket
  OBVIOUS
<1>2. PICK n : n = packing.next
  OBVIOUS
<1>3. /\ Shaped /\ packing.step = "copy" /\ n > size[b]
      /\ ids' = [ids EXCEPT ![b] = packing.ids] /\ packing' = [packing EXCEPT !.step = "codes"]
      /\ codes' = codes /\ size' = size /\ capacity' = capacity /\ place' = place
      /\ dead' = dead /\ deleted' = deleted /\ filling' = filling
      /\ raw' = raw /\ gone' = gone /\ caller' = caller /\ worker' = worker
      /\ indexed_count_' = indexed_count_ /\ updated_vids_' = updated_vids_
      /\ history' = history
  BY <1>1, <1>2 DEF SwitchIds, loopVars, storeVars
<1>4. Claimed' => Claimed
  BY <1>3 DEF Claimed, history
<1>5. /\ packing \in Packs /\ b \in Buckets /\ n \in Positions /\ Len(packing.ids) \in Nat
      /\ packing.ids \in Seq(EntryType) /\ packing.codes \in Seq(Vectors)
      /\ DOMAIN packing.ids = DOMAIN packing.codes
      /\ Len(packing.ids) = Len(packing.codes)
      /\ Resting /\ packing # NotPacking /\ \A c : ~Filled(c)
      /\ ids \in [Buckets -> Seq(EntryType)] /\ codes \in [Buckets -> Seq(Vectors)]
      /\ size \in [Buckets -> Nat]
  BY <1>1, <1>2, <1>3, PackingTypes
<1>6. Len(packing.ids) < n /\ n <= size[b] + 1
  BY <1>1, <1>2, <1>3, <1>5 DEF Shaped, PackingTyped
<1>7. n - 1 = size[b] /\ Len(packing.ids) <= size[b]
  <2>1. size[b] \in Nat /\ n \in Nat /\ Len(packing.ids) \in Nat
    BY <1>5 DEF Positions
  <2>. QED
    BY <1>3, <1>6, <2>1
<1>8. /\ packing' \in Packs /\ packing'.step = "codes" /\ packing'.bucket = b
      /\ packing'.ids = packing.ids /\ packing'.codes = packing.codes
  BY <1>1, <1>3, <1>5 DEF Packs
<1>9. /\ ids' \in [Buckets -> Seq(EntryType)] /\ ids'[b] = packing.ids
      /\ \A c \in Buckets : c # b => ids'[c] = ids[c]
  BY <1>3, <1>5
<1>10. Resting'
  BY <1>3, <1>5 DEF Resting
<1>11. \A c : ~Packed(c, {"codes", "size"}) /\ ~Packed(c, {"size"}) /\ ~Packed(c, {"codes"})
  BY <1>3 DEF Packed
<1>12. \A c \in Buckets : size[c] <= capacity[c] /\ Len(ids[c]) = size[c] /\ Len(codes[c]) = size[c]
  BY <1>3, <1>5, <1>11 DEF Shaped, ListsEnd
<1>13. /\ \A c : Packed(c, {"codes", "size"})' <=> c = b
       /\ \A c : Packed(c, {"codes"})' <=> c = b
       /\ \A c : ~Packed(c, {"size"})'
       /\ \A c : ~Filled(c)'
  BY <1>3, <1>5, <1>8 DEF Packed, Filled
<1>14. Shaped'
  <2>1. ListsTyped'
    BY <1>3, <1>9 DEF Shaped, ListsTyped
  <2>2. CallerTyped'
    BY <1>3 DEF Shaped, CallerTyped, Stored
  <2>3. WorkerTyped'
    <3>1. BatchCount' = BatchCount
      BY <1>3 DEF BatchCount
    <3>. QED
      BY <1>3, <3>1 DEF Shaped, WorkerTyped
  <2>4. FillingTyped'
    BY <1>3, <1>5 DEF FillingTyped, Resting
  <2>5. PackingTyped'
    BY <1>3, <1>5, <1>8 DEF PackingTyped, Resting
  <2>6. ListsEnd'
    <3>1. SUFFICES ASSUME NEW c \in Buckets
                   PROVE  /\ size[c] <= capacity[c]
                          /\ Len(ids'[c]) = IF c = b THEN Len(packing.ids) ELSE size[c]
                          /\ Len(codes[c]) = size[c]
                          /\ c = b => ids'[c] = packing.ids /\ Len(packing.ids) <= size[c]
      BY <1>3, <1>8, <1>13 DEF ListsEnd
    <3>. QED
      BY <1>7, <1>9, <1>12, <3>1
  <2>. QED
    BY <2>1, <2>2, <2>3, <2>4, <2>5, <2>6 DEF Shaped
<1>15. ASSUME Sound
       PROVE  Sound'
  <2>1. \A j \in DOMAIN packing.ids : \E v \in Vids :
          /\ packing.ids[j] = Entry(v) /\ place[v] = <<b, j>>
          /\ \E i \in 1 .. n - 1 : ListedAt(v, b, i) /\ codes[b][i] = packing.codes[j]
    <3>1. PackedIsKept
      BY <1>15 DEF Sound
    <3>. QED
      BY <1>1, <1>2, <1>3, <3>1 DEF PackedIsKept
  <2>2. \A v \in Vids, i \in 1 .. n - 1 : ListedAt(v, b, i) /\ v \notin deleted =>
          \E j \in Positions : PackedAt(v, j, codes[b][i])
    <3>1. PackedIsKept
      BY <1>15 DEF Sound
    <3>. QED
      BY <1>1, <1>2, <1>3, <3>1 DEF PackedIsKept
  <2>3. \A v, c, i : ListedAt(v, c, i)' <=> i \in DOMAIN ids'[c] /\ ids'[c][i] = Entry(v)
    BY DEF ListedAt, Entry
  <2>4. \A v, c, i : c \in Buckets /\ c # b => (ListedAt(v, c, i)' <=> ListedAt(v, c, i))
    BY <1>9, <2>3 DEF ListedAt
  <2>5. \A v, i : ListedAt(v, b, i)' <=> i \in DOMAIN packing.ids /\ packing.ids[i] = Entry(v)
    BY <1>9, <2>3
  <2>6. ASSUME NEW v \in Vids, NEW i \in Positions, ListedAt(v, b, i)'
        PROVE  /\ place[v] = <<b, i>>
               /\ \E j \in Positions : ListedAt(v, b, j) /\ codes[b][j] = packing.codes[i]
    <3>1. i \in DOMAIN packing.ids /\ packing.ids[i] = Entry(v)
      BY <2>5, <2>6
    <3>2. PICK u \in Vids : /\ packing.ids[i] = Entry(u) /\ place[u] = <<b, i>>
                            /\ \E j \in 1 .. n - 1 : ListedAt(u, b, j) /\ codes[b][j] = packing.codes[i]
      BY <2>1, <3>1
    <3>3. u = v
      BY <3>1, <3>2 DEF Entry
    <3>4. 1 .. n - 1 \subseteq Positions
      BY <1>5 DEF Positions
    <3>. QED
      BY <3>2, <3>3, <3>4
  <2>7. /\ \A c : CodesOf(c) = codes[c]
        /\ \A c : c # b => CodesOf(c)' = codes[c]
        /\ CodesOf(b)' = packing.codes
        /\ \A c, i : Passed(c, i) => c = b
        /\ \A c, i : ~Passed(c, i)'
    BY <1>1, <1>3, <1>8, <1>11, <1>13 DEF CodesOf, Passed
  <2>8. \A v \in Vids, c \in Buckets, i \in Positions : ListedAt(v, c, i)' => place[v] = <<c, i>>
    <3>1. SUFFICES ASSUME NEW v \in Vids, NEW c \in Buckets, NEW i \in Positions, ListedAt(v, c, i)'
                   PROVE  place[v] = <<c, i>>
      OBVIOUS
    <3>2. CASE c = b
      BY <2>6, <3>1, <3>2
    <3>3. CASE c # b
      BY <1>15, <2>4, <2>7, <3>1, <3>3 DEF Sound, EntriesAreAtPlaces
    <3>. QED
      BY <3>2, <3>3
  <2>9. EntriesAreAtPlaces'
    <3>1. SUFFICES ASSUME NEW v \in Vids, NEW c \in Buckets, NEW i \in Positions, ListedAt(v, c, i)'
                   PROVE  /\ \A d \in Buckets, j \in Positions : ListedAt(v, d, j)' => d = c /\ j = i
                          /\ place'[v] = <<c, i>>
      BY DEF EntriesAreAtPlaces
    <3>2. ASSUME NEW d \in Buckets, NEW j \in Positions, ListedAt(v, d, j)'
          PROVE  d = c /\ j = i
      <4>1. <<d, j>> = <<c, i>>
        BY <2>8, <3>1, <3>2
      <4>. QED
        BY <4>1
    <3>. QED
      BY <1>3, <2>8, <3>1, <3>2
  <2>10. CodesAreTheirs'
    <3>1. SUFFICES ASSUME NEW v \in Vids, NEW c \in Buckets, NEW i \in Positions, ListedAt(v, c, i)'
                   PROVE  Vid(CodesOf(c)'[i]) = v /\ Bucket[CodesOf(c)'[i]] = c
      BY DEF CodesAreTheirs, Vid
    <3>2. CASE c = b
      <4>1. PICK j \in Positions : ListedAt(v, b, j) /\ codes[b][j] = packing.codes[i]
        BY <2>6, <3>1, <3>2
      <4>2. Vid(codes[b][j]) = v /\ Bucket[codes[b][j]] = b
        BY <1>5, <1>15, <2>7, <4>1 DEF Sound, CodesAreTheirs
      <4>. QED
        BY <2>7, <3>2, <4>1, <4>2
    <3>3. CASE c # b
      <4>1. Vid(codes[c][i]) = v /\ Bucket[codes[c][i]] = c
        BY <1>15, <2>4, <2>7, <3>1, <3>3 DEF Sound, CodesAreTheirs
      <4>. QED
        BY <2>7, <3>3, <4>1
    <3>. QED
      BY <3>2, <3>3
  <2>11. DOMAIN ids[b] = DOMAIN codes[b] /\ DOMAIN ids[b] = 1 .. n - 1
    <3>1. DOMAIN ids[b] = 1 .. Len(ids[b]) /\ DOMAIN codes[b] = 1 .. Len(codes[b])
      BY <1>5
    <3>. QED
      BY <1>5, <1>7, <1>12, <3>1
  <2>12. PackedIsKept'
    <3>1. \A j \in DOMAIN packing.codes : \E i \in DOMAIN codes[b] : codes[b][i] = packing.codes[j]
      BY <1>5, <2>1, <2>11
    <3>. QED
      BY <1>3, <1>8, <3>1 DEF PackedIsKept
  <2>13. \A v \in Vids : Listed(v)' => Listed(v)
    BY <1>5, <2>4, <2>6 DEF Listed
  <2>14. ASSUME NEW v \in Vids, v \notin deleted, NEW c \in Buckets, NEW i \in Positions, ListedAt(v, c, i)
         PROVE  \E j \in Positions : ListedAt(v, c, j)' /\ CodesOf(c)'[j] = codes[c][i]
    <3>1. CASE c = b
      <4>1. i \in 1 .. n - 1
        BY <2>11, <2>14, <3>1 DEF ListedAt
      <4>2. PICK j \in Positions : PackedAt(v, j, codes[b][i])
        BY <2>2, <2>14, <3>1, <4>1
      <4>. QED
        BY <2>5, <2>7, <3>1, <4>2 DEF PackedAt
    <3>2. CASE c # b
      BY <2>4, <2>7, <2>14, <3>2
    <3>. QED
      BY <3>1, <3>2
  <2>15. \A v \in Vids : Listed(v) /\ v \notin deleted => Listed(v)'
    BY <2>14 DEF Listed
  <2>16. ASSUME NEW v \in Vids, Fresh(v), v \notin deleted
         PROVE  Fresh(v)'
    <3>1. PICK c \in Buckets, i \in Positions : ListedAt(v, c, i) /\ codes[c][i] = Current(v)
      BY <2>7, <2>16 DEF Fresh
    <3>2. PICK j \in Positions : ListedAt(v, c, j)' /\ CodesOf(c)'[j] = codes[c][i]
      BY <2>14, <2>16, <3>1
    <3>3. Current(v)' = Current(v)
      BY <1>3 DEF Current
    <3>. QED
      BY <3>1, <3>2, <3>3 DEF Fresh
  <2>. QED
    BY <1>3, <1>5, <1>10, <1>15, <2>9, <2>10, <2>12, <2>13, <2>15, <2>16, RestingKeepsSound
<1>. QED
  BY <1>4, <1>14, <1>15

\* Then to its codes.
LEMMA SwitchCodesStep ==
  ASSUME IInv, SwitchCodes, UNCHANGED loopVars
  PROVE  IInv'
<1>. USE DEF IInv
<1>1. PICK b : b = packing.bucket
  OBVIOUS
<1>2. /\ Shaped /\ packing.step = "codes"
      /\ codes' = [codes EXCEPT ![b] = packing.codes] /\ packing' = [packing EXCEPT !.step = "size"]
      /\ ids' = ids /\ size' = size /\ capacity' = capacity /\ place' = place
      /\ dead' = dead /\ deleted' = deleted /\ filling' = filling
      /\ raw' = raw /\ gone' = gone /\ caller' = caller /\ worker' = worker
      /\ indexed_count_' = indexed_count_ /\ updated_vids_' = updated_vids_
      /\ history' = history
  BY <1>1 DEF SwitchCodes, loopVars, storeVars
<1>3. Claimed' => Claimed
  BY <1>2 DEF Claimed, history
<1>4. /\ packing \in Packs /\ b \in Buckets /\ packing.codes \in Seq(Vectors)
      /\ Len(packing.ids) = Len(packing.codes)
      /\ Resting /\ packing # NotPacking /\ \A c : ~Filled(c)
      /\ codes \in [Buckets -> Seq(Vectors)]
  BY <1>1, <1>2, PackingTypes
<1>5. /\ packing' \in Packs /\ packing'.step = "size" /\ packing'.bucket = b
      /\ packing'.ids = packing.ids /\ packing'.codes = packing.codes
  BY <1>1, <1>2, <1>4 DEF Packs
<1>6. /\ codes' \in [Buckets -> Seq(Vectors)] /\ codes'[b] = packing.codes
      /\ \A c : c \in Buckets /\ c # b => codes'[c] = codes[c]
  BY <1>2, <1>4
<1>7. Resting'
  BY <1>2, <1>4 DEF Resting
<1>8. /\ \A c : Packed(c, {"codes", "size"}) <=> c = b
      /\ \A c : Packed(c, {"codes", "size"})' <=> c = b
      /\ \A c : Packed(c, {"codes"}) <=> c = b
      /\ \A c : ~Packed(c, {"codes"})'
      /\ \A c : ~Packed(c, {"size"})
      /\ \A c : Packed(c, {"size"})' <=> c = b
      /\ \A c : ~Filled(c)'
  BY <1>1, <1>2, <1>4, <1>5 DEF Packed, Filled
<1>9. Shaped'
  <2>1. ListsTyped'
    BY <1>2, <1>6 DEF Shaped, ListsTyped
  <2>2. CallerTyped'
    BY <1>2 DEF Shaped, CallerTyped, Stored
  <2>3. WorkerTyped'
    <3>1. BatchCount' = BatchCount
      BY <1>2 DEF BatchCount
    <3>. QED
      BY <1>2, <3>1 DEF Shaped, WorkerTyped
  <2>4. FillingTyped'
    BY <1>2, <1>4 DEF FillingTyped, Resting
  <2>5. PackingTyped'
    BY <1>2, <1>4, <1>5 DEF PackingTyped, Resting
  <2>6. ListsEnd'
    <3>1. SUFFICES ASSUME NEW c \in Buckets
                   PROVE  /\ size[c] <= capacity[c]
                          /\ Len(ids[c]) = IF c = b THEN Len(packing.ids) ELSE size[c]
                          /\ Len(codes'[c]) = IF c = b THEN Len(packing.codes) ELSE size[c]
                          /\ c = b => ids[c] = packing.ids /\ Len(packing.ids) <= size[c]
                          /\ c = b => codes'[c] = packing.codes
      BY <1>2, <1>5, <1>8 DEF ListsEnd
    <3>. QED
      BY <1>2, <1>4, <1>6, <1>8, <3>1 DEF Shaped, ListsEnd
  <2>. QED
    BY <2>1, <2>2, <2>3, <2>4, <2>5, <2>6 DEF Shaped
<1>10. ASSUME Sound
       PROVE  Sound'
  <2>1. /\ \A v, c, i : ListedAt(v, c, i)' <=> ListedAt(v, c, i)
        /\ \A v : Listed(v)' <=> Listed(v)
        /\ \A v : Current(v)' = Current(v)
        /\ \A c, i : ~Passed(c, i) /\ ~Passed(c, i)'
    BY <1>2, <1>5 DEF ListedAt, Listed, Current, Passed
  <2>2. \A c : c \in Buckets => CodesOf(c)' = CodesOf(c)
    BY <1>6, <1>8 DEF CodesOf
  <2>3. EntriesAreAtPlaces'
    BY <1>2, <1>10, <2>1 DEF Sound, EntriesAreAtPlaces
  <2>4. CodesAreTheirs'
    BY <1>10, <2>1, <2>2 DEF Sound, CodesAreTheirs, Vid
  <2>5. PackedIsKept'
    BY <1>5 DEF PackedIsKept
  <2>6. \A v : Fresh(v) => Fresh(v)'
    BY <2>1, <2>2 DEF Fresh
  <2>. QED
    BY <1>2, <1>4, <1>7, <1>10, <2>1, <2>3, <2>4, <2>5, <2>6, RestingKeepsSound
<1>. QED
  BY <1>3, <1>9, <1>10

\* At last searches read no further than the compacted list.
LEMMA SwitchSizeStep ==
  ASSUME IInv, SwitchSize, UNCHANGED loopVars
  PROVE  IInv'
<1>. USE DEF IInv
<1>1. PICK b : b = packing.bucket
  OBVIOUS
<1>2. /\ Shaped /\ packing.step = "size"
      /\ size' = [size EXCEPT ![b] = Len(packing.ids)] /\ dead' = [dead EXCEPT ![b] = 0]
      /\ packing' = NotPacking
      /\ ids' = ids /\ codes' = codes /\ capacity' = capacity /\ place' = place
      /\ deleted' = deleted /\ filling' = filling
      /\ raw' = raw /\ gone' = gone /\ caller' = caller /\ worker' = worker
      /\ indexed_count_' = indexed_count_ /\ updated_vids_' = updated_vids_
      /\ history' = history
  BY <1>1 DEF SwitchSize, loopVars, storeVars
<1>3. Claimed' => Claimed
  BY <1>2 DEF Claimed, history
<1>4. /\ b \in Buckets /\ Len(packing.ids) = Len(packing.codes) /\ Len(packing.ids) \in Nat
      /\ Resting /\ \A c : ~Filled(c) /\ size \in [Buckets -> Nat]
  BY <1>1, <1>2, PackingTypes
<1>5. Resting'
  BY <1>2, <1>4 DEF Resting
<1>6. /\ \A c : Packed(c, {"codes", "size"}) <=> c = b
      /\ \A c : Packed(c, {"size"}) <=> c = b
      /\ \A c : ~Packed(c, {"codes"}) /\ ~Packed(c, {"codes"})'
      /\ \A c : ~Packed(c, {"codes", "size"})' /\ ~Packed(c, {"size"})'
      /\ \A c : ~Filled(c)'
  BY <1>1, <1>2, <1>4 DEF Packed, Filled, NotPacking
<1>7. Shaped'
  <2>1. ListsTyped'
    BY <1>2, <1>4 DEF Shaped, ListsTyped
  <2>2. CallerTyped'
    BY <1>2 DEF Shaped, CallerTyped, Stored
  <2>3. WorkerTyped'
    <3>1. BatchCount' = BatchCount
      BY <1>2 DEF BatchCount
    <3>. QED
      BY <1>2, <3>1 DEF Shaped, WorkerTyped
  <2>4. FillingTyped' /\ PackingTyped'
    BY <1>2, <1>4 DEF FillingTyped, PackingTyped, Resting
  <2>5. ListsEnd'
    <3>1. SUFFICES ASSUME NEW c \in Buckets
                   PROVE  /\ size'[c] <= capacity[c]
                          /\ Len(ids[c]) = size'[c]
                          /\ Len(codes[c]) = size'[c]
      BY <1>2, <1>6 DEF ListsEnd
    <3>2. /\ size[c] <= capacity[c]
          /\ Len(ids[c]) = IF c = b THEN Len(packing.ids) ELSE size[c]
          /\ Len(codes[c]) = IF c = b THEN Len(packing.codes) ELSE size[c]
          /\ c = b => Len(packing.ids) <= size[c]
      BY <1>2, <1>4, <1>6 DEF Shaped, ListsEnd
    <3>3. size'[c] = IF c = b THEN Len(packing.ids) ELSE size[c]
      BY <1>2, <1>4
    <3>4. size[c] \in Nat /\ capacity[c] \in Nat
      BY <1>2 DEF Shaped, ListsTyped
    <3>. QED
      BY <1>4, <3>2, <3>3, <3>4
  <2>. QED
    BY <2>1, <2>2, <2>3, <2>4, <2>5 DEF Shaped
<1>8. ASSUME Sound
      PROVE  Sound'
  <2>1. /\ \A v, c, i : ListedAt(v, c, i)' <=> ListedAt(v, c, i)
        /\ \A v : Listed(v)' <=> Listed(v)
        /\ \A v : Current(v)' = Current(v)
        /\ \A c, i : ~Passed(c, i) /\ ~Passed(c, i)'
        /\ \A c : CodesOf(c)' = CodesOf(c)
    BY <1>2, <1>6 DEF ListedAt, Listed, Current, Passed, CodesOf, NotPacking
  <2>2. EntriesAreAtPlaces'
    BY <1>2, <1>8, <2>1 DEF Sound, EntriesAreAtPlaces
  <2>3. CodesAreTheirs'
    BY <1>8, <2>1 DEF Sound, CodesAreTheirs, Vid
  <2>4. PackedIsKept'
    BY <1>2 DEF PackedIsKept, NotPacking
  <2>5. \A v : Fresh(v) => Fresh(v)'
    BY <2>1 DEF Fresh
  <2>. QED
    BY <1>2, <1>4, <1>5, <1>8, <2>1, <2>2, <2>3, <2>4, <2>5, RestingKeepsSound
<1>. QED
  BY <1>3, <1>7, <1>8

-----------------------------------------------------------------------------
(* Every step. *)

\* Searches change nothing but themselves.
LEMMA SearchesChangeNothing ==
  ASSUME IInv, UNCHANGED <<ids, codes, size, capacity, place, dead, deleted, filling, packing>>,
         UNCHANGED loopVars
  PROVE  IInv'
<1>. USE DEF IInv
<1>1. /\ Shaped /\ (Claimed => Sound) /\ raw' = raw /\ gone' = gone
      /\ updated_vids_' = updated_vids_ /\ deleted' = deleted /\ dead' = dead
      /\ indexed_count_' = indexed_count_ /\ ThreadKept /\ caller' = caller /\ history' = history
  BY DEF ListsKept, ThreadKept, loopVars, storeVars
<1>2. Claimed' => Claimed
  BY <1>1 DEF Claimed, history
<1>3. CallerTyped'
  <2>1. Stored' = Stored
    BY <1>1 DEF Stored
  <2>. QED
    BY <1>1, <2>1 DEF CallerTyped, Shaped
<1>4. Shaped'
  BY <1>1, <1>3, CallerTypes, CallsKeepShape
<1>5. \A v : Queued(v) => Queued(v)'
  BY <1>1 DEF Queued
<1>6. \A v : Current(v)' = Current(v)
  BY <1>1 DEF Current
<1>7. Sound => Sound'
  BY <1>1, <1>5, <1>6, CallsKeepSound
<1>. QED
  BY <1>1, <1>2, <1>4, <1>7

\* The invariant is kept by every step.
LEMMA EveryStep ==
  ASSUME IInv, [Next]_vars
  PROVE  IInv'
<1>1. CASE Caller
  <2>1. CASE \E v \in Vids : UpdateRaw(v) \/ DeleteDoc(v) \/ DelDocByQuery(v)
    <3>1. PICK v \in Vids : UpdateRaw(v) \/ DeleteDoc(v) \/ DelDocByQuery(v)
      BY <2>1
    <3>. QED
      BY <3>1, UpdateRawStep, DeleteDocStep, DelDocByQueryStep
  <2>. QED
    BY <1>1, <2>1, AddVectorStep, PushUpdateStep, UnsetDeletedStep, CountDeletedStep DEF Caller
<1>2. CASE Worker
  <2>1. CASE BucketStep /\ UNCHANGED loopVars
    BY <2>1, GrowBucketStep, FillKeysStep, PublishKeysStep, CompactOneStep, SwitchIdsStep,
       SwitchCodesStep, SwitchSizeStep DEF BucketStep
  <2>2. CASE StartRound \/ ReadBatch \/ NextBucket \/ EndBatch \/ Refused
    BY <2>2, StartRoundStep, ReadBatchStep, NextBucketStep, EndBatchStep, RefusedStep
  <2>3. CASE PopUpdate \/ ReadUpdates \/ ApplyUpdate \/ CheckBucket \/ EndRound
    BY <2>3, PopUpdateStep, ReadUpdatesStep, ApplyUpdateStep, CheckBucketStep, EndRoundStep
  <2>. QED
    BY <1>2, <2>1, <2>2, <2>3 DEF Worker
<1>3. CASE Search
  <2>1. /\ UNCHANGED <<ids, codes, size, capacity, place, dead, deleted, filling, packing>>
        /\ UNCHANGED loopVars
    BY <1>3 DEF Search, ReadSize, ReadIds, Scan
  <2>. QED
    BY <2>1, SearchesChangeNothing
<1>4. CASE UNCHANGED vars
  <2>1. /\ UNCHANGED <<ids, codes, size, capacity, place, dead, deleted, filling, packing>>
        /\ UNCHANGED loopVars
    BY <1>4 DEF vars, bucketVars
  <2>. QED
    BY <2>1, SearchesChangeNothing
<1>. QED
  BY <1>1, <1>2, <1>3, <1>4 DEF Next

\* The inductive invariant holds in every state that the indexing loop, the
\* calls of the engine and the searches reach.
THEOREM InvariantHolds == Spec => []IInv
<1>1. Init => IInv
  BY InitInvariant
<1>2. IInv /\ [Next]_vars => IInv'
  BY EveryStep
<1>. QED
  BY <1>1, <1>2, PTL DEF Spec

-----------------------------------------------------------------------------
(* What the runs check. *)

\* Without a compaction that switches, the arrays of a bucket end together.
LEMMA ArraysEndTogether ==
  ASSUME Shaped, NEW b \in Buckets, ~Packed(b, {"codes", "size"})
  PROVE  size[b] <= Len(ids[b]) /\ Len(ids[b]) = Len(codes[b])
<1>1. ~Packed(b, {"size"})
  BY DEF Packed
<1>2. /\ Len(ids[b]) = (IF Filled(b) THEN Needed ELSE size[b])
      /\ Len(codes[b]) = (IF Filled(b) THEN Needed ELSE size[b])
  BY <1>1 DEF Shaped, ListsEnd
<1>3. size[b] \in Nat
  BY DEF Shaped, ListsTyped
<1>4. CASE Filled(b)
  <2>1. filling.step = "publish" /\ filling.bucket = b
    BY <1>4 DEF Filled
  <2>2. size[b] <= Needed
    BY <2>1, FillingTypes
  <2>. QED
    BY <1>2, <1>4, <2>2
<1>5. CASE ~Filled(b)
  BY <1>2, <1>3, <1>5
<1>. QED
  BY <1>4, <1>5

\* The shape implies the type invariant.
LEMMA ShapedIsTyped ==
  ASSUME Shaped
  PROVE  TypeOK
<1>1. ASSUME NEW b \in Buckets
      PROVE  /\ ids[b] \in Seq(EntryType) /\ codes[b] \in Seq(Vectors) /\ size[b] <= capacity[b]
             /\ packing.step \notin {"codes", "size"} \/ packing.bucket # b =>
                  size[b] <= Len(ids[b]) /\ Len(ids[b]) = Len(codes[b])
  <2>1. ids[b] \in Seq(EntryType) /\ codes[b] \in Seq(Vectors) /\ size[b] <= capacity[b]
    BY DEF Shaped, ListsTyped, ListsEnd
  <2>2. packing.step \notin {"codes", "size"} \/ packing.bucket # b => ~Packed(b, {"codes", "size"})
    BY DEF Packed
  <2>. QED
    BY <2>1, <2>2, ArraysEndTogether
<1>2. \A v \in Vids : place[v] = NoPlace \/ place[v] \in Buckets \X (Nat \ {0})
  BY DEF Shaped, ListsTyped, Positions
<1>3. /\ dead \in [Buckets -> Nat] /\ gone \subseteq deleted /\ deleted \subseteq Stored
      /\ raw \in Seq(Versions) /\ indexed_count_ \in 0 .. Len(raw)
  BY DEF Shaped, ListsTyped, CallerTyped
<1>4. /\ filling # NotFilling => worker.pc \in {"add", "update"} /\ packing = NotPacking
      /\ packing # NotPacking => worker.pc = "update" /\ worker.vecs = << >>
  BY DEF Shaped, FillingTyped, PackingTyped
<1>. QED
  BY <1>1, <1>2, <1>3, <1>4 DEF TypeOK

\* An entry that is not masked is of its vector.
LEMMA UnmaskedIsListed ==
  ASSUME Shaped, NEW b \in Buckets, NEW i \in DOMAIN ids[b], ~ids[b][i].masked
  PROVE  /\ ids[b][i].vid \in Vids /\ i \in Positions
         /\ ListedAt(ids[b][i].vid, b, i)
<1>1. ids[b] \in Seq(EntryType) /\ Len(ids[b]) \in Nat /\ DOMAIN ids[b] = 1 .. Len(ids[b])
  BY DEF Shaped, ListsTyped
<1>2. i \in Positions
  BY <1>1 DEF Positions
<1>3. PICK e : e = ids[b][i]
  OBVIOUS
<1>4. e \in EntryType
  BY <1>1, <1>3
<1>5. e.vid \in Vids /\ e = Entry(e.vid)
  BY <1>3, <1>4 DEF EntryType, Entry
<1>. QED
  BY <1>2, <1>3, <1>5 DEF ListedAt

\* Where it is claimed, codes belong to their ids.
LEMMA SoundCodes ==
  ASSUME IInv
  PROVE  CodesBelongWhileClaimed
<1>1. SUFFICES ASSUME Sound, WriterFree, NEW b \in Buckets, NEW i \in 1 .. size[b], ~ids[b][i].masked
               PROVE  Vid(codes[b][i]) = ids[b][i].vid
  BY DEF CodesBelongWhileClaimed, CodesBelongToTheirIds, IInv
<1>2. Shaped /\ \A c : ~Packed(c, {"codes", "size"}) /\ ~Packed(c, {"codes"})
  BY <1>1 DEF IInv, WriterFree, Packed, NotPacking
<1>3. size[b] <= Len(ids[b])
  BY <1>2, ArraysEndTogether
<1>4. i \in DOMAIN ids[b]
  <2>1. ids[b] \in Seq(EntryType) /\ size[b] \in Nat /\ Len(ids[b]) \in Nat
    BY <1>2 DEF Shaped, ListsTyped
  <2>2. DOMAIN ids[b] = 1 .. Len(ids[b])
    BY <2>1
  <2>. QED
    BY <1>3, <2>1, <2>2
<1>5. ids[b][i].vid \in Vids /\ i \in Positions /\ ListedAt(ids[b][i].vid, b, i)
  BY <1>1, <1>2, <1>4, UnmaskedIsListed
<1>6. CodesOf(b) = codes[b]
  BY <1>2 DEF CodesOf
<1>. QED
  BY <1>1, <1>5, <1>6 DEF Sound, CodesAreTheirs

\* The arrays keep their shape, and between the steps of the indexing thread
\* moving, growing and compacting never pair an id with another's code, until a
\* bucket refuses keys or a deleted document is revived.
THEOREM ListsStayPaired == Spec => []VectorInv
<1>1. IInv => VectorInv
  BY ShapedIsTyped, SoundCodes DEF VectorInv, IInv
<1>. QED
  BY <1>1, InvariantHolds, PTL

\* A vector that is indexed and not deleted has one entry.
LEMMA ListedOnce ==
  ASSUME IInv
  PROVE  LiveVectorsAreListedOnce
<1>1. SUFFICES ASSUME Sound, WriterFree, NEW v \in Vids, v < indexed_count_, v \notin deleted
               PROVE  /\ Listings(v) = {place[v]}
                      /\ Bucket[codes[place[v][1]][place[v][2]]] = place[v][1]
  BY DEF LiveVectorsAreListedOnce, Live, IInv
<1>2. Shaped /\ filling = NotFilling /\ packing = NotPacking
  BY <1>1 DEF IInv, WriterFree
<1>3. /\ \A c : ~Packed(c, {"codes", "size"}) /\ ~Packed(c, {"codes"}) /\ ~Packed(c, {"size"}) /\ ~Filled(c)
      /\ \A c, i : ~Passed(c, i)
      /\ ~Moving(v)
  BY <1>2 DEF Packed, Filled, Passed, Moving, NotPacking, NotFilling
<1>4. Listed(v)
  BY <1>1, <1>3 DEF Sound, WantedAreListed, Wanted
<1>5. PICK b \in Buckets, i \in Positions : ListedAt(v, b, i)
  BY <1>4 DEF Listed
<1>6. /\ \A c \in Buckets, j \in Positions : ListedAt(v, c, j) => c = b /\ j = i
      /\ place[v] = <<b, i>>
  BY <1>1, <1>3, <1>5 DEF Sound, EntriesAreAtPlaces
<1>7. Bucket[codes[b][i]] = b
  BY <1>1, <1>3, <1>5 DEF Sound, CodesAreTheirs, CodesOf
<1>8. \A c \in Buckets : DOMAIN ids[c] = 1 .. size[c] /\ 1 .. size[c] \subseteq Positions
  <2>1. SUFFICES ASSUME NEW c \in Buckets
                 PROVE  DOMAIN ids[c] = 1 .. size[c] /\ 1 .. size[c] \subseteq Positions
    OBVIOUS
  <2>2. Len(ids[c]) = size[c]
    BY <1>2, <1>3 DEF Shaped, ListsEnd
  <2>3. ids[c] \in Seq(EntryType) /\ size[c] \in Nat
    BY <1>2 DEF Shaped, ListsTyped
  <2>. QED
    BY <2>2, <2>3 DEF Positions
<1>9. Listings(v) = {<<b, i>>}
  <2>1. \A c \in Buckets : \A j \in 1 .. size[c] : ids[c][j] = Entry(v) <=> c = b /\ j = i
    <3>1. SUFFICES ASSUME NEW c \in Buckets, NEW j \in 1 .. size[c]
                   PROVE  ids[c][j] = Entry(v) <=> c = b /\ j = i
      OBVIOUS
    <3>2. j \in Positions /\ j \in DOMAIN ids[c]
      BY <1>8
    <3>3. ListedAt(v, c, j) <=> ids[c][j] = Entry(v)
      BY <3>2 DEF ListedAt
    <3>. QED
      BY <1>5, <1>6, <3>2, <3>3
  <2>2. i \in 1 .. size[b]
    BY <1>5, <1>8 DEF ListedAt
  <2>. QED
    BY <2>1, <2>2 DEF Listings
<1>. QED
  BY <1>6, <1>7, <1>9

\* No step of AddKeys, Update or CompactBucket, with the calls of the engine in
\* between, loses or doubles the entry of an indexed vector that is not deleted.
THEOREM NoEntryIsLostOrDoubled == Spec => []LiveVectorsAreListedOnce
<1>1. IInv => LiveVectorsAreListedOnce
  BY ListedOnce
<1>. QED
  BY <1>1, InvariantHolds, PTL

\* A code that is listed is in the array of codes.
LEMMA FreshIsStored ==
  ASSUME Shaped, Sound, NEW v, Fresh(v)
  PROVE  \E b \in Buckets : \E i \in DOMAIN codes[b] : codes[b][i] = Current(v)
<1>1. PICK b \in Buckets, i \in Positions : ListedAt(v, b, i) /\ CodesOf(b)[i] = Current(v)
  BY DEF Fresh
<1>2. ids[b] \in Seq(EntryType) /\ codes[b] \in Seq(Vectors)
  BY DEF Shaped, ListsTyped
<1>3. DOMAIN ids[b] = 1 .. Len(ids[b]) /\ DOMAIN codes[b] = 1 .. Len(codes[b])
  BY <1>2
<1>4. CASE Packed(b, {"codes"})
  <2>1. packing.step = "codes" /\ packing.bucket = b
    BY <1>4 DEF Packed
  <2>2. DOMAIN packing.ids = DOMAIN packing.codes
    BY <2>1, PackingTypes
  <2>3. ids[b] = packing.ids
    BY <2>1 DEF Shaped, ListsEnd, Packed
  <2>4. i \in DOMAIN packing.codes /\ packing.codes[i] = Current(v)
    BY <1>1, <1>4, <2>2, <2>3 DEF ListedAt, CodesOf
  <2>. QED
    BY <2>1, <2>4 DEF Sound, PackedIsKept
<1>5. CASE ~Packed(b, {"codes"})
  <2>1. Len(ids[b]) = Len(codes[b])
    <3>1. CASE Packed(b, {"size"})
      <4>1. packing.step = "size" /\ packing.bucket = b
        BY <3>1 DEF Packed
      <4>2. Len(packing.ids) = Len(packing.codes)
        BY <4>1, PackingTypes
      <4>. QED
        BY <4>1, <4>2 DEF Shaped, ListsEnd, Packed
    <3>2. CASE ~Packed(b, {"size"})
      <4>1. ~Packed(b, {"codes", "size"})
        BY <1>5, <3>2 DEF Packed
      <4>. QED
        BY <4>1, ArraysEndTogether
    <3>. QED
      BY <3>1, <3>2
  <2>2. i \in DOMAIN codes[b] /\ codes[b][i] = Current(v)
    BY <1>1, <1>3, <1>5, <2>1 DEF ListedAt, CodesOf
  <2>. QED
    BY <2>2
<1>. QED
  BY <1>4, <1>5

\* Where it is claimed no update is forgotten.
LEMMA NoUpdateForgotten ==
  ASSUME IInv
  PROVE  FreshOrPending
<1>1. SUFFICES ASSUME Sound, NEW v \in Vids, v < indexed_count_, v \notin deleted
               PROVE  \/ \E b \in Buckets : \E i \in DOMAIN codes[b] : codes[b][i] = Current(v)
                      \/ caller = [pc |-> "push", vid |-> v]
                      \/ \E k \in DOMAIN updated_vids_ : updated_vids_[k] = v
                      \/ \E k \in DOMAIN worker.todo : worker.todo[k] = v
                      \/ Current(v) \in Flight
  BY DEF FreshOrPending, Live, IInv
<1>2. Fresh(v) \/ Queued(v) \/ ToDo(v) \/ Current(v) \in Flight
  BY <1>1 DEF Sound, ListedAreFresh
<1>3. Shaped
  BY DEF IInv
<1>4. caller.pc = "push" /\ caller.vid = v => caller = [pc |-> "push", vid |-> v]
  BY <1>3, CallerTypes DEF Calls
<1>. QED
  BY <1>1, <1>2, <1>3, <1>4, FreshIsStored DEF Queued, ToDo

\* The code of an indexed vector is the current one or its update is on the
\* way: with the caller, in updated_vids_, or with the indexing thread.
THEOREM NoUpdateIsForgotten == Spec => []FreshOrPending
<1>1. IInv => FreshOrPending
  BY NoUpdateForgotten
<1>. QED
  BY <1>1, InvariantHolds, PTL
-----------------------------------------------------------------------------
(* Searches beside the indexing thread: what they have fetched, and what is *)
(* known of all codes while it is claimed.                                  *)

Searches ==
  [pc : {"idle", "ids", "scan"}, bucket : Nat, size : Nat, current : BOOLEAN,
   ids : Seq(EntryType), torn : BOOLEAN, due : SUBSET Vectors]

Reading(r) == readers[r].pc # "idle"

\* The ids that a search has fetched or is to fetch.
IdsOf(r) ==
  IF readers[r].pc = "scan" /\ ~readers[r].current THEN readers[r].ids
  ELSE ids[readers[r].bucket]

ReadersTyped ==
  /\ readers \in [Readers -> Searches]
  /\ \A r \in Readers : /\ Reading(r) => readers[r].bucket \in Buckets
                        /\ readers[r].current => readers[r].pc = "scan"

\* A version that its vector has or had.
Had(vec) == Vid(vec) \in Stored /\ Version(vec) <= raw[Vid(vec) + 1]

\* All codes, listed or in flight, are of versions that were stored; those of a
\* bucket belong to it.
CodesAreStored ==
  /\ \A b \in Buckets : \A i \in DOMAIN codes[b] : Had(codes[b][i]) /\ Bucket[codes[b][i]] = b
  /\ \A vec \in Flight : Had(vec)

\* Codes belong to their entries, masked or not.
CodesArePaired ==
  \A b \in Buckets : \A i \in DOMAIN ids[b] : Vid(CodesOf(b)[i]) = ids[b][i].vid

\* What is in flight of one vector is of one version; that is the current one
\* when the current one is listed.
FlightAgrees ==
  /\ \A x, y \in Flight : Vid(x) = Vid(y) => x = y
  /\ \A x \in Flight, b \in Buckets, i \in Positions :
       ListedAt(Vid(x), b, i) /\ codes[b][i] = Current(Vid(x)) => x = Current(Vid(x))

\* A compacted list has its entries at or before their old positions.
PackedMovesDown ==
  packing.step = "copy" =>
    \A v \in Vids, i \in 1 .. packing.next - 1 :
      ListedAt(v, packing.bucket, i) /\ v \notin deleted =>
        \E j \in DOMAIN packing.ids : j <= i /\ packing.ids[j] = Entry(v)

\* A search that no switch of a compaction met reads entries that are there, and
\* of the vectors that are there now.
UntornReads(r) ==
  LET b == readers[r].bucket
  IN  /\ ~Packed(b, {"codes", "size"})
      /\ readers[r].size <= size[b] /\ readers[r].size <= Len(IdsOf(r))
      /\ \A i \in 1 .. readers[r].size : IdsOf(r)[i].vid = ids[b][i].vid

\* What a search must find is of its bucket, cannot move while it is current, and
\* is among the ids that it reads.
DueFound(r, vec) ==
  /\ Had(vec) /\ Bucket[vec] = readers[r].bucket
  /\ Live(Vid(vec)) /\ Current(Vid(vec)) = vec =>
       /\ \A x \in Flight : Vid(x) = Vid(vec) => x = vec
       /\ \E i \in 1 .. readers[r].size : i \in DOMAIN IdsOf(r) /\ IdsOf(r)[i] = Entry(Vid(vec))

ReadersAreSound ==
  \A r \in Readers : Reading(r) =>
    /\ ~readers[r].torn => UntornReads(r)
    /\ \A vec \in readers[r].due : DueFound(r, vec)

\* The codes beside the entries and what is in flight.
Paired ==
  /\ CodesAreStored
  /\ CodesArePaired
  /\ FlightAgrees
  /\ PackedMovesDown

\* What is inductive, with IInv.
SInv == ReadersTyped /\ (Claimed => Paired /\ ReadersAreSound)

-----------------------------------------------------------------------------

\* Versions only grow.
RawGrows == \A v \in Stored : v \in Stored' /\ raw[v + 1] <= raw'[v + 1]

\* What comes into flight is read from the raw vectors.
FlightMoves ==
  \/ Flight' \subseteq Flight
  \/ \A x \in Flight' : Vid(x) \in Stored' /\ x = Current(Vid(x))'

\* A search and what it is for.
LEMMA ReaderHas ==
  ASSUME ReadersTyped, NEW r \in Readers
  PROVE  /\ readers[r] \in Searches /\ readers[r].size \in Nat /\ readers[r].due \subseteq Vectors
         /\ Reading(r) => readers[r].bucket \in Buckets
         /\ readers[r].current => readers[r].pc = "scan"
         /\ readers[r].current \in BOOLEAN /\ readers[r].torn \in BOOLEAN
         /\ readers[r].pc \in {"idle", "ids", "scan"} /\ readers[r].ids \in Seq(EntryType)
  BY DEF ReadersTyped, Searches

\* Stored vectors have versions.
LEMMA StoredHaveVersions ==
  ASSUME Shaped
  PROVE  /\ \A v \in Stored : /\ v \in Nat /\ v + 1 \in DOMAIN raw
                              /\ raw[v + 1] \in Versions /\ raw[v + 1] \in Nat
         /\ \A vec \in Vectors : /\ vec = <<Vid(vec), Version(vec)>>
                                 /\ Version(vec) \in Nat /\ Vid(vec) \in Vids
<1>1. raw \in Seq(Versions) /\ Len(raw) \in Nat
  BY DEF Shaped, CallerTyped
<1>2. ASSUME NEW v \in Stored
      PROVE  v \in Nat /\ v + 1 \in DOMAIN raw /\ raw[v + 1] \in Versions /\ raw[v + 1] \in Nat
  <2>1. v \in Nat /\ v < Len(raw)
    BY Bounds DEF Stored
  <2>2. v + 1 \in 1 .. Len(raw)
    BY <1>1, <2>1
  <2>3. raw[v + 1] \in Versions /\ v + 1 \in DOMAIN raw
    BY <1>1, <2>2
  <2>4. raw[v + 1] \in Nat
    BY <2>3, Bounds
  <2>. QED
    BY <2>1, <2>3, <2>4
<1>3. ASSUME NEW vec \in Vectors
      PROVE  vec = <<Vid(vec), Version(vec)>> /\ Version(vec) \in Nat /\ Vid(vec) \in Vids
  <2>1. PICK v \in Vids, n \in Versions : vec = <<v, n>>
    BY DEF Vectors
  <2>. QED
    BY <2>1, Bounds DEF Vid, Version
<1>. QED
  BY <1>2, <1>3

\* What was a version stays one, and what is current now was so before.
LEMMA VersionsStay ==
  ASSUME Shaped, Shaped', RawGrows, NEW vec \in Vectors, Had(vec)
  PROVE  /\ Had(vec)'
         /\ Current(Vid(vec))' = vec => Current(Vid(vec)) = vec
<1>1. PICK v : v = Vid(vec)
  OBVIOUS
<1>2. PICK n : n = Version(vec)
  OBVIOUS
<1>3. v \in Stored /\ n <= raw[v + 1] /\ vec = <<v, n>> /\ n \in Nat /\ raw[v + 1] \in Nat
  BY <1>1, <1>2, StoredHaveVersions DEF Had
<1>4. v \in Stored' /\ raw[v + 1] <= raw'[v + 1]
  BY <1>3 DEF RawGrows
<1>5. raw'[v + 1] \in Nat
  <2>1. raw' \in Seq(Versions) /\ v \in Nat /\ v < Len(raw')
    BY <1>4, Bounds DEF Shaped, CallerTyped, Stored
  <2>2. v + 1 \in 1 .. Len(raw')
    BY <2>1
  <2>3. raw'[v + 1] \in Versions
    BY <2>1, <2>2
  <2>. QED
    BY <2>3, Bounds
<1>6. n <= raw'[v + 1]
  BY <1>3, <1>4, <1>5
<1>7. Had(vec)'
  BY <1>1, <1>2, <1>4, <1>6 DEF Had, Vid, Version
<1>8. ASSUME Current(v)' = vec PROVE Current(v) = vec
  <2>1. raw'[v + 1] = n
    BY <1>3, <1>8 DEF Current
  <2>2. raw[v + 1] = n
    BY <1>3, <1>4, <2>1
  <2>. QED
    BY <1>3, <2>2 DEF Current
<1>. QED
  BY <1>1, <1>7, <1>8

\* A current vector that is stored is a version that it has.
LEMMA CurrentIsHad ==
  ASSUME Shaped, NEW v \in Stored
  PROVE  Had(Current(v)) /\ Vid(Current(v)) = v
<1>1. raw[v + 1] \in Nat
  BY StoredHaveVersions
<1>. QED
  BY <1>1 DEF Had, Current, Vid, Version

-----------------------------------------------------------------------------
(* Every step reads what is current into flight, or what was in flight. *)

\* Appending keeps the versions there are, an update takes the next.
LEMMA VersionsGrow ==
  ASSUME Shaped, AddVector \/ (\E u \in Vids : UpdateRaw(u)) \/ UNCHANGED raw
  PROVE  RawGrows
<1>1. raw \in Seq(Versions) /\ Len(raw) \in Nat
  BY CallerTypes
<1>2. \A v \in Stored : v \in Vids /\ v \in Nat /\ v + 1 \in 1 .. Len(raw) /\ raw[v + 1] \in Nat
  <2>1. \A v \in Stored : v \in Nat /\ v + 1 \in DOMAIN raw /\ raw[v + 1] \in Nat
    BY StoredHaveVersions
  <2>. QED
    BY <1>1, <2>1 DEF Stored
<1>3. CASE UNCHANGED raw
  BY <1>2, <1>3 DEF RawGrows, Stored
<1>4. CASE AddVector
  <2>1. raw' = Append(raw, 1)
    BY <1>4 DEF AddVector
  <2>2. Len(raw') = Len(raw) + 1 /\ \A k \in 1 .. Len(raw) : raw'[k] = raw[k]
    BY <1>1, <2>1
  <2>. QED
    BY <1>1, <1>2, <2>2 DEF RawGrows, Stored
<1>5. CASE \E u \in Vids : UpdateRaw(u)
  <2>1. PICK u \in Stored : raw' = [raw EXCEPT ![u + 1] = @ + 1]
    BY <1>5 DEF UpdateRaw
  <2>2. u \in Nat
    BY <1>2, <2>1
  <2>3. Len(raw') = Len(raw)
    BY <1>1, <2>1
  <2>4. \A v \in Stored : raw'[v + 1] = IF v = u THEN raw[v + 1] + 1 ELSE raw[v + 1]
    BY <1>1, <1>2, <2>1, <2>2
  <2>. QED
    BY <1>2, <2>3, <2>4 DEF RawGrows, Stored
<1>. QED
  BY <1>3, <1>4, <1>5

\* Vectors that leave.
LEMMA FlightShrinks ==
  ASSUME worker'.vecs = worker.vecs \/ worker'.vecs = << >>,
         filling'.vecs = filling.vecs \/ filling'.vecs = << >>
  PROVE  Flight' \subseteq Flight
  BY DEF Flight

\* The caller adds none, but may start the thread.
LEMMA CallsMoveFlight ==
  ASSUME Shaped, Caller
  PROVE  FlightMoves
<1>1. worker' = worker \/ worker' = Round
  BY Zenon DEF Caller, AddVector, UpdateRaw, DeleteDoc, DelDocByQuery, PushUpdate, UnsetDeleted,
            CountDeleted, loopVars
<1>2. filling' = filling
  BY DEF Caller, AddVector, UpdateRaw, DeleteDoc, DelDocByQuery, PushUpdate, UnsetDeleted,
         CountDeleted, CountDead, bucketVars
<1>3. worker'.vecs = worker.vecs \/ worker'.vecs = << >>
  BY <1>1, NewRound
<1>. QED
  BY <1>2, <1>3, FlightShrinks DEF FlightMoves

\* What is in flight is stored, after a step as well.
LEMMA FlightIsStoredLater ==
  (Shaped => \A x \in Flight : Vid(x) \in Stored)'
<1>1. Shaped => \A x \in Flight : Vid(x) \in Stored
  BY FlightIsStored DEF Stored
<1>. QED
  BY <1>1, PTL

\* Vectors are read as they are now.
LEMMA ReadIsCurrent ==
  ASSUME Shaped', filling' = NotFilling, raw' = raw,
         \A k \in DOMAIN worker'.vecs : \E v : worker'.vecs[k] = Current(v)
  PROVE  FlightMoves
<1>1. ASSUME NEW x \in Flight' PROVE Vid(x) \in Stored' /\ x = Current(Vid(x))'
  <2>1. DOMAIN filling'.vecs = {}
    BY DEF NotFilling
  <2>2. PICK v : x = Current(v)
    BY <1>1, <2>1 DEF Flight
  <2>3. Vid(x) = v /\ Current(v)' = Current(v)
    BY <2>2 DEF Vid, Current
  <2>4. Vid(x) \in Stored'
    BY <1>1, FlightIsStoredLater
  <2>. QED
    BY <2>2, <2>3, <2>4
<1>. QED
  BY <1>1 DEF FlightMoves

\* The thread reads batches and updates, and passes them on to the buckets.
LEMMA ThreadMovesFlight ==
  ASSUME Shaped, Shaped', Worker
  PROVE  FlightMoves
<1>0. worker \in Rounds
  BY WorkerTypes
<1>. DEFINE Fewer == (worker'.vecs = worker.vecs \/ worker'.vecs = << >>)
<1>1. CASE StartRound
  <2>1. worker'.vecs = << >> /\ filling' = filling
    BY <1>1 DEF StartRound, Round, bucketVars
  <2>. QED
    BY <2>1, FlightShrinks DEF FlightMoves
<1>2. CASE ReadBatch
  <2>1. filling' = NotFilling /\ raw' = raw
    BY <1>2 DEF ReadBatch, Free, WriterFree, bucketVars, storeVars
  <2>2. worker'.vecs = [k \in 1 .. BatchCount |-> Current(indexed_count_ + k - 1)]
    BY <1>0, <1>2 DEF ReadBatch, Rounds
  <2>3. \A k \in DOMAIN worker'.vecs : \E v : worker'.vecs[k] = Current(v)
    BY <2>2
  <2>. QED
    BY <2>1, <2>3, ReadIsCurrent
<1>3. CASE NextBucket
  <2>1. PICK b, length, order : /\ order \in [1 .. length -> DOMAIN worker.vecs]
                                /\ BeginFill(b, [n \in 1 .. length |-> worker.vecs[order[n]]])
    BY <1>3 DEF NextBucket
  <2>2. filling'.vecs = [n \in 1 .. length |-> worker.vecs[order[n]]]
    BY <2>1 DEF BeginFill
  <2>3. worker'.vecs = worker.vecs
    BY <1>0, <1>3 DEF NextBucket, Rounds
  <2>4. \A n \in DOMAIN filling'.vecs : \E k \in DOMAIN worker.vecs : filling'.vecs[n] = worker.vecs[k]
    BY <2>1, <2>2
  <2>. QED
    BY <2>3, <2>4 DEF FlightMoves, Flight
<1>4. CASE EndBatch
  <2>1. worker'.vecs = << >> /\ filling' = filling
    BY <1>0, <1>4 DEF EndBatch, Rounds, bucketVars
  <2>. QED
    BY <2>1, FlightShrinks DEF FlightMoves
<1>5. CASE Refused
  <2>1. Fewer /\ filling' = NotFilling
    BY <1>0, <1>5 DEF Refused, RefuseKeys, Rounds
  <2>. QED
    BY <2>1, FlightShrinks DEF FlightMoves, NotFilling
<1>6. CASE PopUpdate
  <2>1. worker'.vecs = worker.vecs /\ filling' = filling
    BY <1>0, <1>6 DEF PopUpdate, Rounds, bucketVars
  <2>. QED
    BY <2>1, FlightShrinks DEF FlightMoves
<1>7. CASE ReadUpdates
  <2>1. filling' = NotFilling /\ raw' = raw
    BY <1>7 DEF ReadUpdates, BatchesDone, Free, WriterFree, bucketVars, storeVars
  <2>2. CASE worker.todo = << >>
    <3>1. worker'.vecs = << >>
      BY <1>7, <2>2, RestedRound DEF ReadUpdates
    <3>. QED
      BY <2>1, <3>1, FlightShrinks DEF FlightMoves, NotFilling
  <2>3. CASE worker.todo # << >>
    <3>1. worker'.vecs = [k \in DOMAIN worker.todo |-> Current(worker.todo[k])]
      BY <1>0, <1>7, <2>3 DEF ReadUpdates, Rounds
    <3>2. \A k \in DOMAIN worker'.vecs : \E v : worker'.vecs[k] = Current(v)
      BY <3>1
    <3>. QED
      BY <2>1, <3>2, ReadIsCurrent
  <2>. QED
    BY <2>2, <2>3
<1>8. CASE ApplyUpdate
  <2>1. PICK vec : vec = Head(worker.vecs)
    OBVIOUS
  <2>2. vec \in Flight
    BY <1>8, <2>1, NextUpdate, FlightIsStored
  <2>3. \A m \in DOMAIN worker'.vecs : \E k \in DOMAIN worker.vecs : worker'.vecs[m] = worker.vecs[k]
    BY <1>8, NextUpdate
  <2>4. filling' = filling \/ filling'.vecs = << vec >>
    <3>1. UpdateNothing(vec) \/ OverwriteCode(Bucket[vec], vec) \/ MoveEntry(Bucket[vec], vec)
      BY <1>8, <2>1 DEF ApplyUpdate
    <3>2. CASE UpdateNothing(vec)
      BY <3>2 DEF UpdateNothing, bucketVars
    <3>3. CASE OverwriteCode(Bucket[vec], vec)
      BY <3>3 DEF OverwriteCode
    <3>4. CASE MoveEntry(Bucket[vec], vec)
      BY <3>4 DEF MoveEntry, BeginFill
    <3>. QED
      BY <3>1, <3>2, <3>3, <3>4
  <2>5. \A n \in DOMAIN filling'.vecs : filling'.vecs[n] \in Flight
    <3>1. CASE filling' = filling
      BY <3>1, FlightIsStored
    <3>2. CASE filling'.vecs = << vec >>
      BY <2>2, <3>2
    <3>. QED
      BY <2>4, <3>1, <3>2
  <2>6. \A m \in DOMAIN worker'.vecs : worker'.vecs[m] \in Flight
    BY <2>3, FlightIsStored
  <2>. QED
    BY <2>5, <2>6 DEF FlightMoves, Flight
<1>9. CASE CheckBucket
  <2>1. worker'.vecs = worker.vecs /\ filling' = filling
    BY <1>0, <1>9 DEF CheckBucket, Rounds, BeginCompact, bucketVars
  <2>. QED
    BY <2>1, FlightShrinks DEF FlightMoves
<1>10. CASE EndRound
  <2>1. worker'.vecs = << >> /\ filling' = filling
    BY <1>10, RestedRound DEF EndRound, bucketVars
  <2>. QED
    BY <2>1, FlightShrinks DEF FlightMoves
<1>11. CASE BucketStep /\ UNCHANGED loopVars
  <2>1. worker' = worker
    BY <1>11 DEF loopVars
  <2>2. filling \in Fills \cup {NotFilling}
    BY DEF Shaped, FillingTyped
  <2>3. \/ filling' = filling
        \/ filling' = NotFilling
        \/ filling' = [filling EXCEPT !.step = "fill"]
        \/ filling' = [filling EXCEPT !.step = "publish"]
    BY <1>11, Zenon DEF BucketStep, GrowBucket, FillKeys, PublishKeys, CompactOne, SwitchIds, SwitchCodes,
                 SwitchSize
  <2>4. filling'.vecs = filling.vecs \/ filling'.vecs = << >>
    BY <2>2, <2>3 DEF Fills, NotFilling
  <2>. QED
    BY <2>1, <2>4, FlightShrinks DEF FlightMoves
<1>. QED
  BY <1>1, <1>2, <1>3, <1>4, <1>5, <1>6, <1>7, <1>8, <1>9, <1>10, <1>11 DEF Worker

\* Whatever step is taken.
LEMMA FlightMovesInSteps ==
  ASSUME Shaped, Shaped', Next
  PROVE  RawGrows /\ FlightMoves
<1>1. AddVector \/ (\E u \in Vids : UpdateRaw(u)) \/ UNCHANGED raw
  BY Zenon DEF Next, Caller, Worker, Search, DeleteDoc, DelDocByQuery, PushUpdate, UnsetDeleted, CountDeleted,
         StartRound, ReadBatch, NextBucket, EndBatch, Refused, PopUpdate, ReadUpdates, ApplyUpdate,
         CheckBucket, EndRound, loopVars, storeVars
<1>2. RawGrows
  BY <1>1, VersionsGrow
<1>3. FlightMoves
  <2>1. CASE Search
    <3>1. worker' = worker /\ filling' = filling
      BY <2>1 DEF Search, ReadSize, ReadIds, Scan, loopVars
    <3>. QED
      BY <3>1, FlightShrinks DEF FlightMoves
  <2>. QED
    BY <2>1, CallsMoveFlight, ThreadMovesFlight DEF Next
<1>. QED
  BY <1>2, <1>3

-----------------------------------------------------------------------------
(* What the codes are, after steps that take them from the lists or from    *)
(* what is in flight.                                                       *)

\* An entry has a code.
LEMMA ListedHaveCodes ==
  ASSUME Shaped, NEW b \in Buckets, NEW i \in DOMAIN ids[b]
  PROVE  i \in DOMAIN codes[b] /\ i \in Positions /\ codes[b][i] \in Vectors
<1>1. /\ ids[b] \in Seq(EntryType) /\ codes[b] \in Seq(Vectors) /\ i \in 1 .. Len(ids[b])
      /\ size[b] \in Nat
  BY DEF Shaped, ListsTyped
<1>2. Len(ids[b]) <= Len(codes[b])
  <2>1. CASE Packed(b, {"codes", "size"})
    <3>1. PackingTyped /\ packing # NotPacking
      BY <2>1 DEF Shaped, Packed, NotPacking
    <3>2. Len(packing.ids) = Len(packing.codes) /\ filling = NotFilling /\ Len(packing.ids) \in Nat
      BY <3>1 DEF PackingTyped, Packs
    <3>3. ~Filled(b)
      BY <3>2 DEF Filled, NotFilling
    <3>4. Len(ids[b]) = Len(packing.ids) /\ Len(packing.ids) <= size[b]
      BY <2>1 DEF Shaped, ListsEnd
    <3>5. Len(codes[b]) = Len(packing.codes) \/ Len(codes[b]) = size[b]
      BY <3>3 DEF Shaped, ListsEnd
    <3>. QED
      BY <3>2, <3>4, <3>5, <1>1
  <2>2. CASE ~Packed(b, {"codes", "size"})
    BY <1>1, <2>2, ArraysEndTogether
  <2>. QED
    BY <2>1, <2>2
<1>3. i \in Nat /\ i >= 1 /\ i <= Len(codes[b])
  BY <1>1, <1>2
<1>. QED
  BY <1>1, <1>3 DEF Positions

\* Codes of versions that were stored.
LEMMA CodesStayStored ==
  ASSUME Shaped, Shaped', RawGrows, FlightMoves, CodesAreStored,
         \A b \in Buckets : \A i \in DOMAIN codes'[b] :
           \/ \E j \in DOMAIN codes[b] : codes'[b][i] = codes[b][j]
           \/ codes'[b][i] \in Flight /\ Bucket[codes'[b][i]] = b
  PROVE  CodesAreStored'
<1>1. \A b \in Buckets : \A j \in DOMAIN codes[b] : codes[b][j] \in Vectors
  BY DEF Shaped, ListsTyped
<1>2. \A vec \in Flight : vec \in Vectors
  BY FlightIsStored
<1>3. ASSUME NEW b \in Buckets, NEW i \in DOMAIN codes'[b]
      PROVE  (Had(codes[b][i]) /\ Bucket[codes[b][i]] = b)'
  <2>1. PICK vec : vec = codes'[b][i]
    OBVIOUS
  <2>2. vec \in Vectors /\ Had(vec) /\ Bucket[vec] = b
    BY <1>1, <1>2, <1>3, <2>1 DEF CodesAreStored
  <2>3. Had(vec)'
    BY <2>2, VersionsStay
  <2>. QED
    BY <2>1, <2>2, <2>3 DEF Had
<1>4. ASSUME NEW vec \in Flight' PROVE Had(vec)'
  <2>1. CASE Flight' \subseteq Flight
    <3>1. vec \in Vectors /\ Had(vec)
      BY <1>2, <1>4, <2>1 DEF CodesAreStored
    <3>. QED
      BY <3>1, VersionsStay
  <2>2. CASE \A x \in Flight' : Vid(x) \in Stored' /\ x = Current(Vid(x))'
    <3>1. PICK v : v = Vid(vec)
      OBVIOUS
    <3>2. v \in Stored' /\ vec = Current(v)'
      BY <1>4, <2>2, <3>1
    <3>3. raw'[v + 1] \in Nat
      <4>1. raw' \in Seq(Versions) /\ v \in Nat /\ v < Len(raw')
        BY <3>2, Bounds DEF Shaped, CallerTyped, Stored
      <4>2. v + 1 \in 1 .. Len(raw')
        BY <4>1
      <4>3. raw'[v + 1] \in Versions
        BY <4>1, <4>2
      <4>. QED
        BY <4>3, Bounds
    <3>. QED
      BY <3>1, <3>2, <3>3 DEF Had, Current, Vid, Version
  <2>. QED
    BY <2>1, <2>2 DEF FlightMoves
<1>. QED
  BY <1>3, <1>4 DEF CodesAreStored

\* What is in flight agrees with itself and with the lists.
LEMMA FlightStillAgrees ==
  ASSUME Shaped, Shaped', RawGrows, FlightMoves, CodesAreStored, FlightAgrees,
         \A v \in Vids, b \in Buckets, i \in Positions : ListedAt(v, b, i)' =>
           \/ Flight = {}
           \/ ListedAt(v, b, i) /\ codes'[b][i] = codes[b][i]
           \/ codes'[b][i] \in Flight
  PROVE  FlightAgrees'
<1>1. CASE \A x \in Flight' : Vid(x) \in Stored' /\ x = Current(Vid(x))'
  BY <1>1, Zenon DEF FlightAgrees
<1>2. CASE Flight' \subseteq Flight
  <2>1. \A x, y \in Flight' : Vid(x) = Vid(y) => x = y
    BY <1>2 DEF FlightAgrees
  <2>2. ASSUME NEW x \in Flight', NEW b \in Buckets, NEW i \in Positions,
               ListedAt(Vid(x), b, i)', codes'[b][i] = Current(Vid(x))'
        PROVE  x = Current(Vid(x))'
    <3>1. PICK v : v = Vid(x)
      OBVIOUS
    <3>2. x \in Flight /\ v \in Vids
      BY <1>2, <3>1, FlightIsStored
    <3>3. ListedAt(v, b, i)' /\ codes'[b][i] = Current(v)' /\ Vid(Current(v)') = v
      BY <2>2, <3>1 DEF Current, Vid
    <3>4. CASE codes'[b][i] \in Flight
      BY <2>1, <3>1, <3>2, <3>3, <3>4 DEF FlightAgrees
    <3>5. CASE ListedAt(v, b, i) /\ codes'[b][i] = codes[b][i]
      <4>1. PICK vec : vec = codes[b][i]
        OBVIOUS
      <4>2. vec \in Vectors /\ Had(vec)
        BY <3>5, <4>1, ListedHaveCodes DEF ListedAt, CodesAreStored
      <4>3. vec = Current(v)' /\ Vid(vec) = v
        BY <3>3, <3>5, <4>1
      <4>4. Current(v) = vec
        BY <4>2, <4>3, VersionsStay
      <4>5. x = Current(v)
        BY <3>1, <3>2, <3>5, <4>1, <4>4 DEF FlightAgrees
      <4>. QED
        BY <3>1, <4>3, <4>4, <4>5
    <3>. QED
      BY <3>2, <3>3, <3>4, <3>5
  <2>. QED
    BY <2>1, <2>2 DEF FlightAgrees
<1>. QED
  BY <1>1, <1>2 DEF FlightMoves

\* A compaction may begin.
NoneSwitched ==
  \/ packing' = packing
  \/ packing'.step = "copy" /\ packing'.next = 1 /\ packing = NotPacking

\* Steps that leave the lists and their codes alone; a compaction may begin.
LEMMA KeptListsStayPaired ==
  ASSUME Shaped, Shaped', RawGrows, FlightMoves, Paired,
         ids' = ids, codes' = codes, deleted \subseteq deleted',
         NoneSwitched
  PROVE  Paired'
<1>1. CodesAreStored'
  <2>1. \A b \in Buckets : \A i \in DOMAIN codes'[b] : \E j \in DOMAIN codes[b] : codes'[b][i] = codes[b][j]
    OBVIOUS
  <2>. QED
    BY <2>1, CodesStayStored DEF Paired
<1>2. FlightAgrees'
  <2>1. \A v, b, i : ListedAt(v, b, i)' <=> ListedAt(v, b, i)
    BY DEF ListedAt
  <2>. QED
    BY <2>1, FlightStillAgrees DEF Paired
<1>3. CodesArePaired'
  <2>1. \A b : CodesOf(b)' = CodesOf(b)
    BY DEF CodesOf, Packed, NotPacking, NoneSwitched
  <2>. QED
    BY <2>1 DEF Paired, CodesArePaired
<1>4. PackedMovesDown'
  <2>1. CASE packing' = packing
    BY <2>1 DEF Paired, PackedMovesDown, ListedAt
  <2>2. CASE packing'.step = "copy" /\ packing'.next = 1
    BY <2>2 DEF PackedMovesDown
  <2>. QED
    BY <2>1, <2>2 DEF NoneSwitched
<1>. QED
  BY <1>1, <1>2, <1>3, <1>4 DEF Paired

-----------------------------------------------------------------------------
(* Searches while the thread goes on. *)

\* The searches go on, on the arrays that they fetched.
SameReaders ==
  \/ readers' = readers
  \/ ids' = ids /\ \E c \in Buckets : readers' = Detached(c)

\* An entry that a search must find stays where it is.
DueStays ==
  \A vec \in Vectors, i \in Positions :
    /\ Live(Vid(vec)) /\ Current(Vid(vec)) = vec
    /\ \A x \in Flight : Vid(x) = Vid(vec) => x = vec
    /\ ListedAt(Vid(vec), Bucket[vec], i)
    => ListedAt(Vid(vec), Bucket[vec], i)'

\* A search whose array was replaced reads the same ids.
LEMMA DetachedReader ==
  ASSUME Shaped, ReadersTyped, NEW c \in Buckets, NEW r \in Readers,
         NEW q, q = Detached(c)[r]
  PROVE  /\ q \in Searches
         /\ q.pc = readers[r].pc /\ q.bucket = readers[r].bucket /\ q.size = readers[r].size
         /\ q.due = readers[r].due /\ q.torn = readers[r].torn
         /\ q.current => q.pc = "scan" /\ ~(readers[r].bucket = c)
         /\ IdsOf(r) = IF q.pc = "scan" /\ ~q.current THEN q.ids ELSE ids[q.bucket]
<1>1. /\ readers[r] \in Searches /\ readers[r].current \in BOOLEAN
      /\ readers[r].current => readers[r].pc = "scan"
  BY ReaderHas
<1>2. ids[c] \in Seq(EntryType)
  BY DEF Shaped, ListsTyped
<1>3. CASE readers[r].current /\ readers[r].bucket = c
  <2>1. q = [readers[r] EXCEPT !.current = FALSE, !.ids = ids[c]]
    BY <1>3 DEF Detached
  <2>2. /\ q.pc = readers[r].pc /\ q.bucket = c /\ q.size = readers[r].size
        /\ q.due = readers[r].due /\ q.torn = readers[r].torn /\ q.current = FALSE /\ q.ids = ids[c]
    BY <1>1, <1>3, <2>1 DEF Searches
  <2>3. q \in Searches
    BY <1>1, <1>2, <2>1 DEF Searches
  <2>. QED
    BY <1>1, <1>3, <2>2, <2>3 DEF IdsOf
<1>4. CASE ~(readers[r].current /\ readers[r].bucket = c)
  <2>1. q = readers[r]
    BY <1>4 DEF Detached
  <2>. QED
    BY <1>1, <1>4, <2>1 DEF IdsOf
<1>. QED
  BY <1>3, <1>4

\* What stays of a search when it goes on.
LEMMA ReaderGoesOn ==
  ASSUME Shaped, ReadersTyped, SameReaders, NEW r \in Readers
  PROVE  /\ readers'[r] \in Searches
         /\ readers'[r].pc = readers[r].pc /\ readers'[r].bucket = readers[r].bucket
         /\ readers'[r].size = readers[r].size /\ readers'[r].due = readers[r].due
         /\ readers'[r].torn = readers[r].torn
         /\ readers'[r].current => readers'[r].pc = "scan"
         /\ \/ IdsOf(r)' = IdsOf(r)
            \/ IdsOf(r)' = ids'[readers[r].bucket] /\ IdsOf(r) = ids[readers[r].bucket]
<1>1. CASE readers' = readers
  BY <1>1, ReaderHas DEF IdsOf
<1>2. CASE ids' = ids /\ \E c \in Buckets : readers' = Detached(c)
  <2>1. PICK c \in Buckets : readers' = Detached(c)
    BY <1>2
  <2>2. PICK q : q = Detached(c)[r]
    OBVIOUS
  <2>3. readers'[r] = q
    BY <2>1, <2>2
  <2>4. /\ q \in Searches
        /\ q.pc = readers[r].pc /\ q.bucket = readers[r].bucket /\ q.size = readers[r].size
        /\ q.due = readers[r].due /\ q.torn = readers[r].torn
        /\ q.current => q.pc = "scan"
        /\ IdsOf(r) = IF q.pc = "scan" /\ ~q.current THEN q.ids ELSE ids[q.bucket]
    BY <2>2, DetachedReader
  <2>5. IdsOf(r)' = IF q.pc = "scan" /\ ~q.current THEN q.ids ELSE ids[q.bucket]
    BY <1>2, <2>3 DEF IdsOf
  <2>. QED
    BY <2>3, <2>4, <2>5
<1>. QED
  BY <1>1, <1>2 DEF SameReaders

\* The searches stay typed.
LEMMA ReadersStayTyped ==
  ASSUME Shaped, ReadersTyped, SameReaders
  PROVE  ReadersTyped'
<1>1. readers \in [Readers -> Searches]
  BY DEF ReadersTyped
<1>2. \A r \in Readers : /\ readers'[r] \in Searches
                         /\ Reading(r)' => readers'[r].bucket \in Buckets
                         /\ readers'[r].current => readers'[r].pc = "scan"
  BY ReaderGoesOn, ReaderHas DEF Reading
<1>3. readers' = [r \in Readers |-> readers'[r]]
  BY <1>1 DEF SameReaders, Detached
<1>. QED
  BY <1>2, <1>3 DEF ReadersTyped

\* Searches go on soundly while lists keep their ids and grow.
LEMMA ReadersGoOn ==
  ASSUME Shaped, Shaped', RawGrows, FlightMoves, deleted \subseteq deleted',
         ReadersTyped, ReadersAreSound, SameReaders, DueStays,
         packing' = packing \/ packing'.step \notin {"codes", "size"},
         \A b \in Buckets :
           /\ size[b] <= size'[b] /\ Len(ids[b]) <= Len(ids'[b])
           /\ \A i \in DOMAIN ids[b] : ids'[b][i].vid = ids[b][i].vid
  PROVE  ReadersAreSound'
<1>. SUFFICES ASSUME NEW r \in Readers, Reading(r)'
              PROVE  /\ ~readers'[r].torn => UntornReads(r)'
                     /\ \A vec \in readers'[r].due : DueFound(r, vec)'
  BY DEF ReadersAreSound
<1>. DEFINE b == readers[r].bucket
<1>1. /\ readers'[r].pc = readers[r].pc /\ readers'[r].bucket = b
      /\ readers'[r].size = readers[r].size /\ readers'[r].due = readers[r].due
      /\ readers'[r].torn = readers[r].torn
      /\ \/ IdsOf(r)' = IdsOf(r)
         \/ IdsOf(r)' = ids'[b] /\ IdsOf(r) = ids[b]
  BY ReaderGoesOn
<1>2. Reading(r) /\ b \in Buckets /\ readers[r].size \in Nat /\ readers[r].due \subseteq Vectors
  BY <1>1, ReaderHas DEF Reading
<1>3. /\ ids[b] \in Seq(EntryType) /\ size[b] \in Nat /\ size'[b] \in Nat /\ ids'[b] \in Seq(EntryType)
  BY <1>2 DEF Shaped, ListsTyped
<1>4. ASSUME ~readers'[r].torn PROVE UntornReads(r)'
  <2>1. UntornReads(r)
    BY <1>1, <1>2, <1>4 DEF ReadersAreSound
  <2>2. /\ ~Packed(b, {"codes", "size"}) /\ readers[r].size <= size[b] /\ readers[r].size <= Len(IdsOf(r))
        /\ \A i \in 1 .. readers[r].size : IdsOf(r)[i].vid = ids[b][i].vid
    BY <2>1 DEF UntornReads
  <2>3. ~Packed(b, {"codes", "size"})'
    BY <1>1, <2>2 DEF Packed
  <2>4. readers[r].size <= size'[b] /\ size[b] <= Len(ids[b])
    BY <1>2, <1>3, <2>2, ArraysEndTogether
  <2>5. \A i \in 1 .. readers[r].size : i \in DOMAIN ids[b] /\ ids'[b][i].vid = ids[b][i].vid
    BY <1>2, <1>3, <2>2, <2>4
  <2>6. Len(ids[b]) \in Nat /\ Len(ids'[b]) \in Nat
    BY <1>3
  <2>7. readers[r].size <= Len(IdsOf(r)')
    BY <1>1, <1>2, <1>3, <2>2, <2>4, <2>6
  <2>8. \A i \in 1 .. readers[r].size : IdsOf(r)'[i].vid = ids'[b][i].vid
    BY <1>1, <2>2, <2>5
  <2>. QED
    BY <1>1, <2>3, <2>4, <2>7, <2>8 DEF UntornReads
<1>5. ASSUME NEW vec \in readers'[r].due PROVE DueFound(r, vec)'
  <2>1. vec \in Vectors /\ DueFound(r, vec)
    BY <1>1, <1>2, <1>5 DEF ReadersAreSound
  <2>2. Had(vec) /\ Had(vec)' /\ Bucket[vec] = b
    BY <2>1, VersionsStay DEF DueFound
  <2>3. ASSUME Live(Vid(vec))', Current(Vid(vec))' = vec
        PROVE  /\ \A x \in Flight' : Vid(x) = Vid(vec) => x = vec
               /\ \E i \in 1 .. readers[r].size : i \in DOMAIN IdsOf(r)' /\ IdsOf(r)'[i] = Entry(Vid(vec))
    <3>1. Current(Vid(vec)) = vec /\ Live(Vid(vec))
      BY <2>1, <2>2, <2>3, VersionsStay DEF Live, Had
    <3>2. \A x \in Flight : Vid(x) = Vid(vec) => x = vec
      BY <2>1, <3>1 DEF DueFound
    <3>3. PICK i \in 1 .. readers[r].size : i \in DOMAIN IdsOf(r) /\ IdsOf(r)[i] = Entry(Vid(vec))
      BY <2>1, <3>1 DEF DueFound
    <3>4. \A x \in Flight' : Vid(x) = Vid(vec) => x = vec
      BY <2>3, <3>2 DEF FlightMoves
    <3>5. i \in DOMAIN IdsOf(r)' /\ IdsOf(r)'[i] = Entry(Vid(vec))
      <4>1. CASE IdsOf(r)' = IdsOf(r)
        BY <3>3, <4>1
      <4>2. CASE IdsOf(r)' = ids'[b] /\ IdsOf(r) = ids[b]
        <5>1. ListedAt(Vid(vec), Bucket[vec], i) /\ i \in Positions
          BY <1>2, <2>2, <3>3, <4>2 DEF ListedAt, Positions
        <5>2. ListedAt(Vid(vec), Bucket[vec], i)'
          BY <2>1, <3>1, <3>2, <5>1 DEF DueStays
        <5>. QED
          BY <2>2, <4>2, <5>2 DEF ListedAt
      <4>. QED
        BY <1>1, <4>1, <4>2
    <3>. QED
      BY <3>4, <3>5
  <2>. QED
    BY <1>1, <2>2, <2>3 DEF DueFound
<1>. QED
  BY <1>4, <1>5

-----------------------------------------------------------------------------
(* The caller, and the steps of the thread that leave the lists alone. *)

\* The lists and the searches stay, or searches keep an array that is replaced;
\* lists may get longer.
LEMMA QuietSteps ==
  ASSUME Shaped, Shaped', RawGrows, FlightMoves, deleted \subseteq deleted', SInv, Claimed,
         ids' = ids, codes' = codes, SameReaders,
         NoneSwitched,
         \A b \in Buckets : size[b] <= size'[b]
  PROVE  SInv'
<1>1. ReadersTyped'
  BY ReadersStayTyped DEF SInv
<1>2. Paired'
  BY KeptListsStayPaired DEF SInv
<1>3. DueStays
  BY DEF DueStays, ListedAt
<1>4. \A b \in Buckets : Len(ids[b]) \in Nat
  BY DEF Shaped, ListsTyped
<1>5. ReadersAreSound'
  BY <1>3, <1>4, ReadersGoOn DEF SInv, NoneSwitched
<1>. QED
  BY <1>1, <1>2, <1>5 DEF SInv

\* Typing does not need what is claimed.
LEMMA UnclaimedSearches ==
  ASSUME Shaped, SInv, SameReaders, ~Claimed'
  PROVE  SInv'
  BY ReadersStayTyped DEF SInv

\* A step of the caller.
LEMMA CallsKeepSearches ==
  ASSUME IInv, IInv', SInv, Caller
  PROVE  SInv'
<1>1. Shaped /\ Shaped'
  BY DEF IInv
<1>2. ids' = ids /\ codes' = codes /\ size' = size /\ packing' = packing /\ readers' = readers
  BY DEF Caller, AddVector, UpdateRaw, DeleteDoc, DelDocByQuery, PushUpdate, UnsetDeleted,
         CountDeleted, CountDead, bucketVars
<1>3. SameReaders
  BY <1>2 DEF SameReaders
<1>4. CASE ~Claimed'
  BY <1>1, <1>3, <1>4, UnclaimedSearches
<1>5. CASE Claimed'
  <2>1. Claimed /\ ~UnsetDeleted
    BY <1>5 DEF Claimed, history, Caller, AddVector, UpdateRaw, DeleteDoc, DelDocByQuery, PushUpdate,
                UnsetDeleted, CountDeleted, loopVars
  <2>2. deleted \subseteq deleted'
    BY <2>1 DEF Caller, AddVector, UpdateRaw, DeleteDoc, DelDocByQuery, PushUpdate,
                CountDeleted, CountDead, bucketVars
  <2>3. RawGrows /\ FlightMoves
    BY <1>1, FlightMovesInSteps DEF Next
  <2>4. \A b \in Buckets : size[b] <= size'[b]
    BY <1>1, <1>2 DEF Shaped, ListsTyped
  <2>5. NoneSwitched
    BY <1>2 DEF NoneSwitched
  <2>. QED
    BY <1>1, <1>2, <1>3, <2>1, <2>2, <2>3, <2>4, <2>5, QuietSteps, Zenon
<1>. QED
  BY <1>4, <1>5

\* The thread goes on in its round, makes room or publishes keys.
QuietWork ==
  \/ StartRound \/ ReadBatch \/ NextBucket \/ EndBatch \/ Refused
  \/ PopUpdate \/ ReadUpdates \/ CheckBucket \/ EndRound
  \/ UNCHANGED loopVars /\ (GrowBucket \/ PublishKeys)
  \/ ApplyUpdate /\ ids' = ids /\ codes' = codes

\* None of these steps changes an entry.
LEMMA QuietWorkKeepsSearches ==
  ASSUME IInv, IInv', SInv, Worker, QuietWork
  PROVE  SInv'
<1>1. Shaped /\ Shaped'
  BY DEF IInv
<1>2. ids' = ids /\ codes' = codes
  BY DEF QuietWork, StartRound, ReadBatch, NextBucket, EndBatch, Refused, RefuseKeys, PopUpdate, ReadUpdates,
         CheckBucket, BeginCompact, EndRound, GrowBucket, PublishKeys, bucketVars
<1>3. deleted' = deleted
  BY DEF QuietWork, StartRound, ReadBatch, NextBucket, EndBatch, Refused, RefuseKeys, PopUpdate, ReadUpdates,
         CheckBucket, BeginCompact, EndRound, GrowBucket, PublishKeys, bucketVars,
         ApplyUpdate, UpdateNothing, OverwriteCode, MoveEntry
<1>4. NoneSwitched
  <2>1. CASE CheckBucket
    BY <2>1 DEF CheckBucket, BeginCompact, WriterFree, bucketVars, NoneSwitched
  <2>2. CASE ~CheckBucket
    BY <2>2 DEF QuietWork, StartRound, ReadBatch, NextBucket, EndBatch, Refused, RefuseKeys, PopUpdate,
           ReadUpdates, EndRound, GrowBucket, PublishKeys, bucketVars, NoneSwitched,
           ApplyUpdate, UpdateNothing, OverwriteCode, MoveEntry
  <2>. QED
    BY <2>1, <2>2
<1>5. SameReaders
  <2>1. CASE GrowBucket
    <3>1. filling.bucket \in Buckets
      BY <1>1, <2>1, FillingTypes DEF GrowBucket
    <3>. QED
      BY <1>2, <2>1, <3>1 DEF GrowBucket, SameReaders
  <2>2. CASE ~GrowBucket
    <3>1. readers' = readers
      BY <2>2 DEF QuietWork, StartRound, ReadBatch, NextBucket, EndBatch, Refused, RefuseKeys, PopUpdate,
             ReadUpdates, CheckBucket, BeginCompact, EndRound, PublishKeys, bucketVars,
             ApplyUpdate, UpdateNothing, OverwriteCode, MoveEntry
    <3>. QED
      BY <3>1 DEF SameReaders
  <2>. QED
    BY <2>1, <2>2
<1>6. \A b \in Buckets : size[b] <= size'[b]
  <2>1. size \in [Buckets -> Nat] /\ size' \in [Buckets -> Nat]
    BY <1>1 DEF Shaped, ListsTyped
  <2>2. CASE PublishKeys
    <3>1. size' = [size EXCEPT ![filling.bucket] = Needed] /\ size[filling.bucket] <= Needed
      BY <1>1, <2>2, FillingTypes DEF PublishKeys
    <3>. QED
      BY <2>1, <3>1
  <2>3. CASE ~PublishKeys
    <3>1. size' = size
      BY <2>3 DEF QuietWork, StartRound, ReadBatch, NextBucket, EndBatch, Refused, RefuseKeys, PopUpdate,
             ReadUpdates, CheckBucket, BeginCompact, EndRound, GrowBucket, bucketVars,
             ApplyUpdate, UpdateNothing, OverwriteCode, MoveEntry
    <3>. QED
      BY <2>1, <3>1
  <2>. QED
    BY <2>2, <2>3
<1>7. CASE ~Claimed'
  BY <1>1, <1>5, <1>7, UnclaimedSearches
<1>8. CASE Claimed'
  <2>1. Claimed
    BY <1>8 DEF Claimed, history, QuietWork, StartRound, ReadBatch, NextBucket, EndBatch, Refused, PopUpdate,
                ReadUpdates, CheckBucket, EndRound, ApplyUpdate, loopVars
  <2>2. RawGrows /\ FlightMoves
    BY <1>1, FlightMovesInSteps DEF Next
  <2>. QED
    BY <1>1, <1>2, <1>3, <1>4, <1>5, <1>6, <2>1, <2>2, QuietSteps
<1>. QED
  BY <1>7, <1>8

-----------------------------------------------------------------------------
(* Keys are copied, codes overwritten, entries moved. *)

\* Keys are copied behind the entries that searches read.
LEMMA FillKeysKeepsSearches ==
  ASSUME IInv, IInv', SInv, FillKeys, UNCHANGED loopVars
  PROVE  SInv'
<1>. DEFINE b == filling.bucket
            n == size[filling.bucket]
<1>1. Shaped /\ Shaped' /\ RawGrows /\ FlightMoves
  BY FlightMovesInSteps DEF IInv, Next, Worker, BucketStep
<1>2. /\ filling.step \in {"room", "fill"} /\ size' = size /\ deleted' = deleted /\ packing' = packing
      /\ history' = history
  BY FillKeysFrame
<1>3. readers' = readers
  BY DEF FillKeys
<1>4. /\ b \in Buckets /\ n \in Nat /\ Len(filling.vecs) \in Nat /\ DOMAIN filling.vecs = 1 .. Len(filling.vecs)
      /\ packing = NotPacking /\ Needed = n + Len(filling.vecs)
      /\ filling.vecs \in Seq(Vectors) /\ filling # NotFilling
  BY <1>1, <1>2, FillingTypes
<1>5. /\ Len(ids[b]) = n /\ Len(codes[b]) = n /\ Len(ids'[b]) = Needed /\ Len(codes'[b]) = Needed
      /\ \A c \in Buckets : c # b => ids'[c] = ids[c] /\ codes'[c] = codes[c]
      /\ \A i \in 1 .. n : ids'[b][i] = ids[b][i] /\ codes'[b][i] = codes[b][i]
      /\ \A k \in DOMAIN filling.vecs :
           ids'[b][n + k] = Entry(Vid(filling.vecs[k])) /\ codes'[b][n + k] = filling.vecs[k]
  BY <1>1, FillKeysArrays
<1>6. /\ ids \in [Buckets -> Seq(EntryType)] /\ codes \in [Buckets -> Seq(Vectors)]
      /\ ids' \in [Buckets -> Seq(EntryType)] /\ codes' \in [Buckets -> Seq(Vectors)]
  BY <1>1 DEF Shaped, ListsTyped
<1>7. \A i \in 1 .. Needed : i \in 1 .. n \/ \E k \in DOMAIN filling.vecs : i = n + k
  <2>1. ASSUME NEW i \in 1 .. Needed, i \notin 1 .. n PROVE i - n \in 1 .. Len(filling.vecs) /\ i = n + (i - n)
    BY <1>4, <2>1
  <2>. QED
    BY <1>4, <2>1
<1>8. \A c \in Buckets : ids[c] \in Seq(EntryType) /\ DOMAIN ids[c] = 1 .. Len(ids[c])
  BY <1>6
<1>9. /\ DOMAIN ids[b] = 1 .. n /\ DOMAIN codes[b] = 1 .. n
      /\ DOMAIN ids'[b] = 1 .. Needed /\ DOMAIN codes'[b] = 1 .. Needed
  BY <1>4, <1>5, <1>6
<1>10. SameReaders
  BY <1>3 DEF SameReaders
<1>11. CASE ~Claimed'
  BY <1>1, <1>10, <1>11, UnclaimedSearches
<1>12. CASE Claimed'
  <2>1. Claimed /\ ReadersTyped /\ Paired /\ ReadersAreSound
    BY <1>2, <1>12 DEF Claimed, history, SInv
  <2>2. \A c \in Buckets : \A i \in DOMAIN codes'[c] :
          \/ \E j \in DOMAIN codes[c] : codes'[c][i] = codes[c][j]
          \/ codes'[c][i] \in Flight /\ Bucket[codes'[c][i]] = c
    <3>1. ASSUME NEW c \in Buckets, NEW i \in DOMAIN codes'[c], c = b, i \notin 1 .. n
          PROVE  codes'[c][i] \in Flight /\ Bucket[codes'[c][i]] = c
      <4>1. PICK k \in DOMAIN filling.vecs : i = n + k
        BY <1>7, <1>9, <3>1
      <4>2. codes'[c][i] = filling.vecs[k]
        BY <1>5, <3>1, <4>1
      <4>3. Bucket[filling.vecs[k]] = b
        BY <1>1, <1>4 DEF Shaped, FillingTyped
      <4>. QED
        BY <1>1, <3>1, <4>2, <4>3, FlightIsStored
    <3>. QED
      BY <1>5, <1>9, <3>1
  <2>3. CodesAreStored'
    BY <1>1, <2>1, <2>2, CodesStayStored DEF Paired
  <2>4. FlightAgrees'
    <3>1. ASSUME NEW v \in Vids, NEW c \in Buckets, NEW i \in Positions, ListedAt(v, c, i)'
          PROVE  \/ ListedAt(v, c, i) /\ codes'[c][i] = codes[c][i]
                 \/ codes'[c][i] \in Flight
      <4>1. CASE c # b
        BY <1>5, <3>1, <4>1 DEF ListedAt
      <4>2. CASE c = b /\ i \in 1 .. n
        BY <1>5, <1>9, <3>1, <4>2 DEF ListedAt
      <4>3. CASE c = b /\ i \notin 1 .. n
        <5>1. PICK k \in DOMAIN filling.vecs : i = n + k
          BY <1>7, <1>9, <3>1, <4>3 DEF ListedAt
        <5>. QED
          BY <1>1, <1>5, <4>3, <5>1, FlightIsStored
      <4>. QED
        BY <4>1, <4>2, <4>3
    <3>. QED
      BY <1>1, <2>1, <3>1, FlightStillAgrees DEF Paired
  <2>5. CodesArePaired'
    <3>1. \A c : CodesOf(c) = codes[c] /\ CodesOf(c)' = codes'[c]
      BY <1>2, <1>4 DEF CodesOf, Packed, NotPacking
    <3>2. \A c \in Buckets : \A i \in DOMAIN ids[c] : Vid(codes[c][i]) = ids[c][i].vid
      BY <2>1, <3>1 DEF Paired, CodesArePaired
    <3>3. ASSUME NEW c \in Buckets, NEW i \in DOMAIN ids'[c] PROVE Vid(codes'[c][i]) = ids'[c][i].vid
      <4>1. CASE c # b
        BY <1>5, <3>2, <3>3, <4>1
      <4>2. CASE c = b /\ i \in 1 .. n
        BY <1>5, <1>9, <3>2, <4>2
      <4>3. CASE c = b /\ i \notin 1 .. n
        <5>1. PICK k \in DOMAIN filling.vecs : i = n + k
          BY <1>7, <1>9, <3>3, <4>3
        <5>2. codes'[c][i] = filling.vecs[k] /\ ids'[c][i] = Entry(Vid(filling.vecs[k]))
          BY <1>5, <4>3, <5>1
        <5>. QED
          BY <5>2 DEF Entry
      <4>. QED
        BY <4>1, <4>2, <4>3
    <3>. QED
      BY <3>1, <3>3 DEF CodesArePaired
  <2>6. PackedMovesDown'
    BY <1>2, <1>4 DEF PackedMovesDown, NotPacking
  <2>7. \A c \in Buckets : /\ size[c] <= size'[c] /\ Len(ids[c]) <= Len(ids'[c])
                           /\ \A i \in DOMAIN ids[c] : ids'[c][i] = ids[c][i] /\ i \in DOMAIN ids'[c]
    <3>1. n <= Needed
      BY <1>4
    <3>2. \A c \in Buckets : size[c] \in Nat /\ Len(ids[c]) \in Nat
      BY <1>1 DEF Shaped, ListsTyped
    <3>3. \A i \in 1 .. n : i \in 1 .. Needed
      BY <1>4
    <3>. QED
      BY <1>2, <1>5, <1>9, <3>1, <3>2, <3>3
  <2>8. DueStays
    <3>1. \A vec \in Vectors : Bucket[vec] \in Buckets
      BY Bounds
    <3>. QED
      BY <2>7, <3>1 DEF DueStays, ListedAt
  <2>9. ReadersAreSound'
    BY <1>1, <1>2, <1>10, <2>1, <2>7, <2>8, ReadersGoOn
  <2>10. ReadersTyped'
    BY <1>1, <1>10, <2>1, ReadersStayTyped
  <2>. QED
    BY <2>3, <2>4, <2>5, <2>6, <2>9, <2>10 DEF SInv, Paired
<1>. QED
  BY <1>11, <1>12

\* The next update overwrites the code of its own entry.
LEMMA OverwriteKeepsSearches ==
  ASSUME IInv, IInv', SInv, ApplyUpdate, NEW vec, vec = Head(worker.vecs), OverwriteCode(Bucket[vec], vec)
  PROVE  SInv'
<1>1. PICK v : v = Vid(vec)
  OBVIOUS
<1>2. PICK b : b = Bucket[vec]
  OBVIOUS
<1>3. PICK p : p = place[v]
  OBVIOUS
<1>4. /\ Shaped /\ Shaped' /\ RawGrows /\ FlightMoves
      /\ filling = NotFilling /\ packing = NotPacking
      /\ vec \in Vectors /\ v \in Vids /\ b \in Buckets /\ vec \in Flight
  <2>1. Shaped /\ Shaped'
    BY DEF IInv
  <2>. QED
    BY <1>1, <1>2, <2>1, NextUpdate, FlightIsStored, FlightMovesInSteps DEF Next, Worker
<1>5. /\ p # NoPlace /\ p[1] = b
      /\ codes' = [codes EXCEPT ![b] = WithCode(codes[b], p[2], vec)]
      /\ ids' = ids /\ size' = size /\ deleted' = deleted /\ packing' = packing
      /\ history' = history /\ readers' = readers
  BY <1>1, <1>2, <1>3 DEF OverwriteCode, ApplyUpdate
<1>6. /\ ids \in [Buckets -> Seq(EntryType)] /\ codes \in [Buckets -> Seq(Vectors)] /\ size \in [Buckets -> Nat]
  BY <1>4 DEF Shaped, ListsTyped
<1>7. /\ DOMAIN codes'[b] = DOMAIN codes[b]
      /\ \A j \in DOMAIN codes[b] : j # p[2] => codes'[b][j] = codes[b][j]
      /\ p[2] \in DOMAIN codes[b] => codes'[b][p[2]] = vec
      /\ \A c \in Buckets : c # b => codes'[c] = codes[c]
  <2>1. PICK written : written = WithCode(codes[b], p[2], vec)
    OBVIOUS
  <2>2. codes[b] \in Seq(Vectors)
    BY <1>4, <1>6
  <2>3. /\ written \in Seq(Vectors) /\ Len(written) = Len(codes[b])
        /\ \A j \in DOMAIN codes[b] : j # p[2] => written[j] = codes[b][j]
        /\ p[2] \in DOMAIN codes[b] => written[p[2]] = vec
    BY <1>4, <2>1, <2>2, CodeIsWritten
  <2>4. codes' = [codes EXCEPT ![b] = written]
    BY <1>5, <2>1
  <2>. QED
    BY <1>4, <1>6, <2>2, <2>3, <2>4
<1>8. SameReaders
  BY <1>5 DEF SameReaders
<1>9. CASE ~Claimed'
  BY <1>4, <1>8, <1>9, UnclaimedSearches
<1>10. CASE Claimed'
  <2>1. Claimed /\ ReadersTyped /\ Paired /\ ReadersAreSound /\ Sound
    BY <1>5, <1>10 DEF Claimed, history, SInv, IInv
  <2>2. ListedAt(v, b, p[2])
    <3>1. PICK c \in Buckets, i \in Positions : ListedAt(v, c, i) /\ p = <<c, i>>
      BY <1>1, <1>3, <1>4, <2>1, NextUpdateIsListed
    <3>. QED
      BY <1>5, <3>1
  <2>3. CodesAreStored'
    BY <1>2, <1>4, <1>7, <2>1, CodesStayStored DEF Paired
  <2>4. FlightAgrees'
    <3>1. ASSUME NEW u \in Vids, NEW c \in Buckets, NEW i \in Positions, ListedAt(u, c, i)'
          PROVE  \/ ListedAt(u, c, i) /\ codes'[c][i] = codes[c][i]
                 \/ codes'[c][i] \in Flight
      <4>1. ListedAt(u, c, i) /\ i \in DOMAIN codes[c]
        BY <1>4, <1>5, <3>1, ListedHaveCodes DEF ListedAt
      <4>. QED
        BY <1>4, <1>7, <4>1
    <3>. QED
      BY <1>4, <2>1, <3>1, FlightStillAgrees DEF Paired
  <2>5. CodesArePaired'
    <3>1. \A c : CodesOf(c) = codes[c] /\ CodesOf(c)' = codes'[c]
      BY <1>4, <1>5 DEF CodesOf, Packed, NotPacking
    <3>2. \A c \in Buckets : \A i \in DOMAIN ids[c] : Vid(codes[c][i]) = ids[c][i].vid
      BY <2>1, <3>1 DEF Paired, CodesArePaired
    <3>3. \A c \in Buckets : \A i \in DOMAIN ids[c] : Vid(codes'[c][i]) = ids[c][i].vid
      <4>1. ASSUME NEW c \in Buckets, NEW i \in DOMAIN ids[c] PROVE i \in DOMAIN codes[c]
        BY <1>4, <4>1, ListedHaveCodes
      <4>2. ids[b][p[2]].vid = v
        BY <2>2 DEF ListedAt, Entry
      <4>. QED
        BY <1>1, <1>4, <1>7, <3>2, <4>1, <4>2
    <3>. QED
      BY <1>5, <3>1, <3>3 DEF CodesArePaired
  <2>6. PackedMovesDown'
    BY <1>4, <1>5 DEF PackedMovesDown, NotPacking
  <2>7. \A c \in Buckets : size[c] <= size'[c] /\ Len(ids[c]) <= Len(ids'[c])
    <3>1. \A c \in Buckets : size[c] \in Nat /\ Len(ids[c]) \in Nat
      BY <1>6
    <3>. QED
      BY <1>5, <3>1
  <2>8. DueStays
    BY <1>5 DEF DueStays, ListedAt
  <2>9. ReadersAreSound'
    BY <1>4, <1>5, <1>8, <2>1, <2>7, <2>8, ReadersGoOn
  <2>10. ReadersTyped'
    BY <1>4, <1>8, <2>1, ReadersStayTyped
  <2>. QED
    BY <2>3, <2>4, <2>5, <2>6, <2>9, <2>10 DEF SInv, Paired
<1>. QED
  BY <1>9, <1>10

\* An entry that is masked keeps its id.
LEMMA MaskKeepsVid ==
  ASSUME NEW s \in Seq(EntryType), NEW i
  PROVE  DOMAIN WithMask(s, i) = DOMAIN s /\ \A j \in DOMAIN s : WithMask(s, i)[j].vid = s[j].vid
<1>1. CASE i \in DOMAIN s
  <2>1. WithMask(s, i) = [s EXCEPT ![i] = [s[i] EXCEPT !.masked = TRUE]]
    BY <1>1 DEF WithMask
  <2>2. s[i] \in EntryType
    BY <1>1
  <2>3. [s[i] EXCEPT !.masked = TRUE].vid = s[i].vid
    BY <2>2 DEF EntryType
  <2>. QED
    BY <1>1, <2>1, <2>3
<1>2. CASE i \notin DOMAIN s
  BY <1>2 DEF WithMask
<1>. QED
  BY <1>1, <1>2

\* The next update masks its own entry; no search must find that entry, for what
\* is in flight is not of the entry's bucket.
LEMMA MoveKeepsSearches ==
  ASSUME IInv, IInv', SInv, ApplyUpdate, NEW vec, vec = Head(worker.vecs), MoveEntry(Bucket[vec], vec)
  PROVE  SInv'
<1>1. PICK v : v = Vid(vec)
  OBVIOUS
<1>2. PICK p : p = place[v]
  OBVIOUS
<1>3. PICK old : old = p[1]
  OBVIOUS
<1>4. /\ Shaped /\ Shaped' /\ RawGrows /\ FlightMoves
      /\ filling = NotFilling /\ packing = NotPacking
      /\ vec \in Vectors /\ v \in Vids /\ vec \in Flight
  <2>1. Shaped /\ Shaped'
    BY DEF IInv
  <2>. QED
    BY <1>1, <2>1, NextUpdate, FlightIsStored, FlightMovesInSteps DEF Next, Worker
<1>5. /\ p # NoPlace /\ old # Bucket[vec]
      /\ ids' = [ids EXCEPT ![old] = WithMask(ids[old], p[2])]
      /\ codes' = codes /\ size' = size /\ deleted' = deleted /\ packing' = packing
      /\ history' = history /\ readers' = readers
  BY <1>1, <1>2, <1>3 DEF MoveEntry, ApplyUpdate
<1>6. /\ ids \in [Buckets -> Seq(EntryType)] /\ codes \in [Buckets -> Seq(Vectors)] /\ size \in [Buckets -> Nat]
      /\ ids' \in [Buckets -> Seq(EntryType)]
  BY <1>4 DEF Shaped, ListsTyped
<1>7. old \in Buckets /\ p[2] \in Positions
  BY <1>2, <1>3, <1>4, <1>5 DEF Shaped, ListsTyped
<1>8. /\ \A c \in Buckets : DOMAIN ids'[c] = DOMAIN ids[c]
      /\ \A c \in Buckets : \A j \in DOMAIN ids[c] : ids'[c][j].vid = ids[c][j].vid
      /\ \A c \in Buckets : \A j \in DOMAIN ids[c] : c # old \/ j # p[2] => ids'[c][j] = ids[c][j]
      /\ \A u : ListedAt(u, old, p[2])' => FALSE
  <2>1. PICK masked : masked = WithMask(ids[old], p[2])
    OBVIOUS
  <2>2. ids[old] \in Seq(EntryType)
    BY <1>6, <1>7
  <2>3. /\ \A j \in DOMAIN ids[old] : j # p[2] => masked[j] = ids[old][j]
        /\ p[2] \in DOMAIN ids[old] => \A u : masked[p[2]] # Entry(u)
    BY <2>1, <2>2, EntryIsMasked
  <2>4. DOMAIN masked = DOMAIN ids[old] /\ \A j \in DOMAIN ids[old] : masked[j].vid = ids[old][j].vid
    BY <2>1, <2>2, MaskKeepsVid
  <2>5. ids' = [ids EXCEPT ![old] = masked]
    BY <1>5, <2>1
  <2>6. ids'[old] = masked /\ \A c \in Buckets : c # old => ids'[c] = ids[c]
    BY <1>6, <1>7, <2>5
  <2>7. \A u : ~ListedAt(u, old, p[2])'
    BY <2>3, <2>4, <2>6 DEF ListedAt
  <2>. QED
    BY <2>3, <2>4, <2>6, <2>7
<1>9. SameReaders
  BY <1>5 DEF SameReaders
<1>10. CASE ~Claimed'
  BY <1>4, <1>9, <1>10, UnclaimedSearches
<1>11. CASE Claimed'
  <2>1. Claimed /\ ReadersTyped /\ Paired /\ ReadersAreSound /\ Sound
    BY <1>5, <1>11 DEF Claimed, history, SInv, IInv
  <2>2. ListedAt(v, old, p[2])
    <3>1. PICK c \in Buckets, i \in Positions : ListedAt(v, c, i) /\ p = <<c, i>>
      BY <1>1, <1>2, <1>4, <2>1, NextUpdateIsListed
    <3>. QED
      BY <1>3, <3>1
  <2>3. CodesAreStored'
    BY <1>4, <1>5, <2>1, CodesStayStored DEF Paired
  <2>4. FlightAgrees'
    <3>1. ASSUME NEW u \in Vids, NEW c \in Buckets, NEW i \in Positions, ListedAt(u, c, i)'
          PROVE  ListedAt(u, c, i) /\ codes'[c][i] = codes[c][i]
      <4>1. c # old \/ i # p[2]
        BY <1>8, <3>1
      <4>. QED
        BY <1>5, <1>8, <3>1, <4>1 DEF ListedAt
    <3>. QED
      BY <1>4, <2>1, <3>1, FlightStillAgrees DEF Paired
  <2>5. CodesArePaired'
    <3>1. \A c : CodesOf(c)' = CodesOf(c)
      BY <1>5 DEF CodesOf, Packed
    <3>. QED
      BY <1>8, <2>1, <3>1 DEF Paired, CodesArePaired
  <2>6. PackedMovesDown'
    BY <1>4, <1>5 DEF PackedMovesDown, NotPacking
  <2>7. \A c \in Buckets : size[c] <= size'[c] /\ Len(ids[c]) <= Len(ids'[c])
    <3>1. \A c \in Buckets : /\ size[c] \in Nat /\ Len(ids[c]) \in Nat /\ ids[c] \in Seq(EntryType)
                             /\ ids'[c] \in Seq(EntryType)
      BY <1>6
    <3>2. \A c \in Buckets : Len(ids'[c]) = Len(ids[c])
      BY <1>8, <3>1
    <3>. QED
      BY <1>5, <3>1, <3>2
  <2>8. DueStays
    <3>1. ASSUME NEW x \in Vectors, NEW i \in Positions,
                 \A y \in Flight : Vid(y) = Vid(x) => y = x,
                 ListedAt(Vid(x), Bucket[x], i)
          PROVE  ListedAt(Vid(x), Bucket[x], i)'
      <4>1. Bucket[x] \in Buckets
        BY Bounds
      <4>2. Bucket[x] # old \/ i # p[2]
        <5>1. ASSUME Bucket[x] = old, i = p[2] PROVE FALSE
          <6>1. Entry(Vid(x)) = Entry(v)
            BY <2>2, <3>1, <5>1 DEF ListedAt
          <6>2. Vid(x) = v
            BY <6>1 DEF Entry
          <6>3. vec = x
            BY <1>1, <1>4, <3>1, <6>2
          <6>. QED
            BY <1>5, <5>1, <6>3
        <5>. QED
          BY <5>1
      <4>. QED
        BY <1>8, <3>1, <4>1, <4>2 DEF ListedAt
    <3>. QED
      BY <3>1 DEF DueStays
  <2>9. ReadersAreSound'
    BY <1>4, <1>5, <1>8, <1>9, <2>1, <2>7, <2>8, ReadersGoOn
  <2>10. ReadersTyped'
    BY <1>4, <1>9, <2>1, ReadersStayTyped
  <2>. QED
    BY <2>3, <2>4, <2>5, <2>6, <2>9, <2>10 DEF SInv, Paired
<1>. QED
  BY <1>10, <1>11

-----------------------------------------------------------------------------
(* Compaction: entries are copied, then ids, codes and number switched. *)

\* The copy of an entry is not behind its old position.
LEMMA CompactOneKeepsSearches ==
  ASSUME IInv, IInv', SInv, CompactOne, UNCHANGED loopVars
  PROVE  SInv'
<1>1. PICK b : b = packing.bucket
  OBVIOUS
<1>2. PICK e : e = ids[b][packing.next]
  OBVIOUS
<1>3. PICK code : code = codes[b][packing.next]
  OBVIOUS
<1>4. PICK keep \in BOOLEAN : keep = (~e.masked /\ e.vid \notin deleted)
  OBVIOUS
<1>5. /\ packing.step = "copy" /\ packing.next <= size[b]
      /\ packing' = [packing EXCEPT
                       !.next = packing.next + 1,
                       !.ids = IF keep THEN Append(packing.ids, e) ELSE packing.ids,
                       !.codes = IF keep THEN Append(packing.codes, code) ELSE packing.codes]
      /\ ids' = ids /\ codes' = codes /\ size' = size /\ deleted' = deleted /\ readers' = readers
      /\ raw' = raw /\ history' = history
  BY <1>1, <1>2, <1>3, <1>4 DEF CompactOne, loopVars, storeVars
<1>6. /\ Shaped /\ Shaped' /\ RawGrows /\ FlightMoves
  BY FlightMovesInSteps DEF IInv, Next, Worker, BucketStep
<1>7. /\ packing \in Packs /\ b \in Buckets /\ packing.next \in Positions /\ packing.ids \in Seq(EntryType)
      /\ Len(packing.ids) \in Nat /\ Resting /\ packing # NotPacking
  BY <1>1, <1>5, <1>6, PackingTypes
<1>8. Len(packing.ids) < packing.next
  BY <1>5, <1>6, <1>7 DEF Shaped, PackingTyped
<1>9. /\ packing'.step = "copy" /\ packing'.bucket = b /\ packing'.next = packing.next + 1
      /\ packing'.ids = IF keep THEN Append(packing.ids, e) ELSE packing.ids
  BY <1>1, <1>5, <1>7 DEF Packs
<1>10. ids \in [Buckets -> Seq(EntryType)] /\ size \in [Buckets -> Nat]
  BY <1>6 DEF Shaped, ListsTyped
<1>11. SameReaders
  BY <1>5 DEF SameReaders
<1>12. CASE ~Claimed'
  BY <1>6, <1>11, <1>12, UnclaimedSearches
<1>13. CASE Claimed'
  <2>1. Claimed /\ ReadersTyped /\ Paired /\ ReadersAreSound
    BY <1>5, <1>13 DEF Claimed, history, SInv
  <2>2. CodesAreStored'
    <3>1. \A c \in Buckets : \A i \in DOMAIN codes'[c] : \E j \in DOMAIN codes[c] : codes'[c][i] = codes[c][j]
      BY <1>5
    <3>. QED
      BY <1>6, <2>1, <3>1, CodesStayStored DEF Paired
  <2>3. FlightAgrees'
    <3>1. \A v, c, i : ListedAt(v, c, i)' <=> ListedAt(v, c, i)
      BY <1>5 DEF ListedAt
    <3>. QED
      BY <1>5, <1>6, <2>1, <3>1, FlightStillAgrees DEF Paired
  <2>4. CodesArePaired'
    <3>1. \A c : CodesOf(c)' = CodesOf(c)
      BY <1>5, <1>9 DEF CodesOf, Packed
    <3>. QED
      BY <1>5, <2>1, <3>1 DEF Paired, CodesArePaired
  <2>5. PackedMovesDown'
    <3>1. ASSUME NEW v \in Vids, NEW i \in 1 .. packing.next, ListedAt(v, b, i), v \notin deleted
          PROVE  \E j \in DOMAIN packing'.ids : j <= i /\ packing'.ids[j] = Entry(v)
      <4>1. CASE i < packing.next
        <5>1. i \in 1 .. packing.next - 1
          BY <1>7, <4>1 DEF Positions
        <5>2. PICK j \in DOMAIN packing.ids : j <= i /\ packing.ids[j] = Entry(v)
          BY <1>1, <1>5, <2>1, <3>1, <5>1 DEF Paired, PackedMovesDown
        <5>3. j \in DOMAIN packing'.ids /\ packing'.ids[j] = packing.ids[j]
          <6>1. CASE ~keep
            BY <1>9, <6>1
          <6>2. CASE keep
            <7>1. e \in EntryType
              <8>1. i \in DOMAIN ids[b] /\ packing.next \in Nat /\ packing.next >= 1 /\ ids[b] \in Seq(EntryType)
                BY <1>7, <1>10, <3>1 DEF ListedAt, Positions
              <8>2. Len(ids[b]) = size[b]
                BY <1>1, <1>5, <1>6, <1>7, PackingTypes DEF Shaped, ListsEnd, Packed
              <8>. QED
                BY <1>2, <1>5, <8>1, <8>2
            <7>. QED
              BY <1>7, <1>9, <6>2, <7>1
          <6>. QED
            BY <6>1, <6>2
        <5>. QED
          BY <5>2, <5>3
      <4>2. CASE i = packing.next
        <5>1. e = Entry(v) /\ keep
          <6>1. e = Entry(v)
            BY <1>2, <3>1, <4>2 DEF ListedAt
          <6>2. e.masked = FALSE /\ e.vid = v
            BY <6>1 DEF Entry
          <6>. QED
            BY <1>4, <3>1, <6>1, <6>2
        <5>2. e \in EntryType
          BY <3>1, <5>1 DEF Entry, EntryType
        <5>3. packing'.ids = Append(packing.ids, e)
          BY <1>9, <5>1
        <5>4. /\ Len(packing.ids) + 1 \in DOMAIN packing'.ids
              /\ packing'.ids[Len(packing.ids) + 1] = e
          BY <1>7, <5>2, <5>3
        <5>5. Len(packing.ids) + 1 <= i
          BY <1>7, <1>8, <4>2 DEF Positions
        <5>. QED
          BY <5>1, <5>4, <5>5
      <4>. QED
        BY <1>7, <4>1, <4>2 DEF Positions
    <3>2. packing'.next - 1 = packing.next
      BY <1>7, <1>9 DEF Positions
    <3>3. \A v, i : ListedAt(v, b, i)' <=> ListedAt(v, b, i)
      BY <1>5 DEF ListedAt
    <3>. QED
      BY <1>5, <1>9, <3>1, <3>2, <3>3 DEF PackedMovesDown
  <2>6. \A c \in Buckets : size[c] <= size'[c] /\ Len(ids[c]) <= Len(ids'[c])
    <3>1. \A c \in Buckets : size[c] \in Nat /\ Len(ids[c]) \in Nat
      BY <1>10
    <3>. QED
      BY <1>5, <3>1
  <2>7. DueStays
    BY <1>5 DEF DueStays, ListedAt
  <2>8. ReadersAreSound'
    BY <1>5, <1>6, <1>9, <1>11, <2>1, <2>6, <2>7, ReadersGoOn
  <2>9. ReadersTyped'
    BY <1>6, <1>11, <2>1, ReadersStayTyped
  <2>. QED
    BY <2>2, <2>3, <2>4, <2>5, <2>8, <2>9 DEF SInv, Paired
<1>. QED
  BY <1>12, <1>13

\* The arrays or the number of a bucket are switched beside its searches.
SwitchedReaders(b) ==
  /\ \A c \in Buckets : c # b => ids'[c] = ids[c] /\ size'[c] = size[c]
  /\ \/ ids' = ids /\ readers' = Torn(b, readers)
     \/ readers' = Torn(b, Detached(b))

\* What stays of a search beside a switch.
LEMMA SwitchedReader ==
  ASSUME Shaped, ReadersTyped, NEW b \in Buckets, SwitchedReaders(b), NEW r \in Readers
  PROVE  /\ readers'[r] \in Searches
         /\ readers'[r].pc = readers[r].pc /\ readers'[r].bucket = readers[r].bucket
         /\ readers'[r].size = readers[r].size /\ readers'[r].due = readers[r].due
         /\ Reading(r) /\ ~readers'[r].torn => ~readers[r].torn /\ readers[r].bucket # b
         /\ readers'[r].current => readers'[r].pc = "scan"
         /\ Reading(r) => \/ IdsOf(r)' = IdsOf(r)
                          \/ /\ readers[r].bucket = b
                             /\ IdsOf(r)' = ids'[b] /\ IdsOf(r) = ids[b]
<1>1. PICK rs : /\ rs = readers \/ rs = Detached(b)
                /\ readers' = Torn(b, rs) /\ (ids' = ids \/ rs = Detached(b))
  BY DEF SwitchedReaders
<1>2. PICK q : q = rs[r]
  OBVIOUS
<1>3. /\ q \in Searches
      /\ q.pc = readers[r].pc /\ q.bucket = readers[r].bucket /\ q.size = readers[r].size
      /\ q.due = readers[r].due /\ q.torn = readers[r].torn
      /\ q.current => q.pc = "scan"
      /\ q.current /\ rs = Detached(b) => readers[r].bucket # b
      /\ IdsOf(r) = IF q.pc = "scan" /\ ~q.current THEN q.ids ELSE ids[q.bucket]
  <2>1. CASE rs = Detached(b)
    BY <1>2, <2>1, DetachedReader
  <2>2. CASE rs = readers /\ rs # Detached(b)
    BY <1>2, <2>2, ReaderHas DEF IdsOf
  <2>. QED
    BY <1>1, <2>1, <2>2
<1>4. PICK s : s = readers'[r]
  OBVIOUS
<1>5. s = IF q.pc # "idle" /\ q.bucket = b THEN [q EXCEPT !.torn = TRUE] ELSE q
  BY <1>1, <1>2, <1>4 DEF Torn
<1>6. /\ s \in Searches /\ s.pc = q.pc /\ s.bucket = q.bucket /\ s.size = q.size /\ s.due = q.due
      /\ s.current = q.current /\ s.ids = q.ids
      /\ q.pc # "idle" /\ ~s.torn => ~q.torn /\ q.bucket # b
  BY <1>3, <1>5 DEF Searches
<1>7. ASSUME Reading(r)
      PROVE  \/ IdsOf(r)' = IdsOf(r)
             \/ /\ readers[r].bucket = b
                /\ IdsOf(r)' = ids'[b] /\ IdsOf(r) = ids[b]
  <2>1. q.bucket \in Buckets
    BY <1>3, <1>7, ReaderHas
  <2>2. IdsOf(r)' = IF s.pc = "scan" /\ ~s.current THEN s.ids ELSE ids'[s.bucket]
    BY <1>4 DEF IdsOf
  <2>3. q.bucket = b \/ ids'[q.bucket] = ids[q.bucket]
    BY <2>1 DEF SwitchedReaders
  <2>. QED
    BY <1>3, <1>6, <2>2, <2>3
<1>. QED
  BY <1>3, <1>4, <1>6, <1>7 DEF Reading

\* Searches of other buckets read on; one of this bucket may pair ids with other
\* codes, but finds what it must.
LEMMA ReadersAreTorn ==
  ASSUME Shaped, ReadersTyped, ReadersAreSound, NEW b \in Buckets, SwitchedReaders(b),
         raw' = raw, deleted' = deleted, Flight' = {},
         \A c : c # b => ~Packed(c, {"codes", "size"})',
         \A v \in Vids, i \in Positions : ListedAt(v, b, i) /\ v \notin deleted =>
           \E j \in Positions : j <= i /\ ListedAt(v, b, j)'
  PROVE  ReadersAreSound'
<1>. SUFFICES ASSUME NEW r \in Readers, Reading(r)'
              PROVE  /\ ~readers'[r].torn => UntornReads(r)'
                     /\ \A vec \in readers'[r].due : DueFound(r, vec)'
  BY DEF ReadersAreSound
<1>1. PICK c : c = readers[r].bucket
  OBVIOUS
<1>2. /\ readers'[r].pc = readers[r].pc /\ readers'[r].bucket = c
      /\ readers'[r].size = readers[r].size /\ readers'[r].due = readers[r].due
      /\ Reading(r) /\ ~readers'[r].torn => ~readers[r].torn /\ c # b
      /\ Reading(r) => \/ IdsOf(r)' = IdsOf(r)
                       \/ c = b /\ IdsOf(r)' = ids'[b] /\ IdsOf(r) = ids[b]
  BY <1>1, SwitchedReader
<1>3. Reading(r) /\ c \in Buckets /\ readers[r].size \in Nat /\ readers[r].due \subseteq Vectors
  BY <1>1, <1>2, ReaderHas DEF Reading
<1>4. ASSUME ~readers'[r].torn PROVE UntornReads(r)'
  <2>1. UntornReads(r) /\ c # b
    BY <1>2, <1>3, <1>4 DEF ReadersAreSound
  <2>2. ids'[c] = ids[c] /\ size'[c] = size[c] /\ ~Packed(c, {"codes", "size"})' /\ IdsOf(r)' = IdsOf(r)
    BY <1>2, <1>3, <2>1 DEF SwitchedReaders
  <2>3. /\ readers[r].size <= size[c] /\ readers[r].size <= Len(IdsOf(r))
        /\ \A i \in 1 .. readers[r].size : IdsOf(r)[i].vid = ids[c][i].vid
    BY <1>1, <2>1 DEF UntornReads
  <2>. QED
    BY <1>2, <2>2, <2>3 DEF UntornReads
<1>5. ASSUME NEW vec \in readers'[r].due PROVE DueFound(r, vec)'
  <2>1. vec \in Vectors /\ DueFound(r, vec)
    BY <1>2, <1>3, <1>5 DEF ReadersAreSound
  <2>2. Had(vec)' /\ Bucket[vec] = c
    BY <1>1, <2>1 DEF DueFound, Had, Stored
  <2>3. ASSUME Live(Vid(vec))', Current(Vid(vec))' = vec
        PROVE  \E i \in 1 .. readers[r].size : i \in DOMAIN IdsOf(r)' /\ IdsOf(r)'[i] = Entry(Vid(vec))
    <3>1. Current(Vid(vec)) = vec /\ Live(Vid(vec)) /\ Vid(vec) \notin deleted /\ Vid(vec) \in Vids
      BY <2>3 DEF Live, Current, Stored
    <3>2. PICK i \in 1 .. readers[r].size : i \in DOMAIN IdsOf(r) /\ IdsOf(r)[i] = Entry(Vid(vec))
      BY <2>1, <3>1 DEF DueFound
    <3>3. CASE IdsOf(r)' = IdsOf(r)
      BY <3>2, <3>3
    <3>4. CASE c = b /\ IdsOf(r)' = ids'[b] /\ IdsOf(r) = ids[b]
      <4>1. ListedAt(Vid(vec), b, i) /\ i \in Positions /\ i <= readers[r].size
        BY <1>3, <3>2, <3>4 DEF ListedAt, Positions
      <4>2. PICK j \in Positions : j <= i /\ ListedAt(Vid(vec), b, j)'
        BY <3>1, <4>1
      <4>3. j \in 1 .. readers[r].size
        BY <1>3, <4>1, <4>2 DEF Positions
      <4>. QED
        BY <3>4, <4>2, <4>3 DEF ListedAt
    <3>. QED
      BY <1>2, <1>3, <3>3, <3>4
  <2>. QED
    BY <1>2, <2>2, <2>3 DEF DueFound
<1>. QED
  BY <1>4, <1>5

\* The searches stay typed beside a switch.
LEMMA SwitchedReadersTyped ==
  ASSUME Shaped, ReadersTyped, NEW b \in Buckets, SwitchedReaders(b)
  PROVE  ReadersTyped'
<1>1. \A r \in Readers : /\ readers'[r] \in Searches
                         /\ Reading(r)' => readers'[r].bucket \in Buckets
                         /\ readers'[r].current => readers'[r].pc = "scan"
  BY SwitchedReader, ReaderHas DEF Reading
<1>2. readers' = [r \in Readers |-> readers'[r]]
  BY DEF SwitchedReaders, Torn
<1>. QED
  BY <1>1, <1>2 DEF ReadersTyped

\* Any of the three switches.
Switch == SwitchIds \/ SwitchCodes \/ SwitchSize

\* What a switch leaves alone, and where it finds the thread.
LEMMA SwitchFrame ==
  ASSUME Shaped, Switch, UNCHANGED loopVars, NEW b, b = packing.bucket
  PROVE  /\ b \in Buckets /\ Resting /\ Resting' /\ packing \in Packs
         /\ raw' = raw /\ deleted' = deleted /\ history' = history
         /\ packing.step \in {"copy", "codes", "size"} /\ packing'.step # "copy"
         /\ \A c : c # b => ~Packed(c, {"codes", "size"})' /\ ~Packed(c, {"codes"})'
         /\ \A c : c # b => ~Packed(c, {"codes", "size"}) /\ ~Packed(c, {"codes"})
         /\ SwitchedReaders(b)
<1>1. packing.step \in {"copy", "codes", "size"}
  BY DEF Switch, SwitchIds, SwitchCodes, SwitchSize
<1>2. /\ packing \in Packs /\ b \in Buckets /\ Resting
      /\ ids \in [Buckets -> Seq(EntryType)] /\ size \in [Buckets -> Nat]
  BY <1>1, PackingTypes
<1>3. /\ raw' = raw /\ worker' = worker /\ history' = history
  BY DEF loopVars, storeVars
<1>4. filling' = filling /\ deleted' = deleted
  BY DEF Switch, SwitchIds, SwitchCodes, SwitchSize
<1>5. Resting'
  BY <1>2, <1>3, <1>4 DEF Resting
<1>6. /\ \/ packing' = [packing EXCEPT !.step = "codes"]
         \/ packing' = [packing EXCEPT !.step = "size"]
         \/ packing' = NotPacking
  BY DEF Switch, SwitchIds, SwitchCodes, SwitchSize
<1>7. /\ packing'.step # "copy"
      /\ packing'.bucket = b \/ packing'.step = "none"
  BY <1>2, <1>6 DEF Packs, NotPacking
<1>8. SwitchedReaders(b)
  <2>1. \A c \in Buckets : c # b => ids'[c] = ids[c] /\ size'[c] = size[c]
    BY <1>2 DEF Switch, SwitchIds, SwitchCodes, SwitchSize
  <2>2. \/ ids' = ids /\ readers' = Torn(b, readers)
        \/ readers' = Torn(b, Detached(b))
    BY DEF Switch, SwitchIds, SwitchCodes, SwitchSize
  <2>. QED
    BY <2>1, <2>2 DEF SwitchedReaders
<1>. QED
  BY <1>1, <1>2, <1>3, <1>4, <1>5, <1>7, <1>8 DEF Packed

\* The compacted list has the entries that searches must find, and its codes are
\* those of its ids.
LEMMA SwitchesKeepSearches ==
  ASSUME IInv, IInv', SInv, Switch, UNCHANGED loopVars
  PROVE  SInv'
<1>1. PICK b : b = packing.bucket
  OBVIOUS
<1>2. Shaped /\ Shaped' /\ RawGrows /\ FlightMoves
  BY FlightMovesInSteps DEF IInv, Next, Worker, BucketStep, Switch
<1>3. /\ b \in Buckets /\ Resting /\ Resting' /\ packing \in Packs
      /\ raw' = raw /\ deleted' = deleted /\ history' = history
      /\ packing.step \in {"copy", "codes", "size"} /\ packing'.step # "copy"
      /\ \A c : c # b => ~Packed(c, {"codes", "size"})' /\ ~Packed(c, {"codes"})'
      /\ \A c : c # b => ~Packed(c, {"codes", "size"}) /\ ~Packed(c, {"codes"})
      /\ SwitchedReaders(b)
  BY <1>1, <1>2, SwitchFrame
<1>4. Flight' = {}
  BY <1>3, RestingThreadNext
<1>5. ReadersTyped'
  BY <1>2, <1>3, SwitchedReadersTyped DEF SInv
<1>6. /\ ids \in [Buckets -> Seq(EntryType)] /\ codes \in [Buckets -> Seq(Vectors)] /\ size \in [Buckets -> Nat]
      /\ packing.ids \in Seq(EntryType) /\ packing.codes \in Seq(Vectors)
  BY <1>2, <1>3 DEF Shaped, ListsTyped, Packs
<1>7. CASE ~Claimed'
  BY <1>5, <1>7 DEF SInv
<1>8. CASE Claimed'
  <2>1. Claimed /\ ReadersTyped /\ Paired /\ ReadersAreSound /\ Sound /\ Sound'
    BY <1>3, <1>8 DEF Claimed, history, SInv, IInv
  <2>2. CodesAreStored'
    <3>1. CASE SwitchCodes
      <4>1. packing.step = "codes" /\ codes'[b] = packing.codes
            /\ \A c \in Buckets : c # b => codes'[c] = codes[c]
        BY <1>1, <1>3, <1>6, <3>1 DEF SwitchCodes
      <4>2. \A j \in DOMAIN packing.codes : \E i \in DOMAIN codes[b] : codes[b][i] = packing.codes[j]
        BY <1>1, <2>1, <4>1 DEF Sound, PackedIsKept
      <4>3. \A c \in Buckets : \A i \in DOMAIN codes'[c] : \E j \in DOMAIN codes[c] : codes'[c][i] = codes[c][j]
        BY <4>1, <4>2
      <4>. QED
        BY <1>2, <2>1, <4>3, CodesStayStored DEF Paired
    <3>2. CASE ~SwitchCodes
      <4>1. codes' = codes
        BY <3>2 DEF Switch, SwitchIds, SwitchSize
      <4>2. \A c \in Buckets : \A i \in DOMAIN codes'[c] : \E j \in DOMAIN codes[c] : codes'[c][i] = codes[c][j]
        BY <4>1
      <4>. QED
        BY <1>2, <2>1, <4>2, CodesStayStored DEF Paired
    <3>. QED
      BY <3>1, <3>2
  <2>3. FlightAgrees'
    BY <1>4 DEF FlightAgrees
  <2>4. PackedMovesDown'
    BY <1>3 DEF PackedMovesDown
  <2>5. CASE SwitchIds
    <3>1. /\ packing.step = "copy" /\ packing.next > size[b]
          /\ ids'[b] = packing.ids /\ codes' = codes
          /\ \A c \in Buckets : c # b => ids'[c] = ids[c]
      BY <1>1, <1>3, <1>6, <2>5 DEF SwitchIds
    <3>2. CodesArePaired'
      <4>1. ASSUME NEW i \in DOMAIN ids'[b] PROVE Vid(CodesOf(b)'[i]) = ids'[b][i].vid
        <5>1. PICK v \in Vids : packing.ids[i] = Entry(v)
          BY <1>1, <2>1, <3>1, <4>1 DEF Sound, PackedIsKept
        <5>2. i \in Positions
          BY <1>6, <3>1, <4>1 DEF Positions
        <5>3. ListedAt(v, b, i)'
          BY <3>1, <4>1, <5>1 DEF ListedAt
        <5>4. Vid(CodesOf(b)'[i]) = v
          BY <1>3, <2>1, <5>2, <5>3 DEF Sound, CodesAreTheirs, Vid
        <5>. QED
          BY <3>1, <5>1, <5>4 DEF Entry
      <4>2. \A c \in Buckets : c # b => CodesOf(c)' = CodesOf(c)
        BY <1>3, <3>1 DEF CodesOf
      <4>3. \A c \in Buckets : \A i \in DOMAIN ids[c] : Vid(CodesOf(c)[i]) = ids[c][i].vid
        BY <2>1 DEF Paired, CodesArePaired
      <4>4. \A c \in Buckets : \A i \in DOMAIN ids'[c] : Vid(CodesOf(c)'[i]) = ids'[c][i].vid
        BY <3>1, <4>1, <4>2, <4>3
      <4>. QED
        BY <4>4 DEF CodesArePaired, Vid
    <3>3. ASSUME NEW v \in Vids, NEW i \in Positions, ListedAt(v, b, i), v \notin deleted
          PROVE  \E j \in Positions : j <= i /\ ListedAt(v, b, j)'
      <4>1. ~Packed(b, {"codes", "size"}) /\ ~Filled(b)
        BY <1>3, <3>1 DEF Packed, Filled, Resting, NotFilling
      <4>2. Len(ids[b]) = size[b] /\ size[b] \in Nat /\ packing.next \in Nat
        BY <1>2, <1>3, <1>6, <4>1 DEF Shaped, ListsEnd, Packs, Positions
      <4>3. i \in 1 .. size[b]
        BY <1>3, <1>6, <3>3, <4>2 DEF ListedAt
      <4>4. i \in 1 .. packing.next - 1
        BY <3>1, <4>2, <4>3
      <4>5. PICK j \in DOMAIN packing.ids : j <= i /\ packing.ids[j] = Entry(v)
        BY <1>1, <2>1, <3>1, <3>3, <4>4 DEF Paired, PackedMovesDown
      <4>6. j \in Positions
        BY <1>6 DEF Positions
      <4>. QED
        BY <3>1, <4>5, <4>6 DEF ListedAt
    <3>4. ReadersAreSound'
      BY <1>2, <1>3, <1>4, <2>1, <3>3, ReadersAreTorn
    <3>. QED
      BY <1>5, <2>2, <2>3, <2>4, <3>2, <3>4 DEF SInv, Paired
  <2>6. CASE SwitchCodes \/ SwitchSize
    <3>1. ids' = ids
      BY <2>6 DEF SwitchCodes, SwitchSize
    <3>2. \A c \in Buckets : CodesOf(c)' = CodesOf(c)
      <4>1. CASE SwitchCodes
        <5>1. /\ packing.step = "codes" /\ packing'.step = "size" /\ codes'[b] = packing.codes
              /\ \A c \in Buckets : c # b => codes'[c] = codes[c]
          BY <1>1, <1>3, <1>6, <4>1 DEF SwitchCodes, Packs
        <5>. QED
          BY <1>1, <5>1 DEF CodesOf, Packed
      <4>2. CASE SwitchSize
        BY <4>2 DEF SwitchSize, CodesOf, Packed, NotPacking
      <4>. QED
        BY <2>6, <4>1, <4>2
    <3>3. CodesArePaired'
      BY <2>1, <3>1, <3>2, Zenon DEF Paired, CodesArePaired, Vid
    <3>4. \A v \in Vids, i \in Positions : ListedAt(v, b, i) /\ v \notin deleted =>
            \E j \in Positions : j <= i /\ ListedAt(v, b, j)'
      <4>1. \A i \in Positions : i <= i
        BY DEF Positions
      <4>. QED
        BY <3>1, <4>1 DEF ListedAt
    <3>5. ReadersAreSound'
      BY <1>2, <1>3, <1>4, <2>1, <3>4, ReadersAreTorn
    <3>. QED
      BY <1>5, <2>2, <2>3, <2>4, <3>3, <3>5 DEF SInv, Paired
  <2>. QED
    BY <2>5, <2>6 DEF Switch
<1>. QED
  BY <1>7, <1>8

-----------------------------------------------------------------------------
(* The searches themselves, and every step. *)

\* What nothing but a search changes.
ListsRest == UNCHANGED <<ids, codes, size, place, deleted, filling, packing, loopVars>>

\* A search that does not step, where nothing else does.
LEMMA OtherReader ==
  ASSUME ListsRest, NEW q, readers'[q] = readers[q]
  PROVE  /\ Reading(q)' <=> Reading(q)
         /\ UntornReads(q) => UntornReads(q)'
         /\ \A vec : DueFound(q, vec) => DueFound(q, vec)'
<1>1. /\ Reading(q)' <=> Reading(q)
      /\ IdsOf(q)' = IdsOf(q)
      /\ Flight' = Flight
  BY DEF Reading, IdsOf, Flight, ListsRest, loopVars
<1>2. UntornReads(q) => UntornReads(q)'
  BY <1>1 DEF UntornReads, Packed, ListsRest
<1>3. /\ \A vec : Had(vec)' <=> Had(vec)
      /\ \A v : Live(v)' <=> Live(v)
      /\ \A v : Current(v)' = Current(v)
  BY DEF Had, Stored, Live, Current, ListsRest, loopVars, storeVars
<1>4. ASSUME NEW vec, DueFound(q, vec) PROVE DueFound(q, vec)'
  <2>1. Had(vec)' /\ Bucket[vec] = readers'[q].bucket
    BY <1>3, <1>4 DEF DueFound
  <2>2. ASSUME Live(Vid(vec))', Current(Vid(vec))' = vec
        PROVE  /\ \A x \in Flight' : Vid(x) = Vid(vec) => x = vec
               /\ \E i \in 1 .. readers'[q].size : i \in DOMAIN IdsOf(q)' /\ IdsOf(q)'[i] = Entry(Vid(vec))
    BY <1>1, <1>3, <1>4, <2>2 DEF DueFound
  <2>. QED
    BY <2>1, <2>2 DEF DueFound
<1>. QED
  BY <1>1, <1>2, <1>4

\* One search steps.
LEMMA OneReaderSteps ==
  ASSUME Shaped, Shaped', SInv, ListsRest, NEW r \in Readers, NEW q,
         readers' = [readers EXCEPT ![r] = q], q \in Searches,
         q.pc # "idle" => q.bucket \in Buckets,
         q.current => q.pc = "scan",
         Claimed /\ Paired /\ ReadersAreSound /\ q.pc # "idle" =>
           /\ ~q.torn => UntornReads(r)'
           /\ \A vec \in q.due : DueFound(r, vec)'
  PROVE  SInv'
<1>1. readers \in [Readers -> Searches]
  BY DEF SInv, ReadersTyped
<1>2. readers'[r] = q /\ \A s \in Readers : s # r => readers'[s] = readers[s]
  BY <1>1
<1>3. ReadersTyped'
  <2>1. readers' \in [Readers -> Searches]
    BY <1>1
  <2>2. \A s \in Readers : /\ Reading(s)' => readers'[s].bucket \in Buckets
                           /\ readers'[s].current => readers'[s].pc = "scan"
    BY <1>2 DEF SInv, ReadersTyped, Reading
  <2>. QED
    BY <2>1, <2>2 DEF ReadersTyped
<1>4. ASSUME Claimed' PROVE Paired' /\ ReadersAreSound'
  <2>1. Claimed /\ Paired /\ ReadersAreSound
    BY <1>4 DEF Claimed, SInv, ListsRest, loopVars, history
  <2>2. RawGrows
    BY VersionsGrow DEF ListsRest, loopVars, storeVars
  <2>3. FlightMoves
    BY DEF FlightMoves, Flight, ListsRest, loopVars
  <2>4. Paired'
    BY <2>1, <2>2, <2>3, KeptListsStayPaired DEF ListsRest, NoneSwitched
  <2>5. ASSUME NEW s \in Readers, Reading(s)'
        PROVE  /\ ~readers'[s].torn => UntornReads(s)'
               /\ \A vec \in readers'[s].due : DueFound(s, vec)'
    <3>1. CASE s = r
      BY <1>2, <2>1, <2>5, <3>1 DEF Reading
    <3>2. CASE s # r
      BY <1>2, <2>1, <2>5, <3>2, OtherReader DEF ReadersAreSound
    <3>. QED
      BY <3>1, <3>2
  <2>. QED
    BY <2>4, <2>5 DEF ReadersAreSound
<1>. QED
  BY <1>3, <1>4 DEF SInv

\* A search begins: what it must find is listed with the current code, so what is
\* in flight of such a vector is that code.
LEMMA ReadSizeKeepsSearches ==
  ASSUME Shaped, Shaped', SInv, NEW r \in Readers, NEW b \in Buckets, ReadSize(r, b, Due(b)),
         UNCHANGED loopVars
  PROVE  SInv'
<1>1. PICK torn \in BOOLEAN : torn = Packed(b, {"codes", "size"})
  BY DEF Packed
<1>2. PICK due : due = Due(b)
  OBVIOUS
<1>3. /\ size[b] \in Nat /\ b \in Nat /\ ids[b] \in Seq(EntryType) /\ codes[b] \in Seq(Vectors)
      /\ readers \in [Readers -> Searches]
  BY Bounds DEF Shaped, ListsTyped, SInv, ReadersTyped
<1>4. PICK q : q = [NotReading EXCEPT !.pc = "ids", !.bucket = b, !.size = size[b], !.due = due, !.torn = torn]
  OBVIOUS
<1>5. /\ readers' = [readers EXCEPT ![r] = q] /\ readers'[r] = q
      /\ ListsRest
  BY <1>1, <1>2, <1>3, <1>4 DEF ReadSize, Packed, ListsRest
<1>6. q = [pc |-> "ids", bucket |-> b, size |-> size[b], current |-> FALSE, ids |-> << >>,
           torn |-> torn, due |-> due]
  BY <1>4 DEF NotReading
<1>7. due \in SUBSET Vectors /\ << >> \in Seq(EntryType)
  BY <1>2 DEF Due
<1>8. q \in Searches
  BY <1>1, <1>3, <1>6, <1>7 DEF Searches
<1>9. IdsOf(r)' = ids[b]
  BY <1>5, <1>6 DEF IdsOf, ListsRest
<1>10. ASSUME ~torn PROVE UntornReads(r)'
  <2>1. ~Packed(b, {"codes", "size"}) /\ ~Packed(b, {"codes", "size"})'
    BY <1>1, <1>5, <1>10 DEF Packed, ListsRest
  <2>2. size[b] <= Len(ids[b])
    BY <2>1, ArraysEndTogether
  <2>3. readers'[r].bucket = b /\ readers'[r].size = size[b] /\ size' = size /\ ids' = ids
    BY <1>5, <1>6 DEF ListsRest
  <2>4. size[b] <= size[b]
    BY <1>3
  <2>. QED
    BY <1>9, <2>1, <2>2, <2>3, <2>4 DEF UntornReads, Packed
<1>11. ASSUME Paired, NEW vec \in due PROVE DueFound(r, vec)'
  <2>1. vec \in Vectors /\ Live(Vid(vec)) /\ vec = Current(Vid(vec)) /\ Lists(b, vec)
    BY <1>2, <1>11 DEF Due
  <2>2. PICK i \in 1 .. size[b] : /\ i \in DOMAIN ids[b] /\ i \in DOMAIN codes[b]
                                  /\ ids[b][i] = Entry(Vid(vec)) /\ codes[b][i] = vec
    BY <2>1 DEF Lists
  <2>3. Had(vec) /\ Bucket[vec] = b
    BY <1>11, <2>2 DEF Paired, CodesAreStored
  <2>4. i \in Positions
    BY <1>3, <2>2 DEF Positions
  <2>5. \A x \in Flight : Vid(x) = Vid(vec) => x = vec
    <3>1. ASSUME NEW x \in Flight, Vid(x) = Vid(vec) PROVE x = vec
      <4>1. ListedAt(Vid(x), b, i) /\ codes[b][i] = Current(Vid(x))
        BY <2>1, <2>2, <3>1 DEF ListedAt
      <4>2. x = Current(Vid(x))
        BY <1>11, <2>4, <4>1 DEF Paired, FlightAgrees
      <4>. QED
        BY <2>1, <3>1, <4>2
    <3>. QED
      BY <3>1
  <2>6. Had(vec)' /\ Flight' = Flight
    BY <1>5, <2>3 DEF Had, Stored, Flight, ListsRest, loopVars, storeVars
  <2>7. readers'[r].bucket = b /\ readers'[r].size = size[b]
    BY <1>5, <1>6
  <2>. QED
    BY <1>9, <2>2, <2>3, <2>5, <2>6, <2>7 DEF DueFound
<1>12. /\ q.pc # "idle" => q.bucket \in Buckets
       /\ q.current => q.pc = "scan"
       /\ q.torn = torn /\ q.due = due
  BY <1>6
<1>. QED
  BY <1>5, <1>8, <1>10, <1>11, <1>12, OneReaderSteps

\* A search fetches the ids that it was to fetch.
LEMMA ReadIdsKeepsSearches ==
  ASSUME Shaped, Shaped', SInv, NEW r \in Readers, ReadIds(r), UNCHANGED loopVars
  PROVE  SInv'
<1>1. /\ readers \in [Readers -> Searches] /\ readers[r] \in Searches
      /\ Reading(r) => readers[r].bucket \in Buckets
  BY ReaderHas DEF SInv, ReadersTyped
<1>2. PICK q : q = [readers[r] EXCEPT !.pc = "scan", !.current = TRUE]
  OBVIOUS
<1>3. /\ readers[r].pc = "ids" /\ readers' = [readers EXCEPT ![r] = q] /\ readers'[r] = q
      /\ ListsRest
  BY <1>1, <1>2 DEF ReadIds, ListsRest
<1>4. /\ q \in Searches /\ q.pc = "scan" /\ q.bucket = readers[r].bucket /\ q.size = readers[r].size
      /\ q.due = readers[r].due /\ q.torn = readers[r].torn /\ q.current = TRUE
  BY <1>1, <1>2 DEF Searches
<1>5. Reading(r) /\ IdsOf(r) = ids[readers[r].bucket] /\ IdsOf(r)' = ids[readers[r].bucket]
  BY <1>3, <1>4 DEF Reading, IdsOf, ListsRest
<1>6. ASSUME UntornReads(r) PROVE UntornReads(r)'
  BY <1>3, <1>4, <1>5, <1>6 DEF UntornReads, Packed, ListsRest
<1>7. ASSUME NEW vec, DueFound(r, vec) PROVE DueFound(r, vec)'
  <2>1. /\ Had(vec)' <=> Had(vec)
        /\ Live(Vid(vec))' <=> Live(Vid(vec))
        /\ Current(Vid(vec))' = Current(Vid(vec))
        /\ Flight' = Flight
    BY <1>3 DEF Had, Stored, Live, Current, Flight, ListsRest, loopVars, storeVars, Vid
  <2>2. readers'[r].bucket = readers[r].bucket /\ readers'[r].size = readers[r].size /\ IdsOf(r)' = IdsOf(r)
    BY <1>3, <1>4, <1>5
  <2>3. Had(vec)' /\ Bucket[vec] = readers'[r].bucket
    BY <1>7, <2>1, <2>2 DEF DueFound
  <2>4. ASSUME Live(Vid(vec))', Current(Vid(vec))' = vec
        PROVE  /\ \A x \in Flight' : Vid(x) = Vid(vec) => x = vec
               /\ \E i \in 1 .. readers'[r].size : i \in DOMAIN IdsOf(r)' /\ IdsOf(r)'[i] = Entry(Vid(vec))
    BY <1>7, <2>1, <2>2, <2>4 DEF DueFound
  <2>. QED
    BY <2>3, <2>4 DEF DueFound
<1>8. ReadersAreSound => /\ ~q.torn => UntornReads(r)'
                         /\ \A vec \in q.due : DueFound(r, vec)'
  BY <1>4, <1>5, <1>6, <1>7 DEF ReadersAreSound
<1>. QED
  BY <1>1, <1>3, <1>4, <1>5, <1>8, OneReaderSteps

\* A search ends.
LEMMA ScanKeepsSearches ==
  ASSUME Shaped, Shaped', SInv, NEW r \in Readers, Scan(r), UNCHANGED loopVars
  PROVE  SInv'
<1>1. NotReading \in Searches /\ NotReading.pc = "idle" /\ NotReading.current = FALSE
  <2>1. << >> \in Seq(EntryType) /\ {} \in SUBSET Vectors
    OBVIOUS
  <2>. QED
    BY <2>1 DEF NotReading, Searches
<1>2. readers' = [readers EXCEPT ![r] = NotReading] /\ ListsRest
  BY DEF Scan, ListsRest
<1>. QED
  BY <1>1, <1>2, OneReaderSteps

\* No search has begun and nothing is listed.
LEMMA InitSearches ==
  ASSUME Init
  PROVE  SInv
<1>. USE DEF Init, BucketsInit
<1>1. NotReading \in Searches /\ NotReading.pc = "idle" /\ NotReading.current = FALSE
  <2>1. << >> \in Seq(EntryType) /\ {} \in SUBSET Vectors
    OBVIOUS
  <2>. QED
    BY <2>1 DEF NotReading, Searches
<1>2. /\ \A r \in Readers : readers[r] = NotReading
      /\ ids = [b \in Buckets |-> << >>] /\ codes = [b \in Buckets |-> << >>]
      /\ filling = NotFilling /\ packing = NotPacking /\ worker = [Round EXCEPT !.pc = "off"]
  OBVIOUS
<1>3. ReadersTyped /\ ReadersAreSound
  BY <1>1, <1>2 DEF ReadersTyped, ReadersAreSound, Reading
<1>4. worker.vecs = << >> /\ filling.vecs = << >> /\ packing.step = "none"
  BY <1>2 DEF Round, NotFilling, NotPacking
<1>5. Flight = {}
  BY <1>4 DEF Flight
<1>6. /\ \A b \in Buckets : ids[b] = << >> /\ codes[b] = << >>
  BY <1>2
<1>7. Paired
  BY <1>4, <1>5, <1>6 DEF Paired, CodesAreStored, CodesArePaired, FlightAgrees, PackedMovesDown
<1>. QED
  BY <1>3, <1>7 DEF SInv

\* Every step keeps what is known of searches.
LEMMA EveryStepKeepsSearches ==
  ASSUME IInv, IInv', SInv, [Next]_vars
  PROVE  SInv'
<1>1. Shaped /\ Shaped'
  BY DEF IInv
<1>2. CASE Caller
  BY <1>2, CallsKeepSearches
<1>3. CASE Worker
  <2>1. CASE ApplyUpdate
    <3>1. PICK vec : vec = Head(worker.vecs)
      OBVIOUS
    <3>2. CASE UpdateNothing(vec)
      <4>1. QuietWork
        BY <2>1, <3>2 DEF UpdateNothing, bucketVars, QuietWork
      <4>. QED
        BY <1>3, <4>1, QuietWorkKeepsSearches
    <3>3. CASE OverwriteCode(Bucket[vec], vec)
      BY <2>1, <3>1, <3>3, OverwriteKeepsSearches
    <3>4. CASE MoveEntry(Bucket[vec], vec)
      BY <2>1, <3>1, <3>4, MoveKeepsSearches
    <3>. QED
      BY <2>1, <3>1, <3>2, <3>3, <3>4 DEF ApplyUpdate
  <2>2. CASE BucketStep /\ UNCHANGED loopVars
    <3>1. CASE GrowBucket \/ PublishKeys
      BY <1>3, <2>2, <3>1, QuietWorkKeepsSearches DEF QuietWork
    <3>2. CASE Switch
      BY <2>2, <3>2, SwitchesKeepSearches
    <3>. QED
      BY <2>2, <3>1, <3>2, FillKeysKeepsSearches, CompactOneKeepsSearches DEF BucketStep, Switch
  <2>3. CASE QuietWork
    BY <1>3, <2>3, QuietWorkKeepsSearches
  <2>. QED
    BY <1>3, <2>1, <2>2, <2>3 DEF Worker, QuietWork
<1>4. CASE Search
  BY <1>1, <1>4, ReadSizeKeepsSearches, ReadIdsKeepsSearches, ScanKeepsSearches DEF Search
<1>5. CASE UNCHANGED vars
  <2>1. /\ ids' = ids /\ codes' = codes /\ deleted' = deleted /\ size' = size
        /\ packing' = packing /\ readers' = readers /\ raw' = raw /\ history' = history
        /\ worker' = worker /\ filling' = filling
    BY <1>5 DEF vars, bucketVars, loopVars, storeVars
  <2>2. RawGrows /\ FlightMoves
    BY <1>1, <2>1, VersionsGrow DEF FlightMoves, Flight
  <2>3. SameReaders /\ NoneSwitched
    BY <2>1 DEF SameReaders, NoneSwitched
  <2>4. \A b \in Buckets : size[b] <= size'[b]
    BY <1>1, <2>1 DEF Shaped, ListsTyped
  <2>5. Claimed' => Claimed
    BY <2>1 DEF Claimed, history
  <2>. QED
    BY <1>1, <2>1, <2>2, <2>3, <2>4, <2>5, QuietSteps, UnclaimedSearches
<1>. QED
  BY <1>2, <1>3, <1>4, <1>5 DEF Next

\* What is known of searches holds in every state, beside the invariant of the
\* lists that it rests on.
THEOREM SearchesStaySound == Spec => []SInv
<1>1. Init => IInv /\ SInv
  BY InitInvariant, InitSearches
<1>2. IInv /\ SInv /\ [Next]_vars => IInv' /\ SInv'
  BY EveryStep, EveryStepKeepsSearches
<1>. QED
  BY <1>1, <1>2, PTL DEF Spec

\* In its last step a search reads entries that were written, with codes of their
\* own vectors, and every vector that it must find.
LEMMA SoundScans ==
  ASSUME Shaped, SInv
  PROVE  ScansAreSound
<1>1. ASSUME Claimed, NEW r \in Readers, readers[r].pc = "scan"
      PROVE  /\ IdsRead(r) = IdsOf(r) /\ Reading(r) /\ readers[r].bucket \in Buckets
             /\ readers[r].size \in Nat /\ Paired
             /\ ~readers[r].torn => UntornReads(r)
             /\ \A vec \in readers[r].due : DueFound(r, vec)
  <2>1. Reading(r) /\ IdsRead(r) = IdsOf(r)
    BY <1>1 DEF Reading, IdsRead, IdsOf
  <2>. QED
    BY <1>1, <2>1, ReaderHas DEF SInv, ReadersAreSound
<1>2. ScanPairsIdsWithTheirCodes
  <2>1. SUFFICES ASSUME Claimed, NEW r \in Readers, readers[r].pc = "scan", ~readers[r].torn
                 PROVE  /\ Written(r)
                        /\ \A pair \in Scanned(r) :
                             Vid(pair[2]) = pair[1] /\ Version(pair[2]) <= raw[pair[1] + 1]
    BY DEF ScanPairsIdsWithTheirCodes
  <2>2. PICK b : b = readers[r].bucket
    OBVIOUS
  <2>3. PICK n : n = readers[r].size
    OBVIOUS
  <2>4. b \in Buckets /\ n \in Nat /\ Paired /\ UntornReads(r) /\ IdsRead(r) = IdsOf(r)
    BY <1>1, <2>1, <2>2, <2>3
  <2>5. /\ ~Packed(b, {"codes", "size"}) /\ n <= size[b] /\ n <= Len(IdsRead(r))
        /\ \A i \in 1 .. n : IdsRead(r)[i].vid = ids[b][i].vid
    BY <2>2, <2>3, <2>4 DEF UntornReads
  <2>6. /\ size[b] <= Len(ids[b]) /\ Len(ids[b]) = Len(codes[b])
        /\ size[b] \in Nat /\ Len(ids[b]) \in Nat /\ DOMAIN ids[b] = 1 .. Len(ids[b])
    BY <2>4, <2>5, ArraysEndTogether DEF Shaped, ListsTyped
  <2>7. n <= Len(codes[b]) /\ \A i \in 1 .. n : i \in DOMAIN ids[b]
    BY <2>4, <2>5, <2>6
  <2>8. Written(r)
    BY <2>2, <2>3, <2>5, <2>7 DEF Written
  <2>9. CodesOf(b) = codes[b]
    BY <2>5 DEF CodesOf, Packed
  <2>10. ASSUME NEW pair \in Scanned(r)
         PROVE  Vid(pair[2]) = pair[1] /\ Version(pair[2]) <= raw[pair[1] + 1]
    <3>1. PICK i \in 1 .. n : i \in DOMAIN codes[b] /\ pair = <<IdsRead(r)[i].vid, codes[b][i]>>
      BY <2>2, <2>3, <2>10 DEF Scanned
    <3>2. pair[1] = IdsRead(r)[i].vid /\ pair[2] = codes[b][i]
      BY <3>1
    <3>3. Vid(codes[b][i]) = ids[b][i].vid /\ ids[b][i].vid = IdsRead(r)[i].vid
      BY <2>4, <2>5, <2>7, <2>9 DEF Paired, CodesArePaired
    <3>4. Had(codes[b][i])
      BY <2>4, <3>1 DEF Paired, CodesAreStored
    <3>. QED
      BY <3>2, <3>3, <3>4 DEF Had
  <2>. QED
    BY <2>8, <2>10
<1>3. ScanFindsEveryLive
  BY <1>1 DEF ScanFindsEveryLive, DueFound
<1>. QED
  BY <1>2, <1>3 DEF ScansAreSound

\* What a search fetches while lists grow and are compacted is sound: ids with
\* codes that their vectors had, and every vector that stays.
THEOREM SearchesReadSoundly == Spec => []ScansAreSound
<1>1. IInv /\ SInv => ScansAreSound
  BY SoundScans DEF IInv
<1>. QED
  BY <1>1, InvariantHolds, SearchesStaySound, PTL
=============================================================================
