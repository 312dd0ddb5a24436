------------------------- MODULE RecordStoreProofs -------------------------
(***************************************************************************)
(* Proofs about RecordStore, for every segment size, buffer size and       *)
(* number of rows.  The storage is taken as the table uses it: a row is    *)
(* read before it is updated, and a reopened storage loses no non-empty    *)
(* segment.                                                                *)
(***************************************************************************)
EXTENDS RecordStore, FiniteSetTheorems, SequenceTheorems, TLAPS

TableUse == UpdateWaits = TRUE /\ TruncateDrops = FALSE

-----------------------------------------------------------------------------
(* Arithmetic of segments. *)

\* Row ids are segment and position (Segment::Segment, StorageManager::Get).
LEMMA Slots ==
  ASSUME NEW g \in Nat
  PROVE  /\ SegOf(g) \in Nat
         /\ PosOf(g) \in 0 .. SegSize - 1
         /\ SegOf(g) <= g
         /\ g = SegOf(g) * SegSize + PosOf(g)
BY SizesAssumption, Z3 DEF SegOf, PosOf

\* A segment and a position make one row id.
LEMMA SlotUnique ==
  ASSUME NEW s \in Nat, NEW p \in 0 .. SegSize - 1
  PROVE  s * SegSize + p \in Nat /\ SegOf(s * SegSize + p) = s /\ PosOf(s * SegSize + p) = p
BY SizesAssumption, Z3 DEF SegOf, PosOf

\* Ids are ordered by segment and then by position.
LEMMA SlotOrder ==
  ASSUME NEW g \in Nat, NEW n \in Nat
  PROVE  /\ SegOf(g) < SegOf(n) => g < n
         /\ SegOf(g) = SegOf(n) => (g < n <=> PosOf(g) < PosOf(n))
         /\ SegOf(g) = SegOf(n) => PosOf(n) - PosOf(g) = n - g
<1> DEFINE a == SegOf(g)
           b == SegOf(n)
<1>1. a \in Nat /\ b \in Nat /\ g = a * SegSize + PosOf(g) /\ n = b * SegSize + PosOf(n)
      /\ PosOf(g) \in 0 .. SegSize - 1 /\ PosOf(n) \in 0 .. SegSize - 1
  BY Slots
<1>2. ASSUME a < b PROVE g < n
  <2>1. b = a + 1 + (b - a - 1) /\ b - a - 1 \in Nat
    BY <1>1, <1>2
  <2>2. b * SegSize = a * SegSize + SegSize + (b - a - 1) * SegSize
    BY <1>1, <2>1, SizesAssumption, Z3
  <2>3. (b - a - 1) * SegSize \in Nat /\ a * SegSize \in Nat
    BY <1>1, <2>1, SizesAssumption, Z3
  <2> QED BY <1>1, <2>2, <2>3, SizesAssumption
<1>3. ASSUME a = b PROVE PosOf(n) - PosOf(g) = n - g
  <2>1. a * SegSize \in Nat /\ a * SegSize = b * SegSize
    BY <1>1, <1>3, SizesAssumption, Z3
  <2> QED BY <1>1, <2>1, SizesAssumption
<1> QED BY <1>1, <1>2, <1>3, SizesAssumption

\* The place after a row: the next one of its segment, or the first of the
\* next segment when that one is full.
LEMMA NextSlot ==
  ASSUME NEW g \in Nat
  PROVE  /\ PosOf(g) + 1 < SegSize => SegOf(g + 1) = SegOf(g) /\ PosOf(g + 1) = PosOf(g) + 1
         /\ PosOf(g) + 1 = SegSize => SegOf(g + 1) = SegOf(g) + 1 /\ PosOf(g + 1) = 0
<1>1. SegOf(g) \in Nat /\ PosOf(g) \in 0 .. SegSize - 1 /\ g = SegOf(g) * SegSize + PosOf(g)
  BY Slots
<1>2. CASE PosOf(g) + 1 < SegSize
  <2>1. g + 1 = SegOf(g) * SegSize + (PosOf(g) + 1) /\ PosOf(g) + 1 \in 0 .. SegSize - 1
    <3>1. SegOf(g) * SegSize \in Nat
      BY <1>1, SizesAssumption, Z3
    <3> QED BY <1>1, <1>2, <3>1, SizesAssumption
  <2> QED BY <1>1, <1>2, <2>1, SlotUnique
<1>3. CASE PosOf(g) + 1 = SegSize
  <2>1. g + 1 = (SegOf(g) + 1) * SegSize + 0 /\ 0 \in 0 .. SegSize - 1
    BY <1>1, <1>3, SizesAssumption, Z3
  <2> QED BY <1>1, <1>3, <2>1, SlotUnique
<1> QED BY <1>1, <1>2, <1>3, SizesAssumption

(* Shares of a number of rows in the segments. *)

\* A share is a legal counter of a segment.
LEMMA ShareType ==
  ASSUME NEW n \in Nat
  PROVE  Shares(n) \in [Segs -> 0 .. SegSize]
<1>1. PosOf(n) \in 0 .. SegSize - 1
  BY Slots
<1>2. ASSUME NEW s \in Segs PROVE Share(n, s) \in 0 .. SegSize
  BY <1>1, SizesAssumption DEF Share
<1> QED BY <1>2 DEF Shares

\* A row counts in its segment exactly when it is among the first n.
LEMMA ShareCovers ==
  ASSUME NEW g \in Nat, NEW n \in Nat
  PROVE  PosOf(g) < Share(n, SegOf(g)) <=> g < n
<1>1. SegOf(g) \in Nat /\ SegOf(n) \in Nat
      /\ PosOf(g) \in 0 .. SegSize - 1 /\ PosOf(n) \in 0 .. SegSize - 1
  BY Slots
<1>2. /\ SegOf(g) < SegOf(n) => g < n
      /\ SegOf(g) = SegOf(n) => (g < n <=> PosOf(g) < PosOf(n))
      /\ SegOf(n) < SegOf(g) => n < g
  BY SlotOrder
<1> QED BY <1>1, <1>2, SizesAssumption DEF Share

\* One run of the handler stays in one segment: only that share grows.
LEMMA ShareGrows ==
  ASSUME NEW n \in Nat, NEW r \in Nat \ {0}, SegOf(n + r - 1) = SegOf(n),
         NEW s \in Nat
  PROVE  /\ Share(n + r, s) = IF s = SegOf(n) THEN Share(n, s) + r ELSE Share(n, s)
         /\ Share(n, SegOf(n)) = PosOf(n)
<1> DEFINE l == n + r - 1
<1>1. l \in Nat /\ l + 1 = n + r
  OBVIOUS
<1>2. PosOf(l) = PosOf(n) + r - 1
  <2>1. PosOf(l) - PosOf(n) = l - n
    BY <1>1, SlotOrder
  <2> QED BY <1>1, <2>1, Slots, SizesAssumption
<1>3. PosOf(l) \in 0 .. SegSize - 1 /\ PosOf(n) \in 0 .. SegSize - 1
      /\ SegOf(n) \in Nat
  BY <1>1, Slots
<1>4. /\ PosOf(l) + 1 < SegSize => SegOf(n + r) = SegOf(n) /\ PosOf(n + r) = PosOf(n) + r
      /\ PosOf(l) + 1 = SegSize => SegOf(n + r) = SegOf(n) + 1 /\ PosOf(n + r) = 0
  <2>1. /\ PosOf(l) + 1 < SegSize => SegOf(l + 1) = SegOf(l) /\ PosOf(l + 1) = PosOf(l) + 1
        /\ PosOf(l) + 1 = SegSize => SegOf(l + 1) = SegOf(l) + 1 /\ PosOf(l + 1) = 0
    BY <1>1, NextSlot
  <2> QED BY <1>1, <1>2, <1>3, <2>1, SizesAssumption
<1> HIDE DEF l
<1>5. PosOf(l) + 1 < SegSize \/ PosOf(l) + 1 = SegSize
  BY <1>3, SizesAssumption
<1> QED BY <1>2, <1>3, <1>4, <1>5, SizesAssumption DEF Share

\* The headers of the files add up to the rows they are shares of.
LEMMA SharesAddUp ==
  ASSUME NEW n \in 0 .. MaxRows, NEW f \in Nat, header = Shares(n), f >= SegOf(n) + 1
  PROVE  HeaderSum(f) = n
<1> DEFINE T == {slot \in Segs \X (0 .. SegSize - 1) :
                   slot[1] < f /\ slot[2] < header[slot[1]]}
           place == [i \in 1 .. n |-> <<SegOf(i - 1), PosOf(i - 1)>>]
<1>0. n \in Nat /\ MaxRows \in Nat
  BY SizesAssumption
<1>1. ASSUME NEW i \in 1 .. n PROVE place[i] \in T
  <2>1. i - 1 \in Nat /\ i - 1 < n
    BY <1>0
  <2>2. /\ SegOf(i - 1) \in Nat /\ PosOf(i - 1) \in 0 .. SegSize - 1
        /\ SegOf(i - 1) <= i - 1
    BY <2>1, Slots
  <2>3. PosOf(i - 1) < Share(n, SegOf(i - 1))
    BY <1>0, <2>1, ShareCovers
  <2>4. SegOf(i - 1) < f
    <3>1. SegOf(n) \in Nat /\ ~(SegOf(n) < SegOf(i - 1))
      BY <1>0, <2>1, Slots, SlotOrder
    <3> QED BY <2>2, <3>1
  <2>5. SegOf(i - 1) \in Segs
    BY <1>0, <2>1, <2>2 DEF Segs
  <2>6. place[i] = <<SegOf(i - 1), PosOf(i - 1)>>
    OBVIOUS
  <2> QED BY <2>2, <2>3, <2>4, <2>5, <2>6 DEF Shares
<1>2. ASSUME NEW i \in 1 .. n, NEW j \in 1 .. n, place[i] = place[j] PROVE i = j
  <2>1. i - 1 \in Nat /\ j - 1 \in Nat
    BY <1>0
  <2>2. SegOf(i - 1) = SegOf(j - 1) /\ PosOf(i - 1) = PosOf(j - 1)
    BY <1>2
  <2>3. PosOf(j - 1) - PosOf(i - 1) = (j - 1) - (i - 1)
    BY <2>1, <2>2, SlotOrder
  <2>4. PosOf(i - 1) \in 0 .. SegSize - 1
    BY <2>1, Slots
  <2> QED BY <1>0, <2>2, <2>3, <2>4, SizesAssumption
<1>3. ASSUME NEW slot \in T PROVE \E i \in 1 .. n : place[i] = slot
  <2> DEFINE g == slot[1] * SegSize + slot[2]
  <2>1. slot[1] \in Nat /\ slot[2] \in 0 .. SegSize - 1 /\ slot = <<slot[1], slot[2]>>
        /\ slot[2] < Share(n, slot[1])
    BY <1>0 DEF Shares, Segs
  <2>2. g \in Nat /\ SegOf(g) = slot[1] /\ PosOf(g) = slot[2]
    BY <2>1, SlotUnique
  <2>3. g < n
    BY <1>0, <2>1, <2>2, ShareCovers
  <2> HIDE DEF g
  <2>4. g + 1 \in 1 .. n /\ place[g + 1] = <<slot[1], slot[2]>>
    BY <1>0, <2>2, <2>3
  <2> QED BY <2>1, <2>4
<1> HIDE DEF T
<1>4. place \in Bijection(1 .. n, T)
  <2>1. place \in [1 .. n -> T] /\ DOMAIN place = 1 .. n
    BY <1>1
  <2> HIDE DEF place
  <2> QED BY <1>2, <1>3, <2>1 DEF Bijection, Injection, Surjection, IsInjective
<1>5. ExistsBijection(1 .. n, T)
  BY <1>4 DEF ExistsBijection
<1>6. Cardinality(T) = n
  BY <1>0, <1>5, FS_CountingElements
<1> QED BY <1>6 DEF HeaderSum, T

-----------------------------------------------------------------------------
(* Steps of the API thread and of readers. *)

\* The counts that the invariant relates, in an open storage.
LEMMA UpFacts ==
  ASSUME IInv, mode = "up"
  PROVE  /\ size_ \in Nat /\ size_ = Len(log) /\ size_ <= MaxRows /\ MaxRows \in Nat
         /\ log \in Seq(Values) /\ pend \in Seq(Item) /\ Len(pend) \in Nat
         /\ Published \in Nat /\ Published + Len(pend) = size_
         /\ popped \in Nat /\ popped <= Len(pend) /\ run \in Nat /\ run <= popped
         /\ SegOf(size_) \in Segs
<1>1. size_ \in Nat /\ size_ = Len(log) /\ Len(log) <= MaxRows /\ MaxRows \in Nat
      /\ log \in Seq(Values) /\ pend \in Seq(Item)
      /\ Len(pend) <= size_ /\ popped \in 0 .. Len(pend) /\ run \in 0 .. popped
  BY SizesAssumption DEF IInv, TypeOK, UpInv
<1>2. SegOf(size_) \in Nat /\ SegOf(size_) <= size_
  BY <1>1, Slots
<1> QED BY <1>1, <1>2 DEF Published, Segs

\* Segment::Add and the push of the row keep the invariant.
LEMMA AddKeeps ==
  ASSUME IInv, NEW v \in Values, Add(v)
  PROVE  IInv'
<1> DEFINE L == SegOf(size_)
           slot == Last * SegSize + buffered_size_[Last]
           count == buffered_size_[Last] + 1
<1>0. mode = "up" /\ UpInv /\ TypeOK
  BY DEF Add, IInv
<1>1. /\ size_ \in Nat /\ size_ = Len(log) /\ size_ <= MaxRows /\ MaxRows \in Nat
      /\ log \in Seq(Values) /\ pend \in Seq(Item) /\ Len(pend) \in Nat
      /\ Published \in Nat /\ Published + Len(pend) = size_
      /\ L \in Segs
  BY <1>0, UpFacts
<1>2. L \in Nat /\ PosOf(size_) \in 0 .. SegSize - 1 /\ size_ = L * SegSize + PosOf(size_)
      /\ SegOf(size_ + 1) \in Nat /\ SegOf(size_ + 1) <= size_ + 1
  <2>1. size_ + 1 \in Nat
    BY <1>1
  <2>2. SegOf(size_ + 1) \in Nat /\ SegOf(size_ + 1) <= size_ + 1
    BY <2>1, Slots
  <2> QED BY <1>1, <2>2, Slots
<1>3. Last = L /\ buffered_size_[Last] = PosOf(size_) /\ slot = size_
  <2>1. Last = L
    BY <1>0, <1>2 DEF UpInv, Last
  <2>2. buffered_size_[Last] = Share(size_, L)
    BY <1>0, <1>1, <2>1 DEF UpInv, Shares
  <2>3. Share(size_, L) = PosOf(size_)
    BY <1>2 DEF Share
  <2> QED BY <1>2, <2>1, <2>2, <2>3
<1>4. /\ size_ < MaxRows
      /\ pend' = Append(pend, [id |-> slot, val |-> v])
      /\ buffered_size_' = [buffered_size_ EXCEPT ![Last] = count]
      /\ IF count = SegSize THEN Extend(segments_) ELSE UNCHANGED <<segments_, files>>
      /\ size_' = size_ + 1
      /\ log' = Append(log, v)
      /\ UNCHANGED <<mode, cur_size_, header, disk, popped, run, wpc, upd, rd, synced, stops>>
  BY DEF Add, clients
<1>5. Len(log') = size_ + 1 /\ Len(pend') = Len(pend) + 1 /\ Published' = Published
      /\ InHeader' = InHeader /\ InFile' = InFile
  BY <1>1, <1>4 DEF Published, InHeader, InFile
<1>6. PosOf(size_) + 1 < SegSize \/ PosOf(size_) + 1 = SegSize
  BY <1>2, SizesAssumption
<1>7. /\ PosOf(size_) + 1 < SegSize => SegOf(size_ + 1) = L /\ PosOf(size_ + 1) = PosOf(size_) + 1
      /\ PosOf(size_) + 1 = SegSize => SegOf(size_ + 1) = L + 1 /\ PosOf(size_ + 1) = 0
  BY <1>1, NextSlot
<1>8. buffered_size_' = Shares(size_ + 1)
  <2>1. ASSUME NEW s \in Segs
        PROVE  Share(size_ + 1, s) = IF s = L THEN count ELSE Share(size_, s)
    <3>1. s \in Nat /\ count = PosOf(size_) + 1
      BY <1>1, <1>3 DEF Segs
    <3> QED BY <1>2, <1>6, <1>7, <3>1, SizesAssumption DEF Share
  <2>2. buffered_size_ = Shares(size_)
    BY <1>0 DEF UpInv
  <2> QED BY <1>3, <1>4, <2>1, <2>2 DEF Shares
<1>9. segments_' = SegOf(size_ + 1) + 1 /\ files' >= segments_'
      /\ segments_' \in 0 .. MaxRows + 1 /\ files' \in 0 .. MaxRows + 1
  <2>1. segments_ = L + 1 /\ files >= segments_ /\ files \in 0 .. MaxRows + 1
    BY <1>0 DEF UpInv, TypeOK
  <2>2. CASE PosOf(size_) + 1 < SegSize
    <3>1. SegOf(size_ + 1) = L
      BY <1>7, <2>2
    <3>2. count # SegSize
      BY <1>2, <1>3, <2>2, SizesAssumption
    <3>3. segments_' = segments_ /\ files' = files
      BY <1>4, <3>2
    <3>4. L + 1 \in 0 .. MaxRows + 1
      BY <1>1 DEF Segs
    <3> QED BY <2>1, <3>1, <3>3, <3>4
  <2>3. CASE PosOf(size_) + 1 = SegSize
    <3>1. SegOf(size_ + 1) = L + 1
      BY <1>7, <2>3
    <3>2. count = SegSize
      BY <1>3, <2>3
    <3>3. segments_' = segments_ + 1 /\ files' = IF files > segments_ THEN files ELSE segments_ + 1
      BY <1>4, <3>2 DEF Extend
    <3>4. segments_ \in Nat /\ segments_ + 1 \in 0 .. MaxRows + 1
      <4>1. L \in Nat /\ SegOf(size_ + 1) <= size_ + 1
        BY <1>2, Zenon
      <4>2. size_ \in Nat /\ MaxRows \in Nat /\ size_ < MaxRows
        BY <1>1, <1>4
      <4>3. segments_ = L + 1
        BY <2>1
      <4> QED BY <3>1, <4>1, <4>2, <4>3
    <3> QED BY <1>1, <2>1, <3>1, <3>3, <3>4
  <2> QED BY <1>6, <2>2, <2>3
<1>10. TypeOK'
  <2>1. pend' \in Seq(Item) /\ log' \in Seq(Values)
    BY <1>1, <1>3, <1>4 DEF Item, Ids
  <2>2. buffered_size_' \in [Segs -> 0 .. SegSize]
    BY <1>1, <1>8, ShareType
  <2>3. popped' \in 0 .. Len(pend') /\ size_' \in 0 .. MaxRows
    BY <1>0, <1>1, <1>4, <1>5 DEF TypeOK
  <2> QED BY <1>0, <1>4, <1>9, <2>1, <2>2, <2>3 DEF TypeOK
<1>11. QueueIsTail'
  <2>1. ASSUME NEW k \in 1 .. Len(pend)
        PROVE  pend'[k] = [id |-> Published' + k - 1, val |-> log'[Published' + k]]
    <3>1. Published + k \in 1 .. Len(log) /\ log'[Published + k] = log[Published + k]
      BY <1>1, <1>4
    <3>2. pend'[k] = pend[k]
      BY <1>1, <1>4
    <3> QED BY <1>0, <1>5, <3>1, <3>2 DEF UpInv, QueueIsTail
  <2>2. pend'[Len(pend) + 1] = [id |-> size_, val |-> v] /\ log'[size_ + 1] = v
    BY <1>1, <1>3, <1>4
  <2>3. Published' + (Len(pend) + 1) = size_ + 1
    BY <1>1, <1>5
  <2>4. Published' + (Len(pend) + 1) - 1 = size_
    BY <1>1, <1>5
  <2>5. ASSUME NEW k \in 1 .. Len(pend'), k \notin 1 .. Len(pend)
        PROVE  k = Len(pend) + 1
    BY <1>1, <1>5, <2>5
  <2> QED BY <2>1, <2>2, <2>3, <2>4, <2>5 DEF QueueIsTail
<1>12. \A g \in 0 .. InFile' - 1 : disk'[g] = log'[g + 1]
  <2>1. InFile \in Nat /\ InFile <= size_
    BY <1>0, <1>1, UpFacts DEF InFile
  <2>2. ASSUME NEW g \in 0 .. InFile - 1 PROVE log'[g + 1] = log[g + 1]
    BY <1>1, <1>4, <2>1
  <2> QED BY <1>0, <1>4, <1>5, <2>2 DEF UpInv
<1>13. HandlerInv'
  BY <1>0, <1>4, <1>5 DEF UpInv, HandlerInv
<1>14. UpInv'
  <2>1. cur_size_' = Shares(Published') /\ header' = Shares(InHeader')
    BY <1>0, <1>4, <1>5 DEF UpInv
  <2>2. upd' # <<>> => upd'.id < size_'
    <3>1. upd # <<>> => upd.id \in Nat /\ upd.id < size_
      BY <1>0 DEF UpInv, TypeOK, Item, Ids
    <3> QED BY <1>1, <1>4, <3>1
  <2>3. size_' = Len(log') /\ Len(pend') <= size_'
    BY <1>1, <1>4, <1>5
  <2> QED BY <1>4, <1>8, <1>9, <1>11, <1>12, <1>13, <2>1, <2>2, <2>3 DEF UpInv
<1> QED BY <1>0, <1>1, <1>4, <1>5, <1>10, <1>14 DEF IInv

\* Steps that change neither the rows nor their counts.
LEMMA QuietKeeps ==
  ASSUME IInv,
         \/ \E g \in Ids, v \in Values : UpdateBegin(g, v)
         \/ Sync
         \/ \E r \in Readers, g \in Ids : GetBegin(r, g)
         \/ \E r \in Readers : GetRead(r)
  PROVE  IInv'
<1>1. mode = "up" /\ UpInv /\ TypeOK
  BY DEF IInv, UpdateBegin, Sync, GetBegin, GetRead
<1>2. UNCHANGED <<memory, files_, writer, log, stops>>
  BY DEF UpdateBegin, Sync, GetBegin, GetRead, history
<1>3. upd' # <<>> => upd'.id < size_'
  BY <1>1 DEF UpInv, UpdateBegin, Sync, GetBegin, GetRead, clients, memory
<1>4. UpInv'
  BY <1>1, <1>2, <1>3 DEF UpInv, memory, files_, writer, Published, InHeader, InFile,
     QueueIsTail, HandlerInv
<1>5. synced' \in 0 .. MaxRows
  BY <1>1, UpFacts DEF TypeOK, UpdateBegin, Sync, GetBegin, GetRead, history
<1>6. upd' \in Item \union {<<>>}
  BY <1>1 DEF TypeOK, Item, UpdateBegin, Sync, GetBegin, GetRead, clients
<1>7. rd' \in [Readers -> Ids \union {NoRow}]
  BY <1>1 DEF TypeOK, UpdateBegin, Sync, GetBegin, GetRead, clients
<1>8. TypeOK'
  BY <1>1, <1>2, <1>5, <1>6, <1>7 DEF TypeOK, memory, files_, writer
<1> QED BY <1>1, <1>2, <1>4, <1>8 DEF IInv, memory

\* An update waits until its row is in the file, so no queued row is behind it.
LEMMA UpdateKeeps ==
  ASSUME TableUse, IInv, UpdateWrite
  PROVE  IInv'
<1> DEFINE i == upd.id
<1>0. mode = "up" /\ UpInv /\ TypeOK
  BY DEF UpdateWrite, IInv
<1>1. /\ size_ \in Nat /\ size_ = Len(log) /\ size_ <= MaxRows
      /\ log \in Seq(Values) /\ pend \in Seq(Item) /\ Len(pend) \in Nat
      /\ Published \in Nat /\ Published + Len(pend) = size_
      /\ run \in Nat /\ run <= popped /\ popped <= Len(pend) /\ popped \in Nat
  BY <1>0, UpFacts
<1>2. upd \in Item /\ i \in Nat /\ i \in Ids /\ upd.val \in Values
  BY <1>0 DEF UpdateWrite, TypeOK, Item, Ids
<1>3. i < Published
  <2>1. SegOf(i) \in Nat /\ SegOf(i) <= i /\ i < MaxRows /\ MaxRows \in Nat
    BY <1>2, Slots, SizesAssumption DEF Ids
  <2>2. SegOf(i) \in Segs
    BY <2>1, <1>2 DEF Segs
  <2>3. PosOf(i) < Share(Published, SegOf(i))
    BY <1>0, <2>2 DEF UpdateWrite, TableUse, UpInv, Shares
  <2> QED BY <1>1, <1>2, <2>3, ShareCovers
<1>4. /\ disk' = [disk EXCEPT ![i] = upd.val]
      /\ log' = [log EXCEPT ![i + 1] = upd.val]
      /\ upd' = <<>>
      /\ UNCHANGED <<memory, files, header, writer, rd, synced, stops>>
  BY DEF UpdateWrite
<1>5. log' \in Seq(Values) /\ Len(log') = size_
      /\ \A k \in 1 .. size_ : log'[k] = IF k = i + 1 THEN upd.val ELSE log[k]
  BY <1>1, <1>2, <1>3, <1>4
<1>6. Published' = Published /\ InHeader' = InHeader /\ InFile' = InFile
  BY <1>4 DEF memory, writer, Published, InHeader, InFile
<1>7. QueueIsTail'
  <2>1. ASSUME NEW k \in 1 .. Len(pend)
        PROVE  log'[Published + k] = log[Published + k]
    <3>1. i \in Int /\ i < Published /\ Published \in Int /\ k \in Int /\ k >= 1
      BY <1>1, <1>2, <1>3
    <3>2. Published + k \in 1 .. size_
      BY <1>1, <1>2
    <3>3. Published + k # i + 1
      BY <3>1
    <3> QED BY <1>5, <3>2, <3>3
  <2> QED BY <1>0, <1>4, <1>6, <2>1 DEF UpInv, QueueIsTail, writer
<1>8. \A g \in 0 .. InFile' - 1 : disk'[g] = log'[g + 1]
  <2>1. InFile \in Nat /\ InFile <= size_
    BY <1>0, <1>1 DEF InFile
  <2>2. ASSUME NEW g \in 0 .. InFile - 1 PROVE disk'[g] = log'[g + 1]
    <3>1. g \in Ids /\ g + 1 \in 1 .. size_ /\ disk[g] = log[g + 1]
      BY <1>0, <1>1, <2>1, SizesAssumption DEF UpInv, Ids
    <3>2. disk'[g] = IF g = i THEN upd.val ELSE disk[g]
      BY <1>0, <1>4, <3>1 DEF TypeOK
    <3> QED BY <1>2, <1>5, <3>1, <3>2
  <2> QED BY <1>6, <2>2
<1>9. UpInv'
  BY <1>0, <1>1, <1>4, <1>5, <1>6, <1>7, <1>8 DEF UpInv, HandlerInv, memory, writer
<1>10. TypeOK'
  <2>1. disk' \in [Ids -> Values \union {NoRow}]
    BY <1>0, <1>2, <1>4 DEF TypeOK
  <2> QED BY <1>0, <1>4, <1>5, <2>1 DEF TypeOK, memory, writer
<1> QED BY <1>0, <1>1, <1>4, <1>5, <1>9, <1>10 DEF IInv, memory

-----------------------------------------------------------------------------
(* Steps of the handler thread. *)

\* Taking rows off the queue.
LEMMA CollectKeeps ==
  ASSUME IInv, Pop \/ Collected
  PROVE  IInv'
<1>0. mode = "up" /\ wpc = "pop" /\ UpInv /\ TypeOK
  BY DEF Pop, Collected, IInv
<1>1. /\ popped \in Nat /\ Len(pend) \in Nat /\ popped <= Len(pend)
      /\ run = 0 /\ wpc' \in {"pop", "data"}
      /\ UNCHANGED <<memory, files_, pend, run, clients, history>>
      /\ popped' \in 0 .. Len(pend) /\ popped' \in Nat /\ (wpc' # "pop" => popped' > 0)
  BY <1>0, UpFacts DEF Pop, Collected, UpInv, HandlerInv
<1>2. Published' = Published /\ InHeader' = InHeader /\ InFile' = InFile
  BY <1>0, <1>1 DEF memory, Published, InHeader, InFile
<1>3. HandlerInv'
  BY <1>1 DEF HandlerInv
<1>4. UpInv'
  BY <1>0, <1>1, <1>2, <1>3 DEF UpInv, QueueIsTail, memory, files_, clients, history
<1>5. TypeOK'
  BY <1>0, <1>1 DEF TypeOK, memory, files_, clients, history
<1> QED BY <1>0, <1>1, <1>4, <1>5 DEF IInv, memory, history

\* The first popped row is the first unpublished one, and its segment exists.
LEMMA HeadFacts ==
  ASSUME IInv, mode = "up", wpc # "pop"
  PROVE  pend[1].id = Published /\ SegOf(Published) \in Segs /\ popped > 0
<1>1. UpInv /\ popped > 0
  BY DEF IInv, UpInv, HandlerInv
<1>2. /\ Published \in Nat /\ Published + Len(pend) = size_ /\ Len(pend) \in Nat
      /\ popped \in Nat /\ popped <= Len(pend) /\ size_ <= MaxRows /\ MaxRows \in Nat
  BY UpFacts
<1>3. pend[1] = [id |-> Published + 1 - 1, val |-> log[Published + 1]]
  BY <1>1, <1>2 DEF UpInv, QueueIsTail
<1>4. SegOf(Published) \in Nat /\ SegOf(Published) <= Published
  BY <1>2, Slots
<1> QED BY <1>1, <1>2, <1>3, <1>4 DEF Segs

\* One write puts a run of consecutive rows at its place.
LEMMA WriteDataKeeps ==
  ASSUME IInv, WriteData
  PROVE  IInv'
<1>0. mode = "up" /\ wpc = "data" /\ UpInv /\ TypeOK
  BY DEF WriteData, IInv
<1>1. /\ size_ \in Nat /\ size_ = Len(log) /\ size_ <= MaxRows /\ MaxRows \in Nat
      /\ log \in Seq(Values) /\ pend \in Seq(Item) /\ Len(pend) \in Nat
      /\ Published \in Nat /\ Published + Len(pend) = size_
      /\ popped \in Nat /\ popped <= Len(pend)
  BY <1>0, UpFacts
<1>2. pend[1].id = Published /\ popped > 0
  BY <1>0, HeadFacts
<1>3. PICK n \in 1 .. popped :
        /\ IsRun(n) /\ run' = n
        /\ disk' = [g \in Ids |->
             IF g \in pend[1].id .. pend[1].id + n - 1
             THEN pend[g - pend[1].id + 1].val ELSE disk[g]]
  BY DEF WriteData
<1>4. wpc' = "header" /\ UNCHANGED <<memory, files, header, pend, popped, clients, history>>
  BY DEF WriteData
<1>5. /\ Published' = Published /\ InFile' = Published + n
      /\ InHeader = Published /\ InHeader' = Published /\ InFile = Published
  BY <1>0, <1>3, <1>4 DEF memory, Published, InFile, InHeader
<1>6. ASSUME NEW k \in 1 .. Len(pend)
      PROVE  pend[k].id = Published + k - 1 /\ pend[k].val = log[Published + k]
  <2>1. pend[k] = [id |-> Published + k - 1, val |-> log[Published + k]]
    BY <1>0 DEF UpInv, QueueIsTail
  <2> QED BY <2>1
<1>7. SegOf(Published + n - 1) = SegOf(Published)
  <2>1. n \in 1 .. Len(pend) /\ SegOf(pend[n].id) = SegOf(pend[1].id)
    BY <1>1, <1>3 DEF IsRun
  <2> QED BY <1>2, <1>6, <2>1
<1>8. ASSUME NEW g \in 0 .. Published + n - 1 PROVE disk'[g] = log[g + 1]
  <2>0. g \in Ids /\ g \in Nat
    BY <1>1, <1>3 DEF Ids
  <2>1. CASE g < Published
    BY <1>0, <1>1, <1>2, <1>3, <1>5, <2>0, <2>1 DEF UpInv
  <2>2. CASE g >= Published
    <3>1. g - Published + 1 \in 1 .. Len(pend) /\ g \in Published .. Published + n - 1
          /\ Published + (g - Published + 1) = g + 1
      BY <1>1, <1>3, <2>0, <2>2
    <3>2. pend[g - Published + 1].val = log[g + 1]
      BY <1>6, <3>1
    <3> QED BY <1>2, <1>3, <2>0, <3>1, <3>2
  <2> QED BY <1>1, <2>0, <2>1, <2>2
<1>9. HandlerInv'
  BY <1>1, <1>2, <1>3, <1>4, <1>5, <1>7 DEF HandlerInv
<1>10. UpInv'
  <2>1. QueueIsTail'
    BY <1>0, <1>4, <1>5 DEF UpInv, QueueIsTail, history
  <2>2. \A g \in 0 .. InFile' - 1 : disk'[g] = log'[g + 1]
    <3>1. log' = log /\ InFile' = Published + n
      BY <1>4, <1>5 DEF history
    <3>2. ASSUME NEW g \in 0 .. InFile' - 1 PROVE g \in 0 .. Published + n - 1
      BY <1>1, <3>1
    <3>3. ASSUME NEW g \in 0 .. InFile' - 1 PROVE disk'[g] = log[g + 1]
      BY <1>8, <3>2
    <3> QED BY <3>1, <3>3, Zenon
  <2> QED BY <1>0, <1>4, <1>5, <1>9, <2>1, <2>2 DEF UpInv, memory, clients, history
<1>11. TypeOK'
  <2>1. disk' \in [Ids -> Values \union {NoRow}]
    <3>1. ASSUME NEW g \in Ids PROVE disk'[g] \in Values \union {NoRow}
      <4>1. CASE g \in 0 .. Published + n - 1
        <5>1. disk'[g] = log[g + 1]
          BY <1>8, <4>1
        <5>2. g + 1 \in 1 .. Len(log)
          BY <1>1, <4>1
        <5> QED BY <1>1, <5>1, <5>2
      <4>2. CASE g \notin 0 .. Published + n - 1
        BY <1>0, <1>1, <1>2, <1>3, <4>2 DEF TypeOK, Ids
      <4> QED BY <4>1, <4>2
    <3> QED BY <1>3, <3>1
  <2>2. run' \in 0 .. popped
    BY <1>1, <1>3
  <2> QED BY <1>0, <1>4, <2>1, <2>2 DEF TypeOK, memory, clients, history
<1> QED BY <1>0, <1>1, <1>4, <1>10, <1>11 DEF IInv, memory, history

\* A counter of one segment grows by the run: it is the share of the rows up to
\* the end of the run.
LEMMA RunGrowsShares ==
  ASSUME IInv, mode = "up", wpc \in {"header", "publish"}
  PROVE  /\ Published + run \in Nat /\ Published + run <= size_
         /\ [Shares(Published) EXCEPT ![SegOf(Published)] = @ + run] = Shares(Published + run)
<1>1. /\ Published \in Nat /\ Published + Len(pend) = size_ /\ Len(pend) \in Nat
      /\ run \in Nat /\ run <= popped /\ popped <= Len(pend) /\ popped \in Nat
  BY UpFacts
<1>2. run > 0 /\ SegOf(Published + run - 1) = SegOf(Published)
  BY DEF IInv, UpInv, HandlerInv
<1>3. ASSUME NEW s \in Segs
      PROVE  Share(Published + run, s) =
               IF s = SegOf(Published) THEN Share(Published, s) + run ELSE Share(Published, s)
  <2>1. s \in Nat /\ run \in Nat \ {0}
    BY <1>1, <1>2 DEF Segs
  <2> QED BY <1>1, <1>2, <2>1, ShareGrows
<1> QED BY <1>1, <1>3 DEF Shares

\* Writing the counts into the header of a segment keeps it.
LEMMA WriteHeaderKeeps ==
  ASSUME IInv, WriteHeader
  PROVE  IInv'
<1>0. mode = "up" /\ wpc = "header" /\ UpInv /\ TypeOK
  BY DEF WriteHeader, IInv
<1>1. pend[1].id = Published /\ SegOf(Published) \in Segs
  BY <1>0, HeadFacts
<1>2. header' = [header EXCEPT ![SegOf(Published)] = cur_size_[SegOf(Published)] + run]
      /\ wpc' = "publish" /\ UNCHANGED <<memory, files, disk, pend, popped, run, clients, history>>
  BY <1>1 DEF WriteHeader
<1>3. /\ Published' = Published /\ InHeader = Published /\ InHeader' = Published + run
      /\ InFile' = Published + run /\ InFile = Published + run
  BY <1>0, <1>2 DEF Published, InHeader, InFile, memory
<1>4. header' = Shares(Published + run) /\ Published + run \in Nat
  <2>1. header = Shares(Published) /\ cur_size_ = Shares(Published)
    BY <1>0, <1>3 DEF UpInv
  <2>2. header' = [Shares(Published) EXCEPT ![SegOf(Published)] = @ + run]
    BY <1>1, <1>2, <2>1 DEF Shares
  <2> QED BY <1>0, <2>2, RunGrowsShares
<1>5. UpInv'
  BY <1>0, <1>2, <1>3, <1>4 DEF UpInv, QueueIsTail, HandlerInv, memory, clients, history
<1>6. TypeOK'
  <2>1. header' \in [Segs -> 0 .. SegSize]
    BY <1>4, ShareType
  <2> QED BY <1>0, <1>2, <2>1 DEF TypeOK, memory, clients, history
<1> QED BY <1>0, <1>2, <1>5, <1>6 DEF IInv, memory, history

\* Publishing takes the run off the queue and makes it readable.
LEMMA PublishKeeps ==
  ASSUME IInv, Publish
  PROVE  IInv'
<1>0. mode = "up" /\ wpc = "publish" /\ UpInv /\ TypeOK
  BY DEF Publish, IInv
<1>1. pend[1].id = Published /\ SegOf(Published) \in Segs
  BY <1>0, HeadFacts
<1>2. /\ size_ \in Nat /\ size_ = Len(log) /\ Len(pend) \in Nat /\ pend \in Seq(Item)
      /\ Published \in Nat /\ Published + Len(pend) = size_
      /\ popped \in Nat /\ popped <= Len(pend) /\ run \in Nat /\ run <= popped
  BY <1>0, UpFacts
<1>3. /\ cur_size_' = [cur_size_ EXCEPT ![SegOf(Published)] = @ + run]
      /\ pend' = SubSeq(pend, run + 1, Len(pend))
      /\ popped' = popped - run /\ run' = 0
      /\ wpc' = IF popped = run THEN "pop" ELSE "data"
      /\ UNCHANGED <<mode, size_, segments_, buffered_size_, files_, clients, history>>
  BY <1>1 DEF Publish
<1>4. /\ Len(pend') = Len(pend) - run /\ pend' \in Seq(Item)
      /\ \A k \in 1 .. Len(pend) - run : pend'[k] = pend[run + k]
  <2>1. \A i \in run + 1 .. Len(pend) : pend[i] \in Item
    BY <1>2
  <2>2. /\ pend' \in Seq(Item)
        /\ Len(pend') = IF run + 1 <= Len(pend) THEN Len(pend) - (run + 1) + 1 ELSE 0
        /\ \A i \in 1 .. Len(pend) - (run + 1) + 1 : pend'[i] = pend[(run + 1) + i - 1]
    <3>1. run + 1 \in Int /\ Len(pend) \in Int
      BY <1>2
    <3> QED BY <1>3, <2>1, <3>1, SubSeqProperties
  <2>3. Len(pend) - (run + 1) + 1 = Len(pend) - run
        /\ \A k \in 1 .. Len(pend) - run : (run + 1) + k - 1 = run + k
    BY <1>2
  <2>4. Len(pend') = Len(pend) - run
    <3>1. run + 1 <= Len(pend) => Len(pend') = Len(pend) - run
      BY <2>2, <2>3
    <3>2. ~(run + 1 <= Len(pend)) => run = Len(pend) /\ Len(pend') = 0
      BY <1>2, <2>2
    <3> QED BY <1>2, <3>1, <3>2
  <2>5. ASSUME NEW k \in 1 .. Len(pend) - run
        PROVE  pend'[k] = pend[run + k]
    <3>1. k \in 1 .. Len(pend) - (run + 1) + 1 /\ (run + 1) + k - 1 = run + k
      BY <2>3
    <3>2. pend'[k] = pend[(run + 1) + k - 1]
      BY <2>2, <3>1
    <3> QED BY <3>1, <3>2
  <2> QED BY <2>2, <2>4, <2>5
<1>5. /\ Published' = Published + run /\ InHeader' = Published + run
      /\ InFile' = Published + run /\ InFile = Published + run /\ InHeader = Published + run
  <2>1. Published' = Published + run
    <3>1. size_' = size_ /\ Len(pend') = Len(pend) - run
      BY <1>3, <1>4
    <3> QED BY <1>2, <3>1 DEF Published
  <2>2. run' = 0 /\ wpc' \notin {"header", "publish"}
    BY <1>3
  <2>3. InHeader' = Published' /\ InFile' = Published'
    BY <2>2 DEF InHeader, InFile
  <2> QED BY <1>0, <2>1, <2>3 DEF InHeader, InFile
<1>6. cur_size_' = Shares(Published + run) /\ Published + run \in Nat
  <2>1. cur_size_ = Shares(Published)
    BY <1>0 DEF UpInv
  <2> QED BY <1>0, <1>3, <2>1, RunGrowsShares
<1>7. QueueIsTail'
  <2>1. ASSUME NEW k \in 1 .. Len(pend')
        PROVE  pend'[k] = [id |-> Published' + k - 1, val |-> log'[Published' + k]]
    <3>1. run + k \in 1 .. Len(pend) /\ pend'[k] = pend[run + k]
      BY <1>2, <1>4
    <3>2. pend[run + k] = [id |-> Published + (run + k) - 1, val |-> log[Published + (run + k)]]
      BY <1>0, <3>1 DEF UpInv, QueueIsTail
    <3>3. Published + (run + k) = Published' + k /\ log' = log
      BY <1>2, <1>3, <1>5 DEF history
    <3>4. Published' + k - 1 = Published + (run + k) - 1
      <4>1. Published \in Int /\ run \in Int /\ k \in Int /\ Published' = Published + run
        BY <1>2, <1>5
      <4> QED BY <4>1
    <3>5. pend'[k] = [id |-> Published' + k - 1, val |-> log[Published' + k]]
      BY <3>1, <3>2, <3>3, <3>4
    <3> QED BY <3>3, <3>5
  <2> QED BY <2>1 DEF QueueIsTail
<1>8. HandlerInv'
  BY <1>2, <1>3 DEF HandlerInv
<1>9. UpInv'
  <2>1. size_' = Len(log') /\ Len(pend') <= size_'
    BY <1>0, <1>2, <1>3, <1>4 DEF UpInv, history
  <2>2. /\ segments_' = SegOf(size_') + 1 /\ files' >= segments_'
        /\ buffered_size_' = Shares(size_') /\ header' = Shares(InHeader')
    BY <1>0, <1>3, <1>5 DEF UpInv, files_
  <2>3. cur_size_' = Shares(Published')
    BY <1>5, <1>6
  <2>4. InFile' = InFile /\ disk' = disk /\ log' = log
    BY <1>3, <1>5 DEF files_, history
  <2>5. \A g \in 0 .. InFile' - 1 : disk'[g] = log'[g + 1]
    BY <1>0, <2>4 DEF UpInv
  <2>6. upd' # <<>> => upd'.id < size_'
    BY <1>0, <1>3 DEF UpInv, clients
  <2> QED BY <1>7, <1>8, <2>1, <2>2, <2>3, <2>5, <2>6 DEF UpInv
<1>10. TypeOK'
  <2>1. cur_size_' \in [Segs -> 0 .. SegSize]
    BY <1>6, ShareType
  <2>2. popped' \in 0 .. Len(pend') /\ run' \in 0 .. popped' /\ wpc' \in {"pop", "data"}
    <3>1. popped' = popped - run /\ Len(pend') = Len(pend) - run /\ run' = 0
      BY <1>3, <1>4
    <3>2. wpc' \in {"pop", "data"}
      BY <1>3
    <3> QED BY <1>2, <3>1, <3>2
  <2> QED BY <1>0, <1>3, <1>4, <2>1, <2>2 DEF TypeOK, files_, clients, history
<1> QED BY <1>0, <1>3, <1>9, <1>10 DEF IInv, history

-----------------------------------------------------------------------------
(* End and start of a process. *)

\* What a process leaves behind is a prefix of the rows.
LEMMA StopKeeps ==
  ASSUME IInv, Stop
  PROVE  IInv'
<1>0. mode = "up" /\ UpInv /\ TypeOK
  BY DEF Stop, IInv
<1>1. /\ size_ \in Nat /\ size_ = Len(log) /\ size_ <= MaxRows /\ MaxRows \in Nat
      /\ Published \in Nat /\ Published + Len(pend) = size_ /\ Len(pend) \in Nat
      /\ popped \in Nat /\ popped <= Len(pend) /\ run \in Nat /\ run <= popped
  BY <1>0, UpFacts
<1>2. /\ mode' = "down" /\ pend' = <<>> /\ popped' = 0 /\ run' = 0 /\ wpc' = "pop"
      /\ upd' = <<>> /\ UNCHANGED <<files, header, disk, log, synced>>
  BY DEF Stop, files_
<1>3. PICK n \in 0 .. MaxRows :
        /\ n <= size_ /\ header = Shares(n)
        /\ \A g \in 0 .. n - 1 : disk[g] = log[g + 1]
  <2>1. InHeader \in Nat /\ InFile \in Nat /\ InHeader <= InFile /\ InFile <= size_
    BY <1>1 DEF InHeader, InFile
  <2>2. ASSUME NEW g \in 0 .. InHeader - 1 PROVE g \in 0 .. InFile - 1
    BY <2>1
  <2>3. \A g \in 0 .. InHeader - 1 : disk[g] = log[g + 1]
    BY <1>0, <2>2 DEF UpInv
  <2>4. header = Shares(InHeader) /\ InHeader \in 0 .. MaxRows /\ InHeader <= size_
    BY <1>0, <1>1, <2>1 DEF UpInv
  <2> QED BY <2>3, <2>4
<1>4. files >= SegOf(n) + 1
  <2>1. SegOf(n) \in Nat /\ SegOf(size_) \in Nat /\ ~(SegOf(size_) < SegOf(n))
    BY <1>1, <1>3, Slots, SlotOrder
  <2>2. files >= SegOf(size_) + 1 /\ files \in Nat
    BY <1>0 DEF UpInv, TypeOK
  <2> QED BY <2>1, <2>2
<1>5. Found(n)'
  BY <1>1, <1>2, <1>3, <1>4 DEF Found
<1>6. DownInv'
  BY <1>2, <1>5 DEF DownInv
<1>7. TypeOK'
  BY <1>0, <1>2, SizesAssumption DEF TypeOK, Stop
<1> QED BY <1>1, <1>2, <1>6, <1>7 DEF IInv

\* The headers tell the next process how many rows there are.
LEMMA LoadKeeps ==
  ASSUME IInv, Load
  PROVE  IInv'
<1>0. mode = "down" /\ DownInv /\ TypeOK /\ Len(log) <= MaxRows
  BY DEF Load, IInv
<1>1. /\ mode' = "loaded" /\ segments_' = files
      /\ cur_size_' = [s \in Segs |-> IF s < files THEN header[s] ELSE 0]
      /\ buffered_size_' = cur_size_' /\ size_' = HeaderSum(files)
      /\ UNCHANGED <<files_, writer, clients, history>>
  BY DEF Load
<1>2. PICK n \in 0 .. MaxRows : Found(n)
  BY <1>0 DEF DownInv
<1>3. n \in Nat /\ MaxRows \in Nat /\ files \in Nat /\ files <= MaxRows + 1
  BY <1>0, SizesAssumption DEF TypeOK
<1>4. size_' = n
  BY <1>1, <1>2, <1>3, SharesAddUp DEF Found
<1>5. cur_size_' = Shares(n)
  <2>1. SegOf(n) \in Nat /\ files >= SegOf(n) + 1
    BY <1>2, <1>3, Slots DEF Found
  <2>2. ASSUME NEW s \in Segs, ~(s < files) PROVE Share(n, s) = 0
    BY <1>3, <2>1, <2>2 DEF Segs, Share
  <2> QED BY <1>1, <1>2, <2>2 DEF Found, Shares
<1>6. Found(n)'
  BY <1>1, <1>2 DEF Found, files_, history
<1>7. DownInv'
  <2>1. pend' = <<>> /\ popped' = 0 /\ run' = 0 /\ wpc' = "pop" /\ upd' = <<>>
    BY <1>0, <1>1 DEF DownInv, writer, clients
  <2>2. segments_' = files' /\ buffered_size_' = Shares(n) /\ cur_size_' = Shares(n)
    BY <1>1, <1>5 DEF files_
  <2> QED BY <1>4, <1>6, <2>1, <2>2 DEF DownInv
<1>8. TypeOK'
  <2>1. cur_size_' \in [Segs -> 0 .. SegSize]
    BY <1>3, <1>5, ShareType
  <2> QED BY <1>0, <1>1, <1>3, <1>4, <2>1 DEF TypeOK, files_, writer, clients, history
<1> QED BY <1>0, <1>1, <1>7, <1>8 DEF IInv, history

\* Cutting the storage to n rows leaves the shares of n rows.
LEMMA TruncateKeeps ==
  ASSUME TableUse, IInv, NEW n \in 0 .. MaxRows, Truncate(n)
  PROVE  IInv'
<1> DEFINE full == SegOf(n)
           keep == IF PosOf(n) > 0 THEN full + 1 ELSE full
           cut(f) == [s \in Segs |->
                        IF s >= keep THEN 0
                        ELSE IF s = full /\ f[s] > PosOf(n) THEN PosOf(n) ELSE f[s]]
<1>0. mode = "loaded" /\ DownInv /\ TypeOK /\ Len(log) <= MaxRows
  BY DEF Truncate, IInv
<1>1. /\ n <= size_ /\ keep <= segments_
      /\ \A s \in keep .. segments_ - 1 : header[s] = 0
      /\ mode' = "up"
      /\ cur_size_' = cut(cur_size_)
      /\ buffered_size_' = cut(buffered_size_)
      /\ header' = IF PosOf(n) > 0 THEN [header EXCEPT ![full] = PosOf(n)] ELSE header
      /\ IF keep = 0 \/ buffered_size_'[keep - 1] = SegSize
         THEN Extend(keep)
         ELSE segments_' = keep /\ UNCHANGED files
      /\ size_' = n
      /\ log' = SubSeq(log, 1, n)
      /\ synced' = 0
      /\ UNCHANGED <<disk, writer, clients, stops>>
  BY DEF Truncate, TableUse
<1>2. PICK m \in 0 .. MaxRows :
        /\ Found(m) /\ size_ = m /\ segments_ = files
        /\ buffered_size_ = Shares(m) /\ cur_size_ = Shares(m)
  BY <1>0 DEF DownInv
<1>3. /\ n \in Nat /\ m \in Nat /\ n <= m /\ MaxRows \in Nat /\ Len(log) \in Nat
      /\ m <= Len(log) /\ log \in Seq(Values) /\ files \in Nat /\ files >= SegOf(m) + 1
      /\ files <= MaxRows + 1
  BY <1>0, <1>1, <1>2, SizesAssumption DEF Found, TypeOK
<1>4. /\ full \in Nat /\ PosOf(n) \in 0 .. SegSize - 1 /\ full <= n
      /\ SegOf(m) \in Nat /\ PosOf(m) \in 0 .. SegSize - 1 /\ full \in Segs
  <2>1. full \in Nat /\ PosOf(n) \in 0 .. SegSize - 1 /\ full <= n
    BY <1>3, Slots
  <2>2. SegOf(m) \in Nat /\ PosOf(m) \in 0 .. SegSize - 1
    BY <1>3, Slots
  <2>3. full \in Segs
    <3>1. n <= MaxRows
      OBVIOUS
    <3> QED BY <1>3, <2>1, <3>1 DEF Segs
  <2> QED BY <2>1, <2>2, <2>3
<1>5. full < SegOf(m) \/ (full = SegOf(m) /\ PosOf(n) <= PosOf(m))
  <2>1. ~(SegOf(m) < full) /\ (full = SegOf(m) => ~(PosOf(m) < PosOf(n)))
    BY <1>3, SlotOrder
  <2> QED BY <1>4, <2>1, SizesAssumption
<1>6. ASSUME NEW s \in Segs
      PROVE  Share(n, s) = IF s >= keep THEN 0
                           ELSE IF s = full /\ Share(m, s) > PosOf(n) THEN PosOf(n)
                           ELSE Share(m, s)
  <2>1. s \in Nat
    BY <1>3 DEF Segs
  <2> QED BY <1>4, <1>5, <2>1, SizesAssumption DEF Share
<1>7. cut(Shares(m)) = Shares(n)
  BY <1>6 DEF Shares
<1>8. header' = Shares(n)
  <2>1. header = Shares(m)
    BY <1>2 DEF Found
  <2>2. ASSUME NEW s \in Segs, s >= keep, s < files PROVE Share(m, s) = 0
    <3>1. s \in Nat /\ s \in keep .. segments_ - 1
      BY <1>2, <1>3, <1>4, <2>2 DEF Segs
    <3> QED BY <1>1, <2>1, <3>1 DEF Shares
  <2>3. ASSUME NEW s \in Segs, s >= files PROVE Share(m, s) = 0
    <3>1. s \in Nat
      BY <1>3 DEF Segs
    <3> QED BY <1>3, <1>4, <2>3, <3>1 DEF Share
  <2>4. ASSUME NEW s \in Segs
        PROVE  Share(n, s) = IF PosOf(n) > 0 /\ s = full THEN PosOf(n) ELSE Share(m, s)
    <3>1. s \in Nat
      BY <1>3 DEF Segs
    <3>2. CASE s >= keep
      <4>1. Share(m, s) = 0 /\ Share(n, s) = 0
        BY <1>3, <1>6, <2>2, <2>3, <3>1, <3>2
      <4> QED BY <1>4, <3>1, <3>2, <4>1
    <3>3. CASE s < keep
      <4>1. s < full \/ (s = full /\ PosOf(n) > 0)
        BY <1>4, <3>1, <3>3
      <4> QED BY <1>4, <1>5, <3>1, <4>1, SizesAssumption DEF Share
    <3> QED BY <1>4, <3>1, <3>2, <3>3
  <2> QED BY <1>1, <1>4, <2>1, <2>4 DEF Shares
<1>9. segments_' = full + 1 /\ files' >= segments_' /\ files' \in 0 .. MaxRows + 1
  <2>0. buffered_size_' = Shares(n) /\ keep <= files
    BY <1>1, <1>2, <1>7
  <2>1. CASE PosOf(n) > 0
    <3>1. keep = full + 1 /\ buffered_size_'[keep - 1] = PosOf(n)
      BY <1>4, <2>0, <2>1 DEF Shares, Share
    <3>2. keep # 0 /\ PosOf(n) # SegSize
      BY <1>4, <3>1, SizesAssumption
    <3> QED BY <1>1, <1>3, <1>4, <2>0, <3>1, <3>2
  <2>2. CASE PosOf(n) = 0
    <3>1. keep = full
      BY <2>2
    <3>2. keep = 0 \/ buffered_size_'[keep - 1] = SegSize
      <4>1. ASSUME full # 0 PROVE full - 1 \in Segs /\ Share(n, full - 1) = SegSize
        BY <1>3, <1>4, <4>1 DEF Segs, Share
      <4> QED BY <2>0, <3>1, <4>1 DEF Shares
    <3>3. Extend(full)
      BY <1>1, <3>1, <3>2
    <3>4. segments_' = full + 1 /\ files' = IF files > full THEN files ELSE full + 1
      BY <3>3 DEF Extend
    <3>5. files \in Nat /\ files <= MaxRows + 1 /\ MaxRows \in Nat /\ full <= files /\ full \in Nat
      BY <1>3, <1>4, <2>0, <3>1
    <3>6. full \in 0 .. MaxRows
      BY <1>4 DEF Segs
    <3> QED BY <3>4, <3>5, <3>6
  <2> QED BY <1>4, <2>1, <2>2
<1>10. log' \in Seq(Values) /\ Len(log') = n /\ \A i \in 1 .. n : log'[i] = log[i]
  <2>1. \A i \in 1 .. n : log[i] \in Values
    BY <1>3
  <2> QED BY <1>1, <1>3, <2>1
<1>11. pend' = <<>> /\ popped' = 0 /\ run' = 0 /\ wpc' = "pop" /\ upd' = <<>>
  BY <1>0, <1>1 DEF DownInv, writer, clients
<1>12. Published' = n /\ InHeader' = n /\ InFile' = n
  BY <1>1, <1>3, <1>11 DEF Published, InHeader, InFile
<1>13. \A g \in 0 .. n - 1 : disk'[g] = log'[g + 1]
  <2>1. ASSUME NEW g \in 0 .. n - 1 PROVE disk[g] = log[g + 1] /\ g + 1 \in 1 .. n
    <3>1. g \in 0 .. m - 1 /\ g + 1 \in 1 .. n
      BY <1>3
    <3> QED BY <1>2, <3>1 DEF Found
  <2> QED BY <1>1, <1>10, <2>1
<1>14. UpInv'
  <2>1. buffered_size_' = Shares(n) /\ cur_size_' = Shares(n)
    BY <1>1, <1>2, <1>7
  <2>2. QueueIsTail' /\ HandlerInv'
    BY <1>11 DEF QueueIsTail, HandlerInv
  <2> QED BY <1>1, <1>3, <1>8, <1>9, <1>10, <1>11, <1>12, <1>13, <2>1, <2>2 DEF UpInv
<1>15. TypeOK'
  <2>1. /\ buffered_size_' \in [Segs -> 0 .. SegSize] /\ cur_size_' \in [Segs -> 0 .. SegSize]
        /\ header' \in [Segs -> 0 .. SegSize]
    <3>1. Shares(n) \in [Segs -> 0 .. SegSize]
      BY <1>3, ShareType
    <3>2. buffered_size_' = Shares(n) /\ cur_size_' = Shares(n)
      BY <1>1, <1>2, <1>7
    <3> QED BY <1>8, <3>1, <3>2
  <2>2. segments_' \in 0 .. MaxRows + 1
    BY <1>3, <1>4, <1>9
  <2>3. /\ pend' \in Seq(Item) /\ popped' \in 0 .. Len(pend') /\ run' \in 0 .. popped'
        /\ wpc' \in {"pop", "data", "header", "publish"} /\ upd' \in Item \union {<<>>}
    BY <1>11
  <2>4. /\ disk' \in [Ids -> Values \union {NoRow}] /\ rd' \in [Readers -> Ids \union {NoRow}]
        /\ stops' \in 0 .. MaxStops
    BY <1>0, <1>1 DEF TypeOK, clients
  <2>5. size_' \in 0 .. MaxRows /\ synced' \in 0 .. MaxRows /\ mode' \in {"up", "down", "loaded"}
    BY <1>1, <1>3
  <2> QED BY <1>9, <1>10, <2>1, <2>2, <2>3, <2>4, <2>5 DEF TypeOK
<1> QED BY <1>1, <1>3, <1>10, <1>14, <1>15 DEF IInv

-----------------------------------------------------------------------------
(* The invariant and what follows from it. *)

\* A storage that was just created satisfies the invariant.
LEMMA InitEstablishes == Init => IInv
<1> SUFFICES ASSUME Init PROVE IInv
  OBVIOUS
<1>1. SegOf(0) = 0 /\ PosOf(0) = 0
  <2>1. 0 \in 0 .. SegSize - 1 /\ 0 * SegSize + 0 = 0
    BY SizesAssumption
  <2> QED BY <2>1, SlotUnique
<1>2. Shares(0) = [s \in Segs |-> 0]
  <2>1. ASSUME NEW s \in Segs PROVE Share(0, s) = 0
    BY <1>1, SizesAssumption DEF Share, Segs
  <2> QED BY <2>1 DEF Shares
<1>3. Published = 0 /\ InHeader = 0 /\ InFile = 0
  <2>1. size_ = 0 /\ Len(pend) = 0 /\ wpc = "pop"
    BY DEF Init
  <2>2. Published = 0
    BY <2>1 DEF Published
  <2> QED BY <2>1, <2>2 DEF InHeader, InFile
<1>4. UpInv
  BY <1>1, <1>2, <1>3 DEF Init, UpInv, QueueIsTail, HandlerInv
<1>5. TypeOK
  <2>1. 0 \in 0 .. SegSize /\ 0 \in 0 .. MaxRows /\ {0, 1} \subseteq 0 .. MaxRows + 1
        /\ 0 \in 0 .. MaxStops
    BY SizesAssumption
  <2> QED BY <2>1 DEF Init, TypeOK
<1> QED BY <1>4, <1>5, SizesAssumption DEF Init, IInv

\* So does every step.
LEMMA StepKeeps ==
  ASSUME TableUse, IInv, [Next]_vars
  PROVE  IInv'
<1>1. CASE \E v \in Values : Add(v)
  BY <1>1, AddKeeps
<1>2. CASE \/ \E g \in Ids, v \in Values : UpdateBegin(g, v)
           \/ Sync
           \/ \E r \in Readers, g \in Ids : GetBegin(r, g)
           \/ \E r \in Readers : GetRead(r)
  BY <1>2, QuietKeeps
<1>3. CASE UpdateWrite
  BY <1>3, UpdateKeeps
<1>4. CASE Pop \/ Collected
  BY <1>4, CollectKeeps
<1>5. CASE WriteData
  BY <1>5, WriteDataKeeps
<1>6. CASE WriteHeader
  BY <1>6, WriteHeaderKeeps
<1>7. CASE Publish
  BY <1>7, PublishKeeps
<1>8. CASE Stop
  BY <1>8, StopKeeps
<1>9. CASE Load
  BY <1>9, LoadKeeps
<1>10. CASE \E n \in 0 .. MaxRows : Truncate(n)
  BY <1>10, TruncateKeeps
<1>11. CASE UNCHANGED vars
  BY <1>11 DEF IInv, TypeOK, UpInv, DownInv, Found, QueueIsTail, HandlerInv, Published,
     InHeader, InFile, vars, memory, files_, writer, clients, history
<1> QED BY <1>1, <1>2, <1>3, <1>4, <1>5, <1>6, <1>7, <1>8, <1>9, <1>10, <1>11
        DEF Next, WriterNext

\* What the runs check follows from the invariant.
LEMMA IInvGivesProperties ==
  IInv => /\ TypeOK
          /\ FlushedRowsAreCurrent /\ IdNamesItsSlot /\ PendingIsTheTail
          /\ NoRowFromNowhere
<1> SUFFICES ASSUME IInv PROVE /\ TypeOK
                              /\ FlushedRowsAreCurrent /\ IdNamesItsSlot /\ PendingIsTheTail
                              /\ NoRowFromNowhere
  OBVIOUS
<1>1. ASSUME mode = "up" PROVE FlushedRowsAreCurrent /\ IdNamesItsSlot /\ PendingIsTheTail
  <2>0. UpInv
    BY <1>1 DEF IInv
  <2>1. /\ size_ \in Nat /\ size_ = Len(log) /\ size_ <= MaxRows /\ MaxRows \in Nat
        /\ Published \in Nat /\ Published + Len(pend) = size_ /\ Len(pend) \in Nat
        /\ run \in Nat /\ SegOf(size_) \in Segs
    BY <1>1, UpFacts
  <2>2. FlushedRowsAreCurrent
    <3>1. ASSUME NEW g \in 0 .. size_ - 1, PosOf(g) < cur_size_[SegOf(g)]
          PROVE  disk[g] = log[g + 1]
      <4>1. g \in Nat /\ SegOf(g) \in Nat /\ SegOf(g) <= g /\ SegOf(g) \in Segs
        <5>1. g \in Nat /\ g < MaxRows
          BY <2>1
        <5>2. SegOf(g) \in Nat /\ SegOf(g) <= g
          BY <5>1, Slots
        <5> QED BY <2>1, <5>1, <5>2 DEF Segs
      <4>2. PosOf(g) < Share(Published, SegOf(g))
        BY <2>0, <3>1, <4>1 DEF UpInv, Shares
      <4>3. g < Published
        BY <2>1, <4>1, <4>2, ShareCovers
      <4>4. g \in 0 .. InFile - 1
        BY <2>1, <4>1, <4>3 DEF InFile
      <4> QED BY <2>0, <4>4 DEF UpInv
    <3> QED BY <3>1 DEF FlushedRowsAreCurrent
  <2>3. IdNamesItsSlot
    <3>1. /\ SegOf(size_) \in Nat /\ PosOf(size_) \in 0 .. SegSize - 1
          /\ size_ = SegOf(size_) * SegSize + PosOf(size_)
      BY <2>1, Slots
    <3>2. Last = SegOf(size_) /\ segments_ = SegOf(size_) + 1
      BY <2>0, <3>1 DEF UpInv, Last
    <3>3. buffered_size_[Last] = PosOf(size_)
      BY <2>0, <2>1, <3>1, <3>2 DEF UpInv, Shares, Share
    <3> QED BY <3>1, <3>2, <3>3, SizesAssumption DEF IdNamesItsSlot
  <2>4. PendingIsTheTail
    <3>1. ASSUME NEW k \in 1 .. Len(pend) PROVE pend[k].id = size_ - Len(pend) + k - 1
      <4>1. pend[k] = [id |-> Published + k - 1, val |-> log[Published + k]]
        BY <2>0 DEF UpInv, QueueIsTail
      <4> QED BY <4>1 DEF Published
    <3> QED BY <2>1, <3>1 DEF PendingIsTheTail
  <2> QED BY <2>2, <2>3, <2>4
<1>2. ASSUME mode # "up" PROVE FlushedRowsAreCurrent /\ IdNamesItsSlot /\ PendingIsTheTail
  BY <1>2 DEF FlushedRowsAreCurrent, IdNamesItsSlot, PendingIsTheTail
<1>3. NoRowFromNowhere
  BY DEF IInv, DownInv, Found, NoRowFromNowhere
<1> QED BY <1>1, <1>2, <1>3 DEF IInv

\* The inductive invariant of the storage, for all sizes: every counter is the
\* share of one row count (Segment, StorageManager and AsyncWriter agree).
THEOREM InvariantHolds == ASSUME TableUse PROVE Spec => []IInv
<1>1. Init => IInv
  BY InitEstablishes
<1>2. IInv /\ [Next]_vars => IInv'
  BY StepKeeps
<1> QED BY <1>1, <1>2, PTL DEF Spec

\* All variables keep their types, whatever the sizes.
THEOREM TypesHold == ASSUME TableUse PROVE Spec => []TypeOK
<1>1. IInv => TypeOK
  BY IInvGivesProperties
<1> QED BY <1>1, InvariantHolds, PTL

\* A row that Segment::GetValues may fetch is the one last acknowledged.
THEOREM ReadsAreCurrent == ASSUME TableUse PROVE Spec => []FlushedRowsAreCurrent
<1>1. IInv => FlushedRowsAreCurrent
  BY IInvGivesProperties
<1> QED BY <1>1, InvariantHolds, PTL

\* The id counter of StorageManager and the positions of Segment never part.
THEOREM IdsNameSlots == ASSUME TableUse PROVE Spec => []IdNamesItsSlot
<1>1. IInv => IdNamesItsSlot
  BY IInvGivesProperties
<1> QED BY <1>1, InvariantHolds, PTL

\* The handler may write a run of queued rows in one piece: they are
\* consecutive and begin at the first unpublished id.
THEOREM QueueIsTheTail == ASSUME TableUse PROVE Spec => []PendingIsTheTail
<1>1. IInv => PendingIsTheTail
  BY IInvGivesProperties
<1> QED BY <1>1, InvariantHolds, PTL

\* When no non-empty segment is cut away, a reopened storage never has more
\* rows than were added.
THEOREM NothingFromNowhere == ASSUME TableUse PROVE Spec => []NoRowFromNowhere
<1>1. IInv => NoRowFromNowhere
  BY IInvGivesProperties
<1> QED BY <1>1, InvariantHolds, PTL

-----------------------------------------------------------------------------
(* The storage implements the durable log (DurableLog). *)

\* How many rows a restart would find: those whose size is in a header.
LEMMA RowsFound ==
  IInv => /\ mode = "up" => HeaderSum(files) = InHeader
          /\ mode # "up" => Found(HeaderSum(files))
          /\ HeaderSum(files) \in Nat /\ HeaderSum(files) <= Len(log) /\ Len(log) \in Nat
          /\ \A g \in 0 .. HeaderSum(files) - 1 : disk[g] = log[g + 1]
          /\ mode = "loaded" => size_ = HeaderSum(files)
<1> SUFFICES ASSUME IInv
             PROVE  /\ mode = "up" => HeaderSum(files) = InHeader
                    /\ mode # "up" => Found(HeaderSum(files))
                    /\ HeaderSum(files) \in Nat /\ HeaderSum(files) <= Len(log) /\ Len(log) \in Nat
                    /\ \A g \in 0 .. HeaderSum(files) - 1 : disk[g] = log[g + 1]
                    /\ mode = "loaded" => size_ = HeaderSum(files)
  OBVIOUS
<1>1. log \in Seq(Values) /\ files \in Nat /\ MaxRows \in Nat /\ Len(log) \in Nat
  BY SizesAssumption DEF IInv, TypeOK
<1>2. CASE mode = "up"
  <2>1. /\ size_ \in Nat /\ size_ = Len(log) /\ size_ <= MaxRows
        /\ Published \in Nat /\ Published + Len(pend) = size_ /\ Len(pend) \in Nat
        /\ popped \in Nat /\ popped <= Len(pend) /\ run \in Nat /\ run <= popped
    BY <1>2, UpFacts
  <2>2. UpInv
    BY <1>2 DEF IInv
  <2>3. InHeader \in Nat /\ InHeader <= size_ /\ InHeader <= InFile /\ InFile \in Nat
    BY <2>1 DEF InHeader, InFile
  <2>4. files >= SegOf(InHeader) + 1
    <3>1. SegOf(size_) \in Nat /\ SegOf(InHeader) \in Nat /\ files >= SegOf(size_) + 1
      BY <2>1, <2>2, <2>3, Slots DEF UpInv
    <3>2. ~ SegOf(size_) < SegOf(InHeader)
      <4>1. SegOf(size_) < SegOf(InHeader) => size_ < InHeader
        BY <2>1, <2>3, SlotOrder
      <4> QED BY <2>1, <2>3, <4>1
    <3> QED BY <1>1, <3>1, <3>2
  <2>5. InHeader \in 0 .. MaxRows
    BY <1>1, <2>1, <2>3
  <2>6. HeaderSum(files) = InHeader
    BY <1>1, <2>2, <2>4, <2>5, SharesAddUp DEF UpInv
  <2> QED BY <1>2, <2>1, <2>2, <2>3, <2>6 DEF UpInv
<1>3. CASE mode # "up"
  <2>1. PICK n \in 0 .. MaxRows : Found(n) /\ (mode = "loaded" => size_ = n)
    BY <1>3 DEF IInv, DownInv
  <2>2. HeaderSum(files) = n
    BY <1>1, <2>1, SharesAddUp DEF Found
  <2> QED BY <1>1, <1>3, <2>1, <2>2 DEF Found
<1> QED BY <1>2, <1>3

\* The same after a step.
LEMMA RowsFoundNext ==
  (IInv => /\ mode = "up" => HeaderSum(files) = InHeader
           /\ mode # "up" => Found(HeaderSum(files))
           /\ HeaderSum(files) \in Nat /\ HeaderSum(files) <= Len(log) /\ Len(log) \in Nat
           /\ \A g \in 0 .. HeaderSum(files) - 1 : disk[g] = log[g + 1]
           /\ mode = "loaded" => size_ = HeaderSum(files))'
BY RowsFound, PTL

\* Steps that leave headers, contents and acknowledged rows alone, and do not
\* end or start the process, do not show in the log.
LEMMA QuietSteps ==
  ASSUME UNCHANGED <<files, header, log>>, mode = "up" <=> mode' = "up",
         mode # "up" => UNCHANGED disk
  PROVE  UNCHANGED Abstract!vars
<1>1. HeaderSum(files)' = HeaderSum(files)
  BY DEF HeaderSum
<1>2. mode # "up" => Recovered' = Recovered
  BY <1>1 DEF Recovered
<1> QED BY <1>1, <1>2 DEF Abstract!vars

\* An added row is appended to the log and not yet durable.
LEMMA AddIsAppend ==
  ASSUME IInv, IInv', NEW v \in Values, Add(v)
  PROVE  Abstract!Next
<1>1. mode = "up" /\ mode' = "up" /\ log' = Append(log, v)
      /\ UNCHANGED <<header, run, wpc>> /\ size_' = size_ + 1
      /\ pend' = Append(pend, [id |-> Last * SegSize + buffered_size_[Last], val |-> v])
  BY DEF Add
<1>2. /\ size_ \in Nat /\ Len(pend) \in Nat /\ Published \in Nat /\ run \in Nat
      /\ Len(pend') = Len(pend) + 1
  <2> DEFINE row == [id |-> Last * SegSize + buffered_size_[Last], val |-> v]
  <2>1. /\ size_ \in Nat /\ Len(pend) \in Nat /\ Published \in Nat /\ run \in Nat
        /\ pend \in Seq(Item)
    BY <1>1, UpFacts
  <2> HIDE DEF row
  <2>2. Len(Append(pend, row)) = Len(pend) + 1
    BY <2>1
  <2> QED BY <1>1, <2>1, <2>2 DEF row
<1>3. Published' = Published
  BY <1>1, <1>2 DEF Published
<1>4. InHeader' = InHeader
  BY <1>1, <1>3 DEF InHeader
<1>5. HeaderSum(files)' = HeaderSum(files)
  BY <1>1, <1>4, RowsFound, RowsFoundNext
<1>6. Abstract!Append1(v)
  BY <1>1, <1>5 DEF Abstract!Append1
<1> QED BY <1>6 DEF Abstract!Next

\* An update replaces one row of the log.
LEMMA UpdateIsReplace ==
  ASSUME IInv, UpdateWrite
  PROVE  Abstract!Next
<1>1. /\ mode = "up" /\ mode' = "up" /\ upd # <<>> /\ UNCHANGED <<files, header>>
      /\ log' = [log EXCEPT ![upd.id + 1] = upd.val]
  BY DEF UpdateWrite, memory
<1>2. HeaderSum(files)' = HeaderSum(files)
  BY <1>1 DEF HeaderSum
<1>3. upd \in Item
  BY <1>1 DEF IInv, TypeOK
<1>4. upd.id \in Nat /\ upd.val \in Values /\ upd.id < Len(log) /\ Len(log) \in Nat
  BY <1>1, <1>3, UpFacts DEF Item, Ids, IInv, UpInv
<1>5. upd.id + 1 \in 1 .. Len(log)
  BY <1>4
<1>6. Abstract!Replace(upd.id + 1, upd.val)
  BY <1>1, <1>2 DEF Abstract!Replace
<1>7. \E i \in 1 .. Len(log), v \in Values : Abstract!Replace(i, v)
  BY <1>4, <1>5, <1>6
<1> QED BY <1>1, <1>7 DEF Abstract!Next

\* A written header makes the rows of the run durable.
LEMMA HeaderIsPersist ==
  ASSUME IInv, IInv', WriteHeader
  PROVE  Abstract!Next
<1>1. /\ mode = "up" /\ mode' = "up" /\ wpc = "header" /\ wpc' = "publish"
      /\ UNCHANGED <<log, size_, pend, run>>
  BY DEF WriteHeader, memory, history
<1>2. /\ Published \in Nat /\ Published' = Published /\ run \in Nat /\ run > 0
      /\ Published + run <= Len(log)
  <2>1. run > 0 /\ size_ = Len(log)
    BY <1>1 DEF IInv, UpInv, HandlerInv
  <2>2. Published + run <= size_
    BY <1>1, RunGrowsShares
  <2> QED BY <1>1, <2>1, <2>2, UpFacts DEF Published
<1>3. HeaderSum(files) = Published
  BY <1>1, RowsFound DEF InHeader
<1>4. HeaderSum(files)' = Published + run
  BY <1>1, <1>2, RowsFoundNext DEF InHeader
<1>5. Len(log) \in Nat
  BY RowsFound
<1>6. HeaderSum(files)' \in HeaderSum(files) + 1 .. Len(log)
  BY <1>2, <1>3, <1>4, <1>5
<1>7. Abstract!Persist(HeaderSum(files)')
  BY <1>1 DEF Abstract!Persist
<1>8. \E n \in HeaderSum(files) + 1 .. Len(log) : Abstract!Persist(n)
  BY <1>6, <1>7
<1> QED BY <1>1, <1>8 DEF Abstract!Next

\* What a restart finds is the durable prefix of the acknowledged rows.
LEMMA RecoveredIsPrefix ==
  ASSUME IInv
  PROVE  Recovered = SubSeq(log, 1, HeaderSum(files))
<1> DEFINE n == HeaderSum(files)
<1>1. /\ n \in Nat /\ n <= Len(log) /\ Len(log) \in Nat
      /\ \A g \in 0 .. n - 1 : disk[g] = log[g + 1]
  BY RowsFound
<1>2. Recovered = [i \in 1 .. n |-> disk[i - 1]]
  BY DEF Recovered
<1> HIDE DEF n
<1>3. \A i \in 1 .. n : disk[i - 1] = log[i]
  <2>1. ASSUME NEW i \in 1 .. n PROVE disk[i - 1] = log[i]
    <3>1. i - 1 \in 0 .. n - 1 /\ i - 1 + 1 = i
      BY <1>1
    <3> QED BY <1>1, <3>1
  <2> QED BY <2>1
<1>4. Recovered = [i \in 1 .. n |-> log[i]]
  BY <1>2, <1>3
<1>5. SubSeq(log, 1, n) = [i \in 1 .. n |-> log[i]]
  BY <1>1
<1> QED BY <1>4, <1>5 DEF n

\* The end of a process leaves the durable prefix.
LEMMA StopIsEnd ==
  ASSUME IInv, Stop
  PROVE  Abstract!Next
<1>1. mode = "up" /\ mode' # "up" /\ UNCHANGED <<files, header, disk, log>>
  BY DEF Stop, files_
<1>2. HeaderSum(files)' = HeaderSum(files)
  BY <1>1 DEF HeaderSum
<1>3. Recovered' = Recovered
  BY <1>1, <1>2 DEF Recovered
<1>4. Abstract!End
  BY <1>1, <1>2, <1>3, RecoveredIsPrefix DEF Abstract!End
<1> QED BY <1>4 DEF Abstract!Next

\* Truncate cuts the log that was found.
LEMMA TruncateIsCut ==
  ASSUME IInv, IInv', NEW n \in 0 .. MaxRows, Truncate(n)
  PROVE  Abstract!Next
<1>1. /\ mode = "loaded" /\ mode' = "up" /\ n <= size_ /\ size_' = n
      /\ log' = SubSeq(log, 1, n) /\ UNCHANGED writer
  BY DEF Truncate
<1>2. /\ n \in Nat /\ n <= HeaderSum(files) /\ HeaderSum(files) \in Nat
      /\ HeaderSum(files) <= Len(log) /\ Len(log) \in Nat
  BY <1>1, RowsFound
<1>3. HeaderSum(files)' = n
  <2>1. pend = <<>> /\ run = 0 /\ wpc = "pop"
    BY <1>1 DEF IInv, DownInv
  <2>2. Published' = n
    BY <1>1, <1>2, <2>1 DEF Published, writer
  <2> QED BY <1>1, <2>1, <2>2, RowsFoundNext DEF InHeader, writer
<1>4. SubSeq(Recovered, 1, n) = SubSeq(log, 1, n)
  <2> DEFINE d == HeaderSum(files)
  <2> HIDE DEF d
  <2>1. Recovered = SubSeq(log, 1, d)
    BY RecoveredIsPrefix DEF d
  <2>2. SubSeq(log, 1, d) = [i \in 1 .. d |-> log[i]]
    BY <1>2 DEF d
  <2>3. SubSeq(Recovered, 1, n) = [i \in 1 .. n |-> Recovered[i]]
    BY <1>2
  <2>4. SubSeq(log, 1, n) = [i \in 1 .. n |-> log[i]]
    BY <1>2
  <2>5. \A i \in 1 .. n : Recovered[i] = log[i]
    BY <1>2, <2>1, <2>2 DEF d
  <2> QED BY <2>3, <2>4, <2>5
<1>5. Len(Recovered) = HeaderSum(files)
  <2>1. HeaderSum(files) \in Nat
    BY <1>2
  <2> DEFINE d == HeaderSum(files)
  <2> HIDE DEF d
  <2>2. Recovered = [i \in 1 .. d |-> disk[i - 1]] /\ d \in Nat
    BY <2>1 DEF d, Recovered
  <2> QED BY <2>2 DEF d
<1>6. Abstract!Cut(n)
  BY <1>1, <1>3, <1>4 DEF Abstract!Cut
<1>7. n \in 0 .. Len(Recovered)
  BY <1>2, <1>5
<1> QED BY <1>1, <1>6, <1>7 DEF Abstract!Next

\* The storage implements the durable log: a restart finds a prefix of the
\* acknowledged rows, each as it was last acknowledged.
THEOREM DurableLogIsImplemented == ASSUME TableUse PROVE Spec => ImplementsDurableLog
<1>1. Init => Abstract!Init
  <2> SUFFICES ASSUME Init PROVE Abstract!Init
    OBVIOUS
  <2>1. mode = "up" /\ log = <<>> /\ size_ = 0 /\ pend = <<>> /\ wpc = "pop"
    BY DEF Init
  <2>2. HeaderSum(files) = 0
    <3>1. InHeader = 0
      <4>1. Len(pend) = 0
        BY <2>1
      <4>2. Published = size_ - Len(pend) /\ size_ = 0
        BY <2>1 DEF Published
      <4>3. InHeader = Published
        BY <2>1 DEF InHeader
      <4> QED BY <4>1, <4>2, <4>3
    <3>2. HeaderSum(files) = InHeader
      BY <2>1, InitEstablishes, RowsFound
    <3> QED BY <3>1, <3>2
  <2> QED BY <2>1, <2>2 DEF Abstract!Init
<1>2. ASSUME IInv, IInv', [Next]_vars
      PROVE  [Abstract!Next]_(Abstract!vars)
  <2>1. CASE \E v \in Values : Add(v)
    BY <1>2, <2>1, AddIsAppend
  <2>2. CASE \/ \E g \in Ids, v \in Values : UpdateBegin(g, v)
             \/ Sync
             \/ \E r \in Readers, g \in Ids : GetBegin(r, g)
             \/ \E r \in Readers : GetRead(r)
             \/ Pop \/ Collected \/ WriteData \/ Publish \/ Load \/ UNCHANGED vars
    <3>1. UNCHANGED <<files, header, log>> /\ (mode = "up" <=> mode' = "up")
          /\ (mode # "up" => UNCHANGED disk)
      BY <2>2 DEF UpdateBegin, Sync, GetBegin, GetRead, Pop, Collected, WriteData, Publish, Load,
         vars, memory, files_, history
    <3> QED BY <3>1, QuietSteps
  <2>3. CASE UpdateWrite
    BY <1>2, <2>3, UpdateIsReplace
  <2>4. CASE WriteHeader
    BY <1>2, <2>4, HeaderIsPersist
  <2>5. CASE Stop
    BY <1>2, <2>5, StopIsEnd
  <2>6. CASE \E n \in 0 .. MaxRows : Truncate(n)
    BY <1>2, <2>6, TruncateIsCut
  <2> QED BY <1>2, <2>1, <2>2, <2>3, <2>4, <2>5, <2>6 DEF Next, WriterNext
<1> QED BY <1>1, <1>2, InvariantHolds, PTL DEF Spec, ImplementsDurableLog, Abstract!Spec
=============================================================================
