-------------------------- MODULE DocEngineProofs --------------------------
(***************************************************************************)
(* Proofs about DocEngine, for every set of keys and versions and every    *)
(* bound.  The clients send vectors of the right length (LegalVectors):    *)
(* one rejected vector makes rows and vectors drift apart.  What needs the *)
(* counters and bits to agree is proved for clients that neither delete by *)
(* query nor lose a process before a deleted document is durable           *)
(* (SteadyUse): TLC finds both to break it.  Three parts of the engine     *)
(* beside these calls follow: its threads (EngineThreads), the bitmap of   *)
(* deleted documents with its file (GrowingBitmap), and the merge of a     *)
(* search by several vectors (VectorSearch).                               *)
(***************************************************************************)
EXTENDS DocEngine, EngineThreads, GrowingBitmap, VectorSearch, FiniteSetTheorems,
        SequenceTheorems, WellFoundedInduction, TLAPS

LegalVectors == BadVectors = FALSE
SteadyUse == LegalVectors /\ QueryDeletes = FALSE /\ LateDeletes = FALSE

-----------------------------------------------------------------------------
(* The inductive invariant. *)

\* TypeOK but for the bound on delete_num_, which deletes by query may exceed.
Typed ==
  /\ mode \in {"up", "down", "failed"}
  /\ max_docid_ \in 0 .. MaxDocs
  /\ delete_num_ \in Nat
  /\ docids_bitmap_ \subseteq Docids
  /\ item_to_docid_ \in [Keys -> Docids \union {None}]
  /\ rows \in Seq(Doc) /\ rdur \in 0 .. Len(rows)
  /\ vecs \in Seq(Doc) /\ vdur \in 0 .. Len(vecs)
  /\ dumped \in 0 .. MaxDocs /\ indexed \in 0 .. MaxDocs
  /\ is_dirty_ \in BOOLEAN
  /\ call \in {"none", "plain", "words"}
  /\ batch \in Seq(NewDoc) /\ Len(batch) <= MaxBatch
  /\ seen \subseteq Keys
  /\ upd \in Pending \union {<<>>}
  /\ torn \subseteq Docids
  /\ stops \in 0 .. MaxStops

\* The three counters of documents agree, and the bounds have room.
CountersAgree ==
  /\ Len(rows) <= MaxDocs /\ Len(vecs) <= MaxDocs
  /\ mode = "up" => /\ Len(rows) = max_docid_ /\ Len(vecs) = max_docid_
                    /\ max_docid_ + Len(batch) <= MaxDocs
  /\ mode # "up" => item_to_docid_ = [k \in Keys |-> None]

\* The calls in progress: only in a running process, one at a time.
CallsInOrder ==
  /\ mode # "up" => call = "none" /\ upd = <<>>
  /\ call = "none" => batch = <<>> /\ seen = {}

\* The documents collected are new, each once.
BatchIsNew ==
  /\ \A i \in 1 .. Len(batch) :
       batch[i].good /\ batch[i].key \in seen /\ item_to_docid_[batch[i].key] = None
  /\ \A i, j \in 1 .. Len(batch) : batch[i].key = batch[j].key => i = j
  /\ \A k \in seen : item_to_docid_[k] # None \/ \E i \in 1 .. Len(batch) : batch[i].key = k

\* An update works on the document of its key, vector before row.
UpdateIsOwn ==
  upd # <<>> => /\ item_to_docid_[upd.key] = upd.id
                /\ upd.id < max_docid_
                /\ upd.stage = "row" => vecs[upd.id + 1] = Stored(upd)

\* Row and vector of an id are of one version, but for the update in progress
\* and the updates cut off.
PairsMatch ==
  \A id \in Nat : id < Len(rows) /\ id < Len(vecs) =>
    \/ rows[id + 1] = vecs[id + 1]
    \/ id \in torn
    \/ upd # <<>> /\ upd.id = id /\ upd.stage = "row"

\* The rows not deleted have different keys, and the key map knows them.
KeysAreOwn ==
  /\ \A k \in Keys : item_to_docid_[k] # None =>
       item_to_docid_[k] < max_docid_ /\ rows[item_to_docid_[k] + 1].key = k
  /\ \A id \in Nat : mode = "up" /\ id < max_docid_ /\ id \notin docids_bitmap_ =>
       item_to_docid_[rows[id + 1].key] = id
  /\ \A a, b \in Nat : a < Len(rows) /\ b < Len(rows) /\ a \notin docids_bitmap_
       /\ b \notin docids_bitmap_ /\ rows[a + 1].key = rows[b + 1].key => a = b

\* The index is within the vectors.
IndexIsWithin == mode = "up" => indexed <= Len(vecs)

IInv ==
  /\ Typed /\ CountersAgree /\ CallsInOrder /\ BatchIsNew /\ UpdateIsOwn
  /\ PairsMatch /\ KeysAreOwn /\ IndexIsWithin

\* In steady use the bits are those of documents there are, no key leads to a
\* deleted document, and the deletes are counted once each.
BitsAreCounted ==
  /\ mode = "up" => \A id \in docids_bitmap_ : id < max_docid_
  /\ mode # "up" => \A id \in docids_bitmap_ : id < Durable
  /\ \A k \in Keys : item_to_docid_[k] # None => item_to_docid_[k] \notin docids_bitmap_
  /\ mode = "up" => delete_num_ = Cardinality(docids_bitmap_)
  /\ mode # "up" => delete_num_ = 0

-----------------------------------------------------------------------------
(* Inserts. *)

\* The process starts with no documents.
LEMMA InitEstablishes == Init => IInv /\ BitsAreCounted
<1> SUFFICES ASSUME Init PROVE IInv /\ BitsAreCounted
  OBVIOUS
<1> USE DEF Init, RowLog!Init, VecLog!Init
<1>1. Typed
  <2>1. rows \in Seq(Doc) /\ vecs \in Seq(Doc) /\ batch \in Seq(NewDoc)
        /\ Len(rows) = 0 /\ Len(vecs) = 0 /\ Len(batch) = 0
    BY EmptySeq
  <2>2. MaxDocs \in Nat /\ MaxBatch \in Nat /\ MaxStops \in Nat
    BY BoundsAssumption
  <2>3. /\ mode \in {"up", "down", "failed"} /\ is_dirty_ \in BOOLEAN
        /\ call \in {"none", "plain", "words"} /\ upd \in Pending \union {<<>>}
        /\ item_to_docid_ \in [Keys -> Docids \union {None}]
    OBVIOUS
  <2>4. /\ max_docid_ \in 0 .. MaxDocs /\ delete_num_ \in Nat /\ stops \in 0 .. MaxStops
        /\ dumped \in 0 .. MaxDocs /\ indexed \in 0 .. MaxDocs
        /\ docids_bitmap_ \subseteq Docids /\ seen \subseteq Keys /\ torn \subseteq Docids
    BY <2>2
  <2>5. rdur \in 0 .. Len(rows) /\ vdur \in 0 .. Len(vecs) /\ Len(batch) <= MaxBatch
    BY <2>1, <2>2
  <2> QED BY <2>1, <2>3, <2>4, <2>5 DEF Typed
<1>2. CountersAgree /\ CallsInOrder /\ BatchIsNew /\ UpdateIsOwn
  BY BoundsAssumption DEF CountersAgree, CallsInOrder, BatchIsNew, UpdateIsOwn
<1>3. PairsMatch /\ KeysAreOwn /\ IndexIsWithin
  BY DEF PairsMatch, KeysAreOwn, IndexIsWithin
<1>4. BitsAreCounted
  BY FS_EmptySet DEF BitsAreCounted
<1> QED BY <1>1, <1>2, <1>3, <1>4 DEF IInv

\* When every vector is legal, none is left out (VectorManager::AddToStore).
LEMMA AllWithVector ==
  ASSUME NEW docs \in Seq(NewDoc), \A i \in 1 .. Len(docs) : docs[i].good
  PROVE  WithVector(docs) = docs
<1> DEFINE n == Len(docs)
           good == {i \in DOMAIN docs : docs[i].good}
<1>1. n \in Nat /\ DOMAIN docs = 1 .. n /\ good = 1 .. n
  OBVIOUS
<1> HIDE DEF good
<1>0. ASSUME NEW i \in Nat PROVE Cardinality(1 .. i) = i
  <2>1. Cardinality(1 .. i) = IF 1 > i THEN 0 ELSE i - 1 + 1
    BY FS_Interval
  <2> QED BY <2>1
<1>2. Cardinality(good) = n
  BY <1>0, <1>1
<1>3. ASSUME NEW i \in 1 .. n
      PROVE  Cardinality({h \in good : h <= i}) = i
  <2>1. {h \in good : h <= i} = 1 .. i
    BY <1>1
  <2>2. Cardinality(1 .. i) = i
    BY <1>0, <1>1
  <2> QED BY <2>1, <2>2
<1>4. ASSUME NEW j \in 1 .. n
      PROVE  (CHOOSE i \in good : Cardinality({h \in good : h <= i}) = j) = j
  BY <1>1, <1>3
<1>5. WithVector(docs) = [j \in 1 .. n |-> docs[j]]
  <2>1. WithVector(docs) = [j \in 1 .. Cardinality(good) |->
           docs[CHOOSE i \in good : Cardinality({h \in good : h <= i}) = j]]
    BY DEF WithVector, good
  <2> QED BY <1>1, <1>2, <1>4, <2>1
<1> QED BY <1>1, <1>5

\* A sequence behind another: each keeps its order.
LEMMA OneBehind ==
  ASSUME NEW S, NEW s \in Seq(S), NEW t \in Seq(S)
  PROVE  /\ s \o t \in Seq(S) /\ Len(s \o t) = Len(s) + Len(t)
         /\ \A i \in 1 .. Len(s) + Len(t) :
              (s \o t)[i] = IF i <= Len(s) THEN s[i] ELSE t[i - Len(s)]
  BY ConcatProperties

\* Insert of new documents with different keys and legal vectors: row, vector
\* and key of each get the same id, the next free ones in turn.
LEMMA InsertedTogether ==
  ASSUME Typed, CountersAgree, mode = "up",
         NEW docs \in Seq(NewDoc), \A i \in 1 .. Len(docs) : docs[i].good,
         \A i, j \in 1 .. Len(docs) : docs[i].key = docs[j].key => i = j,
         max_docid_ + Len(docs) <= MaxDocs,
         Insert(docs, Len(docs))
  PROVE  /\ rows' \in Seq(Doc) /\ vecs' \in Seq(Doc)
         /\ max_docid_' = max_docid_ + Len(docs)
         /\ Len(rows') = max_docid_' /\ Len(vecs') = max_docid_'
         /\ \A id \in Nat : id < max_docid_ =>
              rows'[id + 1] = rows[id + 1] /\ vecs'[id + 1] = vecs[id + 1]
         /\ \A i \in 1 .. Len(docs) :
              /\ rows'[max_docid_ + i] = Stored(docs[i])
              /\ vecs'[max_docid_ + i] = Stored(docs[i])
              /\ item_to_docid_'[docs[i].key] = max_docid_ + i - 1
         /\ \A k \in Keys : (\A i \in 1 .. Len(docs) : docs[i].key # k) =>
              item_to_docid_'[k] = item_to_docid_[k]
         /\ item_to_docid_' \in [Keys -> Docids \union {None}]
<1> DEFINE n == Len(docs)
           new == [i \in DOMAIN docs |-> Stored(docs[i])]
<1>1. n \in Nat /\ DOMAIN docs = 1 .. n /\ max_docid_ \in Nat
      /\ Len(rows) = max_docid_ /\ Len(vecs) = max_docid_
      /\ rows \in Seq(Doc) /\ vecs \in Seq(Doc) /\ MaxDocs \in Nat
  BY BoundsAssumption DEF Typed, CountersAgree
<1>2. new \in Seq(Doc) /\ Len(new) = n
  <2>1. \A i \in 1 .. n : Stored(docs[i]) \in Doc
    <3>1. \A i \in 1 .. n : docs[i] \in NewDoc
      OBVIOUS
    <3> QED BY <3>1 DEF Stored, Doc, NewDoc
  <2> QED BY <1>1, <2>1
<1>3. rows' = rows \o new /\ vecs' = vecs \o new /\ max_docid_' = max_docid_ + n
  BY AllWithVector DEF Insert
<1>4. /\ rows' \in Seq(Doc) /\ vecs' \in Seq(Doc)
      /\ Len(rows') = max_docid_ + n /\ Len(vecs') = max_docid_ + n
      /\ \A id \in Nat : id < max_docid_ =>
           rows'[id + 1] = rows[id + 1] /\ vecs'[id + 1] = vecs[id + 1]
      /\ \A i \in 1 .. n : rows'[max_docid_ + i] = new[i] /\ vecs'[max_docid_ + i] = new[i]
  <2> HIDE DEF new
  <2>1. /\ rows' \in Seq(Doc) /\ vecs' \in Seq(Doc)
        /\ Len(rows') = max_docid_ + n /\ Len(vecs') = max_docid_ + n
        /\ \A i \in 1 .. max_docid_ + n :
             /\ rows'[i] = IF i <= max_docid_ THEN rows[i] ELSE new[i - max_docid_]
             /\ vecs'[i] = IF i <= max_docid_ THEN vecs[i] ELSE new[i - max_docid_]
    <3>1. /\ rows \o new \in Seq(Doc) /\ Len(rows \o new) = Len(rows) + Len(new)
          /\ \A i \in 1 .. Len(rows) + Len(new) :
               (rows \o new)[i] = IF i <= Len(rows) THEN rows[i] ELSE new[i - Len(rows)]
      <4>1. new \in Seq(Doc) /\ rows \in Seq(Doc)
        BY <1>1, <1>2
      <4> QED BY <4>1, OneBehind
    <3>2. /\ vecs \o new \in Seq(Doc) /\ Len(vecs \o new) = Len(vecs) + Len(new)
          /\ \A i \in 1 .. Len(vecs) + Len(new) :
               (vecs \o new)[i] = IF i <= Len(vecs) THEN vecs[i] ELSE new[i - Len(vecs)]
      <4>1. new \in Seq(Doc) /\ vecs \in Seq(Doc)
        BY <1>1, <1>2
      <4> QED BY <4>1, OneBehind
    <3> QED BY <1>1, <1>2, <1>3, <3>1, <3>2
  <2>2. Len(rows) = max_docid_ /\ Len(vecs) = max_docid_ /\ max_docid_ \in Nat /\ n \in Nat
    BY <1>1
  <2>3. ASSUME NEW id \in Nat, id < max_docid_
        PROVE  rows'[id + 1] = rows[id + 1] /\ vecs'[id + 1] = vecs[id + 1]
    <3>1. id + 1 \in 1 .. max_docid_ + n /\ id + 1 <= max_docid_
      BY <2>2, <2>3
    <3> QED BY <2>1, <3>1
  <2>4. ASSUME NEW i \in 1 .. n
        PROVE  rows'[max_docid_ + i] = new[i] /\ vecs'[max_docid_ + i] = new[i]
    <3>1. PICK at : at = max_docid_ + i
      OBVIOUS
    <3>2. at \in 1 .. max_docid_ + n /\ ~(at <= max_docid_) /\ at - max_docid_ = i
      BY <2>2, <3>1
    <3>3. rows'[at] = new[at - max_docid_] /\ vecs'[at] = new[at - max_docid_]
      BY <2>1, <3>2
    <3> QED BY <3>1, <3>2, <3>3
  <2> QED BY <2>1, <2>3, <2>4
<1>5. item_to_docid_' = [k \in Keys |->
         IF \E i \in 1 .. n : docs[i].key = k
         THEN max_docid_ + (CHOOSE i \in 1 .. n : docs[i].key = k) - 1
         ELSE item_to_docid_[k]]
  BY <1>1 DEF Insert
<1>6. ASSUME NEW i \in 1 .. n
      PROVE  docs[i].key \in Keys /\ item_to_docid_'[docs[i].key] = max_docid_ + i - 1
  <2>1. docs[i].key \in Keys
    <3>1. docs[i] \in NewDoc
      OBVIOUS
    <3> QED BY <3>1 DEF NewDoc
  <2>2. (CHOOSE j \in 1 .. n : docs[j].key = docs[i].key) = i
    OBVIOUS
  <2> QED BY <1>5, <2>1, <2>2
<1>7. ASSUME NEW k \in Keys, \A i \in 1 .. n : docs[i].key # k
      PROVE  item_to_docid_'[k] = item_to_docid_[k]
  BY <1>5, <1>7
<1>8. item_to_docid_' \in [Keys -> Docids \union {None}]
  <2>1. ASSUME NEW k \in Keys PROVE item_to_docid_'[k] \in Docids \union {None}
    <3>1. CASE \E i \in 1 .. n : docs[i].key = k
      <4>1. PICK i \in 1 .. n : docs[i].key = k
        BY <3>1
      <4>2. max_docid_ + i - 1 \in Docids
        BY <1>1 DEF Docids
      <4> QED BY <1>6, <4>1, <4>2
    <3>2. CASE \A i \in 1 .. n : docs[i].key # k
      BY <1>7, <3>2 DEF Typed
    <3> QED BY <3>1, <3>2
  <2> QED BY <1>5, <2>1
<1> QED BY <1>1, <1>3, <1>4, <1>6, <1>7, <1>8

\* Such an insert keeps what relates rows, vectors and keys.
LEMMA InsertKeeps ==
  ASSUME IInv, mode = "up", mode' = "up", upd = <<>>,
         NEW docs \in Seq(NewDoc),
         \A i \in 1 .. Len(docs) : docs[i].good /\ item_to_docid_[docs[i].key] = None,
         \A i, j \in 1 .. Len(docs) : docs[i].key = docs[j].key => i = j,
         max_docid_ + Len(docs) <= MaxDocs,
         Insert(docs, Len(docs)), torn' = torn, indexed' = indexed
  PROVE  PairsMatch' /\ KeysAreOwn' /\ IndexIsWithin'
<1> DEFINE n == Len(docs)
<1>1. /\ max_docid_ \in Nat /\ Len(rows) = max_docid_ /\ Len(vecs) = max_docid_
      /\ n \in Nat /\ docids_bitmap_' = docids_bitmap_
      /\ item_to_docid_ \in [Keys -> Docids \union {None}]
      /\ indexed \in Nat /\ \A i \in 1 .. n : docs[i].key \in Keys
      /\ \A id \in Nat : id < max_docid_ => rows[id + 1].key \in Keys
  <2>1. \A id \in Nat : id < Len(rows) => rows[id + 1] \in Doc
    BY DEF IInv, Typed
  <2>2. \A i \in 1 .. n : docs[i] \in NewDoc
    OBVIOUS
  <2>3. \A i \in 1 .. n : docs[i].key \in Keys
    BY <2>2 DEF NewDoc
  <2>4. \A id \in Nat : id < Len(rows) => rows[id + 1].key \in Keys
    BY <2>1 DEF Doc
  <2>5. /\ max_docid_ \in Nat /\ indexed \in Nat
        /\ item_to_docid_ \in [Keys -> Docids \union {None}]
    BY BoundsAssumption DEF IInv, Typed
  <2>6. docids_bitmap_' = docids_bitmap_ /\ n \in Nat
    BY DEF Insert
  <2>7. Len(rows) = max_docid_ /\ Len(vecs) = max_docid_
    BY DEF IInv, CountersAgree
  <2> QED BY <2>3, <2>4, <2>5, <2>6, <2>7
<1>2. /\ rows' \in Seq(Doc) /\ vecs' \in Seq(Doc)
      /\ max_docid_' = max_docid_ + n
      /\ Len(rows') = max_docid_ + n /\ Len(vecs') = max_docid_ + n
      /\ \A id \in Nat : id < max_docid_ =>
           rows'[id + 1] = rows[id + 1] /\ vecs'[id + 1] = vecs[id + 1]
      /\ \A i \in 1 .. n :
           /\ rows'[max_docid_ + i] = Stored(docs[i])
           /\ vecs'[max_docid_ + i] = Stored(docs[i])
           /\ item_to_docid_'[docs[i].key] = max_docid_ + i - 1
      /\ \A k \in Keys : (\A i \in 1 .. n : docs[i].key # k) =>
           item_to_docid_'[k] = item_to_docid_[k]
      /\ item_to_docid_' \in [Keys -> Docids \union {None}]
  BY InsertedTogether DEF IInv
<1>3. ASSUME NEW id \in Nat, id < max_docid_ + n, ~ id < max_docid_
      PROVE  /\ id - max_docid_ + 1 \in 1 .. n
             /\ rows'[id + 1] = Stored(docs[id - max_docid_ + 1])
             /\ vecs'[id + 1] = Stored(docs[id - max_docid_ + 1])
             /\ item_to_docid_'[docs[id - max_docid_ + 1].key] = id
             /\ rows'[id + 1].key = docs[id - max_docid_ + 1].key
  <2>1. id - max_docid_ + 1 \in 1 .. n
        /\ max_docid_ + (id - max_docid_ + 1) = id + 1
        /\ max_docid_ + (id - max_docid_ + 1) - 1 = id
    BY <1>1, <1>3
  <2> QED BY <1>2, <2>1 DEF Stored
<1>4. PairsMatch'
  BY <1>1, <1>2, <1>3 DEF PairsMatch, IInv
<1>5. ASSUME NEW k \in Keys, item_to_docid_'[k] # None
      PROVE  item_to_docid_'[k] < max_docid_' /\ rows'[item_to_docid_'[k] + 1].key = k
  <2>1. CASE \E i \in 1 .. n : docs[i].key = k
    <3>1. PICK i \in 1 .. n : docs[i].key = k
      BY <2>1
    <3>2. item_to_docid_'[k] = max_docid_ + i - 1
      BY <1>2, <3>1
    <3>3. rows'[max_docid_ + i - 1 + 1] = Stored(docs[i])
      <4>1. max_docid_ + i - 1 + 1 = max_docid_ + i
        BY <1>1
      <4> QED BY <1>2, <4>1
    <3> QED BY <1>1, <1>2, <3>1, <3>2, <3>3 DEF Stored
  <2>2. CASE \A i \in 1 .. n : docs[i].key # k
    <3>1. item_to_docid_'[k] = item_to_docid_[k]
      BY <1>2, <2>2
    <3>2. item_to_docid_[k] \in Nat /\ item_to_docid_[k] < max_docid_
          /\ rows[item_to_docid_[k] + 1].key = k
      BY <1>1, <1>5, <3>1 DEF IInv, KeysAreOwn, Docids
    <3> QED BY <1>1, <1>2, <3>1, <3>2
  <2> QED BY <2>1, <2>2
<1>6. ASSUME NEW id \in Nat, id < max_docid_', id \notin docids_bitmap_
      PROVE  item_to_docid_'[rows'[id + 1].key] = id
  <2>1. CASE id < max_docid_
    <3>1. item_to_docid_[rows[id + 1].key] = id /\ rows[id + 1].key \in Keys
      BY <1>1, <1>6, <2>1 DEF IInv, KeysAreOwn
    <3>2. \A i \in 1 .. n : docs[i].key # rows[id + 1].key
      BY <3>1, NoneAssumption
    <3> QED BY <1>2, <2>1, <3>1, <3>2
  <2>2. CASE ~ id < max_docid_
    BY <1>2, <1>3, <1>6, <2>2
  <2> QED BY <2>1, <2>2
<1>7. KeysAreOwn'
  <2>1. ASSUME NEW a \in Nat, NEW b \in Nat, a < Len(rows'), b < Len(rows'),
               a \notin docids_bitmap_, b \notin docids_bitmap_,
               rows'[a + 1].key = rows'[b + 1].key
        PROVE  a = b
    BY <1>2, <1>6, <2>1
  <2> QED BY <1>1, <1>5, <1>6, <2>1 DEF KeysAreOwn
<1>8. IndexIsWithin'
  BY <1>1, <1>2 DEF IndexIsWithin, IInv
<1> QED BY <1>4, <1>7, <1>8

\* The bounds of the model are numbers.
LEMMA Bounds == MaxDocs \in Nat /\ MaxBatch \in Nat /\ MaxStops \in Nat
BY BoundsAssumption

\* What the inductive invariant says of the sequences.
LEMMA Shapes ==
  ASSUME IInv
  PROVE  /\ \A id \in Nat : id < Len(rows) => rows[id + 1] \in Doc /\ rows[id + 1].key \in Keys
         /\ \A id \in Nat : id < Len(vecs) => vecs[id + 1] \in Doc
         /\ \A i \in 1 .. Len(batch) : batch[i] \in NewDoc /\ batch[i].key \in Keys
         /\ Len(rows) \in Nat /\ Len(vecs) \in Nat /\ Len(batch) \in Nat
         /\ max_docid_ \in Nat /\ rdur \in Nat /\ vdur \in Nat /\ indexed \in Nat
         /\ \A k \in Keys : item_to_docid_[k] # None =>
              item_to_docid_[k] \in Docids /\ item_to_docid_[k] \in Nat
         /\ upd # <<>> => upd \in Pending /\ upd.key \in Keys /\ upd.id \in Nat
<1>1. rows \in Seq(Doc) /\ vecs \in Seq(Doc) /\ batch \in Seq(NewDoc)
  BY DEF IInv, Typed
<1>2. \A id \in Nat : id < Len(rows) => rows[id + 1] \in Doc
  BY <1>1
<1>3. \A id \in Nat : id < Len(vecs) => vecs[id + 1] \in Doc
  BY <1>1
<1>4. \A i \in 1 .. Len(batch) : batch[i] \in NewDoc
  BY <1>1
<1>5. \A i \in 1 .. Len(batch) : batch[i].key \in Keys
  BY <1>4 DEF NewDoc
<1>6. \A id \in Nat : id < Len(rows) => rows[id + 1].key \in Keys
  BY <1>2 DEF Doc
<1>7. /\ Len(rows) \in Nat /\ Len(vecs) \in Nat /\ Len(batch) \in Nat
      /\ max_docid_ \in Nat /\ rdur \in Nat /\ vdur \in Nat /\ indexed \in Nat
  BY <1>1, Bounds DEF IInv, Typed
<1>8. \A k \in Keys : item_to_docid_[k] # None =>
        item_to_docid_[k] \in Docids /\ item_to_docid_[k] \in Nat
  BY Bounds DEF IInv, Typed, Docids
<1>9. upd # <<>> => upd \in Pending /\ upd.key \in Keys /\ upd.id \in Nat
  <2> SUFFICES ASSUME upd # <<>> PROVE upd \in Pending /\ upd.key \in Keys /\ upd.id \in Nat
    OBVIOUS
  <2>1. upd \in Pending
    BY DEF IInv, Typed
  <2> QED BY <2>1, Bounds DEF Pending, Docids
<1> QED BY <1>2, <1>3, <1>4, <1>5, <1>6, <1>7, <1>8, <1>9

-----------------------------------------------------------------------------
(* Steps of the API thread. *)

\* AddOrUpdate of a document with an unknown key.
LEMMA NewDocKeeps ==
  ASSUME IInv, LegalVectors, NEW d \in Inserts, AddOrUpdateNew(d)
  PROVE  IInv'
<1> DEFINE docs == <<d>>
<1>1. d \in NewDoc /\ d.good = TRUE
  BY DEF Inserts, LegalVectors, NewDoc
<1>2. /\ mode = "up" /\ mode' = "up" /\ call = "none" /\ upd = <<>> /\ batch = <<>> /\ seen = {}
      /\ item_to_docid_[d.key] = None /\ max_docid_ + 1 <= MaxDocs
  BY Shapes, Bounds DEF AddOrUpdateNew, Idle, IInv, CallsInOrder, CountersAgree
<1>3. /\ docs \in Seq(NewDoc) /\ Len(docs) = 1 /\ docs[1] = d
      /\ \A i \in 1 .. Len(docs) : docs[i].good /\ item_to_docid_[docs[i].key] = None
      /\ \A i, j \in 1 .. Len(docs) : docs[i].key = docs[j].key => i = j
  BY <1>1, <1>2
<1>4. Insert(docs, Len(docs))
  BY <1>1, <1>3 DEF AddOrUpdateNew
<1>5. UNCHANGED <<index, request, torn, stops>> /\ is_dirty_' = TRUE
  BY <1>1 DEF AddOrUpdateNew
<1> HIDE DEF docs
<1>6. /\ rows' \in Seq(Doc) /\ vecs' \in Seq(Doc)
      /\ max_docid_' = max_docid_ + 1
      /\ Len(rows') = max_docid_' /\ Len(vecs') = max_docid_'
      /\ item_to_docid_' \in [Keys -> Docids \union {None}]
  BY <1>2, <1>3, <1>4, InsertedTogether DEF IInv
<1>7. PairsMatch' /\ KeysAreOwn' /\ IndexIsWithin'
  BY <1>2, <1>3, <1>4, <1>5, InsertKeeps DEF index
<1>8. delete_num_' = delete_num_ /\ docids_bitmap_' = docids_bitmap_ /\ rdur' = rdur /\ vdur' = vdur
  BY <1>4 DEF Insert
<1>9. /\ rdur' \in 0 .. Len(rows') /\ vdur' \in 0 .. Len(vecs') /\ max_docid_' \in 0 .. MaxDocs
  BY <1>2, <1>6, <1>8, Shapes, Bounds DEF IInv, Typed, CountersAgree
<1>10. Typed'
  BY <1>2, <1>5, <1>6, <1>8, <1>9 DEF IInv, Typed, index, request
<1>11. CountersAgree' /\ CallsInOrder'
  BY <1>2, <1>5, <1>6, Shapes DEF CountersAgree, CallsInOrder, request
<1>12. BatchIsNew' /\ UpdateIsOwn'
  BY <1>2, <1>5 DEF BatchIsNew, UpdateIsOwn, request
<1> QED BY <1>7, <1>10, <1>11, <1>12 DEF IInv

\* The batch goes to the storages, at a document with a known key or at the
\* end of the call (what both do in common).
LEMMA FlushKeeps ==
  ASSUME IInv, mode = "up", mode' = "up", upd = <<>>, Insert(batch, Len(batch)),
         UNCHANGED <<index, torn, stops>>
  PROVE  /\ rows' \in Seq(Doc) /\ vecs' \in Seq(Doc)
         /\ max_docid_' \in 0 .. MaxDocs
         /\ Len(rows') = max_docid_' /\ Len(vecs') = max_docid_'
         /\ rdur' \in 0 .. Len(rows') /\ vdur' \in 0 .. Len(vecs')
         /\ item_to_docid_' \in [Keys -> Docids \union {None}]
         /\ PairsMatch' /\ KeysAreOwn' /\ IndexIsWithin'
         /\ \A k \in seen : item_to_docid_'[k] # None
         /\ \A k \in Keys : item_to_docid_[k] # None => item_to_docid_'[k] = item_to_docid_[k]
<1>1. /\ batch \in Seq(NewDoc) /\ max_docid_ + Len(batch) <= MaxDocs
      /\ \A i \in 1 .. Len(batch) : batch[i].good /\ item_to_docid_[batch[i].key] = None
      /\ \A i, j \in 1 .. Len(batch) : batch[i].key = batch[j].key => i = j
      /\ seen \subseteq Keys
  BY DEF IInv, Typed, CountersAgree, BatchIsNew
<1>2. /\ rows' \in Seq(Doc) /\ vecs' \in Seq(Doc)
      /\ max_docid_' = max_docid_ + Len(batch)
      /\ Len(rows') = max_docid_' /\ Len(vecs') = max_docid_'
      /\ item_to_docid_' \in [Keys -> Docids \union {None}]
      /\ \A i \in 1 .. Len(batch) : item_to_docid_'[batch[i].key] = max_docid_ + i - 1
      /\ \A k \in Keys : (\A i \in 1 .. Len(batch) : batch[i].key # k) =>
           item_to_docid_'[k] = item_to_docid_[k]
  BY <1>1, InsertedTogether DEF IInv
<1>3. PairsMatch' /\ KeysAreOwn' /\ IndexIsWithin'
  BY <1>1, InsertKeeps DEF index
<1>4. rdur' = rdur /\ vdur' = vdur
  BY DEF Insert
<1>5. rdur' \in 0 .. Len(rows') /\ vdur' \in 0 .. Len(vecs') /\ max_docid_' \in 0 .. MaxDocs
  BY <1>1, <1>2, <1>4, Shapes, Bounds DEF IInv, Typed, CountersAgree
<1>6. ASSUME NEW k \in Keys, item_to_docid_[k] # None
      PROVE  item_to_docid_'[k] = item_to_docid_[k]
  BY <1>1, <1>2, <1>6
<1>7. ASSUME NEW k \in seen PROVE item_to_docid_'[k] # None
  <2>1. k \in Keys /\ (item_to_docid_[k] # None \/ \E i \in 1 .. Len(batch) : batch[i].key = k)
    BY <1>1 DEF IInv, BatchIsNew
  <2>2. CASE item_to_docid_[k] # None
    BY <1>6, <2>1, <2>2
  <2>3. CASE \E i \in 1 .. Len(batch) : batch[i].key = k
    <3>1. PICK i \in 1 .. Len(batch) : batch[i].key = k
      BY <2>3
    <3>2. item_to_docid_'[k] = max_docid_ + i - 1 /\ max_docid_ + i - 1 \in Nat
      <4>1. max_docid_ \in Nat /\ i \in Nat /\ i >= 1
        BY <1>2, <3>1, Shapes
      <4>2. item_to_docid_'[k] = max_docid_ + i - 1
        BY <1>2, <3>1
      <4> QED BY <4>1, <4>2
    <3> QED BY <3>2, NoneAssumption
  <2> QED BY <2>1, <2>2, <2>3
<1> QED BY <1>2, <1>3, <1>5, <1>6, <1>7

\* A document with a known key: the batch is added, then its update begins.
LEMMA FlushAndUpdateKeeps ==
  ASSUME IInv, NEW d \in NewDoc, FlushAndUpdate(d)
  PROVE  IInv'
<1>1. /\ mode = "up" /\ mode' = "up" /\ upd = <<>> /\ call # "none" /\ call' = call
      /\ Insert(batch, Len(batch)) /\ UNCHANGED <<index, torn, stops, is_dirty_>>
      /\ batch' = <<>> /\ seen' = seen \union {d.key}
      /\ (item_to_docid_[d.key] # None \/ d.key \in seen)
      /\ upd' = [id |-> item_to_docid_'[d.key], key |-> d.key, ver |-> d.ver,
                 good |-> d.good, stage |-> "vector"]
  BY DEF FlushAndUpdate, BeginUpdate
<1>2. /\ rows' \in Seq(Doc) /\ vecs' \in Seq(Doc)
      /\ max_docid_' \in 0 .. MaxDocs
      /\ Len(rows') = max_docid_' /\ Len(vecs') = max_docid_'
      /\ rdur' \in 0 .. Len(rows') /\ vdur' \in 0 .. Len(vecs')
      /\ item_to_docid_' \in [Keys -> Docids \union {None}]
      /\ PairsMatch' /\ KeysAreOwn' /\ IndexIsWithin'
      /\ \A k \in seen : item_to_docid_'[k] # None
      /\ \A k \in Keys : item_to_docid_[k] # None => item_to_docid_'[k] = item_to_docid_[k]
  BY <1>1, FlushKeeps
<1>3. d.key \in Keys /\ d.ver \in Versions /\ d.good \in BOOLEAN
  BY DEF NewDoc
<1>4. item_to_docid_'[d.key] # None
  BY <1>1, <1>2, <1>3
<1>5. item_to_docid_'[d.key] \in Docids /\ item_to_docid_'[d.key] < max_docid_'
  BY <1>2, <1>3, <1>4 DEF KeysAreOwn
<1>6. upd' \in Pending
  BY <1>1, <1>3, <1>5 DEF Pending
<1>7. UpdateIsOwn'
  BY <1>1, <1>5 DEF UpdateIsOwn
<1>8. delete_num_' = delete_num_ /\ docids_bitmap_' = docids_bitmap_
  BY <1>1 DEF Insert
<1>9. batch' \in Seq(NewDoc) /\ Len(batch') = 0
  BY <1>1
<1>10. Typed'
  BY <1>1, <1>2, <1>3, <1>6, <1>8, <1>9, Bounds DEF IInv, Typed, index
<1>11. CountersAgree' /\ CallsInOrder'
  BY <1>1, <1>2, <1>9, Bounds DEF CountersAgree, CallsInOrder
<1>12. BatchIsNew'
  BY <1>1, <1>2, <1>4, <1>9 DEF BatchIsNew
<1> QED BY <1>2, <1>7, <1>10, <1>11, <1>12 DEF IInv

\* The call ends with the rest of the batch.
LEMMA EndDocsKeeps ==
  ASSUME IInv, EndDocs
  PROVE  IInv'
<1>1. /\ mode = "up" /\ mode' = "up" /\ upd = <<>> /\ upd' = <<>> /\ call' = "none"
      /\ Insert(batch, Len(batch)) /\ UNCHANGED <<index, torn, stops>>
      /\ batch' = <<>> /\ seen' = {} /\ is_dirty_' = TRUE
  BY DEF EndDocs
<1>2. /\ rows' \in Seq(Doc) /\ vecs' \in Seq(Doc)
      /\ max_docid_' \in 0 .. MaxDocs
      /\ Len(rows') = max_docid_' /\ Len(vecs') = max_docid_'
      /\ rdur' \in 0 .. Len(rows') /\ vdur' \in 0 .. Len(vecs')
      /\ item_to_docid_' \in [Keys -> Docids \union {None}]
      /\ PairsMatch' /\ KeysAreOwn' /\ IndexIsWithin'
  BY <1>1, FlushKeeps
<1>3. delete_num_' = delete_num_ /\ docids_bitmap_' = docids_bitmap_
  BY <1>1 DEF Insert
<1>4. batch' \in Seq(NewDoc) /\ Len(batch') = 0
  BY <1>1
<1>5. Typed'
  BY <1>1, <1>2, <1>3, <1>4, Bounds DEF IInv, Typed, index
<1>6. CountersAgree' /\ CallsInOrder' /\ BatchIsNew' /\ UpdateIsOwn'
  BY <1>1, <1>2, <1>4, Bounds DEF CountersAgree, CallsInOrder, BatchIsNew, UpdateIsOwn
<1> QED BY <1>2, <1>5, <1>6 DEF IInv

\* A document with a new key joins the batch.
LEMMA CollectKeeps ==
  ASSUME IInv, LegalVectors, NEW d \in Inserts, Collect(d)
  PROVE  IInv'
<1>1. d \in NewDoc /\ d.good = TRUE /\ d.key \in Keys
  BY DEF Inserts, LegalVectors, NewDoc
<1>2. /\ mode = "up" /\ call # "none" /\ upd = <<>>
      /\ item_to_docid_[d.key] = None /\ d.key \notin seen
      /\ Len(batch) < MaxBatch /\ Len(rows) + Len(batch) < MaxDocs
      /\ batch' = Append(batch, d) /\ seen' = seen \union {d.key}
      /\ UNCHANGED <<mode, ids, storages, index, is_dirty_, call, upd, torn, stops>>
  BY DEF Collect
<1>3. /\ batch \in Seq(NewDoc) /\ batch' \in Seq(NewDoc) /\ Len(batch') = Len(batch) + 1
      /\ \A i \in 1 .. Len(batch) : batch'[i] = batch[i]
      /\ batch'[Len(batch) + 1] = d /\ Len(batch) \in Nat
  BY <1>1, <1>2, AppendProperties DEF IInv, Typed
<1>4. Typed'
  BY <1>1, <1>2, <1>3, Bounds DEF IInv, Typed, ids, storages, index
<1>5. CountersAgree' /\ CallsInOrder' /\ UpdateIsOwn' /\ PairsMatch' /\ KeysAreOwn' /\ IndexIsWithin'
  <2>1. CountersAgree' /\ CallsInOrder' /\ UpdateIsOwn'
    BY <1>2, <1>3, Shapes, Bounds DEF IInv, CountersAgree, CallsInOrder, UpdateIsOwn, ids,
       storages, index
  <2>2. PairsMatch' /\ KeysAreOwn' /\ IndexIsWithin'
    BY <1>2 DEF IInv, PairsMatch, KeysAreOwn, IndexIsWithin, ids, storages, index
  <2> QED
    BY <2>1, <2>2
<1>6. BatchIsNew'
  <2>1. \A i \in 1 .. Len(batch) : batch[i].key \in seen
    BY DEF IInv, BatchIsNew
  <2>2. \A i \in 1 .. Len(batch') :
          batch'[i].good /\ batch'[i].key \in seen' /\ item_to_docid_'[batch'[i].key] = None
    BY <1>1, <1>2, <1>3 DEF IInv, BatchIsNew, ids
  <2>3. \A i, j \in 1 .. Len(batch') : batch'[i].key = batch'[j].key => i = j
    BY <1>2, <1>3, <2>1 DEF IInv, BatchIsNew
  <2>4. ASSUME NEW k \in seen'
        PROVE  item_to_docid_'[k] # None \/ \E i \in 1 .. Len(batch') : batch'[i].key = k
    <3>1. CASE k = d.key
      BY <1>3, <3>1
    <3>2. CASE k \in seen
      BY <1>2, <1>3, <3>2 DEF IInv, BatchIsNew, ids
    <3> QED BY <1>2, <3>1, <3>2
  <2> QED BY <2>2, <2>3, <2>4 DEF BatchIsNew
<1> QED BY <1>4, <1>5, <1>6 DEF IInv

\* An update begins; a batch call begins.
LEMMA BeginKeeps ==
  ASSUME IInv, \/ \E d \in NewDoc : AddOrUpdateKnown(d)
               \/ \E kind \in {"plain", "words"} : BeginDocs(kind)
  PROVE  IInv'
<1>1. ASSUME NEW d \in NewDoc, AddOrUpdateKnown(d) PROVE IInv'
  <2>1. d.key \in Keys /\ d.ver \in Versions /\ d.good \in BOOLEAN
    BY DEF NewDoc
  <2>2. /\ mode = "up" /\ call = "none" /\ upd = <<>> /\ item_to_docid_[d.key] # None
        /\ upd' = [id |-> item_to_docid_[d.key], key |-> d.key, ver |-> d.ver,
                   good |-> d.good, stage |-> "vector"]
        /\ UNCHANGED <<mode, ids, storages, index, is_dirty_, call, batch, seen, torn, stops>>
    BY <1>1 DEF AddOrUpdateKnown, BeginUpdate, Idle
  <2>3. item_to_docid_[d.key] \in Docids /\ item_to_docid_[d.key] < max_docid_
    BY <2>1, <2>2, Shapes DEF IInv, KeysAreOwn
  <2>4. upd' \in Pending
    BY <2>1, <2>2, <2>3 DEF Pending
  <2>5. Typed'
    BY <2>2, <2>4 DEF IInv, Typed, ids, storages, index
  <2>6. UpdateIsOwn'
    BY <2>2, <2>3 DEF UpdateIsOwn, ids
  <2>7. CountersAgree' /\ CallsInOrder' /\ BatchIsNew' /\ PairsMatch' /\ KeysAreOwn' /\ IndexIsWithin'
    BY <2>2 DEF IInv, CountersAgree, CallsInOrder, BatchIsNew, PairsMatch, KeysAreOwn,
       IndexIsWithin, ids, storages, index
  <2> QED BY <2>5, <2>6, <2>7 DEF IInv
<1>2. ASSUME NEW kind \in {"plain", "words"}, BeginDocs(kind) PROVE IInv'
  <2>1. /\ mode = "up" /\ upd = <<>> /\ call' = kind
        /\ UNCHANGED <<mode, ids, storages, index, is_dirty_, batch, seen, upd, torn, stops>>
    BY <1>2 DEF BeginDocs, Idle
  <2>2. Typed'
    BY <2>1 DEF IInv, Typed, ids, storages, index
  <2>3. CountersAgree' /\ CallsInOrder' /\ BatchIsNew' /\ UpdateIsOwn' /\ PairsMatch' /\ KeysAreOwn'
        /\ IndexIsWithin'
    BY <2>1 DEF IInv, CountersAgree, CallsInOrder, BatchIsNew, UpdateIsOwn, PairsMatch, KeysAreOwn,
       IndexIsWithin, ids, storages, index
  <2> QED BY <2>2, <2>3 DEF IInv
<1> QED BY <1>1, <1>2

\* An update replaces the vector of its document, or is rejected.
LEMMA UpdateVectorKeeps ==
  ASSUME IInv, UpdateVector
  PROVE  IInv'
<1>1. /\ mode = "up" /\ upd # <<>> /\ upd.stage = "vector"
      /\ UNCHANGED <<mode, ids, rows, rdur, vdur, index, is_dirty_, call, batch, seen, torn, stops>>
  BY DEF UpdateVector
<1>2. /\ upd \in Pending /\ upd.key \in Keys /\ upd.id \in Nat /\ upd.id < max_docid_
      /\ item_to_docid_[upd.key] = upd.id /\ Len(vecs) = max_docid_ /\ Len(vecs) \in Nat
      /\ vecs \in Seq(Doc)
  BY <1>1, Shapes DEF IInv, UpdateIsOwn, CountersAgree, Typed
<1>3. CASE upd.good /\ upd.id < Len(vecs)
  <2>1. /\ vecs' = [vecs EXCEPT ![upd.id + 1] = Stored(upd)]
        /\ upd' = [upd EXCEPT !.stage = "row"]
    BY <1>3 DEF UpdateVector, VecLog!Replace
  <2>2. Stored(upd) \in Doc
    BY <1>2 DEF Stored, Doc, Pending
  <2>3. /\ vecs' \in Seq(Doc) /\ Len(vecs') = Len(vecs) /\ vecs'[upd.id + 1] = Stored(upd)
        /\ \A id \in Nat : id < Len(vecs) /\ id # upd.id => vecs'[id + 1] = vecs[id + 1]
    <3>1. upd.id + 1 \in 1 .. Len(vecs)
      BY <1>2, <1>3
    <3> HIDE DEF Stored
    <3>2. /\ vecs' \in Seq(Doc) /\ Len(vecs') = Len(vecs)
          /\ \A j \in 1 .. Len(vecs) :
               vecs'[j] = IF j = upd.id + 1 THEN Stored(upd) ELSE vecs[j]
      BY <1>2, <2>1, <2>2, <3>1, ExceptSeq
    <3> QED BY <1>2, <3>1, <3>2
  <2>4. upd' \in Pending /\ upd'.id = upd.id /\ upd'.key = upd.key /\ upd'.ver = upd.ver
        /\ upd'.stage = "row" /\ upd' # <<>>
    BY <1>2, <2>1 DEF Pending
  <2>5. Stored(upd') = Stored(upd)
    BY <2>4 DEF Stored
  <2>6. Typed'
    BY <1>1, <2>3, <2>4 DEF IInv, Typed, ids, index
  <2>7. CountersAgree' /\ CallsInOrder' /\ BatchIsNew' /\ KeysAreOwn' /\ IndexIsWithin'
    BY <1>1, <2>3 DEF IInv, CountersAgree, CallsInOrder, BatchIsNew, KeysAreOwn, IndexIsWithin,
       ids, index
  <2>8. UpdateIsOwn'
    BY <1>1, <1>2, <2>3, <2>4, <2>5 DEF UpdateIsOwn, ids
  <2>9. PairsMatch'
    BY <1>1, <2>3, <2>4 DEF IInv, PairsMatch
  <2> QED BY <2>6, <2>7, <2>8, <2>9 DEF IInv
<1>4. CASE ~ (upd.good /\ upd.id < Len(vecs))
  <2>1. upd' = <<>> /\ vecs' = vecs
    BY <1>4 DEF UpdateVector
  <2>2. Typed'
    BY <1>1, <2>1 DEF IInv, Typed, ids, index
  <2>3. CountersAgree' /\ CallsInOrder' /\ BatchIsNew' /\ UpdateIsOwn' /\ KeysAreOwn' /\ IndexIsWithin'
    BY <1>1, <2>1 DEF IInv, CountersAgree, CallsInOrder, BatchIsNew, UpdateIsOwn, KeysAreOwn,
       IndexIsWithin, ids, index
  <2>4. PairsMatch'
    BY <1>1, <2>1 DEF IInv, PairsMatch
  <2> QED BY <2>2, <2>3, <2>4 DEF IInv
<1> QED BY <1>3, <1>4

\* The row that an update is about to replace is that of its key.
LEMMA RowIsOwn ==
  ASSUME IInv, mode = "up", upd # <<>>, upd.stage = "row"
  PROVE  /\ upd \in Pending /\ upd.key \in Keys /\ upd.id \in Nat /\ upd.id < max_docid_
         /\ item_to_docid_[upd.key] = upd.id /\ vecs[upd.id + 1] = Stored(upd)
         /\ Len(rows) = max_docid_ /\ Len(rows) \in Nat /\ rows \in Seq(Doc)
         /\ rows[upd.id + 1].key = upd.key
<1>1. upd \in Pending /\ upd.key \in Keys /\ upd.id \in Nat
  BY Shapes
<1>2. upd.id < max_docid_ /\ item_to_docid_[upd.key] = upd.id /\ vecs[upd.id + 1] = Stored(upd)
  BY DEF IInv, UpdateIsOwn
<1>3. Len(rows) = max_docid_ /\ Len(rows) \in Nat /\ rows \in Seq(Doc)
  <2>1. Len(rows) = max_docid_
    BY DEF IInv, CountersAgree
  <2>2. rows \in Seq(Doc)
    BY DEF IInv, Typed
  <2> QED BY <2>1, <2>2
<1>4. rows[upd.id + 1].key = upd.key
  <2>1. item_to_docid_[upd.key] # None
    BY <1>1, <1>2, NoneAssumption
  <2> QED BY <1>1, <1>2, <2>1 DEF IInv, KeysAreOwn
<1> QED BY <1>1, <1>2, <1>3, <1>4

\* Table::Update replaces the row of the document: the pair is one again.
LEMMA UpdateRowKeeps ==
  ASSUME IInv, UpdateRow
  PROVE  IInv'
<1>1. /\ mode = "up" /\ upd # <<>> /\ upd.stage = "row" /\ upd.id < rdur
      /\ rows' = [rows EXCEPT ![upd.id + 1] = Stored(upd)] /\ rdur' = rdur
      /\ docids_bitmap_' = IF call = "plain" THEN docids_bitmap_ \ {upd.id} ELSE docids_bitmap_
      /\ upd' = <<>> /\ is_dirty_' = TRUE /\ torn' = torn \ {upd.id}
      /\ UNCHANGED <<mode, max_docid_, delete_num_, item_to_docid_, vecs, vdur, index, call, batch,
                     seen, stops>>
  BY DEF UpdateRow, RowLog!Replace
<1>2. /\ upd \in Pending /\ upd.key \in Keys /\ upd.id \in Nat /\ upd.id < max_docid_
      /\ item_to_docid_[upd.key] = upd.id /\ vecs[upd.id + 1] = Stored(upd)
      /\ Len(rows) = max_docid_ /\ Len(rows) \in Nat /\ rows \in Seq(Doc)
      /\ rows[upd.id + 1].key = upd.key
  BY <1>1, RowIsOwn
<1>3. Stored(upd) \in Doc /\ Stored(upd).key = upd.key
  BY <1>2 DEF Stored, Doc, Pending
<1>4. /\ rows' \in Seq(Doc) /\ Len(rows') = Len(rows) /\ rows'[upd.id + 1] = Stored(upd)
      /\ \A id \in Nat : id < Len(rows) /\ id # upd.id => rows'[id + 1] = rows[id + 1]
  <2>1. upd.id + 1 \in 1 .. Len(rows)
    BY <1>2
  <2> HIDE DEF Stored
  <2>2. /\ rows' \in Seq(Doc) /\ Len(rows') = Len(rows)
        /\ \A j \in 1 .. Len(rows) :
             rows'[j] = IF j = upd.id + 1 THEN Stored(upd) ELSE rows[j]
    BY <1>1, <1>2, <1>3, <2>1, ExceptSeq
  <2> QED BY <1>2, <2>1, <2>2
<1>5. \A id \in Nat : id < Len(rows) => rows'[id + 1].key = rows[id + 1].key
  BY <1>2, <1>3, <1>4
<1>6. Typed'
  BY <1>1, <1>4 DEF IInv, Typed, index
<1>7. CountersAgree' /\ CallsInOrder' /\ BatchIsNew' /\ UpdateIsOwn' /\ IndexIsWithin'
  BY <1>1, <1>4 DEF IInv, CountersAgree, CallsInOrder, BatchIsNew, UpdateIsOwn, IndexIsWithin, index
<1>8. PairsMatch'
  BY <1>1, <1>2, <1>4 DEF IInv, PairsMatch
<1>9. KeysAreOwn'
  <2>1. ASSUME NEW k \in Keys, item_to_docid_[k] # None
        PROVE  item_to_docid_[k] < max_docid_ /\ rows'[item_to_docid_[k] + 1].key = k
    <3>1. item_to_docid_[k] \in Nat /\ item_to_docid_[k] < max_docid_
          /\ rows[item_to_docid_[k] + 1].key = k
      BY <2>1, Shapes DEF IInv, KeysAreOwn
    <3> QED BY <1>2, <1>5, <3>1
  <2>2. ASSUME NEW id \in Nat, id < max_docid_, id \notin docids_bitmap_'
        PROVE  item_to_docid_[rows'[id + 1].key] = id
    <3>1. CASE id = upd.id
      BY <1>2, <1>3, <1>4, <3>1
    <3>2. CASE id # upd.id
      BY <1>1, <1>2, <1>5, <2>2, <3>2 DEF IInv, KeysAreOwn
    <3> QED BY <3>1, <3>2
  <2>3. ASSUME NEW a \in Nat, NEW b \in Nat, a < Len(rows'), b < Len(rows'),
               a \notin docids_bitmap_', b \notin docids_bitmap_',
               rows'[a + 1].key = rows'[b + 1].key
        PROVE  a = b
    BY <1>2, <1>4, <2>2, <2>3
  <2> QED BY <1>1, <2>1, <2>2, <2>3 DEF KeysAreOwn
<1> QED BY <1>6, <1>7, <1>8, <1>9 DEF IInv

\* Sets of document ids are finite.
LEMMA IdsAreFinite ==
  ASSUME NEW n \in Nat, NEW S, \A id \in S : id \in Nat /\ id < n
  PROVE  IsFiniteSet(S) /\ Cardinality(S) \in Nat /\ Cardinality(S) <= n
<1>1. S \subseteq 0 .. n - 1 /\ 0 \in Int /\ n - 1 \in Int
  OBVIOUS
<1>2. IsFiniteSet(0 .. n - 1) /\ Cardinality(0 .. n - 1) = IF 0 > n - 1 THEN 0 ELSE n - 1 - 0 + 1
  BY <1>1, FS_Interval
<1>3. IsFiniteSet(S) /\ Cardinality(S) <= Cardinality(0 .. n - 1)
  BY <1>1, <1>2, FS_Subset
<1>4. Cardinality(S) \in Nat
  BY <1>3, FS_CardinalityType
<1> QED BY <1>2, <1>3, <1>4

\* The three kinds of delete.
LEMMA DeletesKeep ==
  ASSUME IInv, \/ \E k \in Keys : Delete(k)
               \/ \E v \in Versions : DelDocByFilter(v) \/ DelDocByQuery(v)
  PROVE  IInv'
<1>1. ASSUME NEW hit \in SUBSET Docids,
             mode = "up", call = "none", upd = <<>>,
             \A id \in hit : id \in Nat /\ id < max_docid_,
             delete_num_' \in Nat, is_dirty_' = TRUE,
             docids_bitmap_' = docids_bitmap_ \union hit,
             item_to_docid_' \in [Keys -> Docids \union {None}],
             \A k \in Keys : \/ item_to_docid_'[k] = item_to_docid_[k]
                             \/ item_to_docid_'[k] = None /\ item_to_docid_[k] \in hit,
             UNCHANGED <<mode, max_docid_, storages, index, request, torn, stops>>
      PROVE  IInv'
  <2>1. Typed'
    BY <1>1 DEF IInv, Typed, storages, index, request
  <2>2. CountersAgree' /\ CallsInOrder' /\ UpdateIsOwn' /\ PairsMatch' /\ IndexIsWithin'
    BY <1>1 DEF IInv, CountersAgree, CallsInOrder, UpdateIsOwn, PairsMatch, IndexIsWithin,
       storages, index, request
  <2>3. BatchIsNew'
    BY <1>1 DEF IInv, CallsInOrder, BatchIsNew, request
  <2>4. KeysAreOwn'
    <3>1. \A k \in Keys : item_to_docid_'[k] # None =>
            item_to_docid_'[k] < max_docid_ /\ rows[item_to_docid_'[k] + 1].key = k
      BY <1>1 DEF IInv, KeysAreOwn
    <3>2. ASSUME NEW id \in Nat, id < max_docid_, id \notin docids_bitmap_'
          PROVE  item_to_docid_'[rows[id + 1].key] = id
      <4>1. id \notin hit /\ item_to_docid_[rows[id + 1].key] = id /\ rows[id + 1].key \in Keys
        BY <1>1, <3>2, Shapes DEF IInv, KeysAreOwn, CountersAgree
      <4> QED BY <1>1, <4>1
    <3> QED BY <1>1, <3>1, <3>2 DEF IInv, KeysAreOwn, storages
  <2> QED BY <2>1, <2>2, <2>3, <2>4 DEF IInv
<1>2. ASSUME NEW k \in Keys, Delete(k) PROVE IInv'
  <2> DEFINE id == item_to_docid_[k]
  <2>1. /\ id \in Docids /\ id \in Nat /\ id < max_docid_
    BY <1>2, Shapes DEF Delete, IInv, KeysAreOwn
  <2>2. /\ mode = "up" /\ call = "none" /\ upd = <<>>
        /\ delete_num_' = delete_num_ + 1 /\ is_dirty_' = TRUE
        /\ docids_bitmap_' = docids_bitmap_ \union {id}
        /\ item_to_docid_' = [item_to_docid_ EXCEPT ![k] = None]
        /\ UNCHANGED <<mode, max_docid_, storages, index, request, torn, stops>>
    BY <1>2 DEF Delete, Idle
  <2>3. item_to_docid_ \in [Keys -> Docids \union {None}] /\ delete_num_ \in Nat
    BY DEF IInv, Typed
  <2>4. /\ delete_num_' \in Nat
        /\ item_to_docid_' \in [Keys -> Docids \union {None}]
        /\ \A j \in Keys : \/ item_to_docid_'[j] = item_to_docid_[j]
                           \/ item_to_docid_'[j] = None /\ item_to_docid_[j] \in {id}
    BY <2>2, <2>3
  <2> HIDE DEF id
  <2> QED BY <1>1, <2>1, <2>2, <2>4
<1>3. ASSUME NEW v \in Versions, DelDocByFilter(v) PROVE IInv'
  <2> DEFINE hit == {id \in Matching(v) \ docids_bitmap_ : item_to_docid_[rows[id + 1].key] = id}
  <2>1. \A id \in hit : id \in Nat /\ id < max_docid_ /\ id \in Docids
    BY Shapes, Bounds DEF Matching, IInv, Typed, Docids
  <2>2. /\ mode = "up" /\ call = "none" /\ upd = <<>>
        /\ delete_num_' = delete_num_ + Cardinality(hit) /\ is_dirty_' = TRUE
        /\ docids_bitmap_' = docids_bitmap_ \union hit
        /\ item_to_docid_' = [k \in Keys |->
              IF item_to_docid_[k] \in hit THEN None ELSE item_to_docid_[k]]
        /\ UNCHANGED <<mode, max_docid_, storages, index, request, torn, stops>>
    BY <1>3 DEF DelDocByFilter, Idle
  <2> HIDE DEF hit
  <2>3. Cardinality(hit) \in Nat
    BY <2>1, Shapes, IdsAreFinite
  <2>4. item_to_docid_ \in [Keys -> Docids \union {None}] /\ delete_num_ \in Nat
    BY DEF IInv, Typed
  <2>5. /\ delete_num_' \in Nat /\ hit \in SUBSET Docids
        /\ item_to_docid_' \in [Keys -> Docids \union {None}]
        /\ \A j \in Keys : \/ item_to_docid_'[j] = item_to_docid_[j]
                           \/ item_to_docid_'[j] = None /\ item_to_docid_[j] \in hit
    BY <2>1, <2>2, <2>3, <2>4
  <2> QED BY <1>1, <2>1, <2>2, <2>5
<1>4. ASSUME NEW v \in Versions, DelDocByQuery(v) PROVE IInv'
  <2> DEFINE hit == Matching(v) \ docids_bitmap_
  <2>1. \A id \in hit : id \in Nat /\ id < max_docid_ /\ id \in Docids
    BY Shapes, Bounds DEF Matching, IInv, Typed, Docids
  <2>2. /\ mode = "up" /\ call = "none" /\ upd = <<>>
        /\ delete_num_' = delete_num_ + Cardinality(hit) /\ is_dirty_' = TRUE
        /\ docids_bitmap_' = docids_bitmap_ \union hit
        /\ UNCHANGED <<mode, max_docid_, item_to_docid_, storages, index, request, torn, stops>>
    BY <1>4 DEF DelDocByQuery, Idle
  <2> HIDE DEF hit
  <2>3. Cardinality(hit) \in Nat
    BY <2>1, Shapes, IdsAreFinite
  <2>4. item_to_docid_ \in [Keys -> Docids \union {None}] /\ delete_num_ \in Nat
    BY DEF IInv, Typed
  <2>5. /\ delete_num_' \in Nat /\ hit \in SUBSET Docids
        /\ item_to_docid_' \in [Keys -> Docids \union {None}]
        /\ \A j \in Keys : item_to_docid_'[j] = item_to_docid_[j]
    BY <2>1, <2>2, <2>3, <2>4
  <2> QED BY <1>1, <2>1, <2>2, <2>5
<1> QED BY <1>2, <1>3, <1>4

-----------------------------------------------------------------------------
(* Steps of the other threads, and of the process. *)

\* The storages' handlers, the indexing thread and Dump.
LEMMA OthersKeep ==
  ASSUME IInv, PersistRow \/ PersistVector \/ AddToIndex \/ Dump
  PROVE  IInv'
<1>1. ASSUME Typed', UNCHANGED <<mode, ids, rows, vecs, request, torn, stops>>,
             mode = "up" => indexed' <= Len(vecs)
      PROVE  IInv'
  BY <1>1 DEF IInv, CountersAgree, CallsInOrder, BatchIsNew, UpdateIsOwn, PairsMatch,
     KeysAreOwn, IndexIsWithin, ids, request
<1>2. CASE PersistRow
  <2>1. /\ rdur < Len(rows) /\ rdur' = rdur + 1
        /\ UNCHANGED <<mode, ids, rows, vecs, vdur, index, is_dirty_, request, torn, stops>>
    BY <1>2 DEF PersistRow, RowLog!Persist
  <2>2. rdur' \in 0 .. Len(rows)
    BY <2>1, Shapes
  <2>3. Typed'
    BY <2>1, <2>2 DEF IInv, Typed, ids, index, request
  <2> QED BY <1>1, <2>1, <2>3 DEF index, IInv, IndexIsWithin
<1>3. CASE PersistVector
  <2>1. /\ vdur < Len(vecs) /\ vdur' = vdur + 1
        /\ UNCHANGED <<mode, ids, rows, vecs, rdur, index, is_dirty_, request, torn, stops>>
    BY <1>3 DEF PersistVector, VecLog!Persist
  <2>2. vdur' \in 0 .. Len(vecs)
    BY <2>1, Shapes
  <2>3. Typed'
    BY <2>1, <2>2 DEF IInv, Typed, ids, index, request
  <2> QED BY <1>1, <2>1, <2>3 DEF index, IInv, IndexIsWithin
<1>4. CASE AddToIndex
  <2>1. /\ indexed < Len(vecs) /\ indexed' = indexed + 1
        /\ UNCHANGED <<mode, ids, storages, dumped, is_dirty_, request, torn, stops>>
    BY <1>4 DEF AddToIndex
  <2>2. indexed' \in 0 .. MaxDocs /\ indexed' <= Len(vecs)
    BY <2>1, Shapes, Bounds DEF IInv, CountersAgree
  <2>3. Typed'
    BY <2>1, <2>2 DEF IInv, Typed, ids, storages, request
  <2> QED BY <1>1, <2>1, <2>2, <2>3 DEF storages
<1>5. CASE Dump
  <2>1. /\ dumped' = indexed /\ is_dirty_' = FALSE
        /\ UNCHANGED <<mode, ids, storages, indexed, request, torn, stops>>
    BY <1>5 DEF Dump
  <2>2. Typed'
    BY <2>1 DEF IInv, Typed, ids, storages, request
  <2> QED BY <1>1, <2>1, <2>2 DEF storages, IInv, IndexIsWithin
<1> QED BY <1>2, <1>3, <1>4, <1>5

\* What a prefix of a sequence is.
LEMMA Prefix ==
  ASSUME NEW S, NEW s \in Seq(S), NEW n \in 0 .. Len(s)
  PROVE  /\ SubSeq(s, 1, n) \in Seq(S)
         /\ Len(SubSeq(s, 1, n)) = n
         /\ \A id \in Nat : id < n => SubSeq(s, 1, n)[id + 1] = s[id + 1]
<1>1. \A i \in 1 .. n : s[i] \in S
  OBVIOUS
<1>2. 1 \in Int /\ n \in Int /\ n \in Nat
  OBVIOUS
<1>3. /\ SubSeq(s, 1, n) \in Seq(S)
      /\ Len(SubSeq(s, 1, n)) = IF 1 <= n THEN n - 1 + 1 ELSE 0
      /\ \A i \in 1 .. n - 1 + 1 : SubSeq(s, 1, n)[i] = s[1 + i - 1]
  BY <1>1, <1>2, SubSeqProperties
<1> QED BY <1>2, <1>3

\* The end of a process leaves the durable rows and vectors.
LEMMA StopKeeps ==
  ASSUME IInv, Stop
  PROVE  IInv' /\ item_to_docid_' = [k \in Keys |-> None]
         /\ Len(rows') = rdur /\ Len(vecs') = vdur /\ mode = "up"
         /\ \A id \in Nat : id < rdur => rows'[id + 1] = rows[id + 1]
<1>1. /\ mode = "up" /\ mode' = "down" /\ stops < MaxStops /\ stops' = stops + 1
      /\ rows' = SubSeq(rows, 1, rdur) /\ rdur' = rdur
      /\ vecs' = SubSeq(vecs, 1, vdur) /\ vdur' = vdur
      /\ torn' = IF upd # <<>> /\ upd.stage = "row" THEN torn \union {upd.id} ELSE torn
      /\ max_docid_' = 0 /\ delete_num_' = 0 /\ item_to_docid_' = [k \in Keys |-> None]
      /\ indexed' = 0 /\ is_dirty_' = FALSE
      /\ call' = "none" /\ batch' = <<>> /\ seen' = {} /\ upd' = <<>>
      /\ UNCHANGED <<docids_bitmap_, dumped>>
  BY DEF Stop, RowLog!End, VecLog!End
<1>2. rows \in Seq(Doc) /\ rdur \in 0 .. Len(rows) /\ vecs \in Seq(Doc) /\ vdur \in 0 .. Len(vecs)
  BY DEF IInv, Typed
<1>3. /\ rows' \in Seq(Doc) /\ Len(rows') = rdur
      /\ \A id \in Nat : id < rdur => rows'[id + 1] = rows[id + 1]
      /\ vecs' \in Seq(Doc) /\ Len(vecs') = vdur
      /\ \A id \in Nat : id < vdur => vecs'[id + 1] = vecs[id + 1]
  BY <1>1, <1>2, Prefix
<1>4. Typed'
  <2>1. torn' \subseteq Docids
    <3>1. upd # <<>> => upd.id \in Docids
      BY Shapes DEF Pending
    <3> QED BY <1>1, <3>1 DEF IInv, Typed
  <2>2. batch' \in Seq(NewDoc) /\ Len(batch') = 0
    BY <1>1
  <2>3. stops' \in 0 .. MaxStops
    BY <1>1, Bounds DEF IInv, Typed
  <2>4. item_to_docid_' \in [Keys -> Docids \union {None}]
    BY <1>1
  <2>5. rdur' \in 0 .. Len(rows') /\ vdur' \in 0 .. Len(vecs')
    BY <1>1, <1>2, <1>3
  <2>6. /\ max_docid_' \in 0 .. MaxDocs /\ delete_num_' \in Nat /\ indexed' \in 0 .. MaxDocs
        /\ dumped' \in 0 .. MaxDocs /\ docids_bitmap_' \subseteq Docids
        /\ Len(batch') <= MaxBatch
    BY <1>1, <2>2, Bounds DEF IInv, Typed
  <2>7. /\ mode' \in {"up", "down", "failed"} /\ is_dirty_' \in BOOLEAN
        /\ call' \in {"none", "plain", "words"} /\ seen' \subseteq Keys
        /\ upd' \in Pending \union {<<>>}
    BY <1>1
  <2> QED BY <1>3, <2>1, <2>2, <2>3, <2>4, <2>5, <2>6, <2>7 DEF Typed
<1>5. CountersAgree' /\ CallsInOrder' /\ BatchIsNew' /\ UpdateIsOwn' /\ IndexIsWithin'
  BY <1>1, <1>2, <1>3, Shapes, Bounds DEF IInv, CountersAgree, CallsInOrder, BatchIsNew, UpdateIsOwn,
     IndexIsWithin
<1>6. PairsMatch'
  <2>1. ASSUME NEW id \in Nat, id < Len(rows'), id < Len(vecs')
        PROVE  rows'[id + 1] = vecs'[id + 1] \/ id \in torn'
    <3>1. id < rdur /\ id < vdur /\ rows'[id + 1] = rows[id + 1] /\ vecs'[id + 1] = vecs[id + 1]
      BY <1>3, <2>1
    <3>2. id < Len(rows) /\ id < Len(vecs)
      BY <1>2, <3>1
    <3>3. \/ rows[id + 1] = vecs[id + 1]
          \/ id \in torn
          \/ upd # <<>> /\ upd.id = id /\ upd.stage = "row"
      BY <3>2 DEF IInv, PairsMatch
    <3>4. upd # <<>> /\ upd.stage = "row" => torn' = torn \union {upd.id}
      BY <1>1
    <3>5. ~(upd # <<>> /\ upd.stage = "row") => torn' = torn
      BY <1>1
    <3> QED BY <3>1, <3>3, <3>4, <3>5
  <2> QED BY <2>1 DEF PairsMatch
<1>7. KeysAreOwn'
  <2>1. \A k \in Keys : item_to_docid_'[k] = None
    BY <1>1
  <2>2. ASSUME NEW a \in Nat, NEW b \in Nat, a < Len(rows'), b < Len(rows'),
               a \notin docids_bitmap_, b \notin docids_bitmap_,
               rows'[a + 1].key = rows'[b + 1].key
        PROVE  a = b
    <3>1. a < Len(rows) /\ b < Len(rows) /\ rows[a + 1].key = rows[b + 1].key
      <4>1. a < rdur /\ b < rdur /\ rdur <= Len(rows) /\ rdur \in Nat /\ Len(rows) \in Nat
        BY <1>2, <1>3, <2>2
      <4>2. rows'[a + 1] = rows[a + 1] /\ rows'[b + 1] = rows[b + 1]
        BY <1>3, <4>1
      <4> QED BY <2>2, <4>1, <4>2
    <3> QED BY <2>2, <3>1 DEF IInv, KeysAreOwn
  <2> QED BY <1>1, <2>1, <2>2 DEF KeysAreOwn
<1> QED BY <1>1, <1>3, <1>4, <1>5, <1>6, <1>7 DEF IInv

\* Table::Load finds for a key the one row with it that is not deleted.
LEMMA FoundIsTheOne ==
  ASSUME IInv, NEW n \in Nat, n <= Len(rows), NEW k \in Keys
  PROVE  /\ FoundAt(k, n) # None =>
              /\ FoundAt(k, n) \in Nat /\ FoundAt(k, n) < n
              /\ FoundAt(k, n) \notin docids_bitmap_
              /\ rows[FoundAt(k, n) + 1].key = k
         /\ \A id \in Nat : id < n /\ id \notin docids_bitmap_ /\ rows[id + 1].key = k =>
              FoundAt(k, n) = id
<1> DEFINE live == {id \in 0 .. n - 1 : id \notin docids_bitmap_ /\ rows[id + 1].key = k}
<1>1. FoundAt(k, n) = IF live = {} THEN None
                      ELSE CHOOSE id \in live : \A other \in live : id <= other
  BY DEF FoundAt
<1>2. ASSUME NEW id \in live
      PROVE  live = {id} /\ FoundAt(k, n) = id /\ id \in Nat /\ id < n /\ id \notin docids_bitmap_
             /\ rows[id + 1].key = k
  <2>1. id \in Nat /\ id < n /\ id \notin docids_bitmap_ /\ rows[id + 1].key = k
    OBVIOUS
  <2>2. ASSUME NEW other \in live PROVE other = id
    <3>1. other \in Nat /\ other < Len(rows) /\ id < Len(rows)
      BY <2>1, Shapes
    <3> QED BY <2>1, <3>1 DEF IInv, KeysAreOwn
  <2>3. live = {id}
    BY <2>2
  <2>4. (CHOOSE x \in {id} : \A other \in {id} : x <= other) = id
    BY <2>1
  <2> QED BY <1>1, <2>1, <2>3, <2>4
<1>3. ASSUME NEW id \in Nat, id < n, id \notin docids_bitmap_, rows[id + 1].key = k
      PROVE  FoundAt(k, n) = id
  <2>1. id \in live
    BY <1>3
  <2> QED BY <1>2, <2>1
<1>4. FoundAt(k, n) # None => \E id \in live : TRUE
  BY <1>1
<1> QED BY <1>2, <1>3, <1>4

\* Load cuts both storages to what both have, and fills the key map.
LEMMA LoadKeeps ==
  ASSUME IInv, Load
  PROVE  IInv' /\ Durable \in Nat /\ Durable <= Len(rows) /\ max_docid_' = Durable
         /\ rdur' = Durable /\ vdur' = Durable
         /\ item_to_docid_' = [k \in Keys |-> FoundAt(k, Durable)]
         /\ \A id \in Nat : id < Durable => rows'[id + 1] = rows[id + 1]
<1> DEFINE n == Durable
<1>1. /\ mode = "down" /\ dumped <= n /\ mode' = "up"
      /\ rows' = SubSeq(rows, 1, n) /\ rdur' = n
      /\ vecs' = SubSeq(vecs, 1, n) /\ vdur' = n
      /\ max_docid_' = n
      /\ item_to_docid_' = [k \in Keys |-> FoundAt(k, n)]
      /\ delete_num_' = Cardinality(docids_bitmap_ \intersect 0 .. n - 1)
      /\ indexed' = dumped /\ torn' = torn \intersect 0 .. n - 1
      /\ UNCHANGED <<docids_bitmap_, dumped, is_dirty_, request, stops>>
  BY DEF Load, RowLog!Cut, VecLog!Cut
<1>2. /\ rows \in Seq(Doc) /\ vecs \in Seq(Doc) /\ n \in Nat
      /\ n \in 0 .. Len(rows) /\ n \in 0 .. Len(vecs) /\ n <= MaxDocs
      /\ Len(rows) \in Nat /\ Len(vecs) \in Nat
  BY Shapes, Bounds DEF IInv, Typed, CountersAgree, Durable
<1>3. /\ rows' \in Seq(Doc) /\ Len(rows') = n
      /\ \A id \in Nat : id < n => rows'[id + 1] = rows[id + 1]
      /\ vecs' \in Seq(Doc) /\ Len(vecs') = n
      /\ \A id \in Nat : id < n => vecs'[id + 1] = vecs[id + 1]
  BY <1>1, <1>2, Prefix
<1>4. \A k \in Keys :
        /\ item_to_docid_'[k] # None =>
             /\ item_to_docid_'[k] \in Nat /\ item_to_docid_'[k] < n
             /\ item_to_docid_'[k] \notin docids_bitmap_
             /\ rows[item_to_docid_'[k] + 1].key = k
        /\ \A id \in Nat : id < n /\ id \notin docids_bitmap_ /\ rows[id + 1].key = k =>
             item_to_docid_'[k] = id
  BY <1>1, <1>2, FoundIsTheOne
<1> HIDE DEF n
<1>5. Typed'
  <2>1. item_to_docid_' \in [Keys -> Docids \union {None}]
    <3>1. \A k \in Keys : item_to_docid_'[k] \in Docids \union {None}
      BY <1>2, <1>4, Bounds DEF Docids
    <3> QED BY <1>1, <3>1
  <2>2. delete_num_' \in Nat
    <3>1. \A id \in docids_bitmap_ \intersect 0 .. n - 1 : id \in Nat /\ id < n
      BY <1>2
    <3> QED BY <1>1, <1>2, <3>1, IdsAreFinite
  <2>3. /\ max_docid_' \in 0 .. MaxDocs /\ rdur' \in 0 .. Len(rows') /\ vdur' \in 0 .. Len(vecs')
    BY <1>1, <1>2, <1>3, Bounds
  <2> QED BY <1>1, <1>3, <2>1, <2>2, <2>3 DEF IInv, Typed, request
<1>6. CountersAgree' /\ CallsInOrder' /\ BatchIsNew' /\ UpdateIsOwn' /\ IndexIsWithin'
  <2>1. call = "none" /\ upd = <<>> /\ batch = <<>> /\ seen = {} /\ Len(batch) = 0
    BY <1>1 DEF IInv, CallsInOrder
  <2> QED BY <1>1, <1>2, <1>3, <2>1, Bounds DEF CountersAgree, CallsInOrder, BatchIsNew,
     UpdateIsOwn, IndexIsWithin, request
<1>7. PairsMatch'
  <2>1. upd = <<>>
    BY <1>1 DEF IInv, CallsInOrder
  <2>2. ASSUME NEW id \in Nat, id < Len(rows'), id < Len(vecs')
        PROVE  rows'[id + 1] = vecs'[id + 1] \/ id \in torn'
    <3>1. id < n /\ rows'[id + 1] = rows[id + 1] /\ vecs'[id + 1] = vecs[id + 1]
      BY <1>3, <2>2
    <3>2. id < Len(rows) /\ id < Len(vecs) /\ id \in 0 .. n - 1
      BY <1>2, <3>1
    <3>3. rows[id + 1] = vecs[id + 1] \/ id \in torn
      BY <2>1, <3>2 DEF IInv, PairsMatch
    <3> QED BY <1>1, <3>1, <3>2, <3>3
  <2> QED BY <2>2 DEF PairsMatch
<1>8. KeysAreOwn'
  <2>1. \A k \in Keys : item_to_docid_'[k] # None =>
          item_to_docid_'[k] < max_docid_' /\ rows'[item_to_docid_'[k] + 1].key = k
    BY <1>1, <1>3, <1>4
  <2>2. ASSUME NEW id \in Nat, id < n, id \notin docids_bitmap_
        PROVE  item_to_docid_'[rows'[id + 1].key] = id
    <3>1. id < Len(rows)
      BY <1>2, <2>2
    <3>2. rows'[id + 1] = rows[id + 1] /\ rows[id + 1].key \in Keys
      BY <1>3, <2>2, <3>1, Shapes
    <3> QED BY <1>4, <2>2, <3>2
  <2>3. ASSUME NEW a \in Nat, NEW b \in Nat, a < Len(rows'), b < Len(rows'),
               a \notin docids_bitmap_, b \notin docids_bitmap_,
               rows'[a + 1].key = rows'[b + 1].key
        PROVE  a = b
    BY <1>3, <2>2, <2>3
  <2> QED BY <1>1, <2>1, <2>2, <2>3 DEF KeysAreOwn
<1> QED BY <1>1, <1>2, <1>3, <1>5, <1>6, <1>7, <1>8 DEF IInv, n

\* Load refuses an index that is ahead of its vectors.
LEMMA LoadFailsKeeps ==
  ASSUME IInv, LoadFails
  PROVE  IInv'
<1>1. /\ mode = "down" /\ mode' = "failed"
      /\ UNCHANGED <<ids, storages, index, is_dirty_, request, torn, stops>>
  BY DEF LoadFails
<1>2. Typed'
  BY <1>1 DEF IInv, Typed, ids, storages, index, request
<1>3. CountersAgree' /\ CallsInOrder' /\ BatchIsNew' /\ UpdateIsOwn' /\ PairsMatch' /\ IndexIsWithin'
  BY <1>1 DEF IInv, CountersAgree, CallsInOrder, BatchIsNew, UpdateIsOwn, PairsMatch, IndexIsWithin,
     ids, storages, index, request
<1>4. KeysAreOwn'
  BY <1>1 DEF IInv, KeysAreOwn, ids, storages
<1> QED BY <1>2, <1>3, <1>4 DEF IInv

\* Nothing but the steps of Next changes the engine.
LEMMA IdleKeeps ==
  ASSUME IInv, UNCHANGED vars
  PROVE  IInv'
<1>1. UNCHANGED <<mode, ids, storages, index, is_dirty_, request, torn, stops>>
  BY DEF vars
<1>2. Typed'
  BY <1>1 DEF IInv, Typed, ids, storages, index, request
<1>3. CountersAgree' /\ CallsInOrder' /\ BatchIsNew' /\ UpdateIsOwn' /\ PairsMatch' /\ IndexIsWithin'
  BY <1>1 DEF IInv, CountersAgree, CallsInOrder, BatchIsNew, UpdateIsOwn, PairsMatch, IndexIsWithin,
     ids, storages, index, request
<1>4. KeysAreOwn'
  BY <1>1 DEF IInv, KeysAreOwn, ids, storages
<1> QED BY <1>2, <1>3, <1>4 DEF IInv

\* Every step keeps the invariant.
LEMMA StepKeeps ==
  ASSUME IInv, LegalVectors, [Next]_vars
  PROVE  IInv'
<1>1. ASSUME NEW d \in Inserts, AddOrUpdateNew(d) \/ Collect(d) PROVE IInv'
  BY <1>1, NewDocKeeps, CollectKeeps
<1>2. ASSUME NEW d \in NewDoc, AddOrUpdateKnown(d) \/ FlushAndUpdate(d) PROVE IInv'
  BY <1>2, BeginKeeps, FlushAndUpdateKeeps
<1>3. ASSUME NEW kind \in {"plain", "words"}, BeginDocs(kind) PROVE IInv'
  BY <1>3, BeginKeeps
<1>4. ASSUME UpdateVector \/ UpdateRow \/ EndDocs PROVE IInv'
  BY <1>4, UpdateVectorKeeps, UpdateRowKeeps, EndDocsKeeps
<1>5. ASSUME \/ \E k \in Keys : Delete(k)
             \/ \E v \in Versions : DelDocByFilter(v) \/ DelDocByQuery(v)
      PROVE  IInv'
  BY <1>5, DeletesKeep
<1>6. ASSUME PersistRow \/ PersistVector \/ AddToIndex \/ Dump PROVE IInv'
  BY <1>6, OthersKeep
<1>7. ASSUME Stop \/ Load \/ LoadFails PROVE IInv'
  BY <1>7, StopKeeps, LoadKeeps, LoadFailsKeeps
<1>8. ASSUME UNCHANGED vars PROVE IInv'
  BY <1>8, IdleKeeps
<1> QED BY <1>1, <1>2, <1>3, <1>4, <1>5, <1>6, <1>7, <1>8 DEF Next

-----------------------------------------------------------------------------
(* Bits and counters in steady use. *)

\* Inserts give ids that no bit is set for.
LEMMA InsertKeepsBits ==
  ASSUME IInv, BitsAreCounted, mode = "up", mode' = "up",
         NEW docs \in Seq(NewDoc), NEW n \in Nat, Insert(docs, n)
  PROVE  BitsAreCounted'
<1>1. /\ max_docid_' = max_docid_ + n /\ docids_bitmap_' = docids_bitmap_
      /\ delete_num_' = delete_num_ /\ max_docid_ \in Nat
      /\ docids_bitmap_ \subseteq Nat
  BY Shapes, Bounds DEF Insert, IInv, Typed, Docids
<1>2. ASSUME NEW k \in Keys, item_to_docid_'[k] # None
      PROVE  item_to_docid_'[k] \notin docids_bitmap_
  <2>1. CASE \E i \in DOMAIN docs : docs[i].key = k
    <3> DEFINE i == CHOOSE i \in DOMAIN docs : docs[i].key = k
    <3>1. item_to_docid_'[k] = max_docid_ + i - 1
      BY <2>1 DEF Insert
    <3>2. i \in DOMAIN docs
      BY <2>1
    <3>3. i \in Nat /\ i >= 1
      BY <3>2
    <3> HIDE DEF i
    <3> QED BY <1>1, <3>1, <3>3 DEF BitsAreCounted
  <2>2. CASE ~ \E i \in DOMAIN docs : docs[i].key = k
    BY <1>2, <2>2 DEF Insert, BitsAreCounted
  <2> QED BY <2>1, <2>2
<1>3. \A id \in docids_bitmap_ : id < max_docid_'
  BY <1>1 DEF BitsAreCounted
<1> QED BY <1>1, <1>2, <1>3 DEF BitsAreCounted

\* Every step keeps the bits those of documents there are, and counted.
LEMMA StepKeepsBits ==
  ASSUME IInv, BitsAreCounted, SteadyUse, [Next]_vars
  PROVE  BitsAreCounted'
<1>0. /\ docids_bitmap_ \subseteq Nat /\ max_docid_ \in Nat /\ delete_num_ \in Nat
      /\ batch \in Seq(NewDoc) /\ Len(batch) \in Nat
  BY Shapes, Bounds DEF IInv, Typed, Docids
<1>1. ASSUME UNCHANGED <<mode, max_docid_, delete_num_, docids_bitmap_, item_to_docid_>>, Durable' = Durable \/ mode = "up"
      PROVE  BitsAreCounted'
  BY <1>1 DEF BitsAreCounted
<1>2. ASSUME NEW d \in Inserts, AddOrUpdateNew(d) PROVE BitsAreCounted'
  <2>1. <<d>> \in Seq(NewDoc)
    BY DEF Inserts
  <2>2. Insert(<<d>>, 1) \/ Insert(<<d>>, 0)
    BY <1>2 DEF AddOrUpdateNew
  <2>3. mode = "up" /\ mode' = "up"
    BY <1>2 DEF AddOrUpdateNew, Idle
  <2> QED BY <2>1, <2>2, <2>3, InsertKeepsBits
<1>3. ASSUME NEW d \in NewDoc, FlushAndUpdate(d) PROVE BitsAreCounted'
  BY <1>0, <1>3, InsertKeepsBits DEF FlushAndUpdate
<1>4. CASE EndDocs
  BY <1>0, <1>4, InsertKeepsBits DEF EndDocs
<1>5. ASSUME \/ \E d \in Inserts : Collect(d)
             \/ \E d \in NewDoc : AddOrUpdateKnown(d)
             \/ \E kind \in {"plain", "words"} : BeginDocs(kind)
             \/ UpdateVector \/ AddToIndex \/ Dump
      PROVE  BitsAreCounted'
  BY <1>1, <1>5 DEF Collect, AddOrUpdateKnown, BeginDocs, UpdateVector, AddToIndex, Dump, ids, Idle
<1>6. ASSUME PersistRow \/ PersistVector PROVE BitsAreCounted'
  BY <1>1, <1>6 DEF PersistRow, PersistVector, ids, RowLog!Persist, VecLog!Persist
<1>7. CASE UpdateRow
  <2>1. /\ upd.key \in Keys /\ item_to_docid_[upd.key] = upd.id /\ upd.id \in Nat
    BY <1>7, Shapes DEF UpdateRow, IInv, UpdateIsOwn
  <2>2. upd.id \notin docids_bitmap_
    BY <2>1, NoneAssumption DEF BitsAreCounted
  <2>3. docids_bitmap_' = docids_bitmap_
    BY <1>7, <2>2 DEF UpdateRow
  <2> QED BY <1>1, <1>7, <2>3 DEF UpdateRow
<1>8. ASSUME NEW hit, hit \subseteq Nat, mode = "up", mode' = "up",
             \A id \in hit : id < max_docid_ /\ id \notin docids_bitmap_,
             delete_num_' = delete_num_ + Cardinality(hit),
             docids_bitmap_' = docids_bitmap_ \union hit,
             \A k \in Keys : item_to_docid_'[k] # None =>
                item_to_docid_'[k] = item_to_docid_[k] /\ item_to_docid_[k] \notin hit,
             max_docid_' = max_docid_
      PROVE  BitsAreCounted'
  <2>1. IsFiniteSet(hit) /\ IsFiniteSet(docids_bitmap_) /\ Cardinality(hit) \in Nat
        /\ Cardinality(docids_bitmap_) \in Nat
    BY <1>0, <1>8, IdsAreFinite DEF BitsAreCounted
  <2>2. docids_bitmap_ \intersect hit = {}
    BY <1>8
  <2>3. Cardinality(docids_bitmap_ \union hit) = Cardinality(docids_bitmap_) + Cardinality(hit)
    <3>1. Cardinality(docids_bitmap_ \union hit)
            = Cardinality(docids_bitmap_) + Cardinality(hit) - Cardinality(docids_bitmap_ \intersect hit)
      BY <2>1, FS_Union
    <3>2. Cardinality(docids_bitmap_ \intersect hit) = 0
      BY <2>2, FS_EmptySet
    <3> QED BY <2>1, <3>1, <3>2
  <2> QED BY <1>8, <2>3 DEF BitsAreCounted
<1>9. ASSUME NEW k \in Keys, Delete(k) PROVE BitsAreCounted'
  <2> DEFINE id == item_to_docid_[k]
  <2>1. id \in Nat /\ id < max_docid_ /\ id \notin docids_bitmap_
    BY <1>9, Shapes DEF Delete, IInv, KeysAreOwn
  <2>2. /\ mode = "up" /\ mode' = "up" /\ max_docid_' = max_docid_
        /\ delete_num_' = delete_num_ + 1 /\ docids_bitmap_' = docids_bitmap_ \union {id}
        /\ item_to_docid_' = [item_to_docid_ EXCEPT ![k] = None]
    BY <1>9 DEF Delete, Idle
  <2>3. item_to_docid_ \in [Keys -> Docids \union {None}]
    BY DEF IInv, Typed
  <2>4. ASSUME NEW j \in Keys, item_to_docid_'[j] # None
        PROVE  item_to_docid_'[j] = item_to_docid_[j] /\ item_to_docid_[j] \notin {id}
    <3>1. j # k /\ item_to_docid_'[j] = item_to_docid_[j]
      BY <2>2, <2>3, <2>4
    <3>2. rows[item_to_docid_[j] + 1].key = j /\ rows[item_to_docid_[k] + 1].key = k
      BY <1>9, <2>4, <3>1 DEF IInv, KeysAreOwn, Delete
    <3> QED BY <3>1, <3>2
  <2>5. Cardinality({id}) = 1
    BY FS_Singleton
  <2> HIDE DEF id
  <2>6. {id} \subseteq Nat /\ \A x \in {id} : x < max_docid_ /\ x \notin docids_bitmap_
    BY <2>1
  <2>7. delete_num_' = delete_num_ + Cardinality({id})
    BY <2>2, <2>5
  <2> QED BY <1>8, <2>2, <2>4, <2>6, <2>7
<1>10. ASSUME NEW v \in Versions, DelDocByFilter(v) PROVE BitsAreCounted'
  <2> DEFINE hit == {id \in Matching(v) \ docids_bitmap_ : item_to_docid_[rows[id + 1].key] = id}
  <2>1. hit \subseteq Nat /\ \A id \in hit : id < max_docid_ /\ id \notin docids_bitmap_
    BY <1>0 DEF Matching
  <2>2. /\ mode = "up" /\ mode' = "up" /\ max_docid_' = max_docid_
        /\ delete_num_' = delete_num_ + Cardinality(hit)
        /\ docids_bitmap_' = docids_bitmap_ \union hit
        /\ item_to_docid_' = [k \in Keys |->
              IF item_to_docid_[k] \in hit THEN None ELSE item_to_docid_[k]]
    BY <1>10 DEF DelDocByFilter, Idle
  <2> HIDE DEF hit
  <2>3. \A k \in Keys : item_to_docid_'[k] # None =>
           item_to_docid_'[k] = item_to_docid_[k] /\ item_to_docid_[k] \notin hit
    BY <2>2
  <2> QED BY <1>8, <2>1, <2>2, <2>3
<1>11. ASSUME NEW v \in Versions, DelDocByQuery(v) PROVE BitsAreCounted'
  BY <1>11 DEF DelDocByQuery, SteadyUse
<1>12. CASE Stop
  <2>1. \A id \in docids_bitmap_ : id < Durable
    BY <1>12 DEF Stop, SteadyUse
  <2>2. Durable' = Durable /\ docids_bitmap_' = docids_bitmap_ /\ mode' = "down"
        /\ delete_num_' = 0 /\ \A k \in Keys : item_to_docid_'[k] = None
    BY <1>12 DEF Stop, RowLog!End, VecLog!End, Durable
  <2> QED BY <2>1, <2>2 DEF BitsAreCounted
<1>13. CASE Load
  <2> DEFINE n == Durable
  <2>1. /\ n \in Nat /\ n <= Len(rows) /\ mode = "down" /\ mode' = "up" /\ max_docid_' = n
        /\ item_to_docid_' = [k \in Keys |-> FoundAt(k, n)]
        /\ delete_num_' = Cardinality(docids_bitmap_ \intersect 0 .. n - 1)
        /\ docids_bitmap_' = docids_bitmap_
    BY <1>13, LoadKeeps DEF Load
  <2>2. \A id \in docids_bitmap_ : id < n
    BY <2>1 DEF BitsAreCounted
  <2> HIDE DEF n
  <2>3. docids_bitmap_ \intersect 0 .. n - 1 = docids_bitmap_
    <3>1. \A id \in docids_bitmap_ : id \in 0 .. n - 1
      BY <1>0, <2>1, <2>2
    <3> QED BY <3>1
  <2>4. \A k \in Keys : item_to_docid_'[k] # None => item_to_docid_'[k] \notin docids_bitmap_
    BY <2>1, FoundIsTheOne
  <2> QED BY <2>1, <2>2, <2>3, <2>4 DEF BitsAreCounted
<1>14. CASE LoadFails
  <2>1. /\ mode # "up" /\ mode' # "up" /\ Durable' = Durable
        /\ UNCHANGED <<delete_num_, docids_bitmap_, item_to_docid_>>
    BY <1>14 DEF LoadFails, ids, storages, Durable
  <2> QED BY <2>1 DEF BitsAreCounted
<1>15. CASE UNCHANGED vars
  <2>1. Durable' = Durable /\ UNCHANGED <<mode, ids>>
    BY <1>15 DEF vars, storages, Durable
  <2> QED BY <1>1, <2>1 DEF ids
<1> QED BY <1>2, <1>3, <1>4, <1>5, <1>6, <1>7, <1>9, <1>10, <1>11, <1>12, <1>13, <1>14, <1>15
    DEF Next

-----------------------------------------------------------------------------
(* The properties. *)

\* The inductive invariant holds whatever the keys, versions and bounds.
THEOREM InvariantHolds == ASSUME LegalVectors PROVE Spec => []IInv
<1>1. Init => IInv
  BY InitEstablishes
<1>2. IInv /\ [Next]_vars => IInv'
  BY StepKeeps
<1> QED BY <1>1, <1>2, PTL DEF Spec

\* Bits, key map and counter of deletes agree in steady use.
THEOREM BitsHold == ASSUME SteadyUse PROVE Spec => []BitsAreCounted
<1>0. LegalVectors
  BY DEF SteadyUse
<1>1. Init => BitsAreCounted
  BY InitEstablishes
<1>2. IInv /\ BitsAreCounted /\ [Next]_vars => BitsAreCounted'
  BY StepKeepsBits
<1>3. Spec => []IInv
  BY <1>0, InvariantHolds
<1> QED BY <1>1, <1>2, <1>3, PTL DEF Spec

\* GetDoc finds fields and vector of one version of one document at an id,
\* but for updates in progress or cut off by the end of a process.
THEOREM FieldsAndVectors == ASSUME LegalVectors PROVE Spec => []FieldsAndVectorBelongTogether
<1>1. IInv => FieldsAndVectorBelongTogether
  <2> SUFFICES ASSUME IInv, mode = "up"
               PROVE  /\ Len(rows) = max_docid_ /\ Len(vecs) = max_docid_
                      /\ \A id \in 0 .. max_docid_ - 1 :
                           \/ rows[id + 1] = vecs[id + 1]
                           \/ id \in torn
                           \/ upd # <<>> /\ upd.id = id
    BY DEF FieldsAndVectorBelongTogether
  <2>1. Len(rows) = max_docid_ /\ Len(vecs) = max_docid_ /\ max_docid_ \in Nat
    BY Shapes DEF IInv, CountersAgree
  <2>2. ASSUME NEW id \in 0 .. max_docid_ - 1
        PROVE  rows[id + 1] = vecs[id + 1] \/ id \in torn \/ (upd # <<>> /\ upd.id = id)
    BY <2>1 DEF IInv, PairsMatch
  <2> QED BY <2>1, <2>2
<1> QED BY <1>1, InvariantHolds, PTL

\* A key leads to the row of its own document, and every document that Search
\* can return is found under its key.
THEOREM KeysNameDocs == ASSUME LegalVectors PROVE Spec => []KeysNameTheirDocs
<1>1. IInv => KeysNameTheirDocs
  <2> SUFFICES ASSUME IInv, mode = "up"
               PROVE  /\ \A k \in Keys : item_to_docid_[k] # None =>
                           /\ item_to_docid_[k] < Len(rows)
                           /\ rows[item_to_docid_[k] + 1].key = k
                      /\ \A id \in Live : item_to_docid_[rows[id + 1].key] = id
    BY DEF KeysNameTheirDocs
  <2>1. Len(rows) = max_docid_ /\ max_docid_ \in Nat
    BY Shapes DEF IInv, CountersAgree
  <2>2. \A id \in Live : item_to_docid_[rows[id + 1].key] = id
    BY <2>1 DEF IInv, KeysAreOwn, Live
  <2> QED BY <2>1, <2>2 DEF IInv, KeysAreOwn
<1> QED BY <1>1, InvariantHolds, PTL

\* Load compares the counts, so the index never holds a vector that was lost.
THEOREM IndexIsWithinVectors == ASSUME LegalVectors PROVE Spec => []IndexWithinVectors
<1>1. IInv => IndexWithinVectors
  BY DEF IInv, IndexIsWithin, IndexWithinVectors
<1> QED BY <1>1, InvariantHolds, PTL

\* In steady use a new document is not hidden by its id's last owner, and
\* GetDocsNum is the number of documents a client can get.
THEOREM DocsAreCounted == ASSUME SteadyUse PROVE Spec => []DocInv
<1>0. LegalVectors
  BY DEF SteadyUse
<1>1. IInv /\ BitsAreCounted => DocInv
  <2> SUFFICES ASSUME IInv, BitsAreCounted PROVE DocInv
    OBVIOUS
  <2>1. max_docid_ \in Nat /\ docids_bitmap_ \subseteq Nat /\ max_docid_ <= MaxDocs
    BY Shapes, Bounds DEF IInv, Typed, Docids
  <2>2. delete_num_ \in 0 .. MaxDocs
    <3>1. CASE mode = "up"
      <4>1. Cardinality(docids_bitmap_) \in Nat /\ Cardinality(docids_bitmap_) <= max_docid_
        BY <2>1, <3>1, IdsAreFinite DEF BitsAreCounted
      <4> QED BY <2>1, <3>1, <4>1, Bounds DEF BitsAreCounted
    <3>2. CASE mode # "up"
      BY <3>2, Bounds DEF BitsAreCounted
    <3> QED BY <3>1, <3>2
  <2>3. TypeOK
    BY <2>2 DEF IInv, Typed, TypeOK, RowLog!TypeOK, VecLog!TypeOK
  <2>4. NewDocsAreVisible
    BY DEF BitsAreCounted, NewDocsAreVisible
  <2>5. DocsNumCounts
    <3> SUFFICES ASSUME mode = "up" PROVE max_docid_ - delete_num_ = Cardinality(Live)
      BY DEF DocsNumCounts
    <3> DEFINE all == 0 .. max_docid_ - 1
    <3>1. IsFiniteSet(all) /\ Cardinality(all) = max_docid_
      <4>1. 0 \in Int /\ max_docid_ - 1 \in Int
        BY <2>1
      <4>2. IsFiniteSet(all)
            /\ Cardinality(all) = IF 0 > max_docid_ - 1 THEN 0 ELSE max_docid_ - 1 - 0 + 1
        BY <4>1, FS_Interval
      <4> QED BY <2>1, <4>2
    <3>2. Live = all \ docids_bitmap_ /\ all \intersect docids_bitmap_ = docids_bitmap_
      <4>1. \A id \in docids_bitmap_ : id \in all
        BY <2>1 DEF BitsAreCounted
      <4>2. Live = all \ docids_bitmap_
        BY DEF Live
      <4> QED BY <4>1, <4>2
    <3> HIDE DEF all
    <3>3. Cardinality(all \ docids_bitmap_)
            = Cardinality(all) - Cardinality(all \intersect docids_bitmap_)
      BY <3>1, FS_Difference
    <3> QED BY <3>1, <3>2, <3>3 DEF BitsAreCounted
  <2> QED BY <2>3, <2>4, <2>5 DEF DocInv
<1> QED BY <1>0, <1>1, InvariantHolds, BitsHold, PTL

-----------------------------------------------------------------------------
(* The engine implements a map of documents (DocMap). *)

\* The map of the documents, and its keys a restart would find.
StoreNow == [k \in Keys |-> DocOf(IdOf(k))]
SafeNow == {k \in Keys : IdOf(k) # None /\ IdOf(k) < Durable}

\* In steady use every key leads to an id of its own, and the documents are
\* known versions.
LEMMA MapFacts ==
  ASSUME IInv, mode = "up"
  PROVE  /\ Durable \in Nat /\ Durable <= max_docid_ /\ max_docid_ \in Nat
         /\ Len(rows) = max_docid_
         /\ \A k \in Keys : item_to_docid_[k] # None =>
              /\ item_to_docid_[k] \in Nat /\ item_to_docid_[k] < max_docid_
              /\ rows[item_to_docid_[k] + 1].key = k
              /\ rows[item_to_docid_[k] + 1].ver \in Versions
         /\ \A k \in Keys : StoreNow[k] = DocOf(item_to_docid_[k])
         /\ SafeNow = {k \in Keys : item_to_docid_[k] # None /\ item_to_docid_[k] < Durable}
<1>1. /\ Durable \in Nat /\ Durable <= max_docid_ /\ max_docid_ \in Nat
      /\ Len(rows) = max_docid_
  <2>1. rdur \in 0 .. Len(rows) /\ vdur \in 0 .. Len(vecs) /\ Len(rows) = max_docid_
        /\ Len(vecs) = max_docid_ /\ max_docid_ \in Nat
    BY Shapes DEF IInv, CountersAgree, Typed
  <2> QED BY <2>1 DEF Durable
<1>2. ASSUME NEW k \in Keys, item_to_docid_[k] # None
      PROVE  /\ item_to_docid_[k] \in Nat /\ item_to_docid_[k] < max_docid_
             /\ rows[item_to_docid_[k] + 1].key = k
             /\ rows[item_to_docid_[k] + 1].ver \in Versions
  <2>1. /\ item_to_docid_[k] \in Nat /\ item_to_docid_[k] < max_docid_
        /\ rows[item_to_docid_[k] + 1].key = k
    BY <1>2, Shapes DEF IInv, KeysAreOwn
  <2>2. rows[item_to_docid_[k] + 1] \in Doc
    BY <1>1, <2>1, Shapes
  <2> QED BY <2>1, <2>2 DEF Doc
<1>3. \A k \in Keys : StoreNow[k] = DocOf(item_to_docid_[k])
  BY DEF StoreNow, IdOf
<1>4. SafeNow = {k \in Keys : item_to_docid_[k] # None /\ item_to_docid_[k] < Durable}
  BY DEF SafeNow, IdOf
<1> QED BY <1>1, <1>2, <1>3, <1>4

\* An engine without documents is an empty map.
LEMMA InitIsEmptyMap == Init => Abstract!Init
<1> SUFFICES ASSUME Init PROVE Abstract!Init
  OBVIOUS
<1>1. mode = "up" /\ item_to_docid_ = [k \in Keys |-> None]
  BY DEF Init
<1>2. \A k \in Keys : IdOf(k) = None
  BY <1>1 DEF IdOf
<1> QED BY <1>1, <1>2 DEF Abstract!Init, DocOf

\* A step that some keys get a version by is a Put of the map, or changes nothing.
LEMMA PutIsMapped ==
  ASSUME mode = "up", mode' = "up", NEW changed \in SUBSET Keys,
         \A k \in changed : StoreNow'[k] \in Versions,
         \A k \in Keys \ changed : StoreNow'[k] = StoreNow[k],
         SafeNow' = SafeNow
  PROVE  [Abstract!Next]_(Abstract!vars)
<1>1. StoreNow = [k \in Keys |-> StoreNow[k]] /\ StoreNow' = [k \in Keys |-> StoreNow'[k]]
  BY DEF StoreNow
<1>2. CASE changed = {}
  <2>1. StoreNow' = StoreNow
    BY <1>1, <1>2
  <2> QED BY <2>1 DEF Abstract!vars, StoreNow, SafeNow
<1>3. CASE changed # {}
  <2>1. PICK some \in changed : TRUE
    BY <1>3
  <2> DEFINE doc == [k \in Keys |-> IF k \in changed THEN StoreNow'[k] ELSE StoreNow'[some]]
  <2>2. doc \in [Keys -> Versions]
    BY <2>1
  <2>3. StoreNow' = [k \in Keys |-> IF k \in changed THEN doc[k] ELSE StoreNow[k]]
    BY <1>1
  <2> HIDE DEF doc
  <2>4. \E c \in SUBSET Keys, d \in [Keys -> Versions] :
          StoreNow' = [k \in Keys |-> IF k \in c THEN d[k] ELSE StoreNow[k]]
    BY <2>2, <2>3
  <2>5. Abstract!Put
    BY <2>4 DEF Abstract!Put, StoreNow, SafeNow
  <2> QED BY <2>5 DEF Abstract!Next
<1> QED BY <1>2, <1>3

\* Inserts put new keys, none of them safe yet.
LEMMA InsertIsPut ==
  ASSUME IInv, IInv', mode = "up", mode' = "up",
         \A id \in Nat : id < max_docid_ => rows'[id + 1] = rows[id + 1],
         Durable' = Durable,
         \A k \in Keys : \/ item_to_docid_'[k] = item_to_docid_[k]
                         \/ /\ item_to_docid_[k] = None /\ item_to_docid_'[k] # None
                            /\ item_to_docid_'[k] >= max_docid_
  PROVE  [Abstract!Next]_(Abstract!vars)
<1> DEFINE changed == {k \in Keys : item_to_docid_'[k] # item_to_docid_[k]}
<1>1. \A k \in Keys : /\ StoreNow[k] = DocOf(item_to_docid_[k])
                      /\ StoreNow'[k] = DocOf(item_to_docid_[k])'
  BY DEF StoreNow, IdOf
<1>2. SafeNow' = SafeNow
  <2>1. SafeNow = {k \in Keys : item_to_docid_[k] # None /\ item_to_docid_[k] < Durable}
    BY MapFacts
  <2>2. SafeNow' = {k \in Keys : item_to_docid_'[k] # None /\ item_to_docid_'[k] < Durable}
    BY DEF SafeNow, IdOf
  <2>3. ASSUME NEW k \in Keys
        PROVE  item_to_docid_'[k] # None /\ item_to_docid_'[k] < Durable
               <=> item_to_docid_[k] # None /\ item_to_docid_[k] < Durable
    <3>1. CASE item_to_docid_'[k] = item_to_docid_[k]
      BY <3>1
    <3>2. CASE item_to_docid_[k] = None /\ item_to_docid_'[k] # None
               /\ item_to_docid_'[k] >= max_docid_
      <4>1. item_to_docid_' \in [Keys -> Docids \union {None}]
        BY DEF IInv, Typed
      <4>2. item_to_docid_'[k] \in Nat
        BY <3>2, <4>1, Bounds DEF Docids
      <4> QED BY <3>2, <4>2, MapFacts
    <3> QED BY <3>1, <3>2
  <2> QED BY <2>1, <2>2, <2>3
<1>3. ASSUME NEW k \in changed PROVE StoreNow'[k] \in Versions
  <2>1. item_to_docid_'[k] # None /\ k \in Keys
    OBVIOUS
  <2>2. /\ rows' \in Seq(Doc) /\ item_to_docid_' \in [Keys -> Docids \union {None}]
        /\ item_to_docid_'[k] < max_docid_' /\ Len(rows') = max_docid_' /\ max_docid_' \in 0 .. MaxDocs
    BY <2>1 DEF IInv, Typed, CountersAgree, KeysAreOwn
  <2>3. item_to_docid_'[k] \in Nat
    BY <2>1, <2>2, Bounds DEF Docids
  <2>4. rows'[item_to_docid_'[k] + 1] \in Doc
    BY <2>2, <2>3, Bounds
  <2> QED BY <1>1, <2>1, <2>4 DEF DocOf, Doc
<1>4. ASSUME NEW k \in Keys \ changed PROVE StoreNow'[k] = StoreNow[k]
  <2>1. item_to_docid_'[k] = item_to_docid_[k]
    OBVIOUS
  <2>2. item_to_docid_[k] # None => item_to_docid_[k] \in Nat /\ item_to_docid_[k] < max_docid_
    BY MapFacts
  <2> QED BY <1>1, <2>1, <2>2 DEF DocOf
<1> HIDE DEF changed
<1>5. changed \in SUBSET Keys
  BY DEF changed
<1> QED BY <1>2, <1>3, <1>4, <1>5, PutIsMapped

\* What an Insert does to keys and rows.
LEMMA InsertAdds ==
  ASSUME IInv, mode = "up",
         NEW docs \in Seq(NewDoc), NEW n \in Nat, Insert(docs, n),
         \A i \in 1 .. Len(docs) : item_to_docid_[docs[i].key] = None
  PROVE  /\ \A id \in Nat : id < max_docid_ => rows'[id + 1] = rows[id + 1]
         /\ Durable' = Durable
         /\ \A k \in Keys : \/ item_to_docid_'[k] = item_to_docid_[k]
                            \/ /\ item_to_docid_[k] = None /\ item_to_docid_'[k] # None
                               /\ item_to_docid_'[k] >= max_docid_
<1>1. Len(rows) = max_docid_ /\ max_docid_ \in Nat /\ rows \in Seq(Doc) /\ DOMAIN docs = 1 .. Len(docs)
  BY Shapes DEF IInv, CountersAgree, Typed
<1>2. Durable' = Durable
  BY DEF Insert, Durable
<1>3. ASSUME NEW id \in Nat, id < max_docid_ PROVE rows'[id + 1] = rows[id + 1]
  <2> DEFINE new == [i \in DOMAIN docs |-> Stored(docs[i])]
  <2>1. rows' = rows \o new
    BY DEF Insert
  <2>2. \A i \in 1 .. Len(docs) : docs[i] \in NewDoc
    OBVIOUS
  <2>3. \A i \in 1 .. Len(docs) : Stored(docs[i]) \in Doc
    BY <2>2 DEF Stored, NewDoc, Doc
  <2>4. new \in Seq(Doc)
    BY <1>1, <2>3
  <2> HIDE DEF new
  <2>5. \A i \in 1 .. Len(rows) + Len(new) :
          (rows \o new)[i] = IF i <= Len(rows) THEN rows[i] ELSE new[i - Len(rows)]
    BY <1>1, <2>4, ConcatProperties
  <2>6. Len(new) \in Nat
    BY <2>4
  <2>7. id + 1 \in 1 .. Len(rows) + Len(new) /\ id + 1 <= Len(rows)
    BY <1>1, <1>3, <2>6
  <2> QED BY <2>1, <2>5, <2>7
<1>4. ASSUME NEW k \in Keys
      PROVE  \/ item_to_docid_'[k] = item_to_docid_[k]
             \/ /\ item_to_docid_[k] = None /\ item_to_docid_'[k] # None
                /\ item_to_docid_'[k] >= max_docid_
  <2>1. CASE \E i \in DOMAIN docs : docs[i].key = k
    <3> DEFINE i == CHOOSE i \in DOMAIN docs : docs[i].key = k
    <3>1. item_to_docid_'[k] = max_docid_ + i - 1
      BY <2>1 DEF Insert
    <3>2. i \in DOMAIN docs /\ docs[i].key = k
      BY <2>1
    <3>3. i \in 1 .. Len(docs) /\ Len(docs) \in Nat
      BY <1>1, <3>2
    <3>4. item_to_docid_[k] = None
      BY <3>2, <3>3
    <3> HIDE DEF i
    <3>5. item_to_docid_'[k] \in Nat /\ item_to_docid_'[k] >= max_docid_
      BY <1>1, <3>1, <3>3
    <3> QED BY <3>4, <3>5, NoneAssumption
  <2>2. CASE ~ \E i \in DOMAIN docs : docs[i].key = k
    BY <2>2 DEF Insert
  <2> QED BY <2>1, <2>2
<1> QED BY <1>2, <1>3, <1>4

\* The three calls that insert.
LEMMA InsertsAreMapped ==
  ASSUME IInv, LegalVectors,
         \/ \E d \in Inserts : AddOrUpdateNew(d)
         \/ \E d \in NewDoc : FlushAndUpdate(d)
         \/ EndDocs
  PROVE  [Abstract!Next]_(Abstract!vars)
<1>0. IInv'
  BY NewDocKeeps, FlushAndUpdateKeeps, EndDocsKeeps
<1>1. ASSUME NEW d \in Inserts, AddOrUpdateNew(d) PROVE [Abstract!Next]_(Abstract!vars)
  <2>1. <<d>> \in Seq(NewDoc) /\ Len(<<d>>) = 1 /\ <<d>>[1] = d
    BY DEF Inserts
  <2>2. /\ mode = "up" /\ mode' = "up" /\ item_to_docid_[d.key] = None
        /\ (Insert(<<d>>, 1) \/ Insert(<<d>>, 0))
    BY <1>1 DEF AddOrUpdateNew, Idle
  <2>3. \A i \in 1 .. Len(<<d>>) : item_to_docid_[<<d>>[i].key] = None
    BY <2>1, <2>2
  <2> DEFINE docs == <<d>>
  <2> HIDE DEF docs
  <2>4. docs \in Seq(NewDoc) /\ (Insert(docs, 1) \/ Insert(docs, 0))
        /\ \A i \in 1 .. Len(docs) : item_to_docid_[docs[i].key] = None
    BY <2>1, <2>2, <2>3 DEF docs
  <2> QED BY <1>0, <2>2, <2>4, InsertAdds, InsertIsPut
<1>2. batch \in Seq(NewDoc) /\ Len(batch) \in Nat
      /\ \A i \in 1 .. Len(batch) : item_to_docid_[batch[i].key] = None
  BY DEF IInv, Typed, BatchIsNew
<1>3. ASSUME NEW d \in NewDoc, FlushAndUpdate(d) PROVE [Abstract!Next]_(Abstract!vars)
  <2>1. mode = "up" /\ mode' = "up" /\ Insert(batch, Len(batch))
    BY <1>3 DEF FlushAndUpdate
  <2> QED BY <1>0, <1>2, <2>1, InsertAdds, InsertIsPut
<1>4. CASE EndDocs
  <2>1. mode = "up" /\ mode' = "up" /\ Insert(batch, Len(batch))
    BY <1>4 DEF EndDocs
  <2> QED BY <1>0, <1>2, <2>1, InsertAdds, InsertIsPut
<1> QED BY <1>1, <1>3, <1>4

\* Table::Update puts the version of one key.
LEMMA UpdateRowIsPut ==
  ASSUME IInv, UpdateRow
  PROVE  [Abstract!Next]_(Abstract!vars)
<1>1. /\ mode = "up" /\ mode' = "up" /\ upd # <<>> /\ upd.stage = "row"
      /\ rows' = [rows EXCEPT ![upd.id + 1] = Stored(upd)] /\ rdur' = rdur /\ vdur' = vdur
      /\ item_to_docid_' = item_to_docid_
  BY DEF UpdateRow, RowLog!Replace
<1>2. /\ upd \in Pending /\ upd.key \in Keys /\ upd.id \in Nat /\ upd.id < max_docid_
      /\ item_to_docid_[upd.key] = upd.id
      /\ Len(rows) = max_docid_ /\ max_docid_ \in Nat /\ rows \in Seq(Doc)
      /\ rows[upd.id + 1].key = upd.key
  BY <1>1, RowIsOwn
<1>3. upd.id + 1 \in DOMAIN rows
  BY <1>2
<1>4. /\ rows'[upd.id + 1] = Stored(upd)
      /\ \A id \in Nat : id # upd.id => rows'[id + 1] = rows[id + 1]
  BY <1>1, <1>2, <1>3
<1>5. Durable' = Durable
  BY <1>1 DEF Durable
<1>6. \A k \in Keys : /\ StoreNow[k] = DocOf(item_to_docid_[k])
                      /\ StoreNow'[k] = DocOf(item_to_docid_[k])'
  BY <1>1 DEF StoreNow, IdOf
<1>7. SafeNow' = SafeNow
  BY <1>1, <1>5 DEF SafeNow, IdOf
<1>8. StoreNow'[upd.key] \in Versions
  <2>1. StoreNow'[upd.key] = rows'[upd.id + 1].ver
    BY <1>1, <1>2, <1>6, NoneAssumption DEF DocOf
  <2> QED BY <1>2, <1>4, <2>1 DEF Stored, Pending
<1>9. ASSUME NEW k \in Keys \ {upd.key} PROVE StoreNow'[k] = StoreNow[k]
  <2>1. item_to_docid_[k] # None =>
          item_to_docid_[k] \in Nat /\ rows[item_to_docid_[k] + 1].key = k
    BY <1>1, MapFacts
  <2>2. item_to_docid_[k] # upd.id
    BY <1>2, <2>1, NoneAssumption
  <2> QED BY <1>1, <1>4, <1>6, <2>1, <2>2 DEF DocOf
<1>10. {upd.key} \in SUBSET Keys
  BY <1>2
<1> QED BY <1>1, <1>7, <1>8, <1>9, <1>10, PutIsMapped

\* Deletes remove their keys.
LEMMA DeletesAreRemovals ==
  ASSUME IInv, \/ \E k \in Keys : Delete(k)
               \/ \E v \in Versions : DelDocByFilter(v)
  PROVE  [Abstract!Next]_(Abstract!vars)
<1>1. ASSUME mode = "up", mode' = "up", NEW gone \in SUBSET Keys,
             item_to_docid_' = [k \in Keys |-> IF k \in gone THEN None ELSE item_to_docid_[k]],
             UNCHANGED storages
      PROVE  Abstract!Remove
  <2>1. UNCHANGED <<rows, Durable>>
    BY <1>1 DEF storages, Durable
  <2>2. /\ StoreNow = [k \in Keys |-> DocOf(item_to_docid_[k])]
        /\ StoreNow' = [k \in Keys |-> DocOf(item_to_docid_[k])']
    BY <1>1 DEF StoreNow, IdOf
  <2>3. ASSUME NEW k \in Keys
        PROVE  DocOf(item_to_docid_[k])' = IF k \in gone THEN Missing ELSE DocOf(item_to_docid_[k])
    BY <1>1, <2>1 DEF DocOf
  <2>4. StoreNow' = [k \in Keys |-> IF k \in gone THEN Missing ELSE StoreNow[k]]
    BY <2>2, <2>3
  <2>5. SafeNow' = SafeNow \ gone
    <3>1. /\ SafeNow = {k \in Keys : item_to_docid_[k] # None /\ item_to_docid_[k] < Durable}
          /\ SafeNow' = {k \in Keys : item_to_docid_'[k] # None /\ item_to_docid_'[k] < Durable}
      BY <1>1, <2>1 DEF SafeNow, IdOf
    <3>2. \A k \in Keys : item_to_docid_'[k] = IF k \in gone THEN None ELSE item_to_docid_[k]
      BY <1>1
    <3> QED BY <3>1, <3>2
  <2> QED BY <1>1, <2>4, <2>5 DEF Abstract!Remove, StoreNow, SafeNow
<1>2. ASSUME NEW k \in Keys, Delete(k) PROVE Abstract!Remove
  <2>1. mode = "up" /\ mode' = "up" /\ UNCHANGED storages
        /\ item_to_docid_' = [item_to_docid_ EXCEPT ![k] = None]
    BY <1>2 DEF Delete, Idle
  <2>2. item_to_docid_ \in [Keys -> Docids \union {None}]
    BY DEF IInv, Typed
  <2>3. item_to_docid_' = [j \in Keys |-> IF j \in {k} THEN None ELSE item_to_docid_[j]]
    BY <2>1, <2>2
  <2>4. {k} \in SUBSET Keys
    OBVIOUS
  <2> QED BY <1>1, <2>1, <2>3, <2>4
<1>3. ASSUME NEW v \in Versions, DelDocByFilter(v) PROVE Abstract!Remove
  <2> DEFINE hit == {id \in Matching(v) \ docids_bitmap_ : item_to_docid_[rows[id + 1].key] = id}
             gone == {k \in Keys : item_to_docid_[k] \in hit}
  <2>1. /\ mode = "up" /\ mode' = "up" /\ UNCHANGED storages
        /\ item_to_docid_' = [k \in Keys |->
              IF item_to_docid_[k] \in hit THEN None ELSE item_to_docid_[k]]
    BY <1>3 DEF DelDocByFilter, Idle
  <2> HIDE DEF hit
  <2>2. item_to_docid_' = [k \in Keys |-> IF k \in gone THEN None ELSE item_to_docid_[k]]
    BY <2>1
  <2>3. gone \in SUBSET Keys
    OBVIOUS
  <2> HIDE DEF gone
  <2> QED BY <1>1, <2>1, <2>2, <2>3
<1> QED BY <1>2, <1>3 DEF Abstract!Next

\* What becomes durable makes documents safe.
LEMMA PersistIsSecure ==
  ASSUME IInv, PersistRow \/ PersistVector
  PROVE  [Abstract!Next]_(Abstract!vars)
<1>1. /\ mode = "up" /\ mode' = "up" /\ UNCHANGED <<ids, rows>>
      /\ \/ rdur' = rdur /\ vdur' = vdur + 1
         \/ rdur' = rdur + 1 /\ vdur' = vdur
  <2>1. CASE PersistRow
    BY <2>1 DEF PersistRow, RowLog!Persist
  <2>2. CASE PersistVector
    BY <2>2 DEF PersistVector, VecLog!Persist
  <2> QED BY <2>1, <2>2
<1>2. Durable \in Nat /\ Durable' \in Nat /\ Durable <= Durable'
  BY <1>1, Shapes DEF Durable
<1>3. StoreNow' = StoreNow
  BY <1>1 DEF StoreNow, IdOf, DocOf, ids
<1>4. /\ SafeNow = {k \in Keys : item_to_docid_[k] # None /\ item_to_docid_[k] < Durable}
      /\ SafeNow' = {k \in Keys : item_to_docid_[k] # None /\ item_to_docid_[k] < Durable'}
  BY <1>1 DEF SafeNow, IdOf, ids
<1>5. SafeNow \subseteq SafeNow'
  <2>1. \A k \in Keys : item_to_docid_[k] # None => item_to_docid_[k] \in Nat
    BY Shapes
  <2> QED BY <1>2, <1>4, <2>1
<1>6. SafeNow' \subseteq {k \in Keys : StoreNow[k] # Missing}
  <2>1. ASSUME NEW k \in Keys, item_to_docid_[k] # None PROVE StoreNow[k] # Missing
    BY <1>1, <2>1, MapFacts, NoneAssumption DEF DocOf
  <2> QED BY <1>4, <2>1
<1>7. Abstract!Secure
  BY <1>1, <1>3, <1>5, <1>6 DEF Abstract!Secure, StoreNow, SafeNow
<1> QED BY <1>7 DEF Abstract!Next

\* The end of a process keeps the safe keys, at their last version.
LEMMA StopIsEnd ==
  ASSUME IInv, BitsAreCounted, Stop
  PROVE  [Abstract!Next]_(Abstract!vars)
<1> DEFINE n == Durable
<1>1. /\ mode = "up" /\ mode' = "down" /\ docids_bitmap_' = docids_bitmap_
      /\ rdur' = rdur /\ vdur' = vdur
      /\ \A id \in Nat : id < rdur => rows'[id + 1] = rows[id + 1]
  BY StopKeeps DEF Stop, RowLog!End, VecLog!End
<1>2. /\ n \in Nat /\ n <= rdur /\ n' = n /\ n <= max_docid_ /\ Len(rows) = max_docid_
      /\ max_docid_ \in Nat /\ rdur \in Nat
  BY <1>1, MapFacts, Shapes DEF Durable
<1> HIDE DEF n
<1>3. ASSUME NEW k \in Keys PROVE FoundAt(k, n)' = FoundAt(k, n)
  <2>1. {id \in 0 .. n' - 1 : id \notin docids_bitmap_' /\ rows'[id + 1].key = k}
        = {id \in 0 .. n - 1 : id \notin docids_bitmap_ /\ rows[id + 1].key = k}
    BY <1>1, <1>2
  <2> DEFINE live == {id \in 0 .. n - 1 : id \notin docids_bitmap_ /\ rows[id + 1].key = k}
  <2>2. FoundAt(k, n) = IF live = {} THEN None
                        ELSE CHOOSE id \in live : \A other \in live : id <= other
    BY DEF FoundAt
  <2>3. FoundAt(k, n)' = IF live' = {} THEN None
                         ELSE CHOOSE id \in live' : \A other \in live' : id <= other
    BY DEF FoundAt
  <2>4. live' = live
    BY <2>1
  <2> HIDE DEF live
  <2> QED BY <2>2, <2>3, <2>4
<1>4. ASSUME NEW k \in Keys
      PROVE  /\ FoundAt(k, n) # None => item_to_docid_[k] = FoundAt(k, n)
             /\ item_to_docid_[k] # None /\ item_to_docid_[k] < n => FoundAt(k, n) = item_to_docid_[k]
  <2>1. n <= Len(rows)
    BY <1>2
  <2>2. ASSUME FoundAt(k, n) # None PROVE item_to_docid_[k] = FoundAt(k, n)
    <3>1. /\ FoundAt(k, n) \in Nat /\ FoundAt(k, n) < n /\ FoundAt(k, n) \notin docids_bitmap_
          /\ rows[FoundAt(k, n) + 1].key = k
      BY <1>2, <2>1, <2>2, FoundIsTheOne
    <3> QED BY <1>1, <1>2, <3>1 DEF IInv, KeysAreOwn
  <2>3. ASSUME item_to_docid_[k] # None, item_to_docid_[k] < n
        PROVE  FoundAt(k, n) = item_to_docid_[k]
    <3>1. item_to_docid_[k] \in Nat /\ rows[item_to_docid_[k] + 1].key = k
      BY <1>1, <2>3, MapFacts
    <3>2. item_to_docid_[k] \notin docids_bitmap_
      BY <2>3 DEF BitsAreCounted
    <3> QED BY <1>2, <2>1, <2>3, <3>1, <3>2, FoundIsTheOne
  <2> QED BY <2>2, <2>3
<1>5. ASSUME NEW k \in Keys
      PROVE  /\ FoundAt(k, n) # None => FoundAt(k, n) \in Nat /\ FoundAt(k, n) < n
             /\ k \in SafeNow <=> FoundAt(k, n) # None
  <2>1. FoundAt(k, n) # None => FoundAt(k, n) \in Nat /\ FoundAt(k, n) < n
    BY <1>2, FoundIsTheOne
  <2>2. k \in SafeNow <=> item_to_docid_[k] # None /\ item_to_docid_[k] < n
    BY <1>1, MapFacts DEF n
  <2> QED BY <1>4, <2>1, <2>2
<1>6. ASSUME NEW k \in Keys
      PROVE  IdOf(k)' = FoundAt(k, n) /\ StoreNow'[k] = DocOf(FoundAt(k, n))
  <2>1. IdOf(k)' = FoundAt(k, n)'
    BY <1>1 DEF IdOf, n
  <2>2. IdOf(k)' = FoundAt(k, n)
    BY <1>3, <2>1
  <2>3. StoreNow'[k] = IF FoundAt(k, n) = None THEN Missing ELSE rows'[FoundAt(k, n) + 1].ver
    BY <2>2 DEF StoreNow, DocOf
  <2> QED BY <1>1, <1>2, <1>5, <2>2, <2>3 DEF DocOf
<1>7. SafeNow' = SafeNow
  <2>1. SafeNow' = {k \in Keys : FoundAt(k, n) # None /\ FoundAt(k, n) < n}
    BY <1>2, <1>6 DEF SafeNow, n
  <2> QED BY <1>5, <2>1 DEF SafeNow
<1>8. StoreNow' = [k \in Keys |-> IF k \in SafeNow THEN StoreNow[k] ELSE Missing]
  <2>1. ASSUME NEW k \in Keys
        PROVE  StoreNow'[k] = IF k \in SafeNow THEN StoreNow[k] ELSE Missing
    BY <1>1, <1>4, <1>5, <1>6, MapFacts DEF DocOf
  <2> QED BY <2>1 DEF StoreNow
<1>9. Abstract!End
  BY <1>1, <1>7, <1>8 DEF Abstract!End, StoreNow, SafeNow
<1> QED BY <1>9 DEF Abstract!Next

\* Load brings back exactly the documents of the map.
LEMMA LoadIsStart ==
  ASSUME IInv, Load
  PROVE  [Abstract!Next]_(Abstract!vars)
<1> DEFINE n == Durable
<1>1. /\ mode = "down" /\ mode' = "up" /\ n \in Nat /\ n <= Len(rows)
      /\ rdur' = n /\ vdur' = n
      /\ item_to_docid_' = [k \in Keys |-> FoundAt(k, n)]
      /\ \A id \in Nat : id < n => rows'[id + 1] = rows[id + 1]
  BY LoadKeeps DEF Load
<1>2. n' = n
  BY <1>1 DEF Durable
<1> HIDE DEF n
<1>3. ASSUME NEW k \in Keys
      PROVE  IdOf(k) = FoundAt(k, n) /\ IdOf(k)' = FoundAt(k, n)
             /\ (FoundAt(k, n) # None => FoundAt(k, n) \in Nat /\ FoundAt(k, n) < n)
  <2>1. IdOf(k) = FoundAt(k, n)
    BY <1>1 DEF IdOf, n
  <2>2. IdOf(k)' = item_to_docid_'[k]
    BY <1>1 DEF IdOf
  <2> QED BY <1>1, <2>1, <2>2, FoundIsTheOne
<1>4. StoreNow' = StoreNow
  <2>1. ASSUME NEW k \in Keys PROVE DocOf(IdOf(k))' = DocOf(IdOf(k))
    BY <1>1, <1>3 DEF DocOf
  <2> QED BY <2>1 DEF StoreNow
<1>5. SafeNow' = SafeNow
  BY <1>2, <1>3 DEF SafeNow, n
<1>6. Abstract!Start
  BY <1>1, <1>4, <1>5 DEF Abstract!Start, StoreNow, SafeNow
<1> QED BY <1>6 DEF Abstract!Next

\* The other steps do not change the map.
LEMMA OthersStutter ==
  ASSUME IInv, \/ \E d \in Inserts : Collect(d)
               \/ \E d \in NewDoc : AddOrUpdateKnown(d)
               \/ \E kind \in {"plain", "words"} : BeginDocs(kind)
               \/ UpdateVector \/ AddToIndex \/ Dump \/ LoadFails \/ UNCHANGED vars
  PROVE  UNCHANGED Abstract!vars
<1>1. UNCHANGED <<item_to_docid_, docids_bitmap_, rows, Durable>>
  <2>1. UNCHANGED <<ids, rows, rdur, vdur>>
    BY DEF Collect, AddOrUpdateKnown, BeginDocs, UpdateVector, AddToIndex, Dump, LoadFails, vars,
       storages
  <2> QED BY <2>1 DEF ids, Durable
<1>2. (mode' = "up") = (mode = "up")
  BY DEF Collect, AddOrUpdateKnown, BeginDocs, UpdateVector, AddToIndex, Dump, LoadFails, vars, Idle
<1>3. \A k \in Keys : FoundAt(k, Durable)' = FoundAt(k, Durable)
  BY <1>1 DEF FoundAt
<1>4. \A k \in Keys : IdOf(k)' = IdOf(k)
  BY <1>1, <1>2, <1>3 DEF IdOf
<1>5. StoreNow' = StoreNow
  BY <1>1, <1>4 DEF StoreNow, DocOf
<1>6. SafeNow' = SafeNow
  BY <1>1, <1>4 DEF SafeNow
<1> QED BY <1>2, <1>5, <1>6 DEF Abstract!vars, StoreNow, SafeNow

\* In steady use the engine implements the map of documents: every call has
\* the effect its keys say, and the end and start of a process lose nothing
\* that was durable and bring back nothing that was deleted or replaced.
THEOREM DocMapIsImplemented == ASSUME SteadyUse PROVE Spec => ImplementsDocMap
<1>0. LegalVectors
  BY DEF SteadyUse
<1>1. Init => Abstract!Init
  BY InitIsEmptyMap
<1>2. ASSUME IInv, BitsAreCounted, [Next]_vars
      PROVE  [Abstract!Next]_(Abstract!vars)
  <2>1. ASSUME \/ \E d \in Inserts : AddOrUpdateNew(d)
               \/ \E d \in NewDoc : FlushAndUpdate(d)
               \/ EndDocs
        PROVE  [Abstract!Next]_(Abstract!vars)
    BY <1>0, <1>2, <2>1, InsertsAreMapped
  <2>2. CASE UpdateRow
    BY <1>2, <2>2, UpdateRowIsPut
  <2>3. ASSUME \/ \E k \in Keys : Delete(k)
               \/ \E v \in Versions : DelDocByFilter(v)
        PROVE  [Abstract!Next]_(Abstract!vars)
    BY <1>2, <2>3, DeletesAreRemovals
  <2>4. ASSUME NEW v \in Versions, DelDocByQuery(v)
        PROVE  [Abstract!Next]_(Abstract!vars)
    BY <2>4 DEF DelDocByQuery, SteadyUse
  <2>5. ASSUME PersistRow \/ PersistVector
        PROVE  [Abstract!Next]_(Abstract!vars)
    BY <1>2, <2>5, PersistIsSecure
  <2>6. CASE Stop
    BY <1>2, <2>6, StopIsEnd
  <2>7. CASE Load
    BY <1>2, <2>7, LoadIsStart
  <2>8. ASSUME \/ \E d \in Inserts : Collect(d)
               \/ \E d \in NewDoc : AddOrUpdateKnown(d)
               \/ \E kind \in {"plain", "words"} : BeginDocs(kind)
               \/ UpdateVector \/ AddToIndex \/ Dump \/ LoadFails \/ UNCHANGED vars
        PROVE  [Abstract!Next]_(Abstract!vars)
    BY <1>2, <2>8, OthersStutter
  <2> QED BY <1>2, <2>1, <2>2, <2>3, <2>4, <2>5, <2>6, <2>7, <2>8 DEF Next
<1>3. Spec => []IInv /\ []BitsAreCounted
  BY <1>0, InvariantHolds, BitsHold
<1> QED BY <1>1, <1>2, <1>3, PTL DEF Spec, ImplementsDocMap, Abstract!Spec

-----------------------------------------------------------------------------
(* The end of the threads.                                                 *)

\* Until the engine ends, b_running_ counts exactly while a thread indexes:
\* BuildIndex starts one when it is zero, and a training that fails resets it.
RunsWhileCounted == ender = "none" => (indexThread = "none" <=> b_running_ = 0)

\* The flag the destructor has cleared stays cleared: nobody calls any more.
StaysCleared == ender # "none" => b_running_ = 0

ThreadsIInv ==
  /\ ThreadsTypeOK
  /\ RunsWhileCounted
  /\ StaysCleared
  /\ FreedAfterIndexing

\* The bounds of a run are numbers.
LEMMA ThreadsBounds == MaxStored \in Nat /\ MaxFailures \in Nat
  BY ThreadsAssumption

\* A constructed engine has no indexing thread and nothing freed.
THEOREM ThreadsBegin == ThreadsInit => ThreadsIInv
<1> SUFFICES ASSUME ThreadsInit PROVE ThreadsIInv
  OBVIOUS
<1>1. ThreadsTypeOK
  <2>1. stored \in 0 .. MaxStored /\ inIndex \in 0 .. stored /\ failures \in 0 .. MaxFailures
    BY ThreadsBounds DEF ThreadsInit
  <2>2. b_field_running_ \in BOOLEAN /\ lost \in BOOLEAN
    BY Zenon DEF ThreadsInit
  <2> QED
    BY <2>1, <2>2 DEF ThreadsInit, ThreadsTypeOK
<1> QED
  BY <1>1
  DEF ThreadsInit, ThreadsIInv, RunsWhileCounted, StaysCleared, FreedAfterIndexing

\* Every step of a caller, the destructor or the indexing thread keeps it.
THEOREM ThreadsStep == ThreadsIInv /\ [ThreadsNext]_threadVars => ThreadsIInv'
<1> SUFFICES ASSUME ThreadsIInv, [ThreadsNext]_threadVars PROVE ThreadsIInv'
  OBVIOUS
<1> USE ThreadsBounds
    DEF ThreadsIInv, ThreadsTypeOK, RunsWhileCounted, StaysCleared, FreedAfterIndexing
<1>1. CASE AddStored
  BY <1>1 DEF AddStored, InUse, BuildIndex
<1>2. CASE CallBuildIndex
  BY <1>2 DEF CallBuildIndex, InUse, BuildIndex
<1>3. CASE CallTrained
  BY <1>3 DEF CallTrained
<1>4. CASE CreateTable
  BY <1>4 DEF CreateTable, InUse
<1>5. CASE Trained
  BY <1>5 DEF Trained
<1>6. CASE TrainingFails
  BY <1>6 DEF TrainingFails, Fails, Waiting
<1>7. CASE BeginRound
  BY <1>7 DEF BeginRound, Goes
<1>8. CASE EndRound
  BY <1>8 DEF EndRound, AddedInRound
<1>9. CASE RoundFails
  BY <1>9 DEF RoundFails, Fails
<1>10. CASE LeaveLoop
  BY <1>10 DEF LeaveLoop, Goes, WakesEnder
<1>11. CASE FieldThread
  BY <1>11 DEF FieldThread, StartFields, LeaveFields
<1>12. CASE EndIndex
  BY <1>12 DEF EndIndex, InUse, NobodyRuns
<1>13. CASE Wait
  BY <1>13 DEF Wait
<1>14. CASE EndFields
  BY <1>14 DEF EndFields
<1>15. CASE UNCHANGED threadVars
  BY <1>15 DEF threadVars
<1> QED
  BY <1>1, <1>2, <1>3, <1>4, <1>5, <1>6, <1>7, <1>8, <1>9, <1>10, <1>11, <1>12,
     <1>13, <1>14, <1>15
  DEF ThreadsNext, IndexThread, End

\* The counts, flags and threads of an engine agree through its life.
THEOREM ThreadsInvariant == ThreadsSpec => []ThreadsIInv
  BY ThreadsBegin, ThreadsStep, PTL DEF ThreadsSpec

\* The destructor frees what the indexing thread uses only after that thread
\* has left, for every number of documents and however often a training or a
\* round fails.
THEOREM FreesAfterThreads == ThreadsSpec => []ThreadsInv
<1>1. ThreadsIInv => ThreadsInv
  BY DEF ThreadsIInv, ThreadsInv
<1> QED
  BY <1>1, ThreadsInvariant, PTL

-----------------------------------------------------------------------------
(* The bitmap.  Its size is a whole number of bytes, and so is its file's. *)

Whole(n) == OfFile(n) = n

\* So are those of the bitmap, and its first array has whole bytes.
LEMMA BitmapBounds ==
  /\ ByteBits \in Nat \ {0} /\ FirstBits \in Nat \ {0} /\ FirstBits % ByteBits = 0
  /\ BatchSizes \subseteq Nat \ {0}
  /\ MaxAdded \in Nat /\ MaxFlips \in Nat /\ MaxEnds \in Nat
  BY BitmapAssumption

\* The multiple of a number, divided by that number.
LEMMA Multiples ==
  ASSUME NEW B \in Nat \ {0}, NEW q \in Nat
  PROVE  (q * B) \div B = q
  BY SMT

\* Whole bytes divide without a rest.
LEMMA Quotients ==
  ASSUME NEW B \in Nat \ {0}, NEW n \in Nat
  PROVE  /\ n \div B \in Nat
         /\ n % B = 0 => (n \div B) * B = n
  BY SMT

\* A bitmap of whole bytes doubles to one of whole bytes, and an array made
\* for it has room for one byte more.
LEMMA WholeBytes ==
  ASSUME NEW n \in Nat, Whole(n)
  PROVE  Whole(2 * n) /\ RoomFor(n) = n + ByteBits
<1> DEFINE q == n \div ByteBits
<1>1. q \in Nat /\ q * ByteBits = n
  BY BitmapBounds, Quotients DEF Whole, OfFile
<1>2. 2 * n = (2 * q) * ByteBits
  BY <1>1, BitmapBounds
<1>3. (2 * n) \div ByteBits = 2 * q
  <2>1. 2 * q \in Nat
    BY <1>1
  <2> HIDE DEF q
  <2> QED
    BY <2>1, <1>2, Multiples, BitmapBounds
<1>4. (q + 1) * ByteBits = n + ByteBits
  BY <1>1, BitmapBounds
<1> QED
  BY <1>2, <1>3, <1>4 DEF Whole, OfFile, RoomFor

\* The first bitmap has whole bytes.
LEMMA FirstIsWhole == Whole(FirstBits)
  BY BitmapBounds, Quotients DEF Whole, OfFile

\* The file is half the bitmap while a doubled one has not been dumped.
SizesAgree ==
  /\ fileSize \in Nat \ {0} /\ Whole(fileSize)
  /\ size_ = IF step \in {"copy", "dump"} THEN 2 * fileSize ELSE fileSize
  /\ room = RoomFor(IF step = "copy" THEN fileSize ELSE size_)

\* The file always has the marks of the calls that returned; the array has
\* besides them the bit that is about to be saved.
MarksAgree ==
  /\ marks \subseteq 0 .. fileSize - 1
  /\ fileBits = marks
  /\ bits = IF step = "save" /\ bit < size_ THEN Flipped(marks, bit) ELSE marks
  /\ step = "save" => bit < inUse

BitmapIInv ==
  /\ BitmapTypeOK
  /\ SizesAgree
  /\ MarksAgree

\* A new engine's bitmap is clear, in memory and in its file.
THEOREM BitmapBegins == BitmapInit => BitmapIInv
  BY BitmapBounds, FirstIsWhole, WholeBytes
  DEF BitmapInit, BitmapIInv, BitmapTypeOK, SizesAgree, MarksAgree

\* Documents added only raise the count.
LEMMA MoreIds ==
  ASSUME NEW m \in Nat, NEW n \in Nat, n >= m
  PROVE  0 .. m - 1 \subseteq 0 .. n - 1
  OBVIOUS

\* Adding documents writes no bit.
LEMMA AddIdsKeeps ==
  ASSUME BitmapIInv, NEW n \in BatchSizes, AddIds(n)
  PROVE  BitmapIInv'
<1>1. /\ step = "idle" /\ step' = "grow" /\ inUse' \in 0 .. MaxAdded /\ inUse' >= inUse
      /\ inUse \in Nat
      /\ UNCHANGED <<size_, room, bits, fileSize, fileBits, bit, marks, flips, ends>>
  BY BitmapBounds DEF AddIds, BitmapIInv, BitmapTypeOK
<1>2. 0 .. inUse - 1 \subseteq 0 .. inUse' - 1
  <2>1. inUse' \in Nat
    BY <1>1, BitmapBounds
  <2> QED
    BY <1>1, <2>1, MoreIds
<1>3. BitmapTypeOK'
  BY <1>1, <1>2 DEF BitmapIInv, BitmapTypeOK
<1>4. SizesAgree' /\ MarksAgree'
  BY <1>1 DEF BitmapIInv, SizesAgree, MarksAgree
<1> QED
  BY <1>3, <1>4 DEF BitmapIInv

\* SetMaxID doubles the size before it has the array.
LEMMA DoubleSizeKeeps ==
  ASSUME BitmapIInv, DoubleSize
  PROVE  BitmapIInv'
<1>1. step = "grow" /\ size_ = fileSize /\ fileSize \in Nat
  BY DEF DoubleSize, BitmapIInv, SizesAgree
<1>2. CASE FitsIds
  BY <1>1, <1>2 DEF DoubleSize, BitmapIInv, BitmapTypeOK, SizesAgree, MarksAgree
<1>3. CASE ~FitsIds
  <2>1. /\ step' = "copy" /\ size_' = 2 * fileSize /\ size_' \in Nat
        /\ UNCHANGED <<inUse, room, bits, fileSize, fileBits, bit, marks, flips, ends>>
    BY <1>1, <1>3 DEF DoubleSize
  <2>2. BitmapTypeOK'
    BY <2>1 DEF BitmapIInv, BitmapTypeOK
  <2>3. SizesAgree'
    BY <1>1, <2>1 DEF BitmapIInv, SizesAgree
  <2>4. MarksAgree'
    BY <1>1, <2>1 DEF BitmapIInv, MarksAgree
  <2> QED
    BY <2>2, <2>3, <2>4 DEF BitmapIInv
<1> QED
  BY <1>2, <1>3

\* The larger array takes the bits of the old one over.
LEMMA SwitchArrayKeeps ==
  ASSUME BitmapIInv, SwitchArray
  PROVE  BitmapIInv'
<1>1. /\ step = "copy" /\ fileSize \in Nat /\ size_ = 2 * fileSize
      /\ room = fileSize + ByteBits /\ RoomFor(size_) = size_ + ByteBits
      /\ bits = marks /\ marks \subseteq 0 .. fileSize - 1
  BY WholeBytes DEF SwitchArray, BitmapIInv, SizesAgree, MarksAgree
<1>2. Copied = bits
  <2>1. \A b \in bits : b < room
    BY <1>1, BitmapBounds
  <2> QED
    BY <2>1 DEF Copied
<1> QED
  BY <1>1, <1>2, BitmapBounds
  DEF SwitchArray, BitmapIInv, BitmapTypeOK, SizesAgree, MarksAgree

\* The file then gets the whole array.
LEMMA DumpAllKeeps ==
  ASSUME BitmapIInv, DumpAll
  PROVE  BitmapIInv'
<1>1. /\ step = "dump" /\ fileSize \in Nat \ {0} /\ size_ = 2 * fileSize
      /\ Whole(size_) /\ bits = marks /\ marks \subseteq 0 .. fileSize - 1
  BY WholeBytes DEF DumpAll, BitmapIInv, SizesAgree, MarksAgree
<1>2. {b \in bits : b < size_} = marks
  <2>1. \A b \in bits : b < size_
    BY <1>1
  <2> QED
    BY <1>1, <2>1
<1>3. /\ step' = "idle" /\ fileSize' = size_ /\ fileBits' = marks
      /\ UNCHANGED <<inUse, size_, room, bits, bit, marks, flips, ends>>
  BY <1>2 DEF DumpAll
<1>4. size_ \in Nat \ {0} /\ marks \subseteq 0 .. size_ - 1
  BY <1>1
<1>5. BitmapTypeOK'
  BY <1>3, <1>4 DEF BitmapIInv, BitmapTypeOK
<1>6. SizesAgree'
  BY <1>1, <1>3, <1>4 DEF BitmapIInv, SizesAgree
<1>7. MarksAgree'
  BY <1>1, <1>3, <1>4 DEF MarksAgree
<1> QED
  BY <1>5, <1>6, <1>7 DEF BitmapIInv

\* Set and Unset change one bit in memory.
LEMMA FlipBitKeeps ==
  ASSUME BitmapIInv, NEW b \in 0 .. inUse - 1, FlipBit(b)
  PROVE  BitmapIInv'
<1>1. step = "idle" /\ bits = marks /\ bits \subseteq 0 .. inUse - 1
  BY DEF FlipBit, BitmapIInv, BitmapTypeOK, MarksAgree
<1>2. Flipped(marks, b) \subseteq 0 .. inUse - 1
  BY <1>1 DEF Flipped
<1>3. /\ bits' = IF b < size_ THEN Flipped(marks, b) ELSE marks
      /\ step' = "save" /\ bit' = b /\ flips' = flips + 1
      /\ UNCHANGED <<inUse, size_, room, fileSize, fileBits, marks, ends>>
  BY <1>1 DEF FlipBit
<1>4. bits' \subseteq 0 .. inUse - 1
  BY <1>1, <1>2, <1>3
<1>5. bit' \in 0 .. MaxAdded /\ flips' \in 0 .. MaxFlips /\ bit' < inUse
  BY <1>3, BitmapBounds DEF FlipBit, BitmapIInv, BitmapTypeOK
<1>6. BitmapTypeOK'
  BY <1>3, <1>4, <1>5 DEF BitmapIInv, BitmapTypeOK
<1>7. SizesAgree'
  BY <1>1, <1>3 DEF BitmapIInv, SizesAgree
<1>8. MarksAgree'
  BY <1>1, <1>3, <1>5 DEF BitmapIInv, MarksAgree
<1> QED
  BY <1>6, <1>7, <1>8 DEF BitmapIInv

\* The byte that is written differs from the file's in the changed bit only.
LEMMA SaveBitKeeps ==
  ASSUME BitmapIInv, SaveBit
  PROVE  BitmapIInv'
<1>1. /\ step = "save" /\ fileSize \in Nat /\ size_ = fileSize
      /\ bit \in Nat /\ bit < inUse /\ inUse \in Nat
      /\ marks \subseteq 0 .. fileSize - 1 /\ marks \subseteq 0 .. inUse - 1
      /\ fileBits = marks
  BY BitmapBounds DEF SaveBit, BitmapIInv, BitmapTypeOK, SizesAgree, MarksAgree
<1>2. CASE bit < size_
  <2>1. bits = Flipped(marks, bit) /\ marks' = Flipped(marks, bit)
    BY <1>1, <1>2 DEF SaveBit, BitmapIInv, MarksAgree
  <2>2. bit \in ByteOf(bit)
    BY <1>1, <1>2 DEF ByteOf
  <2>3. fileBits' = (marks \ ByteOf(bit)) \union (bits \intersect ByteOf(bit))
    BY <1>1, <1>2 DEF SaveBit
  <2>4. fileBits' = marks'
    <3> HIDE DEF ByteOf
    <3> QED
      BY <2>1, <2>2, <2>3 DEF Flipped
  <2>5. marks' \subseteq 0 .. fileSize - 1 /\ marks' \subseteq 0 .. inUse - 1
    BY <1>1, <1>2, <2>1 DEF Flipped
  <2> QED
    BY <1>1, <2>1, <2>4, <2>5
    DEF SaveBit, BitmapIInv, BitmapTypeOK, SizesAgree, MarksAgree
<1>3. CASE ~(bit < size_)
  <2>1. bits = marks /\ marks' = marks /\ fileBits' = fileBits
    BY <1>1, <1>3 DEF SaveBit, BitmapIInv, MarksAgree
  <2> QED
    BY <1>1, <2>1
    DEF SaveBit, BitmapIInv, BitmapTypeOK, SizesAgree, MarksAgree
<1> QED
  BY <1>2, <1>3

\* The next process reads the file.
LEMMA RestartEngineKeeps ==
  ASSUME BitmapIInv, RestartEngine
  PROVE  BitmapIInv'
<1>1. /\ fileSize \in Nat \ {0} /\ OfFile(fileSize) = fileSize
      /\ RoomFor(fileSize) = fileSize + ByteBits
      /\ fileBits = marks
  BY WholeBytes DEF BitmapIInv, SizesAgree, MarksAgree, Whole
<1>2. /\ size_' = fileSize /\ room' = RoomFor(fileSize) /\ bits' = marks
      /\ step' = "idle" /\ ends' \in 0 .. MaxEnds
      /\ UNCHANGED <<inUse, fileSize, fileBits, bit, marks, flips>>
  BY <1>1, BitmapBounds DEF RestartEngine, BitmapIInv, BitmapTypeOK
<1> QED
  BY <1>1, <1>2, BitmapBounds DEF BitmapIInv, BitmapTypeOK, SizesAgree, MarksAgree

\* Adding documents, growing the array in its steps, dumping and changing a
\* bit keep the sizes and the marks.
THEOREM BitmapSteps == BitmapIInv /\ [BitmapNext]_bitmapVars => BitmapIInv'
<1> SUFFICES ASSUME BitmapIInv, [BitmapNext]_bitmapVars PROVE BitmapIInv'
  OBVIOUS
<1>1. CASE UNCHANGED bitmapVars
  BY <1>1 DEF bitmapVars, BitmapIInv, BitmapTypeOK, SizesAgree, MarksAgree
<1> QED
  BY <1>1, AddIdsKeeps, DoubleSizeKeeps, SwitchArrayKeeps, DumpAllKeeps,
     FlipBitKeeps, SaveBitKeeps, RestartEngineKeeps
  DEF BitmapNext

\* Array, size, file and marks agree at every step of the bitmap.
THEOREM BitmapInvariant == BitmapSpec => []BitmapIInv
  BY BitmapBegins, BitmapSteps, PTL DEF BitmapSpec

\* Marks of returned calls stay, in memory and in the file, for batches of
\* every size and any number of restarts.
THEOREM MarksStay == BitmapSpec => []MarksSurvive
<1>1. BitmapIInv => MarksSurvive
  BY DEF BitmapIInv, MarksAgree, MarksSurvive
<1> QED
  BY <1>1, BitmapInvariant, PTL

-----------------------------------------------------------------------------
(* Tests stay inside the array while the ids in use are at most the byte   *)
(* in excess ahead of the bitmap.                                          *)

\* Batches of up to k documents, and few enough ends of the process between
\* the documents of a call and its SetMaxID.
FewIds(k) ==
  /\ k \in 1 .. ByteBits
  /\ \A n \in BatchSizes : n <= k
  /\ k * (MaxEnds + 1) <= ByteBits + 1

SmallBatches == \E k \in 1 .. ByteBits : FewIds(k)

\* Each end of the process leaves at most one batch outside the bitmap.
NotFarAhead(k) ==
  inUse <= fileSize - 1 + k * ends
           + (IF step \in {"grow", "copy", "dump"} THEN k ELSE 0)

\* Whole bytes are one at least.
LEMMA WholeIsAByte ==
  ASSUME NEW n \in Nat \ {0}, Whole(n)
  PROVE  ByteBits <= n
<1> DEFINE q == n \div ByteBits
<1>1. q \in Nat /\ q * ByteBits = n
  BY BitmapBounds, Quotients DEF Whole, OfFile
<1>2. q >= 1
  BY <1>1, BitmapBounds
<1> HIDE DEF q
<1> QED
  BY <1>1, <1>2, BitmapBounds

\* One batch more, by the number of ends.
LEMMA Products ==
  ASSUME NEW k \in Nat, NEW e \in Nat, NEW m \in Nat
  PROVE  /\ k * e \in Nat
         /\ k * (e + 1) = k * e + k
         /\ e <= m => k * e <= k * m
  BY SMT

\* How far the documents are ahead of the bitmap, step by step.
LEMMA AheadStep ==
  ASSUME NEW k, FewIds(k), BitmapIInv, NotFarAhead(k), [BitmapNext]_bitmapVars
  PROVE  NotFarAhead(k)'
<1>1. /\ k \in Nat /\ ends \in Nat /\ inUse \in Nat /\ fileSize \in Nat \ {0}
      /\ k <= fileSize
  BY BitmapBounds, WholeIsAByte DEF FewIds, BitmapIInv, BitmapTypeOK, SizesAgree
<1>2. k * ends \in Nat /\ k * (ends + 1) = k * ends + k
  BY <1>1, Products
<1>3. ASSUME NEW n \in BatchSizes, AddIds(n) PROVE NotFarAhead(k)'
  <2>1. n \in Nat /\ n <= k
    BY BitmapBounds DEF FewIds
  <2>2. /\ step = "idle" /\ step' = "grow" /\ inUse' = inUse + n
        /\ UNCHANGED <<fileSize, ends>>
    BY <1>3 DEF AddIds
  <2> QED
    BY <1>1, <1>2, <2>1, <2>2 DEF NotFarAhead
<1>4. CASE DoubleSize
  <2>1. CASE FitsIds
    <3>1. /\ step' = "idle" /\ inUse < fileSize
          /\ UNCHANGED <<inUse, fileSize, ends>>
      BY <1>4, <2>1 DEF DoubleSize, FitsIds, BitmapIInv, SizesAgree
    <3> QED
      BY <1>1, <1>2, <3>1 DEF NotFarAhead
  <2>2. CASE ~FitsIds
    <3>1. /\ step = "grow" /\ step' = "copy" /\ UNCHANGED <<inUse, fileSize, ends>>
      BY <1>4, <2>2 DEF DoubleSize
    <3> QED
      BY <3>1 DEF NotFarAhead
  <2> QED
    BY <2>1, <2>2
<1>5. CASE SwitchArray
  BY <1>5 DEF SwitchArray, NotFarAhead
<1>6. CASE DumpAll
  <2>1. /\ step = "dump" /\ step' = "idle" /\ fileSize' = 2 * fileSize
        /\ UNCHANGED <<inUse, ends>>
    BY <1>6 DEF DumpAll, BitmapIInv, SizesAgree
  <2> QED
    BY <1>1, <1>2, <2>1 DEF NotFarAhead
<1>7. ASSUME NEW b \in 0 .. inUse - 1, FlipBit(b) PROVE NotFarAhead(k)'
  BY <1>7 DEF FlipBit, NotFarAhead
<1>8. CASE SaveBit
  BY <1>8 DEF SaveBit, NotFarAhead
<1>9. CASE RestartEngine
  <2>1. step' = "idle" /\ ends' = ends + 1 /\ UNCHANGED <<inUse, fileSize>>
    BY <1>9 DEF RestartEngine
  <2> QED
    BY <1>1, <1>2, <2>1 DEF NotFarAhead
<1>10. CASE UNCHANGED bitmapVars
  BY <1>10 DEF bitmapVars, NotFarAhead
<1> QED
  BY <1>3, <1>4, <1>5, <1>6, <1>7, <1>8, <1>9, <1>10 DEF BitmapNext

\* So far ahead is still inside the array.
LEMMA AheadIsInside ==
  ASSUME NEW k, FewIds(k), BitmapIInv, NotFarAhead(k)
  PROVE  TestsStayInside
<1>1. /\ k \in Nat /\ ends \in Nat /\ ends <= MaxEnds /\ inUse \in Nat
      /\ fileSize \in Nat /\ Whole(fileSize)
  BY BitmapBounds DEF FewIds, BitmapIInv, BitmapTypeOK, SizesAgree
<1>2. k * ends + k <= ByteBits + 1 /\ k * ends \in Nat
  <2>1. k * ends <= k * MaxEnds /\ k * (MaxEnds + 1) = k * MaxEnds + k
    BY <1>1, BitmapBounds, Products
  <2>2. k * ends \in Nat /\ k * MaxEnds \in Nat
    BY <1>1, BitmapBounds, Products
  <2> QED
    BY <1>1, <2>1, <2>2, BitmapBounds DEF FewIds
<1>3. CASE step = "copy"
  <2>1. room = fileSize + ByteBits
    BY <1>1, <1>3, WholeBytes DEF BitmapIInv, SizesAgree
  <2>2. inUse <= fileSize + ByteBits
    BY <1>1, <1>2, <1>3, BitmapBounds DEF NotFarAhead
  <2> QED
    BY <1>1, <2>1, <2>2, BitmapBounds DEF TestsStayInside
<1>4. CASE step # "copy"
  <2>1. size_ \in Nat /\ Whole(size_)
    BY <1>1, WholeBytes DEF BitmapIInv, SizesAgree
  <2>2. room = size_ + ByteBits
    BY <1>4, <2>1, WholeBytes DEF BitmapIInv, SizesAgree
  <2> QED
    BY <1>1, <2>1, <2>2, BitmapBounds DEF TestsStayInside
<1> QED
  BY <1>3, <1>4

\* Searches test bits the array has and marks stay, when the calls add no
\* more documents at once than a byte has bits: the byte in excess is what
\* covers the documents of a call whose SetMaxID is not through.
THEOREM BitmapIsSafe == SmallBatches => (BitmapSpec => []BitmapInv)
<1> SUFFICES ASSUME SmallBatches PROVE BitmapSpec => []BitmapInv
  OBVIOUS
<1>1. PICK k \in 1 .. ByteBits : FewIds(k)
  BY DEF SmallBatches
<1>2. BitmapInit => NotFarAhead(k)
  <2> SUFFICES ASSUME BitmapInit PROVE NotFarAhead(k)
    OBVIOUS
  <2>1. k \in Nat /\ k * 0 = 0
    BY BitmapBounds
  <2> QED
    BY <2>1, BitmapBounds DEF BitmapInit, NotFarAhead
<1>3. BitmapIInv /\ NotFarAhead(k) /\ [BitmapNext]_bitmapVars => NotFarAhead(k)'
  BY <1>1, AheadStep
<1>4. BitmapIInv /\ NotFarAhead(k) => BitmapInv
  BY <1>1, AheadIsInside DEF BitmapIInv, BitmapInv, MarksAgree, MarksSurvive
<1> QED
  BY <1>2, <1>3, <1>4, BitmapInvariant, PTL DEF BitmapSpec

-----------------------------------------------------------------------------
(* Folds: what holds at the start of a walk through a list, and is kept by  *)
(* each of its steps, holds at its end.                                     *)

\* An entry of what an index lists.
Hit == [doc : SearchDocs, dist : SearchDists]

\* The walks of a search: how one entry is taken by each of them.  by holds
\* what the walk is about.
Walked(walk, by, so, x) ==
  CASE walk = "first" -> KeepFirst(so, x)
    [] walk = "far" -> Farther(so, x)
    [] walk = "entry" -> Enter(by.query, by.field, by.max, so, x, by.list[x])
    [] walk = "field" -> LogicOp(by.query, so, x, Parsed(by.hits[x]))

\* A walk as a function of the set of places passed so far.
Walk(walk, by, base, seq, g) ==
  [S \in SUBSET DOMAIN seq |->
     IF S = {} THEN base ELSE Walked(walk, by, g[S \ {Max(S)}], seq[Max(S)])]

\* A set of numbers that is not empty has a lowest one.
LEMMA LowestNumber ==
  ASSUME NEW S, S \subseteq Nat, S # {}
  PROVE  \E m \in S : \A k \in S : m <= k
<1> DEFINE R == StrictSubsetOrdering(Nat)
           F == FiniteSubsetsOf(Nat)
           T == {0 .. n : n \in S}
<1>1. IsWellFoundedOn(R, F)
  BY FS_StrictSubsetOrderingWellFounded
<1>2. T \subseteq F
  <2>1. ASSUME NEW n \in S PROVE 0 .. n \in F
    <3>1. n \in Nat /\ 0 .. n \subseteq Nat
      OBVIOUS
    <3>2. IsFiniteSet(0 .. n)
      BY <3>1, FS_Interval
    <3> QED
      BY <3>1, <3>2 DEF FiniteSubsetsOf
  <2> HIDE DEF F
  <2> QED
    BY <2>1
<1>3. T # {}
  OBVIOUS
<1>4. PICK x \in T : \A y \in T : ~(<<y, x>> \in R)
  <2> HIDE DEF R, F, T
  <2> QED
    BY <1>1, <1>2, <1>3, WFMin
<1>5. PICK m \in S : x = 0 .. m
  OBVIOUS
<1>6. ASSUME NEW k \in S, k < m PROVE FALSE
  <2>1. m \in Nat /\ k \in Nat
    OBVIOUS
  <2>2. 0 .. k \subseteq 0 .. m /\ m \in 0 .. m /\ m \notin 0 .. k
    BY <1>6, <2>1
  <2>3. 0 .. k \in T /\ 0 .. k \subseteq Nat /\ 0 .. m \subseteq Nat
    BY <2>1
  <2>4. <<0 .. k, 0 .. m>> \in R
    BY <2>2, <2>3 DEF StrictSubsetOrdering
  <2> QED
    BY <2>3, <2>4, <1>4, <1>5
<1> QED
  BY <1>6

\* Max of numbers up to a bound.
LEMMA MaxIs ==
  ASSUME NEW n \in Nat, NEW S \in SUBSET (1 .. n), S # {}
  PROVE  Max(S) \in S /\ \A y \in S : y <= Max(S)
<1> DEFINE Below == {n - s : s \in S}
<1>1. Below \subseteq Nat /\ Below # {}
  <2>1. PICK x \in S : TRUE
    OBVIOUS
  <2>2. n - x \in Below
    BY <2>1
  <2>3. ASSUME NEW s \in S PROVE n - s \in Nat
    <3>1. s \in 1 .. n
      OBVIOUS
    <3> QED
      BY <3>1
  <2> QED
    BY <2>2, <2>3
<1>2. PICK d \in Below : \A k \in Below : d <= k
  <2> HIDE DEF Below
  <2> QED
    BY <1>1, LowestNumber
<1>3. PICK m \in S : d = n - m
  OBVIOUS
<1>4. \A y \in S : m >= y
  <2> SUFFICES ASSUME NEW y \in S PROVE m >= y
    OBVIOUS
  <2>1. n - y \in Below /\ m \in Int /\ y \in Int
    OBVIOUS
  <2>2. n - m <= n - y
    BY <1>2, <1>3, <2>1
  <2> QED
    BY <2>1, <2>2
<1>5. \E x \in S : \A y \in S : x >= y
  BY <1>4
<1>6. Max(S) \in S /\ \A y \in S : Max(S) >= y
  BY <1>5, Zenon DEF Max
<1> QED
  BY <1>6

\* There is a function that takes every step.
LEMMA WalkExists ==
  ASSUME NEW walk, NEW by, NEW base, NEW seq, Len(seq) \in Nat, DOMAIN seq = 1 .. Len(seq)
  PROVE  \E g : g = Walk(walk, by, base, seq, g)
<1> DEFINE n == Len(seq)
           All == SUBSET (1 .. n)
           Reached(g, S) == IF S = {} THEN base
                          ELSE Walked(walk, by, g[S \ {Max(S)}], seq[Max(S)])
           Steps(g, k) == \A S \in All : S \subseteq 1 .. k => g[S] = Reached(g, S)
           Far(k) == \E g : DOMAIN g = All /\ Steps(g, k)
           Short == {k \in Nat : ~Far(k)}
<1>1. \A g : /\ DOMAIN Walk(walk, by, base, seq, g) = All
             /\ \A S \in All : Walk(walk, by, base, seq, g)[S] = Reached(g, S)
  BY DEF Walk
<1>2. \A k \in Nat, S \in All : S # {} /\ S \subseteq 1 .. k + 1 =>
        S \ {Max(S)} \in All /\ S \ {Max(S)} \subseteq 1 .. k
  <2> SUFFICES ASSUME NEW k \in Nat, NEW S \in All, S # {}, S \subseteq 1 .. k + 1
               PROVE  S \ {Max(S)} \subseteq 1 .. k
    OBVIOUS
  <2> DEFINE m == Max(S)
  <2>1. m \in S /\ \A y \in S : y <= m
    BY MaxIs
  <2> HIDE DEF m
  <2>2. ASSUME NEW y \in S \ {m} PROVE y \in 1 .. k
    <3>1. y \in 1 .. k + 1 /\ m \in 1 .. k + 1 /\ y <= m /\ y # m
      BY <2>1, <2>2
    <3> QED
      BY <3>1
  <2> QED
    BY <2>2 DEF m
<1>3. Far(0)
  <2> DEFINE g == Walk(walk, by, base, seq, << >>)
  <2>1. DOMAIN g = All /\ g[{}] = base
    BY <1>1
  <2>2. \A S \in All : S \subseteq 1 .. 0 => S = {}
    OBVIOUS
  <2>3. Steps(g, 0)
    BY <2>1, <2>2
  <2> QED
    BY <2>1, <2>3
<1>4. ASSUME NEW k \in Nat, Far(k) PROVE Far(k + 1)
  <2>1. PICK g : DOMAIN g = All /\ Steps(g, k)
    BY <1>4
  <2> DEFINE h == Walk(walk, by, base, seq, g)
  <2>2. DOMAIN h = All /\ \A S \in All : h[S] = Reached(g, S)
    BY <1>1
  <2> HIDE DEF h
  <2>3. ASSUME NEW S \in All, S \subseteq 1 .. k + 1 PROVE h[S] = Reached(h, S)
    <3>1. CASE S = {}
      BY <2>2, <3>1
    <3>2. CASE S # {}
      <4> DEFINE T == S \ {Max(S)}
      <4>1. T \in All /\ T \subseteq 1 .. k
        BY <1>2, <2>3, <3>2
      <4>2. g[T] = Reached(g, T) /\ h[T] = Reached(g, T)
        BY <2>1, <2>2, <4>1
      <4>3. g[T] = h[T]
        BY <4>2
      <4>4. h[S] = Walked(walk, by, g[T], seq[Max(S)])
        BY <2>2, <3>2
      <4>5. Reached(h, S) = Walked(walk, by, h[T], seq[Max(S)])
        BY <3>2
      <4> HIDE DEF T
      <4> QED
        BY <4>3, <4>4, <4>5
    <3> QED
      BY <3>1, <3>2
  <2>4. Steps(h, k + 1)
    BY <2>3
  <2> QED
    BY <2>2, <2>4
<1>5. Far(n)
  <2> SUFFICES ASSUME ~Far(n) PROVE FALSE
    OBVIOUS
  <2> HIDE DEF Far
  <2>1. n \in Short /\ Short \subseteq Nat
    OBVIOUS
  <2>2. PICK k \in Short : \A j \in Short : k <= j
    <3> HIDE DEF Short
    <3> QED
      BY <2>1, LowestNumber
  <2>3. k \in Nat /\ ~Far(k) /\ k # 0
    BY <1>3, <2>2
  <2>4. k - 1 \in Nat /\ ~(k - 1 \in Short)
    BY <2>2, <2>3
  <2>5. Far(k - 1)
    BY <2>4
  <2>6. Far((k - 1) + 1)
    BY <1>4, <2>4, <2>5
  <2>7. (k - 1) + 1 = k
    BY <2>3
  <2> QED
    BY <2>3, <2>6, <2>7
<1>6. PICK g : DOMAIN g = All /\ Steps(g, n)
  BY <1>5
<1> DEFINE h == Walk(walk, by, base, seq, g)
<1>7. DOMAIN h = All /\ \A S \in All : h[S] = g[S]
  BY <1>1, <1>6
<1>8. \A S \in All : S \ {Max(S)} \in All
  OBVIOUS
<1>9. \A S \in All : Reached(g, S) = Reached(h, S)
  <2> HIDE DEF h
  <2> QED
    BY <1>7, <1>8
<1>10. \A x : Walk(walk, by, base, seq, x) = [S \in All |-> Reached(x, S)]
  BY DEF Walk
<1>11. Walk(walk, by, base, seq, h) = Walk(walk, by, base, seq, g)
  <2> HIDE DEF h, Reached
  <2> QED
    BY <1>9, <1>10
<1> QED
  BY <1>11

\* What holds at the start and is kept by each step holds at the end.
\* The last of the first k places.
LEMMA LastPlace ==
  ASSUME NEW k \in Nat, k # 0
  PROVE  Max(1 .. k) = k /\ (1 .. k) \ {k} = 1 .. k - 1
<1>1. k \in 1 .. k /\ \A y \in 1 .. k : k >= y
  OBVIOUS
<1>2. \A m \in 1 .. k : (\A y \in 1 .. k : m >= y) => m = k
  BY <1>1
<1>3. Max(1 .. k) \in 1 .. k /\ \A y \in 1 .. k : Max(1 .. k) >= y
  BY <1>1, Zenon DEF Max
<1> QED
  BY <1>2, <1>3

\* Numbers up to n are all in a set that has the first and, with each, the next.
LEMMA Climb ==
  ASSUME NEW n \in Nat, NEW G, 0 \in G,
         \A k \in 1 .. n : k - 1 \in G => k \in G
  PROVE  n \in G
<1> DEFINE Bad == {k \in 0 .. n : k \notin G}
<1>1. SUFFICES ASSUME n \notin G PROVE FALSE
  OBVIOUS
<1>2. Bad \subseteq Nat /\ Bad # {}
  BY <1>1
<1>3. PICK k \in Bad : \A j \in Bad : k <= j
  <2> HIDE DEF Bad
  <2> QED
    BY <1>2, LowestNumber
<1>4. k \in 1 .. n /\ k - 1 \notin G
  OBVIOUS
<1>5. k - 1 \in Bad /\ ~(k <= k - 1)
  BY <1>4
<1> QED
  BY <1>3, <1>5

\* A walk is a function: its values at the places passed one after another.
LEMMA WalkSteps ==
  ASSUME NEW walk, NEW by, NEW base, NEW seq, Len(seq) \in Nat,
         DOMAIN seq = 1 .. Len(seq),
         NEW g, g = Walk(walk, by, base, seq, g)
  PROVE  \E h : /\ h[0] = base
                /\ \A k \in 1 .. Len(seq) : h[k] = Walked(walk, by, h[k - 1], seq[k])
                /\ h[Len(seq)] = g[DOMAIN seq]
<1> DEFINE n == Len(seq)
           h == [k \in 0 .. n |-> g[1 .. k]]
<1>1. \A S \in SUBSET (1 .. n) :
        g[S] = IF S = {} THEN base
               ELSE Walked(walk, by, g[S \ {Max(S)}], seq[Max(S)])
  <2>1. \A S \in SUBSET (1 .. n) :
          Walk(walk, by, base, seq, g)[S] =
            IF S = {} THEN base
            ELSE Walked(walk, by, g[S \ {Max(S)}], seq[Max(S)])
    BY DEF Walk
  <2> QED
    BY <2>1
<1>2. h[0] = base
  <2>1. 1 .. 0 = {} /\ 0 \in 0 .. n
    OBVIOUS
  <2>2. h[0] = g[1 .. 0]
    BY <2>1
  <2> QED
    BY <1>1, <2>1, <2>2
<1>3. ASSUME NEW k \in 1 .. n
      PROVE  h[k] = Walked(walk, by, h[k - 1], seq[k])
  <2> DEFINE S == 1 .. k
  <2>1. S \in SUBSET (1 .. n) /\ S # {} /\ k - 1 \in 0 .. n /\ k \in 0 .. n
    <3>1. k \in S /\ k - 1 \in 0 .. n /\ k \in 0 .. n
      OBVIOUS
    <3>2. ASSUME NEW y \in S PROVE y \in 1 .. n
      OBVIOUS
    <3> QED
      BY <3>1, <3>2
  <2>2. Max(S) = k /\ S \ {k} = 1 .. k - 1
    BY LastPlace
  <2>3. h[k] = g[S] /\ h[k - 1] = g[1 .. k - 1]
    BY <2>1
  <2> HIDE DEF S, h
  <2>4. g[S] = Walked(walk, by, g[S \ {Max(S)}], seq[Max(S)])
    BY <1>1, <2>1
  <2> QED
    BY <2>2, <2>3, <2>4
<1>4. h[n] = g[DOMAIN seq]
  OBVIOUS
<1> HIDE DEF h
<1> QED
  BY <1>2, <1>3, <1>4

\* The folds of a search are walks.
LEMMA FoldOfHits ==
  ASSUME NEW hits, Len(hits) \in Nat, DOMAIN hits = 1 .. Len(hits)
  PROVE  \E h : /\ h[0] = << >>
                /\ \A k \in 1 .. Len(hits) : h[k] = KeepFirst(h[k - 1], hits[k])
                /\ h[Len(hits)] = Parsed(hits)
<1> DEFINE Step(g) == [S \in SUBSET DOMAIN hits |->
              IF S = {} THEN << >> ELSE KeepFirst(g[S \ {Max(S)}], hits[Max(S)])]
           own == CHOOSE g : g = Step(g)
<1>1. Parsed(hits) = own[DOMAIN hits]
  BY Zenon DEF Parsed, FoldLeft, MapThenFoldSet
<1>2. \A g : Walk("first", 0, << >>, hits, g) = Step(g)
  BY DEF Walk, Walked
<1>3. \A so, x : Walked("first", 0, so, x) = KeepFirst(so, x)
  BY DEF Walked
<1> HIDE DEF Step
<1>4. \E g : g = Step(g)
  <2>1. \E g : g = Walk("first", 0, << >>, hits, g)
    BY WalkExists
  <2> QED
    BY <1>2, <2>1, Zenon
<1>5. own = Step(own)
  BY <1>4, Zenon
<1> HIDE DEF own
<1>6. own = Walk("first", 0, << >>, hits, own)
  BY <1>2, <1>5
<1>7. PICK h : /\ h[0] = << >>
               /\ \A k \in 1 .. Len(hits) : h[k] = Walked("first", 0, h[k - 1], hits[k])
               /\ h[Len(hits)] = own[DOMAIN hits]
  BY <1>6, WalkSteps
<1>8. \A k \in 1 .. Len(hits) : h[k] = KeepFirst(h[k - 1], hits[k])
  BY <1>3, <1>7
<1> QED
  BY <1>1, <1>7, <1>8

\* The largest distance of a list.
LEMMA FoldOfLimit ==
  ASSUME NEW list, Len(list) \in Nat, DOMAIN list = 1 .. Len(list)
  PROVE  \E h : /\ h[0] = 0
                /\ \A k \in 1 .. Len(list) : h[k] = Farther(h[k - 1], list[k])
                /\ h[Len(list)] = Limit(list, TRUE)
<1> DEFINE Step(g) == [S \in SUBSET DOMAIN list |->
              IF S = {} THEN 0 ELSE Farther(g[S \ {Max(S)}], list[Max(S)])]
           own == CHOOSE g : g = Step(g)
<1>1. Limit(list, TRUE) = own[DOMAIN list]
  BY Zenon DEF Limit, FoldLeft, MapThenFoldSet
<1>2. \A g : Walk("far", 0, 0, list, g) = Step(g)
  BY DEF Walk, Walked
<1>3. \A so, x : Walked("far", 0, so, x) = Farther(so, x)
  BY DEF Walked
<1> HIDE DEF Step
<1>4. \E g : g = Step(g)
  <2>1. \E g : g = Walk("far", 0, 0, list, g)
    BY WalkExists
  <2> QED
    BY <1>2, <2>1, Zenon
<1>5. own = Step(own)
  BY <1>4, Zenon
<1> HIDE DEF own
<1>6. own = Walk("far", 0, 0, list, own)
  BY <1>2, <1>5
<1>7. PICK h : /\ h[0] = 0
               /\ \A k \in 1 .. Len(list) : h[k] = Walked("far", 0, h[k - 1], list[k])
               /\ h[Len(list)] = own[DOMAIN list]
  BY <1>6, WalkSteps
<1>8. \A k \in 1 .. Len(list) : h[k] = Farther(h[k - 1], list[k])
  BY <1>3, <1>7
<1> QED
  BY <1>1, <1>7, <1>8

\* The entries of a list join the scores.
Entries(q, j, max, lifted, list) ==
  FoldLeft(LAMBDA m, i : Enter(q, j, max, m, i, list[i]), lifted,
           [i \in DOMAIN list |-> i])

\* They do so one after another.
OneByOne(q, j, max, lifted, list) ==
  \E h : /\ h[0] = lifted
         /\ \A k \in 1 .. Len(list) : h[k] = Enter(q, j, max, h[k - 1], k, list[k])
         /\ h[Len(list)] = Entries(q, j, max, lifted, list)

\* The fold takes these steps.
LEMMA FoldOfEntries ==
  ASSUME NEW q, NEW j, NEW max, NEW lifted, NEW list, Len(list) \in Nat,
         DOMAIN list = 1 .. Len(list)
  PROVE  OneByOne(q, j, max, lifted, list)
<1> DEFINE seq == [i \in DOMAIN list |-> i]
           by == [query |-> q, field |-> j, max |-> max, list |-> list]
           Step(g) == [S \in SUBSET DOMAIN seq |->
              IF S = {} THEN lifted
              ELSE Enter(q, j, max, g[S \ {Max(S)}], seq[Max(S)], list[seq[Max(S)]])]
           own == CHOOSE g : g = Step(g)
<1>1. Entries(q, j, max, lifted, list) = own[DOMAIN seq]
  BY Zenon DEF Entries, FoldLeft, MapThenFoldSet
<1>2. \A so, x : Walked("entry", by, so, x) = Enter(q, j, max, so, x, list[x])
  BY DEF Walked
<1>3. \A g : Walk("entry", by, lifted, seq, g) = Step(g)
  <2> HIDE DEF by, seq
  <2> QED
    BY <1>2 DEF Walk
<1>4. Len(seq) = Len(list) /\ DOMAIN seq = 1 .. Len(seq)
      /\ \A k \in 1 .. Len(list) : seq[k] = k
  <2>1. seq \in Seq(Nat)
    OBVIOUS
  <2> QED
    BY <2>1
<1> HIDE DEF Step, seq, by
<1>5. \E g : g = Step(g)
  <2>1. \E g : g = Walk("entry", by, lifted, seq, g)
    BY <1>4, WalkExists
  <2> QED
    BY <1>3, <2>1, Zenon
<1>6. own = Step(own)
  BY <1>5, Zenon
<1> HIDE DEF own
<1>7. own = Walk("entry", by, lifted, seq, own)
  BY <1>3, <1>6
<1>8. PICK h : /\ h[0] = lifted
               /\ \A k \in 1 .. Len(seq) : h[k] = Walked("entry", by, h[k - 1], seq[k])
               /\ h[Len(seq)] = own[DOMAIN seq]
  BY <1>4, <1>7, WalkSteps
<1>9. \A k \in 1 .. Len(list) : h[k] = Enter(q, j, max, h[k - 1], k, list[k])
  BY <1>2, <1>4, <1>8
<1> QED
  BY <1>1, <1>4, <1>8, <1>9 DEF OneByOne

\* The lists of the fields join the scores.
LEMMA FoldOfFields ==
  ASSUME NEW q, NEW hits, Len(hits) \in Nat, DOMAIN hits = 1 .. Len(hits)
  PROVE  \E h : /\ h[0] = Unmerged
                /\ \A k \in 1 .. Len(hits) :
                     h[k] = LogicOp(q, h[k - 1], k, Parsed(hits[k]))
                /\ h[Len(hits)] = Merged(q, hits)
<1> DEFINE seq == [i \in DOMAIN hits |-> i]
           by == [query |-> q, hits |-> hits]
           Step(g) == [S \in SUBSET DOMAIN seq |->
              IF S = {} THEN Unmerged
              ELSE LogicOp(q, g[S \ {Max(S)}], seq[Max(S)], Parsed(hits[seq[Max(S)]]))]
           own == CHOOSE g : g = Step(g)
<1>1. Merged(q, hits) = own[DOMAIN seq]
  BY Zenon DEF Merged, FoldLeft, MapThenFoldSet
<1>2. \A so, x : Walked("field", by, so, x) = LogicOp(q, so, x, Parsed(hits[x]))
  BY DEF Walked
<1>3. \A g : Walk("field", by, Unmerged, seq, g) = Step(g)
  <2> HIDE DEF by, seq
  <2> QED
    BY <1>2 DEF Walk
<1>4. Len(seq) = Len(hits) /\ DOMAIN seq = 1 .. Len(seq)
      /\ \A k \in 1 .. Len(hits) : seq[k] = k
  <2>1. seq \in Seq(Nat)
    OBVIOUS
  <2> QED
    BY <2>1
<1> HIDE DEF Step, seq, by
<1>5. \E g : g = Step(g)
  <2>1. \E g : g = Walk("field", by, Unmerged, seq, g)
    BY <1>4, WalkExists
  <2> QED
    BY <1>3, <2>1, Zenon
<1>6. own = Step(own)
  BY <1>5, Zenon
<1> HIDE DEF own
<1>7. own = Walk("field", by, Unmerged, seq, own)
  BY <1>3, <1>6
<1>8. PICK h : /\ h[0] = Unmerged
               /\ \A k \in 1 .. Len(seq) : h[k] = Walked("field", by, h[k - 1], seq[k])
               /\ h[Len(seq)] = own[DOMAIN seq]
  BY <1>4, <1>7, WalkSteps
<1>9. \A k \in 1 .. Len(hits) : h[k] = LogicOp(q, h[k - 1], k, Parsed(hits[k]))
  BY <1>2, <1>4, <1>8
<1> QED
  BY <1>1, <1>4, <1>8, <1>9

-----------------------------------------------------------------------------
(* A list as an index answers it, and as it is parsed.                      *)

DocsOf(list) == {list[i].doc : i \in DOMAIN list}
FirstAt(hits, i) == \A k \in 1 .. (i - 1) : hits[k].doc # hits[i].doc
EachDocOnce(list) ==
  \A i, m \in DOMAIN list : i # m => list[i].doc # list[m].doc

\* The list made of the first k entries of hits.
ParsedUpTo(hits, k, list) ==
  /\ list \in Seq(Hit) /\ Len(list) <= k
  /\ EachDocOnce(list)
  /\ \A i \in 1 .. k : \E m \in DOMAIN list : list[m].doc = hits[i].doc
  /\ \A m \in DOMAIN list : \E i \in 1 .. k : list[m] = hits[i] /\ FirstAt(hits, i)
  /\ \A m, o \in DOMAIN list :
       m < o => \E i, l \in 1 .. k : i < l /\ list[m] = hits[i] /\ list[o] = hits[l]

\* What an element added to a sequence leaves of it.
LEMMA Appended ==
  ASSUME NEW T, NEW s \in Seq(T), NEW x \in T
  PROVE  /\ Append(s, x) \in Seq(T) /\ Len(Append(s, x)) = Len(s) + 1
         /\ DOMAIN s = 1 .. Len(s) /\ Len(s) \in Nat
         /\ DOMAIN Append(s, x) = 1 .. Len(s) + 1
         /\ \A i \in 1 .. Len(s) : Append(s, x)[i] = s[i]
         /\ Append(s, x)[Len(s) + 1] = x
OBVIOUS

\* One more entry is parsed.
LEMMA KeepFirstKeeps ==
  ASSUME NEW hits \in Seq(Hit), NEW k \in 1 .. Len(hits), NEW list,
         ParsedUpTo(hits, k - 1, list)
  PROVE  ParsedUpTo(hits, k, KeepFirst(list, hits[k]))
<1> DEFINE hit == hits[k]
           r == KeepFirst(list, hit)
<1>1. k \in Nat /\ k - 1 \in Nat /\ hit \in Hit /\ Len(hits) \in Nat
  OBVIOUS
<1>2. /\ list \in Seq(Hit) /\ Len(list) <= k - 1
      /\ EachDocOnce(list)
      /\ \A i \in 1 .. (k - 1) : \E m \in DOMAIN list : list[m].doc = hits[i].doc
      /\ \A m \in DOMAIN list :
           \E i \in 1 .. (k - 1) : list[m] = hits[i] /\ FirstAt(hits, i)
      /\ \A m, o \in DOMAIN list :
           m < o => \E i, l \in 1 .. (k - 1) :
                      i < l /\ list[m] = hits[i] /\ list[o] = hits[l]
  BY DEF ParsedUpTo
<1>3. 1 .. (k - 1) \subseteq 1 .. k
      /\ \A i \in 1 .. k : i \in 1 .. (k - 1) \/ i = k
  BY <1>1
<1>4. CASE \E i \in DOMAIN list : list[i].doc = hit.doc
  <2>1. r = list
    BY <1>4 DEF KeepFirst
  <2>2. Len(list) \in Nat /\ Len(list) <= k
    BY <1>1, <1>2
  <2>3. \A i \in 1 .. k : \E m \in DOMAIN list : list[m].doc = hits[i].doc
    BY <1>2, <1>3, <1>4
  <2>4. ParsedUpTo(hits, k, list)
    <3> HIDE DEF hit, r
    <3>1. \A m \in DOMAIN list : \E i \in 1 .. k : list[m] = hits[i] /\ FirstAt(hits, i)
      BY <1>2, <1>3, Zenon
    <3>2. ASSUME NEW m \in DOMAIN list, NEW o \in DOMAIN list, m < o
          PROVE  \E i, l \in 1 .. k : i < l /\ list[m] = hits[i] /\ list[o] = hits[l]
      <4>1. PICK i, l \in 1 .. (k - 1) : i < l /\ list[m] = hits[i] /\ list[o] = hits[l]
        BY <1>2, <3>2
      <4> QED
        BY <1>3, <4>1
    <3> QED
      BY <1>2, <2>2, <2>3, <3>1, <3>2, Zenon DEF ParsedUpTo
  <2> QED
    BY <2>1, <2>4
<1>5. CASE ~\E i \in DOMAIN list : list[i].doc = hit.doc
  <2> DEFINE n == Len(list)
  <2>1. r = Append(list, hit)
    BY <1>5 DEF KeepFirst
  <2>2. /\ r \in Seq(Hit) /\ Len(r) = n + 1
        /\ DOMAIN list = 1 .. n /\ n \in Nat
        /\ DOMAIN r = 1 .. n + 1
        /\ \A i \in 1 .. n : r[i] = list[i]
        /\ r[n + 1] = hit
    BY <1>1, <1>2, <2>1, Appended
  <2> HIDE DEF r, n
  <2>3. \A m \in DOMAIN r : m \in DOMAIN list \/ m = n + 1
    BY <2>2
  <2>4. FirstAt(hits, k)
    <3> SUFFICES ASSUME NEW i \in 1 .. (k - 1) PROVE hits[i].doc # hits[k].doc
      BY DEF FirstAt
    <3>1. PICK m \in DOMAIN list : list[m].doc = hits[i].doc
      BY <1>2
    <3> QED
      BY <1>5, <3>1
  <2>5. Len(r) <= k
    BY <1>1, <1>2, <2>2 DEF n
  <2>6. EachDocOnce(r)
    <3> SUFFICES ASSUME NEW i \in DOMAIN r, NEW m \in DOMAIN r, i # m
                 PROVE  r[i].doc # r[m].doc
      BY Zenon DEF EachDocOnce
    <3>1. \A x \in DOMAIN list : r[x] = list[x] /\ r[x].doc # r[n + 1].doc
      BY <1>5, <2>2
    <3>2. CASE i \in DOMAIN list /\ m \in DOMAIN list
      <4>1. list[i].doc # list[m].doc
        BY <1>2, <3>2, Zenon DEF EachDocOnce
      <4> QED
        BY <3>1, <3>2, <4>1
    <3>3. CASE i = n + 1 \/ m = n + 1
      BY <2>3, <3>1, <3>3
    <3> QED
      BY <2>3, <3>2, <3>3
  <2>7. \A i \in 1 .. k : \E m \in DOMAIN r : r[m].doc = hits[i].doc
    <3>1. n + 1 \in DOMAIN r /\ DOMAIN list \subseteq DOMAIN r
      BY <2>2
    <3> HIDE DEF hit
    <3>2. r[n + 1].doc = hits[k].doc
      BY <2>2 DEF hit
    <3>3. ASSUME NEW i \in 1 .. (k - 1) PROVE \E m \in DOMAIN r : r[m].doc = hits[i].doc
      <4>1. PICK m \in DOMAIN list : list[m].doc = hits[i].doc
        BY <1>2
      <4> QED
        BY <2>2, <3>1, <4>1
    <3> QED
      BY <1>3, <3>1, <3>2, <3>3
  <2>8. \A m \in DOMAIN r : \E i \in 1 .. k : r[m] = hits[i] /\ FirstAt(hits, i)
    <3>1. k \in 1 .. k
      BY <1>1
    <3> QED
      BY <1>2, <1>3, <2>2, <2>3, <2>4, <3>1
  <2>9. ASSUME NEW m \in DOMAIN r, NEW o \in DOMAIN r, m < o
        PROVE  \E i, l \in 1 .. k : i < l /\ r[m] = hits[i] /\ r[o] = hits[l]
    <3>1. m \in DOMAIN list /\ r[m] = list[m]
      BY <2>2, <2>9
    <3>2. CASE o \in DOMAIN list
      <4>1. r[o] = list[o]
        BY <2>2, <3>2
      <4>2. PICK i, l \in 1 .. (k - 1) : i < l /\ list[m] = hits[i] /\ list[o] = hits[l]
        BY <1>2, <2>9, <3>1, <3>2
      <4> QED
        BY <1>3, <3>1, <4>1, <4>2
    <3>3. CASE o = n + 1
      <4>1. PICK i \in 1 .. (k - 1) : list[m] = hits[i]
        BY <1>2, <3>1
      <4>2. i < k /\ k \in 1 .. k /\ i \in 1 .. k
        BY <1>1, <4>1
      <4> QED
        BY <2>2, <3>1, <3>3, <4>1, <4>2
    <3> QED
      BY <2>3, <3>2, <3>3
  <2>10. ParsedUpTo(hits, k, r)
    <3>1. \A m, o \in DOMAIN r :
            m < o => \E i, l \in 1 .. k : i < l /\ r[m] = hits[i] /\ r[o] = hits[l]
      BY <2>9
    <3> QED
      BY <2>2, <2>5, <2>6, <2>7, <2>8, <3>1, Zenon DEF ParsedUpTo
  <2> QED
    BY <2>10 DEF r
<1> QED
  BY <1>4, <1>5

\* A parsed list: the first entry of every document, in the order of the list.
LEMMA ParsedIs ==
  ASSUME NEW hits \in Seq(Hit)
  PROVE  ParsedUpTo(hits, Len(hits), Parsed(hits))
<1> DEFINE n == Len(hits)
<1>1. n \in Nat /\ DOMAIN hits = 1 .. n
  OBVIOUS
<1>2. PICK h : /\ h[0] = << >>
               /\ \A k \in 1 .. n : h[k] = KeepFirst(h[k - 1], hits[k])
               /\ h[n] = Parsed(hits)
  BY <1>1, FoldOfHits
<1> DEFINE G == {k \in 0 .. n : ParsedUpTo(hits, k, h[k])}
<1>3. 0 \in G
  <2>1. ParsedUpTo(hits, 0, << >>)
    BY DEF ParsedUpTo, EachDocOnce
  <2> QED
    BY <1>1, <1>2, <2>1
<1>4. ASSUME NEW k \in 1 .. n, k - 1 \in G PROVE k \in G
  <2>1. ParsedUpTo(hits, k - 1, h[k - 1]) /\ h[k] = KeepFirst(h[k - 1], hits[k])
    BY <1>2, <1>4
  <2>2. ParsedUpTo(hits, k, h[k])
    BY <2>1, KeepFirstKeeps
  <2> QED
    BY <1>1, <2>2
<1>5. n \in G
  <2> HIDE DEF G, n
  <2> QED
    BY <1>1, <1>3, <1>4, Climb
<1> QED
  BY <1>2, <1>5

\* Its largest distance.
LEMMA LimitIs ==
  ASSUME SearchAssumption, NEW list \in Seq(Hit)
  PROVE  /\ Limit(list, TRUE) \in Nat
         /\ \A i \in DOMAIN list : list[i].dist <= Limit(list, TRUE)
<1> DEFINE n == Len(list)
           Far(k, far) == far \in Nat /\ \A i \in 1 .. k : list[i].dist <= far
<1>1. n \in Nat /\ DOMAIN list = 1 .. n
      /\ \A i \in 1 .. n : list[i].dist \in Nat
  <2>1. n \in Nat /\ DOMAIN list = 1 .. n
    OBVIOUS
  <2>2. ASSUME NEW i \in 1 .. n PROVE list[i].dist \in Nat
    <3>1. list[i] \in Hit
      BY <2>1
    <3>2. list[i].dist \in SearchDists
      BY <3>1 DEF Hit
    <3> QED
      BY <3>2 DEF SearchAssumption
  <2> QED
    BY <2>1, <2>2
<1>2. PICK h : /\ h[0] = 0
               /\ \A k \in 1 .. n : h[k] = Farther(h[k - 1], list[k])
               /\ h[n] = Limit(list, TRUE)
  BY <1>1, FoldOfLimit
<1> DEFINE G == {k \in 0 .. n : Far(k, h[k])}
<1>3. 0 \in G
  BY <1>1, <1>2
<1>4. ASSUME NEW k \in 1 .. n, k - 1 \in G PROVE k \in G
  <2> DEFINE a == h[k - 1]
             d == list[k].dist
  <2>1. a \in Nat /\ d \in Nat /\ \A i \in 1 .. (k - 1) : list[i].dist <= a
    BY <1>1, <1>4
  <2>2. h[k] = IF d > a THEN d ELSE a
    BY <1>2 DEF Farther
  <2>3. \A i \in 1 .. k : i \in 1 .. (k - 1) \/ i = k
    OBVIOUS
  <2> HIDE DEF a
  <2>4. h[k] \in Nat /\ h[k] >= a /\ h[k] >= list[k].dist
    BY <2>1, <2>2
  <2>5. ASSUME NEW i \in 1 .. k PROVE list[i].dist <= h[k]
    <3>1. CASE i \in 1 .. (k - 1)
      <4>1. list[i].dist <= a /\ list[i].dist \in Nat
        BY <1>1, <2>1, <3>1
      <4> QED
        BY <2>1, <2>4, <4>1
    <3>2. CASE i = k
      BY <2>4, <3>2
    <3> QED
      BY <2>3, <3>1, <3>2
  <2> QED
    BY <1>1, <2>4, <2>5
<1>5. n \in G
  <2> HIDE DEF G, n
  <2> QED
    BY <1>1, <1>3, <1>4, Climb
<1> QED
  BY <1>1, <1>2, <1>5

-----------------------------------------------------------------------------
(* The list of a field joins the scores.                                    *)

\* What a merge holds has the four parts that the code keeps.
Shaped(merged) ==
  \E s, c, p, a : merged = [score |-> s, count |-> c, places |-> p, accu |-> a]

\* f is base with the values of new for the first k documents of a list.
Filled(f, base, list, k, new) ==
  /\ DOMAIN f = DOMAIN base \union {list[i].doc : i \in 1 .. k}
  /\ \A d \in DOMAIN base : (\A i \in 1 .. k : list[i].doc # d) => f[d] = base[d]
  /\ \A i \in 1 .. k : f[list[i].doc] = new[i]

\* One more of them.
LEMMA FilledMore ==
  ASSUME NEW f, NEW base, NEW list, Len(list) \in Nat, DOMAIN list = 1 .. Len(list),
         EachDocOnce(list), NEW k \in 1 .. Len(list), NEW new,
         Filled(f, base, list, k - 1, new)
  PROVE  /\ Filled(Assign(f, list[k].doc, new[k]), base, list, k, new)
         /\ \A x : ValueOr(f, list[k].doc, x) = ValueOr(base, list[k].doc, x)
<1> DEFINE d == list[k].doc
           r == Assign(f, d, new[k])
<1>1. /\ DOMAIN f = DOMAIN base \union {list[i].doc : i \in 1 .. (k - 1)}
      /\ \A e \in DOMAIN base : (\A i \in 1 .. (k - 1) : list[i].doc # e) => f[e] = base[e]
      /\ \A i \in 1 .. (k - 1) : f[list[i].doc] = new[i]
  BY DEF Filled
<1>2. 1 .. (k - 1) \subseteq 1 .. k /\ k \in 1 .. k
      /\ \A i \in 1 .. k : i \in 1 .. (k - 1) \/ i = k
  OBVIOUS
<1>3. \A i \in 1 .. (k - 1) : list[i].doc # d
  BY DEF EachDocOnce
<1>4. /\ DOMAIN r = DOMAIN f \union {d}
      /\ r[d] = new[k]
      /\ \A e \in DOMAIN f : e # d => r[e] = f[e]
  BY DEF Assign
<1> HIDE DEF r, d
<1>5. d = list[k].doc
  BY DEF d
<1>6. DOMAIN r = DOMAIN base \union {list[i].doc : i \in 1 .. k}
  BY <1>1, <1>2, <1>4, <1>5
<1>7. ASSUME NEW e \in DOMAIN base, \A i \in 1 .. k : list[i].doc # e
      PROVE  r[e] = base[e]
  <2>1. e # d /\ e \in DOMAIN f /\ f[e] = base[e]
    BY <1>1, <1>2, <1>5, <1>7
  <2> QED
    BY <1>4, <2>1
<1>8. ASSUME NEW i \in 1 .. k PROVE r[list[i].doc] = new[i]
  <2>1. CASE i = k
    BY <1>4, <1>5, <2>1
  <2>2. CASE i \in 1 .. (k - 1)
    <3>1. list[i].doc # d /\ list[i].doc \in DOMAIN f /\ f[list[i].doc] = new[i]
      BY <1>1, <1>3, <2>2
    <3> QED
      BY <1>4, <3>1
  <2> QED
    BY <1>2, <2>1, <2>2
<1>9. \A x : ValueOr(f, d, x) = ValueOr(base, d, x)
  BY <1>1, <1>3 DEF ValueOr
<1>10. Filled(r, base, list, k, new)
  BY <1>6, <1>7, <1>8 DEF Filled
<1> QED
  BY <1>9, <1>10 DEF r, d

\* What the entries of a list make of the scores.
Scored(q, j, max, base, list) ==
  [i \in DOMAIN list |->
     ValueOr(base.score, list[i].doc, base.accu) - max + list[i].dist * q.boost[j]]
Counted(base, list) ==
  [i \in DOMAIN list |-> ValueOr(base.count, list[i].doc, 0) + 1]
Placed(j, base, list) ==
  [i \in DOMAIN list |-> Assign(ValueOr(base.places, list[i].doc, Nothing), j, i)]

Entered(q, j, max, base, list, k, merged) ==
  /\ Shaped(merged)
  /\ merged.accu = base.accu
  /\ Filled(merged.score, base.score, list, k, Scored(q, j, max, base, list))
  /\ Filled(merged.count, base.count, list, k, Counted(base, list))
  /\ Filled(merged.places, base.places, list, k, Placed(j, base, list))

\* An entry is written over the three maps.
LEMMA EnterIs ==
  ASSUME NEW q, NEW j, NEW max, NEW merged, Shaped(merged), NEW i, NEW hit
  PROVE  LET r == Enter(q, j, max, merged, i, hit)
         IN /\ Shaped(r)
            /\ r.accu = merged.accu
            /\ r.score = Assign(merged.score, hit.doc,
                                ValueOr(merged.score, hit.doc, merged.accu)
                                  - max + hit.dist * q.boost[j])
            /\ r.count = Assign(merged.count, hit.doc,
                                ValueOr(merged.count, hit.doc, 0) + 1)
            /\ r.places = Assign(merged.places, hit.doc,
                                 Assign(ValueOr(merged.places, hit.doc, Nothing), j, i))
<1>1. PICK s, c, p, a : merged = [score |-> s, count |-> c, places |-> p, accu |-> a]
  BY DEF Shaped
<1> DEFINE s2 == Assign(s, hit.doc,
                        ValueOr(s, hit.doc, a) - max + hit.dist * q.boost[j])
           c2 == Assign(c, hit.doc, ValueOr(c, hit.doc, 0) + 1)
           p2 == Assign(p, hit.doc, Assign(ValueOr(p, hit.doc, Nothing), j, i))
<1>2. merged.score = s /\ merged.count = c /\ merged.places = p /\ merged.accu = a
  BY <1>1
<1>3. Enter(q, j, max, merged, i, hit)
        = [merged EXCEPT !.score = s2, !.count = c2, !.places = p2]
  BY <1>2 DEF Enter, NewScore
<1> HIDE DEF s2, c2, p2
<1>4. Enter(q, j, max, merged, i, hit)
        = [score |-> s2, count |-> c2, places |-> p2, accu |-> a]
  BY <1>1, <1>3
<1>5. s2 = Assign(merged.score, hit.doc,
                  ValueOr(merged.score, hit.doc, merged.accu) - max + hit.dist * q.boost[j])
  BY <1>2 DEF s2
<1>6. c2 = Assign(merged.count, hit.doc, ValueOr(merged.count, hit.doc, 0) + 1)
  BY <1>2 DEF c2
<1>7. p2 = Assign(merged.places, hit.doc,
                  Assign(ValueOr(merged.places, hit.doc, Nothing), j, i))
  BY <1>2 DEF p2
<1>8. Shaped(Enter(q, j, max, merged, i, hit))
  BY <1>4 DEF Shaped
<1> QED
  BY <1>2, <1>4, <1>5, <1>6, <1>7, <1>8

\* All entries of a list.
LEMMA EntriesJoin ==
  ASSUME NEW q, NEW j, NEW max, NEW base, Shaped(base), NEW list,
         Len(list) \in Nat, DOMAIN list = 1 .. Len(list), EachDocOnce(list)
  PROVE  Entered(q, j, max, base, list, Len(list),
                 Entries(q, j, max, base, list))
<1>1. PICK h : /\ h[0] = base
               /\ \A k \in 1 .. Len(list) :
                    h[k] = Enter(q, j, max, h[k - 1], k, list[k])
               /\ h[Len(list)] = Entries(q, j, max, base, list)
  <2>1. OneByOne(q, j, max, base, list)
    BY FoldOfEntries
  <2> QED
    BY <2>1, Zenon DEF OneByOne
<1>0. \A k \in 1 .. Len(list) : \A f, b, new :
        Filled(f, b, list, k - 1, new) =>
          /\ Filled(Assign(f, list[k].doc, new[k]), b, list, k, new)
          /\ \A x : ValueOr(f, list[k].doc, x) = ValueOr(b, list[k].doc, x)
  BY FilledMore
<1> DEFINE n == Len(list)
<1> DEFINE G == {k \in 0 .. n : Entered(q, j, max, base, list, k, h[k])}
<1>2. 0 \in G
  <2>1. \A f, new : Filled(f, f, list, 0, new)
    <3>1. 1 .. 0 = {}
      OBVIOUS
    <3>2. {list[i].doc : i \in 1 .. 0} = {}
      BY <3>1
    <3> QED
      BY <3>1, <3>2, Zenon DEF Filled
  <2>2. Entered(q, j, max, base, list, 0, base)
    BY <2>1 DEF Entered
  <2> QED
    BY <1>1, <2>2
<1>3. ASSUME NEW k \in 1 .. n, k - 1 \in G PROVE k \in G
  <2> DEFINE m == h[k - 1]
             d == list[k].doc
             new == Scored(q, j, max, base, list)
             num == Counted(base, list)
             at == Placed(j, base, list)
  <2>1. Entered(q, j, max, base, list, k - 1, m)
    BY <1>3
  <2>2. h[k] = Enter(q, j, max, m, k, list[k])
    BY <1>1
  <2> HIDE DEF m
  <2>3. /\ Shaped(m) /\ m.accu = base.accu
        /\ Filled(m.score, base.score, list, k - 1, new)
        /\ Filled(m.count, base.count, list, k - 1, num)
        /\ Filled(m.places, base.places, list, k - 1, at)
    BY <2>1 DEF Entered
  <2>4. /\ new[k] = ValueOr(base.score, d, base.accu) - max + list[k].dist * q.boost[j]
        /\ num[k] = ValueOr(base.count, d, 0) + 1
        /\ at[k] = Assign(ValueOr(base.places, d, Nothing), j, k)
    BY DEF Scored, Counted, Placed
  <2> HIDE DEF new, num, at
  <2>5. /\ Filled(Assign(m.score, d, new[k]), base.score, list, k, new)
        /\ \A x : ValueOr(m.score, d, x) = ValueOr(base.score, d, x)
    BY <1>0, <2>3
  <2>6. /\ Filled(Assign(m.count, d, num[k]), base.count, list, k, num)
        /\ \A x : ValueOr(m.count, d, x) = ValueOr(base.count, d, x)
    BY <1>0, <2>3
  <2>7. /\ Filled(Assign(m.places, d, at[k]), base.places, list, k, at)
        /\ \A x : ValueOr(m.places, d, x) = ValueOr(base.places, d, x)
    BY <1>0, <2>3
  <2>8. /\ Shaped(h[k]) /\ h[k].accu = m.accu
        /\ h[k].score = Assign(m.score, d, ValueOr(m.score, d, m.accu)
                                             - max + list[k].dist * q.boost[j])
        /\ h[k].count = Assign(m.count, d, ValueOr(m.count, d, 0) + 1)
        /\ h[k].places = Assign(m.places, d,
                                Assign(ValueOr(m.places, d, Nothing), j, k))
    BY <2>2, <2>3, EnterIs
  <2>9. /\ h[k].score = Assign(m.score, d, new[k])
        /\ h[k].count = Assign(m.count, d, num[k])
        /\ h[k].places = Assign(m.places, d, at[k])
    BY <2>3, <2>4, <2>5, <2>6, <2>7, <2>8
  <2>10. Entered(q, j, max, base, list, k, h[k])
    BY <2>3, <2>5, <2>6, <2>7, <2>8, <2>9 DEF Entered, new, num, at
  <2> QED
    BY <2>10
<1>4. n \in G
  <2> HIDE DEF G, n
  <2> QED
    BY <1>2, <1>3, Climb DEF n
<1> QED
  BY <1>1, <1>4

\* The distance of a document in a list: that of its first entry.
NearOf(list, d) ==
  list[CHOOSE i \in DOMAIN list : list[i].doc = d /\ \A k \in 1 .. (i - 1) : list[k].doc # d].dist

\* What parsing a list keeps of it.
LEMMA ParsedKeeps ==
  ASSUME NEW hits \in Seq(Hit)
  PROVE  LET list == Parsed(hits)
         IN /\ list \in Seq(Hit) /\ Len(list) \in Nat /\ DOMAIN list = 1 .. Len(list)
            /\ Len(list) <= Len(hits)
            /\ EachDocOnce(list)
            /\ DocsOf(list) = DocsOf(hits)
            /\ \A m \in DOMAIN list : list[m].dist = NearOf(hits, list[m].doc)
<1> DEFINE list == Parsed(hits)
           n == Len(hits)
<1>1. ParsedUpTo(hits, n, list)
  BY ParsedIs
<1> HIDE DEF list
<1>2. n \in Nat /\ DOMAIN hits = 1 .. n
  OBVIOUS
<1> HIDE DEF n
<1>3. /\ list \in Seq(Hit) /\ Len(list) <= n /\ EachDocOnce(list)
      /\ \A i \in 1 .. n : \E m \in DOMAIN list : list[m].doc = hits[i].doc
      /\ \A m \in DOMAIN list : \E i \in 1 .. n : list[m] = hits[i] /\ FirstAt(hits, i)
  BY <1>1 DEF ParsedUpTo
<1>4. Len(list) \in Nat /\ DOMAIN list = 1 .. Len(list)
  BY <1>3
<1>5. DocsOf(list) = DocsOf(hits)
  <2>1. ASSUME NEW i \in DOMAIN hits PROVE hits[i].doc \in DocsOf(list)
    <3>1. PICK m \in DOMAIN list : list[m].doc = hits[i].doc
      BY <1>2, <1>3
    <3> QED
      BY <3>1 DEF DocsOf
  <2>2. ASSUME NEW m \in DOMAIN list PROVE list[m].doc \in DocsOf(hits)
    <3>1. PICK i \in 1 .. n : list[m] = hits[i]
      BY <1>3
    <3> QED
      BY <1>2, <3>1 DEF DocsOf
  <2> QED
    BY <2>1, <2>2 DEF DocsOf
<1>6. ASSUME NEW m \in DOMAIN list PROVE list[m].dist = NearOf(hits, list[m].doc)
  <2> DEFINE d == list[m].doc
             First(i) == hits[i].doc = d /\ \A k \in 1 .. (i - 1) : hits[k].doc # d
             at == CHOOSE i \in DOMAIN hits : First(i)
  <2>1. PICK i \in 1 .. n : list[m] = hits[i] /\ FirstAt(hits, i)
    BY <1>3
  <2>2. First(i) /\ i \in DOMAIN hits
    BY <1>2, <2>1 DEF FirstAt
  <2>3. at \in DOMAIN hits /\ First(at)
    BY <2>2, Zenon
  <2>4. NearOf(hits, d) = hits[at].dist
    BY DEF NearOf
  <2> HIDE DEF at
  <2>5. i \in Nat /\ at \in Nat /\ i >= 1 /\ at >= 1
    BY <1>2, <2>2, <2>3
  <2>6. ~(i < at) /\ ~(at < i)
    <3>1. ASSUME i < at PROVE FALSE
      <4>1. i \in 1 .. (at - 1)
        BY <2>5, <3>1
      <4> QED
        BY <2>2, <2>3, <4>1
    <3>2. ASSUME at < i PROVE FALSE
      <4>1. at \in 1 .. (i - 1)
        BY <2>5, <3>2
      <4> QED
        BY <2>2, <2>3, <4>1
    <3> QED
      BY <3>1, <3>2
  <2>7. i = at
    BY <2>5, <2>6
  <2> QED
    BY <2>1, <2>4, <2>7
<1> QED
  BY <1>3, <1>4, <1>5, <1>6 DEF list, n

\* The list of field j has joined merged, which makes r.
Joined(q, j, list, merged, r) ==
  LET max == MaxScore(q, j, list)
      D == DOMAIN merged.score
  IN /\ Shaped(r)
     /\ r.accu = merged.accu + max
     /\ DOMAIN r.score = D \union DocsOf(list)
     /\ DOMAIN r.count = D \union DocsOf(list)
     /\ DOMAIN r.places = D \union DocsOf(list)
     /\ \A d \in D \ DocsOf(list) :
          /\ r.score[d] = merged.score[d] + max
          /\ r.count[d] = merged.count[d]
          /\ r.places[d] = merged.places[d]
     /\ \A i \in DOMAIN list : LET d == list[i].doc IN
          /\ r.score[d] = ValueOr(merged.score, d, merged.accu)
                            + list[i].dist * q.boost[j]
          /\ r.count[d] = ValueOr(merged.count, d, 0) + 1
          /\ r.places[d] = Assign(ValueOr(merged.places, d, Nothing), j, i)

\* logic_op: the scores, counts and places of a list join those of the lists
\* before it.
LEMMA LogicOpJoins ==
  ASSUME SearchAssumption, NEW q, NEW j, q.boost[j] \in Nat,
         NEW list \in Seq(Hit), EachDocOnce(list),
         NEW merged, Shaped(merged), merged.accu \in Nat,
         DOMAIN merged.count = DOMAIN merged.score,
         DOMAIN merged.places = DOMAIN merged.score,
         \A d \in DOMAIN merged.score : merged.score[d] \in Nat
  PROVE  /\ MaxScore(q, j, list) \in Nat
         /\ Joined(q, j, list, merged, LogicOp(q, merged, j, list))
<1> DEFINE max == MaxScore(q, j, list)
           n == Len(list)
           up == [d \in DOMAIN merged.score |-> merged.score[d] + max]
           lifted == [score |-> up, count |-> merged.count, places |-> merged.places,
                      accu |-> merged.accu + max]
           r == LogicOp(q, merged, j, list)
<1>1. n \in Nat /\ DOMAIN list = 1 .. n
      /\ \A i \in DOMAIN list : list[i].dist \in Nat
  <2>1. n \in Nat /\ DOMAIN list = 1 .. n
    OBVIOUS
  <2>2. ASSUME NEW i \in DOMAIN list PROVE list[i].dist \in Nat
    <3>1. list[i] \in Hit
      BY <2>1
    <3>2. list[i].dist \in SearchDists
      BY <3>1 DEF Hit
    <3> QED
      BY <3>2 DEF SearchAssumption
  <2> QED
    BY <2>1, <2>2
<1>2. max \in Nat
  <2>1. CASE ~q.and /\ q.is_l2
    <3>1. max = q.boost[j] * Limit(list, q.is_l2) /\ Limit(list, q.is_l2) = Limit(list, TRUE)
      BY <2>1 DEF MaxScore, Limit
    <3>2. Limit(list, TRUE) \in Nat
      BY LimitIs
    <3>3. \A a, b \in Nat : a * b \in Nat
      OBVIOUS
    <3> HIDE DEF max
    <3> QED
      BY <3>1, <3>2, <3>3
  <2>2. CASE ~(~q.and /\ q.is_l2)
    BY <2>2 DEF MaxScore
  <2> QED
    BY <2>1, <2>2
<1>3. Shaped(lifted)
  BY DEF Shaped
<1>4. r = Entries(q, j, max, lifted, list)
  <2>1. PICK s, c, p, a : merged = [score |-> s, count |-> c, places |-> p, accu |-> a]
    BY DEF Shaped
  <2> DEFINE own == [merged EXCEPT
                       !.score = [d \in DOMAIN @ |-> @[d] + max],
                       !.accu = @ + max]
  <2>2. r = Entries(q, j, max, own, list)
    BY Zenon DEF LogicOp, Entries
  <2>3. own = lifted
    <3>1. merged.score = s /\ merged.count = c /\ merged.places = p /\ merged.accu = a
      BY <2>1
    <3> HIDE DEF max
    <3>2. own = [merged EXCEPT !.score = up, !.accu = merged.accu + max]
      BY <2>1, <3>1
    <3> HIDE DEF up, own
    <3> QED
      BY <2>1, <3>1, <3>2
  <2> QED
    BY <2>2, <2>3
<1> HIDE DEF max
<1>5. Entered(q, j, max, lifted, list, n, r)
  <2> HIDE DEF lifted, r, n
  <2>1. \A b : Shaped(b) => Entered(q, j, max, b, list, n, Entries(q, j, max, b, list))
    BY <1>1, EntriesJoin DEF n
  <2> QED
    BY <1>3, <1>4, <2>1
<1> HIDE DEF r
<1> DEFINE D == DOMAIN merged.score
<1>6. /\ lifted.score = up /\ lifted.count = merged.count
      /\ lifted.places = merged.places /\ lifted.accu = merged.accu + max
      /\ DOMAIN up = D /\ \A d \in D : up[d] = merged.score[d] + max
  OBVIOUS
<1> HIDE DEF lifted, up
<1>7. /\ Shaped(r) /\ r.accu = merged.accu + max
      /\ Filled(r.score, up, list, n, Scored(q, j, max, lifted, list))
      /\ Filled(r.count, merged.count, list, n, Counted(lifted, list))
      /\ Filled(r.places, merged.places, list, n, Placed(j, lifted, list))
  BY <1>5, <1>6 DEF Entered
<1>8. DocsOf(list) = {list[i].doc : i \in 1 .. n}
  BY <1>1 DEF DocsOf
<1>9. /\ DOMAIN r.score = D \union DocsOf(list)
      /\ DOMAIN r.count = D \union DocsOf(list)
      /\ DOMAIN r.places = D \union DocsOf(list)
  BY <1>6, <1>7, <1>8 DEF Filled
<1>10. ASSUME NEW d \in D \ DocsOf(list)
       PROVE  /\ r.score[d] = merged.score[d] + max
              /\ r.count[d] = merged.count[d]
              /\ r.places[d] = merged.places[d]
  <2>1. \A i \in 1 .. n : list[i].doc # d
    BY <1>8, <1>10
  <2>2. d \in DOMAIN up /\ d \in DOMAIN merged.count /\ d \in DOMAIN merged.places
    BY <1>6
  <2>3. r.score[d] = up[d] /\ r.count[d] = merged.count[d]
        /\ r.places[d] = merged.places[d]
    BY <1>7, <2>1, <2>2 DEF Filled
  <2> QED
    BY <1>6, <2>3
<1>11. ASSUME NEW i \in DOMAIN list
       PROVE  LET d == list[i].doc
              IN /\ r.score[d] = ValueOr(merged.score, d, merged.accu)
                                   + list[i].dist * q.boost[j]
                 /\ r.count[d] = ValueOr(merged.count, d, 0) + 1
                 /\ r.places[d] = Assign(ValueOr(merged.places, d, Nothing), j, i)
  <2> DEFINE d == list[i].doc
             v == list[i].dist * q.boost[j]
  <2>1. /\ r.score[d] = Scored(q, j, max, lifted, list)[i]
        /\ r.count[d] = Counted(lifted, list)[i]
        /\ r.places[d] = Placed(j, lifted, list)[i]
    BY <1>1, <1>7 DEF Filled
  <2>2. /\ r.score[d] = ValueOr(up, d, merged.accu + max) - max + v
        /\ r.count[d] = ValueOr(merged.count, d, 0) + 1
        /\ r.places[d] = Assign(ValueOr(merged.places, d, Nothing), j, i)
    BY <1>6, <2>1 DEF Scored, Counted, Placed
  <2>3. v \in Nat
    <3>1. \A a, b \in Nat : a * b \in Nat
      OBVIOUS
    <3> QED
      BY <1>1, <3>1
  <2> HIDE DEF v
  <2>4. ValueOr(up, d, merged.accu + max) = ValueOr(merged.score, d, merged.accu) + max
        /\ ValueOr(merged.score, d, merged.accu) \in Nat
    BY <1>2, <1>6 DEF ValueOr
  <2> DEFINE w == ValueOr(merged.score, d, merged.accu)
  <2> HIDE DEF w, d
  <2>5. r.score[d] = (w + max) - max + v
    BY <2>2, <2>4 DEF w
  <2>6. r.score[d] = w + v
    BY <1>2, <2>3, <2>4, <2>5 DEF w
  <2> QED
    BY <2>2, <2>6 DEF v, w, d
<1>12. Joined(q, j, list, merged, r)
  BY <1>7, <1>9, <1>10, <1>11 DEF Joined, max
<1> QED
  BY <1>2, <1>12 DEF r, max

-----------------------------------------------------------------------------
(* The lists of the fields, one after another.                              *)

InAll(hits, k, d) == \A j \in 1 .. k : d \in DocsOf(hits[j])
UnionTo(hits, k) == {d \in SearchDocs : \E j \in 1 .. k : d \in DocsOf(hits[j])}
ListsOf(hits, k, d) == {j \in 1 .. k : d \in DocsOf(hits[j])}

\* What a document gets for its distance in one list.
Share(q, hits, j, d) == NearOf(hits[j], d) * q.boost[j]

\* A document of all lists is scored no worse than one that is nowhere nearer,
\* nor than one that is new would be.
RankedTo(q, hits, k, merged) ==
  q.is_l2 =>
    \A x \in UnionTo(hits, k) : InAll(hits, k, x) =>
      /\ ~q.and => merged.score[x] <= merged.accu
      /\ \A y \in UnionTo(hits, k) :
           /\ q.and => InAll(hits, k, y)
           /\ \A j \in ListsOf(hits, k, y) : Share(q, hits, j, x) <= Share(q, hits, j, y)
           => merged.score[x] <= merged.score[y]

\* Where a document is in the lists it is in.
PlacedTo(hits, k, merged, d) ==
  /\ DOMAIN merged.places[d] = ListsOf(hits, k, d)
  /\ \A j \in ListsOf(hits, k, d) :
       /\ merged.places[d][j] \in DOMAIN Parsed(hits[j])
       /\ Parsed(hits[j])[merged.places[d][j]].doc = d

MergedUpTo(q, hits, k, merged) ==
  /\ Shaped(merged) /\ merged.accu \in Nat
  /\ DOMAIN merged.score = UnionTo(hits, k)
  /\ DOMAIN merged.count = UnionTo(hits, k)
  /\ DOMAIN merged.places = UnionTo(hits, k)
  /\ \A d \in UnionTo(hits, k) :
       /\ merged.score[d] \in Nat
       /\ merged.count[d] = Cardinality(ListsOf(hits, k, d))
       /\ PlacedTo(hits, k, merged, d)
  /\ RankedTo(q, hits, k, merged)

\* A request and the lists that are its fields' so far.
AskedFor(q, hits) ==
  /\ q \in Requests
  /\ hits \in Seq(Seq(Hit)) /\ Len(hits) <= Len(q.boost)
  /\ \A j \in DOMAIN hits : Len(hits[j]) <= TopN

\* The weights of a request.
LEMMA AskedWeights ==
  ASSUME SearchAssumption, NEW q, NEW hits, AskedFor(q, hits)
  PROVE  /\ Len(hits) \in Nat /\ DOMAIN hits = 1 .. Len(hits)
         /\ Len(q.boost) \in Nat /\ Len(q.boost) > 0
         /\ DOMAIN q.boost = 1 .. Len(q.boost)
         /\ \A j \in DOMAIN hits : hits[j] \in Seq(Hit) /\ q.boost[j] \in Nat
<1>1. q.boost \in Seq(Nat) /\ q.boost # << >>
  BY DEF AskedFor, Requests, SearchAssumption
<1>2. hits \in Seq(Seq(Hit)) /\ Len(hits) <= Len(q.boost)
  BY DEF AskedFor
<1> DEFINE b == q.boost
<1> HIDE DEF b
<1>3. b \in Seq(Nat) /\ b # << >> /\ Len(hits) <= Len(b)
  BY <1>1, <1>2 DEF b
<1>4. Len(b) \in Nat /\ Len(b) > 0 /\ DOMAIN b = 1 .. Len(b)
      /\ \A j \in DOMAIN b : b[j] \in Nat
  BY <1>3
<1>5. Len(hits) \in Nat /\ DOMAIN hits = 1 .. Len(hits)
      /\ \A j \in DOMAIN hits : hits[j] \in Seq(Hit) /\ j \in DOMAIN b
  BY <1>2, <1>3, <1>4
<1> QED
  BY <1>4, <1>5 DEF b

\* What a document of the list of the next field has once it has joined.
SharesIn(q, hits, k, merged, d) ==
  LET r == LogicOp(q, merged, k, Parsed(hits[k]))
      max == MaxScore(q, k, Parsed(hits[k]))
  IN /\ Share(q, hits, k, d) \in Nat
     /\ ~q.and /\ q.is_l2 => Share(q, hits, k, d) <= max
     /\ r.score[d] = ValueOr(merged.score, d, merged.accu) + Share(q, hits, k, d)
     /\ r.count[d] = ValueOr(merged.count, d, 0) + 1
     /\ \E i \in DOMAIN Parsed(hits[k]) :
          /\ Parsed(hits[k])[i].doc = d
          /\ r.places[d] = Assign(ValueOr(merged.places, d, Nothing), k, i)

\* Each of its documents has that.
LEMMA ShareJoins ==
  ASSUME SearchAssumption, NEW q, NEW hits, AskedFor(q, hits),
         NEW k \in 1 .. Len(hits), NEW merged, MergedUpTo(q, hits, k - 1, merged),
         NEW d \in DocsOf(hits[k])
  PROVE  SharesIn(q, hits, k, merged, d)
<1> DEFINE list == Parsed(hits[k])
           r == LogicOp(q, merged, k, list)
           max == MaxScore(q, k, list)
           b == q.boost[k]
<1>1. hits[k] \in Seq(Hit) /\ b \in Nat
  BY AskedWeights
<1>2. /\ list \in Seq(Hit) /\ EachDocOnce(list) /\ DocsOf(list) = DocsOf(hits[k])
      /\ \A m \in DOMAIN list : list[m].dist = NearOf(hits[k], list[m].doc)
  BY <1>1, ParsedKeeps
<1>3. max \in Nat /\ Joined(q, k, list, merged, r)
  <2> HIDE DEF list
  <2> QED
    BY <1>1, <1>2, LogicOpJoins DEF MergedUpTo
<1> HIDE DEF list, r
<1>4. PICK i \in DOMAIN list : list[i].doc = d
  BY <1>2 DEF DocsOf
<1>5. list[i].dist * b = Share(q, hits, k, d)
  BY <1>2, <1>4 DEF Share
<1>6. /\ r.score[d] = ValueOr(merged.score, d, merged.accu) + list[i].dist * b
      /\ r.count[d] = ValueOr(merged.count, d, 0) + 1
      /\ r.places[d] = Assign(ValueOr(merged.places, d, Nothing), k, i)
  BY <1>3, <1>4 DEF Joined
<1>7. list[i].dist \in Nat
  <2>1. list[i] \in Hit
    BY <1>2
  <2>2. list[i].dist \in SearchDists
    BY <2>1 DEF Hit
  <2> QED
    BY <2>2 DEF SearchAssumption
<1>8. list[i].dist * b \in Nat
  <2>1. \A x, y \in Nat : x * y \in Nat
    OBVIOUS
  <2> QED
    BY <1>1, <1>7, <2>1
<1>9. ASSUME ~q.and, q.is_l2 PROVE list[i].dist * b <= max
  <2>1. max = b * Limit(list, TRUE)
    BY <1>9 DEF MaxScore, Limit
  <2>2. Limit(list, TRUE) \in Nat /\ list[i].dist <= Limit(list, TRUE)
    BY <1>2, LimitIs
  <2>3. \A x, y, z \in Nat : x <= y => x * z <= z * y
    <3> SUFFICES ASSUME NEW x \in Nat, NEW y \in Nat, NEW z \in Nat, x <= y
                 PROVE  x * z <= z * y
      OBVIOUS
    <3>1. PICK w \in Nat : y = x + w
      <4>1. y - x \in Nat /\ y = x + (y - x)
        OBVIOUS
      <4> QED
        BY <4>1
    <3>2. z * y = x * z + z * w /\ z * w \in Nat /\ x * z \in Nat
      BY <3>1
    <3> QED
      BY <3>2
  <2> QED
    BY <1>1, <1>7, <2>1, <2>2, <2>3
<1> QED
  BY <1>4, <1>5, <1>6, <1>8, <1>9 DEF list, r, SharesIn

\* The places up to k are those up to the one before it, and k.
LEMMA OneMoreField ==
  ASSUME NEW hits, NEW k \in Nat \ {0}
  PROVE  /\ \A d : InAll(hits, k, d) <=> InAll(hits, k - 1, d) /\ d \in DocsOf(hits[k])
         /\ \A d : ListsOf(hits, k, d) = ListsOf(hits, k - 1, d) \union
                                           {j \in {k} : d \in DocsOf(hits[j])}
         /\ \A d : k \notin ListsOf(hits, k - 1, d) /\ IsFiniteSet(ListsOf(hits, k, d))
         /\ \A d \in SearchDocs : d \in UnionTo(hits, k) <=>
                                    d \in UnionTo(hits, k - 1) \/ d \in DocsOf(hits[k])
         /\ \A d \in SearchDocs : d \notin UnionTo(hits, k - 1) => ListsOf(hits, k - 1, d) = {}
<1>1. 1 .. (k - 1) \subseteq 1 .. k /\ k \in 1 .. k /\ k \notin 1 .. (k - 1)
      /\ \A j \in 1 .. k : j \in 1 .. (k - 1) \/ j = k
  OBVIOUS
<1>2. \A d : InAll(hits, k, d) <=> InAll(hits, k - 1, d) /\ d \in DocsOf(hits[k])
  BY <1>1 DEF InAll
<1>3. \A d : ListsOf(hits, k, d) = ListsOf(hits, k - 1, d) \union
                                     {j \in {k} : d \in DocsOf(hits[j])}
  BY <1>1 DEF ListsOf
<1>4. ASSUME NEW d
      PROVE  k \notin ListsOf(hits, k - 1, d) /\ IsFiniteSet(ListsOf(hits, k, d))
  <2>1. ListsOf(hits, k, d) \subseteq 1 .. k /\ IsFiniteSet(1 .. k)
    BY FS_Interval DEF ListsOf
  <2>2. IsFiniteSet(ListsOf(hits, k, d))
    BY <2>1, FS_Subset
  <2> QED
    BY <1>1, <2>2 DEF ListsOf
<1>5. \A d \in SearchDocs : d \in UnionTo(hits, k) <=>
                              d \in UnionTo(hits, k - 1) \/ d \in DocsOf(hits[k])
  BY <1>1 DEF UnionTo
<1>6. \A d \in SearchDocs : d \notin UnionTo(hits, k - 1) => ListsOf(hits, k - 1, d) = {}
  BY DEF UnionTo, ListsOf
<1> QED
  BY <1>2, <1>3, <1>4, <1>5, <1>6

\* The next field joins what the fields before it were merged to.
LEMMA FieldJoins ==
  ASSUME SearchAssumption, NEW q, NEW hits, AskedFor(q, hits),
         NEW k \in 1 .. Len(hits), NEW merged, MergedUpTo(q, hits, k - 1, merged)
  PROVE  MergedUpTo(q, hits, k, LogicOp(q, merged, k, Parsed(hits[k])))
<1> DEFINE list == Parsed(hits[k])
           r == LogicOp(q, merged, k, list)
           max == MaxScore(q, k, list)
           L == DocsOf(hits[k])
           D == UnionTo(hits, k - 1)
           U == UnionTo(hits, k)
           Old(d) == IF d \in D THEN merged.score[d] ELSE merged.accu
           Got(d) == Share(q, hits, k, d)
<1>1. hits[k] \in Seq(Hit) /\ q.boost[k] \in Nat /\ k \in Nat \ {0}
      /\ Len(hits) \in Nat
  BY AskedWeights
<1>2. list \in Seq(Hit) /\ EachDocOnce(list) /\ DocsOf(list) = L
  BY <1>1, ParsedKeeps
<1>3. /\ Shaped(merged) /\ merged.accu \in Nat
      /\ DOMAIN merged.score = D /\ DOMAIN merged.count = D /\ DOMAIN merged.places = D
      /\ \A d \in D : merged.score[d] \in Nat
      /\ \A d \in D : merged.count[d] = Cardinality(ListsOf(hits, k - 1, d))
      /\ \A d \in D : PlacedTo(hits, k - 1, merged, d)
      /\ RankedTo(q, hits, k - 1, merged)
  BY DEF MergedUpTo
<1>4. max \in Nat /\ Joined(q, k, list, merged, r)
  <2> HIDE DEF list, D
  <2> QED
    BY <1>1, <1>2, <1>3, LogicOpJoins
<1>5. L \subseteq SearchDocs
  <2>1. ASSUME NEW i \in DOMAIN hits[k] PROVE hits[k][i].doc \in SearchDocs
    <3>1. hits[k][i] \in Hit
      BY <1>1
    <3> QED
      BY <3>1 DEF Hit
  <2> QED
    BY <2>1 DEF DocsOf
<1>6. U = D \union L /\ D \subseteq SearchDocs
  <2>1. U \subseteq SearchDocs /\ D \subseteq SearchDocs
    BY DEF UnionTo
  <2>2. \A d \in SearchDocs : d \in U <=> d \in D \/ d \in L
    BY <1>1, OneMoreField
  <2> HIDE DEF U, D, L
  <2> QED
    BY <1>5, <2>1, <2>2
<1>7. ASSUME NEW d \in L
      PROVE  /\ Got(d) \in Nat
             /\ ~q.and /\ q.is_l2 => Got(d) <= max
             /\ r.score[d] = Old(d) + Got(d)
             /\ r.count[d] = ValueOr(merged.count, d, 0) + 1
             /\ \E i \in DOMAIN list :
                  /\ list[i].doc = d
                  /\ r.places[d] = Assign(ValueOr(merged.places, d, Nothing), k, i)
  <2>1. Old(d) = ValueOr(merged.score, d, merged.accu)
    BY <1>3 DEF ValueOr
  <2> HIDE DEF Old, L
  <2>2. d \in DocsOf(hits[k])
    BY <1>7 DEF L
  <2>3. /\ Got(d) \in Nat
        /\ ~q.and /\ q.is_l2 => Got(d) <= max
        /\ r.score[d] = ValueOr(merged.score, d, merged.accu) + Got(d)
        /\ r.count[d] = ValueOr(merged.count, d, 0) + 1
        /\ \E i \in DOMAIN list :
             /\ list[i].doc = d
             /\ r.places[d] = Assign(ValueOr(merged.places, d, Nothing), k, i)
    <3>1. SharesIn(q, hits, k, merged, d)
      BY <2>2, ShareJoins
    <3> QED
      BY <3>1, Zenon DEF SharesIn
  <2> QED
    BY <2>1, <2>2, <2>3
<1>8. ASSUME NEW d \in D \ L
      PROVE  /\ r.score[d] = merged.score[d] + max
             /\ r.count[d] = merged.count[d]
             /\ r.places[d] = merged.places[d]
  BY <1>2, <1>3, <1>4 DEF Joined
<1>9. /\ Shaped(r) /\ r.accu = merged.accu + max
      /\ DOMAIN r.score = U /\ DOMAIN r.count = U /\ DOMAIN r.places = U
  BY <1>2, <1>3, <1>4, <1>6 DEF Joined
<1> HIDE DEF r, max, L, D, U, list, Got
<1>10. \A d \in U : Old(d) \in Nat
  BY <1>3
<1> HIDE DEF Old
<1>11. \A d \in U : r.score[d] \in Nat
  <2> SUFFICES ASSUME NEW d \in U PROVE r.score[d] \in Nat
    OBVIOUS
  <2>1. CASE d \in L
    BY <1>7, <1>10, <2>1
  <2>2. CASE d \in D \ L
    BY <1>3, <1>4, <1>8, <2>2
  <2> QED
    BY <1>6, <2>1, <2>2
<1>12. \A d \in U :
         /\ d \in L => ListsOf(hits, k, d) = ListsOf(hits, k - 1, d) \union {k}
         /\ d \notin L => ListsOf(hits, k, d) = ListsOf(hits, k - 1, d)
         /\ d \notin D => ListsOf(hits, k - 1, d) = {}
         /\ k \notin ListsOf(hits, k - 1, d) /\ IsFiniteSet(ListsOf(hits, k, d))
  <2> SUFFICES ASSUME NEW d \in U
               PROVE  /\ d \in L => ListsOf(hits, k, d) = ListsOf(hits, k - 1, d) \union {k}
                      /\ d \notin L => ListsOf(hits, k, d) = ListsOf(hits, k - 1, d)
                      /\ d \notin D => ListsOf(hits, k - 1, d) = {}
                      /\ k \notin ListsOf(hits, k - 1, d)
                      /\ IsFiniteSet(ListsOf(hits, k, d))
    OBVIOUS
  <2>1. d \in SearchDocs
    BY <1>5, <1>6
  <2>2. /\ ListsOf(hits, k, d) = ListsOf(hits, k - 1, d) \union
                                   {j \in {k} : d \in DocsOf(hits[j])}
        /\ k \notin ListsOf(hits, k - 1, d) /\ IsFiniteSet(ListsOf(hits, k, d))
        /\ d \notin UnionTo(hits, k - 1) => ListsOf(hits, k - 1, d) = {}
    BY <1>1, <2>1, OneMoreField
  <2>3. d \in L => {j \in {k} : d \in DocsOf(hits[j])} = {k}
    BY DEF L
  <2>4. d \notin L => {j \in {k} : d \in DocsOf(hits[j])} = {}
    BY DEF L
  <2> QED
    BY <2>2, <2>3, <2>4 DEF D
<1>13. \A d \in U : r.count[d] = Cardinality(ListsOf(hits, k, d))
  <2> SUFFICES ASSUME NEW d \in U PROVE r.count[d] = Cardinality(ListsOf(hits, k, d))
    OBVIOUS
  <2> DEFINE T == ListsOf(hits, k - 1, d)
  <2>1. CASE d \in L
    <3>1. /\ ListsOf(hits, k, d) = T \union {k} /\ k \notin T
          /\ IsFiniteSet(T \union {k})
      BY <1>12, <2>1
    <3>2. IsFiniteSet(T)
      BY <3>1, FS_Subset
    <3>3. Cardinality(T \union {k}) = Cardinality(T) + 1
      BY <3>1, <3>2, FS_AddElement
    <3>4. r.count[d] = ValueOr(merged.count, d, 0) + 1
      BY <1>7, <2>1
    <3>5. ValueOr(merged.count, d, 0) = Cardinality(T)
      <4>1. CASE d \in D
        BY <1>3, <4>1 DEF ValueOr
      <4>2. CASE d \notin D
        <5>1. T = {}
          BY <1>12, <4>2
        <5>2. Cardinality(T) = 0
          BY <5>1, FS_EmptySet
        <5> QED
          BY <1>3, <4>2, <5>2 DEF ValueOr
      <4> QED
        BY <4>1, <4>2
    <3> QED
      BY <3>1, <3>3, <3>4, <3>5
  <2>2. CASE d \in D \ L
    BY <1>3, <1>8, <1>12, <2>2
  <2> QED
    BY <1>6, <2>1, <2>2
<1>14. ASSUME NEW d \in U PROVE PlacedTo(hits, k, r, d)
  <2> DEFINE T == ListsOf(hits, k - 1, d)
             was == ValueOr(merged.places, d, Nothing)
  <2>1. /\ DOMAIN was = T
        /\ \A j \in T : was[j] \in DOMAIN Parsed(hits[j]) /\ Parsed(hits[j])[was[j]].doc = d
    <3>1. CASE d \in D
      BY <1>3, <3>1 DEF ValueOr, PlacedTo
    <3>2. CASE d \notin D
      <4>1. T = {} /\ was = Nothing
        BY <1>3, <1>12, <3>2 DEF ValueOr
      <4>2. DOMAIN Nothing = {}
        BY DEF Nothing
      <4> QED
        BY <4>1, <4>2
    <3> QED
      BY <3>1, <3>2
  <2>2. CASE d \in L
    <3>1. PICK i \in DOMAIN list : list[i].doc = d /\ r.places[d] = Assign(was, k, i)
      BY <1>7, <2>2
    <3>2. ListsOf(hits, k, d) = T \union {k} /\ k \notin T
      BY <1>12, <2>2
    <3> HIDE DEF was, T
    <3>3. /\ DOMAIN Assign(was, k, i) = T \union {k}
          /\ Assign(was, k, i)[k] = i
          /\ \A j \in T : Assign(was, k, i)[j] = was[j]
      BY <2>1, <3>2 DEF Assign
    <3>4. list = Parsed(hits[k])
      BY DEF list
    <3>5. ASSUME NEW j \in ListsOf(hits, k, d)
          PROVE  r.places[d][j] \in DOMAIN Parsed(hits[j])
                 /\ Parsed(hits[j])[r.places[d][j]].doc = d
      <4>1. CASE j = k
        BY <3>1, <3>3, <3>4, <4>1
      <4>2. CASE j \in T
        BY <2>1, <3>1, <3>3, <4>2
      <4> QED
        BY <3>2, <4>1, <4>2
    <3> QED
      BY <3>1, <3>2, <3>3, <3>5 DEF PlacedTo
  <2>3. CASE d \in D \ L
    <3>1. r.places[d] = was
      BY <1>3, <1>8, <2>3 DEF ValueOr
    <3>2. ListsOf(hits, k, d) = T
      BY <1>12, <2>3
    <3> HIDE DEF was, T
    <3> QED
      BY <2>1, <3>1, <3>2 DEF PlacedTo
  <2> QED
    BY <1>6, <2>2, <2>3
<1>15. ASSUME q.is_l2, NEW x \in U, InAll(hits, k, x), ~q.and
       PROVE  r.score[x] <= r.accu
  <2>1. x \in L /\ InAll(hits, k - 1, x)
    BY <1>1, <1>15, OneMoreField DEF L
  <2>2. r.score[x] = Old(x) + Got(x) /\ Got(x) \in Nat /\ Got(x) <= max
        /\ Old(x) \in Nat
    BY <1>7, <1>10, <1>15, <2>1
  <2>3. Old(x) <= merged.accu
    <3>1. CASE x \in D
      BY <1>3, <1>15, <2>1, <3>1 DEF RankedTo, Old, D
    <3>2. CASE x \notin D
      BY <1>3, <3>2 DEF Old
    <3> QED
      BY <3>1, <3>2
  <2> QED
    BY <1>3, <1>4, <1>9, <2>2, <2>3
<1>16. ASSUME q.is_l2, NEW x \in U, InAll(hits, k, x), NEW y \in U,
              q.and => InAll(hits, k, y),
              \A j \in ListsOf(hits, k, y) : Share(q, hits, j, x) <= Share(q, hits, j, y)
       PROVE  r.score[x] <= r.score[y]
  <2>1. x \in L /\ InAll(hits, k - 1, x)
    BY <1>1, <1>16, OneMoreField DEF L
  <2>2. q.and => y \in L /\ InAll(hits, k - 1, y)
    BY <1>1, <1>16, OneMoreField DEF L
  <2>3. r.score[x] = Old(x) + Got(x) /\ Got(x) \in Nat /\ Old(x) \in Nat
        /\ (~q.and => Got(x) <= max)
    BY <1>7, <1>10, <1>16, <2>1
  <2>4. Old(x) \in Nat /\ Old(y) \in Nat
    BY <1>10
  <2>5. x \notin D => k = 1
    <3> SUFFICES ASSUME k # 1 PROVE x \in D
      OBVIOUS
    <3>1. 1 \in 1 .. (k - 1)
      BY <1>1
    <3>2. x \in DocsOf(hits[1]) /\ x \in SearchDocs
      BY <1>5, <2>1, <3>1 DEF InAll
    <3> QED
      BY <3>1, <3>2 DEF D, UnionTo
  <2>6. k = 1 => D = {}
    <3>1. 1 .. 0 = {}
      OBVIOUS
    <3> QED
      BY <3>1 DEF D, UnionTo
  <2>7. y \in D \/ ~q.and \/ k = 1
    <3> SUFFICES ASSUME k # 1, q.and PROVE y \in D
      OBVIOUS
    <3>1. 1 \in 1 .. (k - 1)
      BY <1>1
    <3>2. y \in DocsOf(hits[1]) /\ y \in SearchDocs
      BY <1>5, <1>6, <2>2, <3>1 DEF InAll
    <3> QED
      BY <3>1, <3>2 DEF D, UnionTo
  <2>8. Old(x) <= Old(y)
    <3>1. CASE x \in D /\ y \in D
      <4>1. \A j \in ListsOf(hits, k - 1, y) :
              Share(q, hits, j, x) <= Share(q, hits, j, y)
        BY <1>12, <1>16
      <4>2. merged.score[x] <= merged.score[y]
        BY <1>3, <1>16, <2>1, <2>2, <3>1, <4>1 DEF RankedTo, D
      <4> QED
        BY <3>1, <4>2 DEF Old
    <3>2. CASE x \in D /\ y \notin D
      <4>1. ~q.and
        BY <2>6, <2>7, <3>2
      <4>2. merged.score[x] <= merged.accu
        BY <1>3, <1>16, <2>1, <3>2, <4>1 DEF RankedTo, D
      <4> QED
        BY <3>2, <4>2 DEF Old
    <3>3. CASE x \notin D
      <4>1. y \notin D
        BY <2>5, <2>6, <3>3
      <4> QED
        BY <1>3, <3>3, <4>1 DEF Old
    <3> QED
      BY <3>1, <3>2, <3>3
  <2>9. CASE y \in L
    <3>1. r.score[y] = Old(y) + Got(y) /\ Got(y) \in Nat
      BY <1>7, <2>9
    <3>2. k \in ListsOf(hits, k, y)
      BY <1>12, <2>9
    <3>3. Got(x) <= Got(y)
      BY <1>16, <3>2 DEF Got
    <3> QED
      BY <2>3, <2>4, <2>8, <3>1, <3>3
  <2>10. CASE y \in D \ L
    <3>1. r.score[y] = merged.score[y] + max /\ Old(y) = merged.score[y]
      BY <1>8, <2>10 DEF Old
    <3>2. Got(x) <= max
      BY <2>2, <2>3, <2>10
    <3> QED
      BY <1>4, <2>3, <2>4, <2>8, <3>1, <3>2
  <2> QED
    BY <1>6, <2>9, <2>10
<1>17. RankedTo(q, hits, k, r)
  BY <1>15, <1>16 DEF RankedTo, U
<1>18. MergedUpTo(q, hits, k, r)
  <2>1. r.accu \in Nat
    BY <1>3, <1>4, <1>9
  <2> QED
    BY <1>9, <1>11, <1>13, <1>14, <1>17, <2>1 DEF MergedUpTo, U
<1> QED
  BY <1>18 DEF r, list

\* All fields.
LEMMA MergedIs ==
  ASSUME SearchAssumption, NEW q, NEW hits, AskedFor(q, hits)
  PROVE  MergedUpTo(q, hits, Len(hits), Merged(q, hits))
<1> DEFINE n == Len(hits)
<1>1. n \in Nat /\ DOMAIN hits = 1 .. n
  BY AskedWeights
<1>2. PICK h : /\ h[0] = Unmerged
               /\ \A k \in 1 .. n : h[k] = LogicOp(q, h[k - 1], k, Parsed(hits[k]))
               /\ h[n] = Merged(q, hits)
  BY <1>1, FoldOfFields
<1> DEFINE G == {k \in 0 .. n : MergedUpTo(q, hits, k, h[k])}
<1>3. 0 \in G
  <2>1. 1 .. 0 = {}
    OBVIOUS
  <2>2. UnionTo(hits, 0) = {}
    BY <2>1 DEF UnionTo
  <2>3. Shaped(Unmerged) /\ Unmerged.accu = 0
        /\ Unmerged.score = Nothing /\ Unmerged.count = Nothing /\ Unmerged.places = Nothing
    BY DEF Shaped, Unmerged
  <2>4. DOMAIN Nothing = {}
    BY DEF Nothing
  <2>5. RankedTo(q, hits, 0, Unmerged)
    BY <2>2 DEF RankedTo
  <2>6. MergedUpTo(q, hits, 0, Unmerged)
    BY <2>2, <2>3, <2>4, <2>5 DEF MergedUpTo
  <2> QED
    BY <1>1, <1>2, <2>6
<1>4. ASSUME NEW k \in 1 .. n, k - 1 \in G PROVE k \in G
  <2>1. MergedUpTo(q, hits, k - 1, h[k - 1])
    BY <1>4
  <2>2. MergedUpTo(q, hits, k, LogicOp(q, h[k - 1], k, Parsed(hits[k])))
    BY <2>1, FieldJoins
  <2> QED
    BY <1>2, <2>2
<1>5. n \in G
  <2> HIDE DEF G, n
  <2> QED
    BY <1>1, <1>3, <1>4, Climb
<1> QED
  BY <1>2, <1>5

-----------------------------------------------------------------------------
(* The answer: its documents, its room and its order.                       *)

\* A list has no more documents than entries.
LEMMA DocsOfList ==
  ASSUME NEW list, Len(list) \in Nat, DOMAIN list = 1 .. Len(list)
  PROVE  IsFiniteSet(DocsOf(list)) /\ Cardinality(DocsOf(list)) <= Len(list)
<1> DEFINE n == Len(list)
           Up(k) == {list[i].doc : i \in 1 .. k}
           G == {k \in 0 .. n : IsFiniteSet(Up(k)) /\ Cardinality(Up(k)) <= k}
<1>1. 0 \in G
  <2>1. Up(0) = {}
    <3>1. 1 .. 0 = {}
      OBVIOUS
    <3> QED
      BY <3>1
  <2> HIDE DEF Up
  <2> QED
    BY <2>1, FS_EmptySet
<1>2. ASSUME NEW k \in 1 .. n, k - 1 \in G PROVE k \in G
  <2>1. Up(k) = Up(k - 1) \union {list[k].doc}
    <3>1. 1 .. k = (1 .. (k - 1)) \union {k}
      OBVIOUS
    <3> QED
      BY <3>1
  <2>2. IsFiniteSet(Up(k - 1)) /\ Cardinality(Up(k - 1)) <= k - 1
    BY <1>2
  <2> HIDE DEF Up
  <2>3. IsFiniteSet(Up(k)) /\ Cardinality(Up(k - 1)) \in Nat
        /\ (Cardinality(Up(k)) = Cardinality(Up(k - 1))
            \/ Cardinality(Up(k)) = Cardinality(Up(k - 1)) + 1)
    BY <2>1, <2>2, FS_AddElement, FS_CardinalityType
  <2>4. Cardinality(Up(k)) <= k
    BY <2>2, <2>3
  <2> QED
    BY <2>3, <2>4
<1>3. n \in G
  <2> HIDE DEF G, n
  <2> QED
    BY <1>1, <1>2, Climb DEF n
<1>4. Up(n) = DocsOf(list)
  BY DEF DocsOf
<1> QED
  BY <1>3, <1>4

\* The union of all lists has room in their slots.
LEMMA UnionFits ==
  ASSUME SearchAssumption, NEW q, NEW hits, AskedFor(q, hits)
  PROVE  /\ IsFiniteSet(UnionTo(hits, Len(hits)))
         /\ Cardinality(UnionTo(hits, Len(hits))) <= TopN * Len(hits)
<1> DEFINE n == Len(hits)
           U(k) == UnionTo(hits, k)
           G == {k \in 0 .. n : IsFiniteSet(U(k)) /\ Cardinality(U(k)) <= TopN * k}
<1>1. n \in Nat /\ DOMAIN hits = 1 .. n /\ TopN \in Nat
      /\ \A j \in DOMAIN hits : hits[j] \in Seq(Hit)
  BY AskedWeights DEF SearchAssumption
<1>2. 0 \in G
  <2>1. U(0) = {}
    <3>1. 1 .. 0 = {}
      OBVIOUS
    <3> QED
      BY <3>1 DEF UnionTo
  <2> HIDE DEF U
  <2> QED
    BY <1>1, <2>1, FS_EmptySet
<1>3. ASSUME NEW k \in 1 .. n, k - 1 \in G PROVE k \in G
  <2> DEFINE L == DocsOf(hits[k])
  <2>1. IsFiniteSet(U(k - 1)) /\ Cardinality(U(k - 1)) <= TopN * (k - 1)
    BY <1>3
  <2>2. IsFiniteSet(L) /\ Cardinality(L) <= Len(hits[k]) /\ Len(hits[k]) \in Nat
        /\ Len(hits[k]) <= TopN
    <3>1. hits[k] \in Seq(Hit) /\ Len(hits[k]) <= TopN
      BY <1>1 DEF AskedFor
    <3>2. Len(hits[k]) \in Nat /\ DOMAIN hits[k] = 1 .. Len(hits[k])
      BY <3>1
    <3> QED
      BY <3>1, <3>2, DocsOfList
  <2>3. U(k) \subseteq U(k - 1) \union L
    <3>1. k \in Nat \ {0} /\ U(k) \subseteq SearchDocs
      BY <1>1 DEF UnionTo
    <3>2. \A d \in SearchDocs : d \in U(k) <=> d \in U(k - 1) \/ d \in L
      BY <3>1, OneMoreField
    <3> HIDE DEF U, L
    <3> QED
      BY <3>1, <3>2
  <2> HIDE DEF U, L
  <2>4. /\ IsFiniteSet(U(k - 1) \union L)
        /\ Cardinality(U(k - 1) \union L)
             = Cardinality(U(k - 1)) + Cardinality(L) - Cardinality(U(k - 1) \cap L)
    BY <2>1, <2>2, FS_Union
  <2>5. IsFiniteSet(U(k)) /\ Cardinality(U(k)) <= Cardinality(U(k - 1) \union L)
    BY <2>3, <2>4, FS_Subset
  <2>6. IsFiniteSet(U(k - 1) \cap L)
    BY <2>2, FS_Subset
  <2>7. /\ Cardinality(U(k - 1)) \in Nat /\ Cardinality(L) \in Nat
        /\ Cardinality(U(k - 1) \cap L) \in Nat /\ Cardinality(U(k)) \in Nat
    BY <2>1, <2>2, <2>5, <2>6, FS_CardinalityType
  <2>8. TopN * k = TopN * (k - 1) + TopN /\ TopN * (k - 1) \in Nat
    <3>1. \A a, b \in Nat : a * (b + 1) = a * b + a /\ a * b \in Nat
      OBVIOUS
    <3>2. k - 1 \in Nat /\ (k - 1) + 1 = k
      BY <1>1
    <3> QED
      BY <1>1, <3>1, <3>2
  <2> DEFINE c == TopN * (k - 1)
             e == TopN * k
  <2>9. Cardinality(U(k)) <= e
    <3>1. e = c + TopN /\ c \in Nat /\ Cardinality(U(k - 1)) <= c
      BY <2>1, <2>8
    <3> HIDE DEF c, e
    <3> QED
      BY <1>1, <2>2, <2>4, <2>5, <2>7, <3>1
  <2> QED
    BY <2>5, <2>9
<1>4. n \in G
  <2> HIDE DEF G, n
  <2> QED
    BY <1>1, <1>2, <1>3, Climb
<1> QED
  BY <1>4

\* The sequences of a set: each of its elements at one place.
LEMMA SeqsOfSet ==
  ASSUME NEW S, IsFiniteSet(S), NEW s \in SetToSeqs(S)
  PROVE  /\ Len(s) = Cardinality(S) /\ DOMAIN s = 1 .. Len(s) /\ Len(s) \in Nat
         /\ \A i \in DOMAIN s : s[i] \in S
         /\ \A i, j \in DOMAIN s : i # j => s[i] # s[j]
         /\ \A x \in S : \E i \in DOMAIN s : s[i] = x
<1> DEFINE n == Cardinality(S)
           R == {s[i] : i \in 1 .. n}
<1>1. n \in Nat
  BY FS_CardinalityType
<1>2. s \in [1 .. n -> S] /\ \A i, j \in 1 .. n : i # j => s[i] # s[j]
  BY Zenon DEF SetToSeqs
<1> HIDE DEF n
<1>3. Len(s) = n /\ DOMAIN s = 1 .. n
  BY <1>1, <1>2
<1>4. s \in Bijection(1 .. n, R)
  BY <1>2, Zenon DEF Bijection, Injection, Surjection, IsInjective
<1>5. R \subseteq S /\ IsFiniteSet(R)
  <2>1. R \subseteq S
    BY <1>2
  <2> QED
    BY <2>1, FS_Subset
<1>6. Cardinality(R) = n
  <2>1. ExistsBijection(1 .. n, R)
    BY <1>4, Zenon DEF ExistsBijection
  <2> HIDE DEF R
  <2> QED
    BY <1>1, <2>1, FS_CountingElements
<1>7. R = S
  BY <1>5, <1>6, FS_Subset DEF n
<1> QED
  BY <1>1, <1>2, <1>3, <1>7 DEF n

\* Products keep the order of their factors.
LEMMA ProductsKeepOrder ==
  ASSUME NEW x \in Nat, NEW y \in Nat, NEW z \in Nat
  PROVE  x * z \in Nat /\ (x <= y => x * z <= y * z)
<1>1. \A a, b \in Nat : a * b \in Nat
  OBVIOUS
<1>2. ASSUME x <= y PROVE x * z <= y * z
  <2>1. PICK w \in Nat : y = x + w
    <3>1. y - x \in Nat /\ y = x + (y - x)
      BY <1>2
    <3> QED
      BY <3>1
  <2>2. y * z = x * z + w * z /\ w * z \in Nat /\ x * z \in Nat
    BY <1>1, <2>1
  <2> QED
    BY <2>2
<1> QED
  BY <1>1, <1>2

\* What an answer is, of what was asked and listed.
Wanted(q, hits) ==
  {d \in SearchDocs : IF q.and THEN InAll(hits, Len(hits), d)
                      ELSE d \in UnionTo(hits, Len(hits))}

GoodAnswer(q, hits, answer) ==
  /\ Len(answer) \in Nat /\ DOMAIN answer = 1 .. Len(answer)
  /\ \A i \in DOMAIN answer : answer[i].score \in Nat
  /\ \A i \in DOMAIN answer : answer[i].doc \in Wanted(q, hits)
  /\ \A d \in Wanted(q, hits) : \E i \in DOMAIN answer : answer[i].doc = d
  /\ EachDocOnce(answer)
  /\ Len(answer) <= Slots(q)
  /\ \A i \in DOMAIN answer :
       /\ DOMAIN answer[i].fields = ListsOf(hits, Len(hits), answer[i].doc)
       /\ \A j \in DOMAIN answer[i].fields :
            answer[i].fields[j] = Share(q, hits, j, answer[i].doc)
  /\ q.is_l2 =>
       \A i, l \in DOMAIN answer :
         /\ DOMAIN answer[i].fields = DOMAIN hits
         /\ \A j \in DOMAIN answer[l].fields :
              answer[i].fields[j] <= answer[l].fields[j]
         => answer[i].score <= answer[l].score
  /\ q.rank => \A i, l \in DOMAIN answer :
       i < l => ~Better(q.metric, answer[l].score, answer[i].score)

\* The list of the only field is such an answer.
LEMMA ListIsGood ==
  ASSUME SearchAssumption, NEW q, NEW hits, AskedFor(q, hits),
         Len(hits) = Len(q.boost), Len(hits) = 1,
         hits[1] \in IndexAnswers(q.metric), NEW answer,
         answer = [i \in DOMAIN Parsed(hits[1]) |->
                     LET s == Parsed(hits[1])[i].dist * q.boost[1]
                     IN [doc |-> Parsed(hits[1])[i].doc, score |-> s,
                         fields |-> [j \in {1} |-> s]]]
  PROVE  GoodAnswer(q, hits, answer)
<1> DEFINE list == Parsed(hits[1])
           b == q.boost[1]
<1>1. hits[1] \in Seq(Hit) /\ b \in Nat /\ Len(hits[1]) \in Nat /\ Len(hits[1]) <= TopN
      /\ DOMAIN hits[1] = 1 .. Len(hits[1]) /\ DOMAIN hits = {1}
  <2>1. DOMAIN hits = 1 .. 1 /\ 1 .. 1 = {1}
    BY AskedWeights
  <2>2. hits[1] \in Seq(Hit) /\ b \in Nat /\ Len(hits[1]) <= TopN
    BY <2>1, AskedWeights DEF AskedFor
  <2> HIDE DEF b
  <2> QED
    BY <2>1, <2>2
<1>2. /\ list \in Seq(Hit) /\ Len(list) \in Nat /\ DOMAIN list = 1 .. Len(list)
      /\ Len(list) <= Len(hits[1])
      /\ EachDocOnce(list)
      /\ DocsOf(list) = DocsOf(hits[1])
      /\ \A m \in DOMAIN list : list[m].dist = NearOf(hits[1], list[m].doc)
  BY <1>1, ParsedKeeps
<1>3. \A m, o \in DOMAIN list :
        m < o => \E i, l \in 1 .. Len(hits[1]) :
                   i < l /\ list[m] = hits[1][i] /\ list[o] = hits[1][l]
  <2>1. ParsedUpTo(hits[1], Len(hits[1]), list)
    BY <1>1, ParsedIs
  <2> HIDE DEF list
  <2> QED
    BY <2>1, Zenon DEF ParsedUpTo
<1> HIDE DEF list
<1>4. /\ DOMAIN answer = DOMAIN list
      /\ \A i \in DOMAIN answer :
           /\ answer[i].doc = list[i].doc
           /\ answer[i].score = list[i].dist * b
           /\ answer[i].fields = [j \in {1} |-> answer[i].score]
  BY DEF list
<1>5. \A i \in DOMAIN list : list[i].doc \in SearchDocs /\ list[i].dist \in Nat
  <2> SUFFICES ASSUME NEW i \in DOMAIN list
               PROVE  list[i].doc \in SearchDocs /\ list[i].dist \in Nat
    OBVIOUS
  <2>1. list[i] \in Hit
    BY <1>2
  <2>2. list[i].doc \in SearchDocs /\ list[i].dist \in SearchDists
    BY <2>1 DEF Hit
  <2> QED
    BY <2>2 DEF SearchAssumption
<1> HIDE DEF b
<1>6. Len(answer) = Len(list)
  <2>1. answer = [i \in 1 .. Len(list) |-> answer[i]]
    BY <1>2 DEF list
  <2> QED
    BY <1>2, <2>1
<1>7. \A i \in DOMAIN answer : answer[i].score \in Nat
  BY <1>1, <1>4, <1>5, ProductsKeepOrder
<1>8. Wanted(q, hits) = {d \in SearchDocs : d \in DocsOf(hits[1])}
  <2>1. 1 .. Len(hits) = {1}
    OBVIOUS
  <2> QED
    BY <2>1, Zenon DEF Wanted, InAll, UnionTo
<1>9. \A i \in DOMAIN answer : answer[i].doc \in Wanted(q, hits)
  BY <1>2, <1>4, <1>5, <1>8 DEF DocsOf
<1>10. \A d \in Wanted(q, hits) : \E i \in DOMAIN answer : answer[i].doc = d
  <2> SUFFICES ASSUME NEW d \in Wanted(q, hits)
               PROVE  \E i \in DOMAIN answer : answer[i].doc = d
    OBVIOUS
  <2>1. d \in DocsOf(list)
    BY <1>2, <1>8
  <2>2. PICK i \in DOMAIN list : list[i].doc = d
    BY <2>1 DEF DocsOf
  <2> QED
    BY <1>4, <2>2
<1>11. EachDocOnce(answer)
  <2> SUFFICES ASSUME NEW i \in DOMAIN answer, NEW m \in DOMAIN answer, i # m
               PROVE  answer[i].doc # answer[m].doc
    BY Zenon DEF EachDocOnce
  <2>1. list[i].doc # list[m].doc
    BY <1>2, <1>4, Zenon DEF EachDocOnce
  <2> QED
    BY <1>4, <2>1
<1>12. Len(answer) <= Slots(q)
  <2>1. Slots(q) = TopN /\ TopN \in Nat
    BY DEF Slots, SearchAssumption
  <2> QED
    BY <1>1, <1>2, <1>6, <2>1
<1>13. ASSUME NEW i \in DOMAIN answer
       PROVE  /\ DOMAIN answer[i].fields = ListsOf(hits, Len(hits), answer[i].doc)
              /\ \A j \in DOMAIN answer[i].fields :
                   answer[i].fields[j] = Share(q, hits, j, answer[i].doc)
  <2>1. DOMAIN answer[i].fields = {1} /\ answer[i].fields[1] = list[i].dist * b
    BY <1>4
  <2>2. list[i].doc \in DocsOf(hits[1])
    BY <1>2, <1>4 DEF DocsOf
  <2>3. 1 .. Len(hits) = {1}
    OBVIOUS
  <2>4. ListsOf(hits, Len(hits), answer[i].doc) = {1}
    BY <1>4, <2>2, <2>3 DEF ListsOf
  <2>5. Share(q, hits, 1, answer[i].doc) = list[i].dist * b
    BY <1>2, <1>4 DEF Share, b
  <2> QED
    BY <2>1, <2>4, <2>5
<1>14. \A i, l \in DOMAIN answer :
         /\ DOMAIN answer[i].fields = DOMAIN hits
         /\ \A j \in DOMAIN answer[l].fields : answer[i].fields[j] <= answer[l].fields[j]
         => answer[i].score <= answer[l].score
  BY <1>4
<1>15. ASSUME NEW i \in DOMAIN answer, NEW l \in DOMAIN answer, i < l
       PROVE  ~Better(q.metric, answer[l].score, answer[i].score)
  <2>1. PICK m, o \in 1 .. Len(hits[1]) :
          m < o /\ list[i] = hits[1][m] /\ list[l] = hits[1][o]
    BY <1>3, <1>4, <1>15
  <2>2. ~Better(q.metric, hits[1][o].dist, hits[1][m].dist)
    BY <1>1, <2>1 DEF IndexAnswers
  <2>3. ~Better(q.metric, list[l].dist, list[i].dist)
    BY <2>1, <2>2
  <2>4. list[i].dist \in Nat /\ list[l].dist \in Nat
    BY <1>4, <1>5
  <2>5. CASE q.metric = "L2"
    <3>1. list[i].dist <= list[l].dist
      BY <2>3, <2>4, <2>5 DEF Better
    <3>2. answer[i].score <= answer[l].score
      BY <1>1, <1>4, <2>4, <3>1, ProductsKeepOrder
    <3> QED
      BY <1>7, <2>5, <3>2 DEF Better
  <2>6. CASE q.metric # "L2"
    <3>1. list[l].dist <= list[i].dist
      BY <2>3, <2>4, <2>6 DEF Better
    <3>2. answer[l].score <= answer[i].score
      BY <1>1, <1>4, <2>4, <3>1, ProductsKeepOrder
    <3> QED
      BY <1>7, <2>6, <3>2 DEF Better
  <2> QED
    BY <2>5, <2>6
<1>16. Len(answer) \in Nat /\ DOMAIN answer = 1 .. Len(answer)
  BY <1>2, <1>4, <1>6
<1> QED
  BY <1>7, <1>9, <1>10, <1>11, <1>12, <1>13, <1>14, <1>15, <1>16 DEF GoodAnswer

\* Documents of lists are documents.
LEMMA ListedAreDocs ==
  ASSUME SearchAssumption, NEW q, NEW hits, AskedFor(q, hits), NEW j \in DOMAIN hits
  PROVE  /\ DocsOf(hits[j]) \subseteq SearchDocs
         /\ IsFiniteSet(DocsOf(hits[j])) /\ Cardinality(DocsOf(hits[j])) <= TopN
<1>1. hits[j] \in Seq(Hit) /\ Len(hits[j]) <= TopN
  BY AskedWeights DEF AskedFor
<1> DEFINE list == hits[j]
<1> HIDE DEF list
<1>2. list \in Seq(Hit) /\ Len(list) <= TopN
  BY <1>1 DEF list
<1>3. Len(list) \in Nat /\ DOMAIN list = 1 .. Len(list)
  BY <1>2
<1>4. \A i \in DOMAIN list : list[i].doc \in SearchDocs
  <2>1. \A i \in DOMAIN list : list[i] \in Hit
    BY <1>2
  <2> QED
    BY <2>1 DEF Hit
<1>5. DocsOf(list) \subseteq SearchDocs
  BY <1>4 DEF DocsOf
<1>6. IsFiniteSet(DocsOf(list)) /\ Cardinality(DocsOf(list)) <= Len(list)
  BY <1>3, DocsOfList
<1>7. Cardinality(DocsOf(list)) \in Nat /\ TopN \in Nat
  BY <1>6, FS_CardinalityType DEF SearchAssumption
<1> QED
  BY <1>2, <1>3, <1>5, <1>6, <1>7 DEF list

\* The documents that are kept are those that were asked for, and have room.
LEMMA KeptAreWanted ==
  ASSUME SearchAssumption, NEW q, NEW hits, AskedFor(q, hits),
         Len(hits) = Len(q.boost), Len(hits) # 1
  PROVE  /\ Kept(q, Merged(q, hits)) = Wanted(q, hits)
         /\ Wanted(q, hits) \subseteq UnionTo(hits, Len(hits))
         /\ IsFiniteSet(Wanted(q, hits))
         /\ Cardinality(Wanted(q, hits)) <= Slots(q)
<1> DEFINE n == Len(hits)
           m == Merged(q, hits)
           U == UnionTo(hits, n)
           W == Wanted(q, hits)
<1>1. n \in Nat /\ n > 0 /\ DOMAIN hits = 1 .. n /\ TopN \in Nat
  BY AskedWeights DEF SearchAssumption
<1>2. MergedUpTo(q, hits, n, m)
  BY MergedIs
<1>3. 1 \in 1 .. n
  BY <1>1
<1>4. \A d : InAll(hits, n, d) => d \in U
  <2> SUFFICES ASSUME NEW d, InAll(hits, n, d) PROVE d \in U
    OBVIOUS
  <2>1. d \in DocsOf(hits[1])
    BY <1>3 DEF InAll
  <2>2. d \in SearchDocs
    BY <1>1, <1>3, <2>1, ListedAreDocs
  <2> QED
    BY <1>3, <2>1, <2>2 DEF UnionTo
<1>5. IsFiniteSet(U) /\ Cardinality(U) <= TopN * n
  BY UnionFits
<1>6. \A d \in U : m.count[d] = n <=> InAll(hits, n, d)
  <2> SUFFICES ASSUME NEW d \in U PROVE m.count[d] = n <=> InAll(hits, n, d)
    OBVIOUS
  <2>1. m.count[d] = Cardinality(ListsOf(hits, n, d))
    BY <1>2 DEF MergedUpTo
  <2>2. ListsOf(hits, n, d) \in SUBSET (1 .. n)
    BY DEF ListsOf
  <2>3. IsFiniteSet(1 .. n) /\ Cardinality(1 .. n) = n
    BY <1>1, FS_Interval
  <2>4. Cardinality(ListsOf(hits, n, d)) = n <=> ListsOf(hits, n, d) = 1 .. n
    BY <2>2, <2>3, FS_Subset
  <2>5. ListsOf(hits, n, d) = 1 .. n <=> InAll(hits, n, d)
    BY Zenon DEF ListsOf, InAll
  <2> QED
    BY <2>1, <2>4, <2>5
<1>7. DOMAIN m.count = U /\ DOMAIN m.score = U /\ U \subseteq SearchDocs
  BY <1>2 DEF MergedUpTo, UnionTo
<1> HIDE DEF m, U
<1>8. Kept(q, m) = W
  <2>1. CASE q.and
    <3>1. Kept(q, m) = {d \in U : m.count[d] = n}
      BY <1>7, <2>1 DEF Kept
    <3>2. W = {d \in SearchDocs : InAll(hits, n, d)}
      BY <2>1 DEF Wanted
    <3> HIDE DEF W, n
    <3> QED
      BY <1>4, <1>6, <1>7, <3>1, <3>2
  <2>2. CASE ~q.and
    <3>1. W = {d \in SearchDocs : d \in U}
      BY <2>2 DEF Wanted, U
    <3>2. Kept(q, m) = U
      BY <1>7, <2>2 DEF Kept
    <3> HIDE DEF W
    <3> QED
      BY <1>7, <3>1, <3>2
  <2> QED
    BY <2>1, <2>2
<1>9. W \subseteq U
  BY <1>4 DEF Wanted, U
<1>10. IsFiniteSet(W)
  BY <1>5, <1>9, FS_Subset
<1>11. Cardinality(W) <= Slots(q)
  <2>1. CASE q.and
    <3>1. W \subseteq DocsOf(hits[1])
      BY <1>3, <2>1 DEF Wanted, InAll
    <3>2. IsFiniteSet(DocsOf(hits[1])) /\ Cardinality(DocsOf(hits[1])) <= TopN
      BY <1>1, <1>3, ListedAreDocs
    <3> HIDE DEF W
    <3>3. Cardinality(W) <= Cardinality(DocsOf(hits[1]))
      BY <3>1, <3>2, FS_Subset
    <3>4. Slots(q) = TopN
      BY <2>1 DEF Slots
    <3>5. Cardinality(W) \in Nat /\ Cardinality(DocsOf(hits[1])) \in Nat
      BY <1>10, <3>2, FS_CardinalityType
    <3> QED
      BY <1>1, <3>2, <3>3, <3>4, <3>5
  <2>2. CASE ~q.and
    <3> HIDE DEF W
    <3>1. Cardinality(W) <= Cardinality(U)
      BY <1>5, <1>9, FS_Subset
    <3>2. Slots(q) = TopN * n
      BY <2>2 DEF Slots
    <3>3. Cardinality(W) \in Nat /\ Cardinality(U) \in Nat
      BY <1>5, <1>10, FS_CardinalityType
    <3>4. \A a, c \in Nat : a * c \in Nat
      OBVIOUS
    <3>5. TopN * n \in Nat
      BY <1>1, <3>4
    <3> DEFINE e == TopN * n
    <3> HIDE DEF e
    <3>6. e \in Nat /\ Cardinality(U) <= e /\ Slots(q) = e
      BY <1>5, <3>2, <3>5 DEF e
    <3> QED
      BY <3>1, <3>3, <3>6
  <2> QED
    BY <2>1, <2>2
<1> QED
  BY <1>8, <1>9, <1>10, <1>11 DEF m, U

\* An order of the merged documents is such an answer.
LEMMA OrderIsGood ==
  ASSUME SearchAssumption, NEW q, NEW hits, AskedFor(q, hits),
         Len(hits) = Len(q.boost), Len(hits) # 1,
         NEW order \in Orders(q, Merged(q, hits)), NEW answer,
         answer = [i \in DOMAIN order |->
                     [doc |-> order[i], score |-> Merged(q, hits).score[order[i]],
                      fields |-> LET at == Merged(q, hits).places[order[i]]
                                 IN [j \in DOMAIN at |-> FieldOf(q, hits, j, at[j])]]]
  PROVE  GoodAnswer(q, hits, answer)
<1> DEFINE n == Len(hits)
           m == Merged(q, hits)
           W == Wanted(q, hits)
           U == UnionTo(hits, n)
<1>1. n \in Nat /\ DOMAIN hits = 1 .. n
      /\ \A j \in DOMAIN hits : hits[j] \in Seq(Hit) /\ q.boost[j] \in Nat
  BY AskedWeights
<1>2. MergedUpTo(q, hits, n, m)
  BY MergedIs
<1>3. Kept(q, m) = W /\ W \subseteq U /\ IsFiniteSet(W) /\ Cardinality(W) <= Slots(q)
  BY KeptAreWanted
<1>4. /\ order \in SetToSeqs(Kept(q, m))
      /\ q.rank => \A i, l \in DOMAIN order :
           i < l => ~Better(q.metric, m.score[order[l]], m.score[order[i]])
  BY DEF Orders
<1>5. /\ DOMAIN answer = DOMAIN order
      /\ \A i \in DOMAIN answer :
           /\ answer[i].doc = order[i]
           /\ answer[i].score = m.score[order[i]]
           /\ answer[i].fields = [j \in DOMAIN m.places[order[i]] |->
                                    FieldOf(q, hits, j, m.places[order[i]][j])]
           /\ DOMAIN answer[i].fields = DOMAIN m.places[order[i]]
           /\ \A j \in DOMAIN answer[i].fields :
                answer[i].fields[j] = FieldOf(q, hits, j, m.places[order[i]][j])
  OBVIOUS
<1> HIDE DEF m, W, U
<1>6. /\ Len(order) = Cardinality(W) /\ DOMAIN order = 1 .. Len(order) /\ Len(order) \in Nat
      /\ \A i \in DOMAIN order : order[i] \in W
      /\ \A i, l \in DOMAIN order : i # l => order[i] # order[l]
      /\ \A x \in W : \E i \in DOMAIN order : order[i] = x
  BY <1>3, <1>4, SeqsOfSet
<1>7. Len(answer) = Len(order)
  <2>1. answer = [i \in 1 .. Len(order) |-> answer[i]]
    BY <1>5, <1>6
  <2> QED
    BY <1>6, <2>1
<1>8. /\ \A d \in U : m.score[d] \in Nat
      /\ \A d \in U : PlacedTo(hits, n, m, d)
      /\ RankedTo(q, hits, n, m)
  BY <1>2 DEF MergedUpTo, U
<1>9. \A i \in DOMAIN answer : order[i] \in W /\ order[i] \in U /\ i \in DOMAIN order
  BY <1>3, <1>5, <1>6
<1>10. \A i \in DOMAIN answer : answer[i].score \in Nat
  BY <1>5, <1>8, <1>9
<1>11. ASSUME NEW i \in DOMAIN answer
       PROVE  /\ DOMAIN answer[i].fields = ListsOf(hits, n, answer[i].doc)
              /\ \A j \in DOMAIN answer[i].fields :
                   answer[i].fields[j] = Share(q, hits, j, answer[i].doc)
  <2> DEFINE d == order[i]
             at == m.places[d]
  <2>1. /\ DOMAIN at = ListsOf(hits, n, d)
        /\ \A j \in ListsOf(hits, n, d) :
             at[j] \in DOMAIN Parsed(hits[j]) /\ Parsed(hits[j])[at[j]].doc = d
    BY <1>8, <1>9 DEF PlacedTo
  <2>2. ASSUME NEW j \in DOMAIN at PROVE FieldOf(q, hits, j, at[j]) = Share(q, hits, j, d)
    <3>1. j \in DOMAIN hits
      BY <1>1, <2>1, <2>2 DEF ListsOf
    <3>2. hits[j] \in Seq(Hit)
      BY <1>1, <3>1
    <3>3. \A k \in DOMAIN Parsed(hits[j]) :
            Parsed(hits[j])[k].dist = NearOf(hits[j], Parsed(hits[j])[k].doc)
      BY <3>2, ParsedKeeps
    <3>4. Parsed(hits[j])[at[j]].dist = NearOf(hits[j], d)
      BY <2>1, <2>2, <3>3
    <3> QED
      BY <3>4 DEF FieldOf, Share
  <2> HIDE DEF d, at
  <2>3. answer[i].doc = d /\ DOMAIN answer[i].fields = DOMAIN at
        /\ \A j \in DOMAIN at : answer[i].fields[j] = FieldOf(q, hits, j, at[j])
    BY <1>5 DEF d, at
  <2> QED
    BY <2>1, <2>2, <2>3
<1>12. ASSUME q.is_l2, NEW i \in DOMAIN answer, NEW l \in DOMAIN answer,
              DOMAIN answer[i].fields = DOMAIN hits,
              \A j \in DOMAIN answer[l].fields : answer[i].fields[j] <= answer[l].fields[j]
       PROVE  answer[i].score <= answer[l].score
  <2> DEFINE x == order[i]
             y == order[l]
  <2>1. answer[i].doc = x /\ answer[l].doc = y /\ x \in U /\ y \in U /\ x \in W /\ y \in W
        /\ answer[i].score = m.score[x] /\ answer[l].score = m.score[y]
    BY <1>5, <1>9
  <2> HIDE DEF x, y
  <2>2. ListsOf(hits, n, x) = 1 .. n
    BY <1>1, <1>11, <1>12, <2>1
  <2>3. InAll(hits, n, x)
    <3>1. \A j \in 1 .. n : j \in ListsOf(hits, n, x)
      BY <2>2
    <3> QED
      BY <3>1 DEF InAll, ListsOf
  <2>4. q.and => InAll(hits, n, y)
    BY <2>1 DEF W, Wanted
  <2>5. ASSUME NEW j \in ListsOf(hits, n, y)
        PROVE  Share(q, hits, j, x) <= Share(q, hits, j, y)
    <3>1. j \in DOMAIN answer[l].fields /\ answer[l].fields[j] = Share(q, hits, j, y)
      BY <1>11, <2>1, <2>5
    <3>2. j \in DOMAIN answer[i].fields
      BY <1>1, <1>12, <2>5 DEF ListsOf
    <3>3. answer[i].fields[j] = Share(q, hits, j, x)
      BY <1>11, <2>1, <3>2
    <3> QED
      BY <1>12, <3>1, <3>3
  <2>6. m.score[x] <= m.score[y]
    BY <1>8, <1>12, <2>1, <2>3, <2>4, <2>5 DEF RankedTo, U
  <2> QED
    BY <2>1, <2>6
<1>13. ASSUME q.rank, NEW i \in DOMAIN answer, NEW l \in DOMAIN answer, i < l
       PROVE  ~Better(q.metric, answer[l].score, answer[i].score)
  BY <1>4, <1>5, <1>13
<1>14. EachDocOnce(answer)
  <2> SUFFICES ASSUME NEW i \in DOMAIN answer, NEW l \in DOMAIN answer, i # l
               PROVE  answer[i].doc # answer[l].doc
    BY Zenon DEF EachDocOnce
  <2> QED
    BY <1>5, <1>6
<1>15. \A i \in DOMAIN answer : answer[i].doc \in W
  BY <1>5, <1>9
<1>16. \A d \in W : \E i \in DOMAIN answer : answer[i].doc = d
  <2> SUFFICES ASSUME NEW d \in W PROVE \E i \in DOMAIN answer : answer[i].doc = d
    OBVIOUS
  <2>1. PICK i \in DOMAIN order : order[i] = d
    BY <1>6
  <2> QED
    BY <1>5, <2>1
<1>17. Len(answer) \in Nat /\ DOMAIN answer = 1 .. Len(answer) /\ Len(answer) <= Slots(q)
  BY <1>3, <1>5, <1>6, <1>7
<1>18. \A i \in DOMAIN answer :
         /\ DOMAIN answer[i].fields = ListsOf(hits, Len(hits), answer[i].doc)
         /\ \A j \in DOMAIN answer[i].fields :
              answer[i].fields[j] = Share(q, hits, j, answer[i].doc)
  BY <1>11
<1>19. q.is_l2 =>
         \A i, l \in DOMAIN answer :
           /\ DOMAIN answer[i].fields = DOMAIN hits
           /\ \A j \in DOMAIN answer[l].fields :
                answer[i].fields[j] <= answer[l].fields[j]
           => answer[i].score <= answer[l].score
  BY <1>12
<1>20. q.rank => \A i, l \in DOMAIN answer :
         i < l => ~Better(q.metric, answer[l].score, answer[i].score)
  BY <1>13
<1> QED
  BY <1>10, <1>14, <1>15, <1>16, <1>17, <1>18, <1>19, <1>20, Zenon DEF GoodAnswer, W

-----------------------------------------------------------------------------
(* The call of Search.                                                      *)

\* A request whose lists so far are answers of its indexes.
Listing(q, hits) ==
  AskedFor(q, hits) /\ \A j \in DOMAIN hits : hits[j] \in IndexAnswers(q.metric)

\* The inductive invariant: an answer is made of the lists it is kept with.
SearchIInv ==
  \/ search = NotSearching
  \/ \E q, hits : Listing(q, hits) /\ search = [pc |-> "fields", query |-> q, hits |-> hits]
  \/ \E q, hits, answer, total :
       /\ Listing(q, hits) /\ Len(hits) = Len(q.boost)
       /\ GoodAnswer(q, hits, answer) /\ total \in 0 .. Cardinality(SearchDocs)
       /\ search = [pc |-> "answer", query |-> q, hits |-> hits, answer |-> answer,
                    total |-> total]

\* One more list.
LEMMA ListIsListed ==
  ASSUME SearchAssumption, NEW q, NEW hits, Listing(q, hits), Len(hits) < Len(q.boost),
         NEW list \in IndexAnswers(q.metric)
  PROVE  Listing(q, Append(hits, list))
<1> DEFINE n == Len(hits)
           r == Append(hits, list)
<1>1. hits \in Seq(Seq(Hit)) /\ q \in Requests /\ n \in Nat /\ DOMAIN hits = 1 .. n
      /\ \A j \in DOMAIN hits : hits[j] \in IndexAnswers(q.metric) /\ Len(hits[j]) <= TopN
      /\ Len(q.boost) \in Nat
  BY AskedWeights DEF Listing, AskedFor
<1>2. list \in Seq(Hit) /\ Len(list) <= TopN
  <2>1. PICK k \in 0 .. TopN : list \in [1 .. k -> Hit]
    BY DEF IndexAnswers, Hit
  <2> QED
    BY <2>1 DEF SearchAssumption
<1>3. /\ r \in Seq(Seq(Hit)) /\ Len(r) = n + 1 /\ DOMAIN r = 1 .. n + 1
      /\ \A i \in 1 .. n : r[i] = hits[i]
      /\ r[n + 1] = list
  BY <1>1, <1>2, Appended
<1> HIDE DEF r
<1>4. ASSUME NEW j \in DOMAIN r
      PROVE  r[j] \in IndexAnswers(q.metric) /\ Len(r[j]) <= TopN
  <2>1. j \in 1 .. n \/ j = n + 1
    BY <1>1, <1>3
  <2> QED
    BY <1>1, <1>2, <1>3, <2>1
<1>5. Len(r) <= Len(q.boost)
  BY <1>1, <1>3
<1> QED
  BY <1>1, <1>3, <1>4, <1>5 DEF Listing, AskedFor, r

\* Every step keeps the invariant.
LEMMA SearchSteps ==
  ASSUME SearchAssumption, SearchIInv, [SearchNext]_searchVars
  PROVE  SearchIInv'
<1>1. ASSUME NEW q \in Requests, BeginSearch(q) PROVE SearchIInv'
  <2>1. Listing(q, << >>)
    <3>1. q.boost \in SearchBoosts
      BY DEF Requests
    <3>2. q.boost \in Seq(Nat)
      BY <3>1 DEF SearchAssumption
    <3> DEFINE b == q.boost
    <3> HIDE DEF b
    <3>3. b \in Seq(Nat)
      BY <3>2 DEF b
    <3>4. Len(b) \in Nat
      BY <3>3
    <3>5. << >> \in Seq(Seq(Hit)) /\ Len(<< >>) = 0 /\ DOMAIN << >> = {}
      OBVIOUS
    <3> QED
      BY <3>4, <3>5 DEF Listing, AskedFor, b
  <2>2. search' = [pc |-> "fields", query |-> q, hits |-> << >>]
    BY <1>1 DEF BeginSearch
  <2> QED
    BY <2>1, <2>2 DEF SearchIInv
<1>2. ASSUME search.pc = "fields", NEW list \in IndexAnswers(search.query.metric),
             SearchField(list)
      PROVE  SearchIInv'
  <2>1. PICK q, hits : Listing(q, hits)
                       /\ search = [pc |-> "fields", query |-> q, hits |-> hits]
    BY <1>2 DEF SearchIInv, NotSearching
  <2>2. Len(hits) < Len(q.boost) /\ list \in IndexAnswers(q.metric)
        /\ search' = [pc |-> "fields", query |-> q, hits |-> Append(hits, list)]
    BY <1>2, <2>1 DEF SearchField
  <2>3. Listing(q, Append(hits, list))
    BY <2>1, <2>2, ListIsListed
  <2> QED
    BY <2>2, <2>3 DEF SearchIInv
<1>3. ASSUME Merge PROVE SearchIInv'
  <2>1. PICK q, hits : Listing(q, hits)
                       /\ search = [pc |-> "fields", query |-> q, hits |-> hits]
    BY <1>3 DEF SearchIInv, NotSearching, Merge
  <2>2. search.query = q /\ search.hits = hits /\ Len(hits) = Len(q.boost)
    BY <1>3, <2>1 DEF Merge
  <2>3. AskedFor(q, hits) /\ \A j \in DOMAIN hits : hits[j] \in IndexAnswers(q.metric)
    BY <2>1 DEF Listing
  <2>4. Cardinality(SearchDocs) \in Nat
    BY FS_CardinalityType DEF SearchAssumption
  <2>5. ASSUME NEW answer, NEW total \in 0 .. Cardinality(SearchDocs),
               GoodAnswer(q, hits, answer), Answer(answer, total)
        PROVE  SearchIInv'
    <3>1. search' = [pc |-> "answer", query |-> q, hits |-> hits, answer |-> answer,
                     total |-> total]
      BY <2>2, <2>5 DEF Answer
    <3> QED
      BY <2>1, <2>2, <2>5, <3>1 DEF SearchIInv
  <2>6. CASE Len(hits) = 1
    <3> DEFINE answer == [i \in DOMAIN Parsed(hits[1]) |->
                     LET s == Parsed(hits[1])[i].dist * q.boost[1]
                     IN [doc |-> Parsed(hits[1])[i].doc, score |-> s,
                         fields |-> [j \in {1} |-> s]]]
    <3>1. Answer(answer, Cardinality(SearchDocs))
      BY <1>3, <2>2, <2>6 DEF Merge, TakeList
    <3>2. hits[1] \in IndexAnswers(q.metric)
      <4>1. 1 \in DOMAIN hits
        BY <2>3, <2>6, AskedWeights
      <4> QED
        BY <2>3, <4>1
    <3>3. GoodAnswer(q, hits, answer)
      BY <2>2, <2>3, <2>6, <3>2, ListIsGood
    <3> HIDE DEF answer
    <3>4. Cardinality(SearchDocs) \in 0 .. Cardinality(SearchDocs)
      BY <2>4
    <3> QED
      BY <2>5, <3>1, <3>3, <3>4
  <2>7. CASE Len(hits) # 1
    <3>1. PICK order \in Orders(q, Merged(q, hits)) : MergeFields(order, Merged(q, hits))
      BY <1>3, <2>2, <2>7 DEF Merge
    <3> DEFINE answer == [i \in DOMAIN order |->
                     [doc |-> order[i], score |-> Merged(q, hits).score[order[i]],
                      fields |-> LET at == Merged(q, hits).places[order[i]]
                                 IN [j \in DOMAIN at |-> FieldOf(q, hits, j, at[j])]]]
    <3>2. Answer(answer, Total(q, answer))
      BY <2>2, <3>1 DEF MergeFields
    <3>3. GoodAnswer(q, hits, answer)
      BY <2>2, <2>3, <2>7, OrderIsGood
    <3> HIDE DEF answer
    <3>4. Total(q, answer) \in 0 .. Cardinality(SearchDocs)
      BY <2>4 DEF Total
    <3> QED
      BY <2>5, <3>2, <3>3, <3>4
  <2> QED
    BY <2>6, <2>7
<1>4. ASSUME Reply PROVE SearchIInv'
  BY <1>4 DEF Reply, SearchIInv
<1>5. ASSUME UNCHANGED searchVars PROVE SearchIInv'
  BY <1>5 DEF searchVars, SearchIInv
<1> QED
  BY <1>1, <1>2, <1>3, <1>4, <1>5 DEF SearchNext

\* What a reply is, of a good answer that is kept.
LEMMA GoodAnswersServe ==
  ASSUME SearchAssumption, SearchIInv
  PROVE  SearchInv /\ (SameMetric => ListedBeatUnlisted) /\ BestAreSent
<1>1. CASE search = NotSearching
  BY <1>1 DEF NotSearching, SearchInv, SearchTypeOK, AnswersAreTheOperation,
              AnswersFitTheirSlots, FieldScoresAreOwn, ListedBeatUnlisted, BestAreSent,
              HasAnswer
<1>2. CASE \E q, hits : Listing(q, hits)
                        /\ search = [pc |-> "fields", query |-> q, hits |-> hits]
  <2>1. PICK q, hits : Listing(q, hits)
                       /\ search = [pc |-> "fields", query |-> q, hits |-> hits]
    BY <1>2
  <2>2. search.pc = "fields" /\ search.query \in Requests
    BY <2>1 DEF Listing, AskedFor
  <2> QED
    BY <2>2 DEF SearchInv, SearchTypeOK, AnswersAreTheOperation,
                AnswersFitTheirSlots, FieldScoresAreOwn, ListedBeatUnlisted, BestAreSent,
                HasAnswer
<1>3. ASSUME NEW q, NEW hits, NEW answer, NEW total,
             Listing(q, hits), Len(hits) = Len(q.boost), GoodAnswer(q, hits, answer),
             total \in 0 .. Cardinality(SearchDocs),
             search = [pc |-> "answer", query |-> q, hits |-> hits, answer |-> answer,
                       total |-> total]
      PROVE  SearchInv /\ (SameMetric => ListedBeatUnlisted) /\ BestAreSent
  <2> DEFINE n == Len(hits)
             k == Len(answer)
  <2>1. /\ search.pc = "answer" /\ search.query = q /\ search.hits = hits
        /\ search.answer = answer /\ search.total = total
    BY <1>3
  <2>2. AskedFor(q, hits) /\ q \in Requests
    BY <1>3 DEF Listing, AskedFor
  <2>3. n \in Nat /\ n > 0 /\ DOMAIN hits = 1 .. n
    BY <1>3, <2>2, AskedWeights
  <2>4. /\ k \in Nat /\ DOMAIN answer = 1 .. k
        /\ \A i \in DOMAIN answer : answer[i].score \in Nat
        /\ \A i \in DOMAIN answer : answer[i].doc \in Wanted(q, hits)
        /\ \A d \in Wanted(q, hits) : \E i \in DOMAIN answer : answer[i].doc = d
        /\ EachDocOnce(answer)
        /\ k <= Slots(q)
        /\ \A i \in DOMAIN answer :
             /\ DOMAIN answer[i].fields = ListsOf(hits, n, answer[i].doc)
             /\ \A j \in DOMAIN answer[i].fields :
                  answer[i].fields[j] = Share(q, hits, j, answer[i].doc)
        /\ q.is_l2 =>
             \A i, l \in DOMAIN answer :
               /\ DOMAIN answer[i].fields = DOMAIN hits
               /\ \A j \in DOMAIN answer[l].fields :
                    answer[i].fields[j] <= answer[l].fields[j]
               => answer[i].score <= answer[l].score
        /\ q.rank => \A i, l \in DOMAIN answer :
             i < l => ~Better(q.metric, answer[l].score, answer[i].score)
    BY <1>3, Zenon DEF GoodAnswer
  <2>5. ToSet(answer) = {answer[i] : i \in DOMAIN answer}
    BY DEF ToSet
  <2>6. \A j : Listed(j) = DocsOf(hits[j])
    BY <2>1 DEF Listed, ToSet, DocsOf
  <2>7. AnswerDocs = DocsOf(answer)
    BY <2>1, <2>5 DEF AnswerDocs, DocsOf
  <2>8. SearchTypeOK
    <3>1. \A i \in DOMAIN answer : answer[i].doc \in SearchDocs
      BY <2>4 DEF Wanted
    <3> QED
      BY <1>3, <2>1, <2>2, <2>4, <3>1 DEF SearchTypeOK
  <2>9. AnswersAreTheOperation
    <3>1. DocsOf(answer) = Wanted(q, hits)
      BY <2>4 DEF DocsOf
    <3>2. Wanted(q, hits) =
            {d \in SearchDocs :
               LET has == {j \in DOMAIN hits : d \in DocsOf(hits[j])}
               IN IF q.and THEN has = DOMAIN hits ELSE has # {}}
      <4>1. ASSUME NEW d \in SearchDocs
            PROVE  /\ InAll(hits, n, d) <=> {j \in DOMAIN hits : d \in DocsOf(hits[j])} = DOMAIN hits
                   /\ d \in UnionTo(hits, n)
                        <=> {j \in DOMAIN hits : d \in DocsOf(hits[j])} # {}
        BY <2>3 DEF InAll, UnionTo
      <4> QED
        BY <4>1 DEF Wanted
    <3>3. Cardinality(DocsOf(answer)) = k
      <4> DEFINE f == [i \in 1 .. k |-> answer[i].doc]
                 R == DocsOf(answer)
      <4>1. f \in Bijection(1 .. k, R)
        <5>1. f \in [1 .. k -> R] /\ \A x \in R : \E i \in 1 .. k : f[i] = x
          BY <2>4 DEF DocsOf
        <5>2. \A i, l \in 1 .. k : f[i] = f[l] => i = l
          BY <2>4 DEF EachDocOnce
        <5> HIDE DEF f, R
        <5> QED
          BY <5>1, <5>2, Zenon DEF Bijection, Injection, Surjection, IsInjective
      <4>2. ExistsBijection(1 .. k, R)
        BY <4>1, Zenon DEF ExistsBijection
      <4> HIDE DEF R
      <4>3. Cardinality(R) = k
        BY <2>4, <4>2, FS_CountingElements
      <4> QED
        BY <4>3 DEF R
    <3>4. \A d : {j \in DOMAIN hits : d \in Listed(j)}
                  = {j \in DOMAIN hits : d \in DocsOf(hits[j])}
      BY <2>6
    <3>5. AnswerDocs = {d \in SearchDocs :
                          LET has == {j \in DOMAIN hits : d \in Listed(j)}
                          IN IF q.and THEN has = DOMAIN hits ELSE has # {}}
      BY <2>7, <3>1, <3>2, <3>4
    <3> QED
      BY <2>1, <2>7, <3>3, <3>5 DEF AnswersAreTheOperation
  <2>10. AnswersFitTheirSlots
    BY <2>1, <2>4 DEF AnswersFitTheirSlots
  <2>11. FieldScoresAreOwn
    <3>1. \A j, d : DistIn(j, d) = NearOf(hits[j], d)
      BY <2>1 DEF DistIn, NearOf
    <3>2. ASSUME NEW i \in DOMAIN answer
          PROVE  /\ DOMAIN answer[i].fields = {j \in DOMAIN hits : answer[i].doc \in Listed(j)}
                 /\ \A j \in DOMAIN answer[i].fields :
                      answer[i].fields[j] = DistIn(j, answer[i].doc) * q.boost[j]
      <4>1. DOMAIN answer[i].fields = {j \in 1 .. n : answer[i].doc \in DocsOf(hits[j])}
        BY <2>4 DEF ListsOf
      <4>2. \A j \in DOMAIN answer[i].fields :
              answer[i].fields[j] = NearOf(hits[j], answer[i].doc) * q.boost[j]
        BY <2>4 DEF Share
      <4> QED
        BY <2>3, <2>6, <3>1, <4>1, <4>2
    <3> QED
      BY <2>1, <2>5, <3>2 DEF FieldScoresAreOwn
  <2>12. SameMetric => ListedBeatUnlisted
    <3> SUFFICES ASSUME SameMetric, q.metric = "L2"
                 PROVE  \A x, y \in ToSet(answer) :
                          /\ DOMAIN x.fields = DOMAIN hits
                          /\ \A j \in DOMAIN y.fields : x.fields[j] <= y.fields[j]
                          => x.score <= y.score
      BY <2>1 DEF ListedBeatUnlisted
    <3>1. q.is_l2
      BY <2>2 DEF Requests
    <3> QED
      BY <2>4, <2>5, <3>1
  <2>13. BestAreSent
    <3> SUFFICES ASSUME q.rank, NEW x \in ToSet(Sent), NEW y \in ToSet(answer) \ ToSet(Sent)
                 PROVE  IF q.metric = "L2" THEN x.score <= y.score ELSE x.score >= y.score
      BY <2>1 DEF BestAreSent
    <3> DEFINE c == IF k < TopN THEN k ELSE TopN
               s == [i \in 1 .. c |-> answer[i]]
    <3>1. c \in Nat /\ c <= k
      BY <2>4 DEF SearchAssumption
    <3>2. ToSet(Sent) = {answer[i] : i \in 1 .. c}
      <4>1. Sent = SubSeq(answer, 1, c)
        BY <2>1 DEF Sent
      <4>2. SubSeq(answer, 1, c) = s
        <5> HIDE DEF c
        <5>1. \A i \in 1 .. c : i + 1 - 1 = i
          BY <3>1
        <5> QED
          BY <3>1, <5>1
      <4>3. DOMAIN s = 1 .. c /\ \A i \in 1 .. c : s[i] = answer[i]
        OBVIOUS
      <4> HIDE DEF c, s
      <4>4. ToSet(s) = {s[i] : i \in 1 .. c}
        BY <4>3 DEF ToSet
      <4> QED
        BY <4>1, <4>2, <4>3, <4>4
    <3> HIDE DEF c, s
    <3>3. PICK i \in 1 .. c : x = answer[i]
      BY <3>2
    <3>4. PICK l \in DOMAIN answer : y = answer[l] /\ l \notin 1 .. c
      BY <2>5, <3>2
    <3>5. i \in DOMAIN answer /\ i < l
      BY <2>4, <3>1, <3>3, <3>4
    <3>6. ~Better(q.metric, y.score, x.score) /\ x.score \in Nat /\ y.score \in Nat
      BY <2>4, <3>3, <3>4, <3>5
    <3> QED
      BY <3>6 DEF Better
  <2> QED
    BY <2>8, <2>9, <2>10, <2>11, <2>12, <2>13 DEF SearchInv
<1> QED
  BY <1>1, <1>2, <1>3 DEF SearchIInv

\* Every answer of a search is kept with the lists it was made of, and is good
\* for them (VectorManager::Search).
THEOREM SearchInvariant == SearchSpec => []SearchIInv
<1>1. SearchInit => SearchIInv
  BY DEF SearchInit, SearchIInv
<1>2. SearchAssumption /\ SearchIInv /\ [SearchNext]_searchVars => SearchIInv'
  BY SearchSteps
<1> QED
  BY <1>1, <1>2, SearchAssumption, PTL DEF SearchSpec

\* A merged answer has the documents of all lists or of any, each once, in
\* slots that exist, with the scores of its own lists, whatever an index lists
\* twice (parse_index_search_result, VectorResult::logic_op).
THEOREM AnswersAreMerged == SearchSpec => []SearchInv
<1>1. SearchAssumption /\ SearchIInv => SearchInv
  BY GoodAnswersServe
<1> QED
  BY <1>1, SearchInvariant, SearchAssumption, PTL

\* Where the request names the metric of the index, a document that no list
\* leaves out is not scored behind one that is nowhere nearer, and whoever asks
\* for a ranking is sent documents no other beats (SearchCall).
THEOREM RankedAnswers == SameMetric => (SearchSpec => []RankingIsKept)
<1> SUFFICES ASSUME SameMetric PROVE SearchSpec => []RankingIsKept
  OBVIOUS
<1>1. SearchAssumption /\ SearchIInv => RankingIsKept
  BY GoodAnswersServe DEF RankingIsKept
<1> QED
  BY <1>1, SearchInvariant, SearchAssumption, PTL
=============================================================================
