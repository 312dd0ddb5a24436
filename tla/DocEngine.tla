----------------------------- MODULE DocEngine -----------------------------
(***************************************************************************)
(* The documents of a table: GammaEngine's operations on its key map, its  *)
(* table rows, its vectors and its bitmap of deleted documents.            *)
(*                                                                         *)
(* A document id is an index into two storages that know nothing of each   *)
(* other: the table's rows and the vectors, each with its own counter.     *)
(* Both behave as DurableLog says (RecordStore implements it): rows become *)
(* durable behind the back of the engine, in the order of their ids.  The  *)
(* bitmap is written to its file at every change.  The engine has one      *)
(* writer (API) thread, a thread that builds the vector index, and the     *)
(* handler threads of the storages; the process may end at any step.       *)
(*                                                                         *)
(* Searches, range index, migration and words are in modules of their own. *)
(***************************************************************************)
EXTENDS Integers, Sequences, FiniteSets

CONSTANTS
  Keys, Versions,
  Missing,       \* the version of a key that has no document
  None,          \* no document id
  BadVectors,    \* TRUE: clients may send vectors of a wrong length
  QueryDeletes,  \* TRUE: clients call DelDocByQuery
  LateDeletes,   \* TRUE: a process may end while a deleted document is not durable
  Indexes,       \* TRUE: the vector index is dumped with its count (IVF indexes)
  MaxDocs,       \* bound on the document ids and on delete_num_ of the model
  MaxBatch,      \* bound on the documents collected by one batch call
  MaxStops       \* bound on the number of process ends of the model

ASSUME FlagsAssumption ==
  {BadVectors, QueryDeletes, LateDeletes, Indexes} \subseteq BOOLEAN
ASSUME BoundsAssumption == {MaxDocs, MaxBatch, MaxStops} \subseteq Nat
ASSUME NoneAssumption == Missing \notin Versions /\ None \notin Nat

Docids == 0 .. MaxDocs - 1
Doc == [key : Keys, ver : Versions]

VARIABLES
  mode,         \* "up", "down", or "failed": Load returned an error
  max_docid_,
  delete_num_,
  docids_bitmap_, \* the ids whose bit is set, in memory and in the file
  item_to_docid_, \* the key map of the table
  rows, rdur,   \* the table's storage and its durable count
  vecs, vdur,   \* the vector storage and its durable count
  indexed,      \* vectors in the index
  dumped,       \* vectors in the last dump of the index
  is_dirty_,
  call,         \* the API call in progress: "none", or a batch "plain" or "words"
  batch,        \* new documents the batch call has collected
  seen,         \* keys the batch call has met (remove_dupliacte)
  upd,          \* the update in progress, <<>> if none
  torn,         \* history: ids whose update was cut off by the end of a process
  stops         \* number of process ends so far

ids == <<max_docid_, delete_num_, docids_bitmap_, item_to_docid_>>
storages == <<rows, rdur, vecs, vdur>>
index == <<indexed, dumped>>
request == <<call, batch, seen, upd>>
vars == <<mode, ids, storages, index, is_dirty_, request, torn, stops>>

RowLog == INSTANCE DurableLog WITH
  Values <- Doc, log <- rows, durable <- rdur, up <- mode = "up"
VecLog == INSTANCE DurableLog WITH
  Values <- Doc, log <- vecs, durable <- vdur, up <- mode = "up"

NewDoc == [key : Keys, ver : Versions, good : BOOLEAN]
Pending == [id : Docids, key : Keys, ver : Versions, good : BOOLEAN, stage : {"vector", "row"}]

TypeOK ==
  /\ mode \in {"up", "down", "failed"}
  /\ max_docid_ \in 0 .. MaxDocs
  /\ delete_num_ \in 0 .. MaxDocs
  /\ docids_bitmap_ \subseteq Docids
  /\ item_to_docid_ \in [Keys -> Docids \union {None}]
  /\ RowLog!TypeOK /\ VecLog!TypeOK
  /\ dumped \in 0 .. MaxDocs /\ indexed \in 0 .. MaxDocs
  /\ is_dirty_ \in BOOLEAN
  /\ call \in {"none", "plain", "words"}
  /\ batch \in Seq(NewDoc) /\ Len(batch) <= MaxBatch
  /\ seen \subseteq Keys
  /\ upd \in Pending \union {<<>>}
  /\ torn \subseteq Docids
  /\ stops \in 0 .. MaxStops

Init ==
  /\ mode = "up"
  /\ max_docid_ = 0 /\ delete_num_ = 0 /\ docids_bitmap_ = {}
  /\ item_to_docid_ = [k \in Keys |-> None]
  /\ RowLog!Init /\ VecLog!Init
  /\ indexed = 0 /\ dumped = 0
  /\ is_dirty_ = FALSE
  /\ call = "none" /\ batch = <<>> /\ seen = {} /\ upd = <<>>
  /\ torn = {} /\ stops = 0

Idle == mode = "up" /\ call = "none" /\ upd = <<>>
Stored(d) == [key |-> d.key, ver |-> d.ver]

-----------------------------------------------------------------------------
(* AddOrUpdate and the batch calls. *)

\* Those of the documents that have a legal vector, in their order.
WithVector(docs) ==
  LET good == {i \in DOMAIN docs : docs[i].good}
  IN  [j \in 1 .. Cardinality(good) |->
         docs[CHOOSE i \in good : Cardinality({h \in good : h <= i}) = j]]

\* Table::Add or BatchAdd, then VectorManager::AddToStore, for new documents:
\* keys and rows of all of them, vectors of those with a legal vector, and
\* the ids up to n more are in use.
Insert(docs, n) ==
  /\ item_to_docid_' = [k \in Keys |->
       IF \E i \in DOMAIN docs : docs[i].key = k
       THEN max_docid_ + (CHOOSE i \in DOMAIN docs : docs[i].key = k) - 1
       ELSE item_to_docid_[k]]
  /\ rows' = rows \o [i \in DOMAIN docs |-> Stored(docs[i])]
  /\ vecs' = vecs \o [i \in DOMAIN WithVector(docs) |-> Stored(WithVector(docs)[i])]
  /\ max_docid_' = max_docid_ + n
  /\ UNCHANGED <<delete_num_, docids_bitmap_, rdur, vdur>>

\* Update begins: its vector is checked and replaced first.
BeginUpdate(id, d) ==
  upd' = [id |-> id, key |-> d.key, ver |-> d.ver, good |-> d.good, stage |-> "vector"]

\* AddOrUpdate of one document.  After a failure of AddToStore the row is in
\* the table, but its id is not used up.
AddOrUpdateNew(d) ==
  /\ Idle
  /\ item_to_docid_[d.key] = None
  /\ Len(rows) < MaxDocs
  /\ Insert(<<d>>, IF d.good THEN 1 ELSE 0)
  /\ is_dirty_' = (is_dirty_ \/ d.good)
  /\ UNCHANGED <<mode, index, request, torn, stops>>

AddOrUpdateKnown(d) ==
  /\ Idle
  /\ item_to_docid_[d.key] # None
  /\ BeginUpdate(item_to_docid_[d.key], d)
  /\ UNCHANGED <<mode, ids, storages, index, is_dirty_, call, batch, seen, torn, stops>>

\* VectorManager::Update rejects a vector of a wrong length and an id beyond
\* its own count; the update then ends and a batch goes on with the next one.
UpdateVector ==
  /\ mode = "up" /\ upd # <<>> /\ upd.stage = "vector"
  /\ UNCHANGED <<mode, ids, rows, rdur, vdur, index, is_dirty_, call, batch, seen, torn, stops>>
  /\ IF upd.good /\ upd.id < Len(vecs)
     THEN /\ VecLog!Replace(upd.id + 1, Stored(upd))
          /\ upd' = [upd EXCEPT !.stage = "row"]
     ELSE upd' = <<>> /\ UNCHANGED vecs

\* Faulty end of an update: the document's row stays as it was.
UpdateRowNot ==
  /\ mode = "up" /\ upd # <<>> /\ upd.stage = "row"
  /\ upd.id < rdur
  /\ upd' = <<>>
  /\ is_dirty_' = TRUE
  /\ torn' = torn \ {upd.id}
  /\ UNCHANGED <<mode, ids, storages, index, call, batch, seen, stops>>

\* Table::Update waits until the row is in the file, then replaces it.  The
\* plain batch call makes the document visible again if its bit was set.
UpdateRow ==
  /\ mode = "up" /\ upd # <<>> /\ upd.stage = "row"
  /\ upd.id < rdur
  /\ UNCHANGED mode
  /\ RowLog!Replace(upd.id + 1, Stored(upd))
  /\ docids_bitmap_' = IF call = "plain" THEN docids_bitmap_ \ {upd.id} ELSE docids_bitmap_
  /\ upd' = <<>>
  /\ is_dirty_' = TRUE
  /\ torn' = torn \ {upd.id}
  /\ UNCHANGED <<max_docid_, delete_num_, item_to_docid_, vecs, vdur, index, call, batch,
                 seen, stops>>

\* AddOrUpdateDocs, without or with words: one document after the other.
BeginDocs(kind) ==
  /\ Idle
  /\ call' = kind
  /\ UNCHANGED <<mode, ids, storages, index, is_dirty_, batch, seen, upd, torn, stops>>

\* Faulty test for a new document: the keys of the batch are not looked at.
CollectUnseen(d) ==
  /\ mode = "up" /\ call # "none" /\ upd = <<>>
  /\ item_to_docid_[d.key] = None
  /\ Len(batch) < MaxBatch /\ Len(rows) + Len(batch) < MaxDocs
  /\ batch' = Append(batch, d)
  /\ seen' = seen \union {d.key}
  /\ UNCHANGED <<mode, ids, storages, index, is_dirty_, call, upd, torn, stops>>

\* A document with a new key joins the batch.
Collect(d) ==
  /\ mode = "up" /\ call # "none" /\ upd = <<>>
  /\ item_to_docid_[d.key] = None /\ d.key \notin seen
  /\ Len(batch) < MaxBatch /\ Len(rows) + Len(batch) < MaxDocs
  /\ batch' = Append(batch, d)
  /\ seen' = seen \union {d.key}
  /\ UNCHANGED <<mode, ids, storages, index, is_dirty_, call, upd, torn, stops>>

\* A document with a known key is updated, after the batch was added.
FlushAndUpdate(d) ==
  /\ mode = "up" /\ call # "none" /\ upd = <<>>
  /\ item_to_docid_[d.key] # None \/ d.key \in seen
  /\ Insert(batch, Len(batch))
  /\ batch' = <<>>
  /\ seen' = seen \union {d.key}
  /\ BeginUpdate(item_to_docid_'[d.key], d)
  /\ UNCHANGED <<mode, index, is_dirty_, call, torn, stops>>

\* The call ends with the rest of the batch.
EndDocs ==
  /\ mode = "up" /\ call # "none" /\ upd = <<>>
  /\ Insert(batch, Len(batch))
  /\ batch' = <<>> /\ seen' = {} /\ call' = "none"
  /\ is_dirty_' = TRUE
  /\ UNCHANGED <<mode, index, upd, torn, stops>>

-----------------------------------------------------------------------------
(* Deletes. *)

\* Faulty Delete: the key stays in the map.
DeleteKeepKey(k) ==
  LET id == item_to_docid_[k]
  IN /\ Idle
     /\ id # None /\ id \notin docids_bitmap_
     /\ delete_num_' = delete_num_ + 1
     /\ docids_bitmap_' = docids_bitmap_ \union {id}
     /\ is_dirty_' = TRUE
     /\ UNCHANGED <<mode, max_docid_, item_to_docid_, storages, index, request, torn, stops>>

\* Delete returns 1 for an unknown key and 2 for a deleted document.
Delete(k) ==
  LET id == item_to_docid_[k]
  IN /\ Idle
     /\ id # None /\ id \notin docids_bitmap_
     /\ delete_num_' = delete_num_ + 1
     /\ docids_bitmap_' = docids_bitmap_ \union {id}
     /\ item_to_docid_' = [item_to_docid_ EXCEPT ![k] = None]
     /\ is_dirty_' = TRUE
     /\ UNCHANGED <<mode, max_docid_, storages, index, request, torn, stops>>

\* The ids a filter on the table fields selects; here the rows of version v.
Matching(v) == {id \in 0 .. max_docid_ - 1 : rows[id + 1].ver = v}

\* Faulty filter delete: documents deleted before are counted again.
DelDocByFilterAgain(v) ==
  LET hit == Matching(v)
  IN /\ Idle
     /\ \A id \in Matching(v) : id < rdur
     /\ delete_num_' = delete_num_ + Cardinality(hit)
     /\ docids_bitmap_' = docids_bitmap_ \union hit
     /\ item_to_docid_' = [k \in Keys |->
                             IF item_to_docid_[k] \in hit THEN None ELSE item_to_docid_[k]]
     /\ is_dirty_' = TRUE
     /\ UNCHANGED <<mode, max_docid_, storages, index, request, torn, stops>>

\* DelDocByFilter fetches the key of every match, and skips a match whose key
\* leads to another id.
DelDocByFilter(v) ==
  LET hit == {id \in Matching(v) \ docids_bitmap_ : item_to_docid_[rows[id + 1].key] = id}
  IN /\ Idle
     /\ \A id \in Matching(v) : id < rdur
     /\ delete_num_' = delete_num_ + Cardinality(hit)
     /\ docids_bitmap_' = docids_bitmap_ \union hit
     /\ item_to_docid_' = [k \in Keys |->
                             IF item_to_docid_[k] \in hit THEN None ELSE item_to_docid_[k]]
     /\ is_dirty_' = TRUE
     /\ UNCHANGED <<mode, max_docid_, storages, index, request, torn, stops>>

\* DelDocByQuery only sets the bits.  (A bit cleared by a batch call can be set
\* again, so delete_num_ grows without end: MaxDocs bounds it here.)
DelDocByQuery(v) ==
  LET hit == Matching(v) \ docids_bitmap_
  IN /\ Idle /\ QueryDeletes
     /\ hit # {}
     /\ delete_num_ + Cardinality(hit) <= MaxDocs
     /\ delete_num_' = delete_num_ + Cardinality(hit)
     /\ docids_bitmap_' = docids_bitmap_ \union hit
     /\ is_dirty_' = TRUE
     /\ UNCHANGED <<mode, max_docid_, item_to_docid_, storages, index, request, torn, stops>>

-----------------------------------------------------------------------------
(* The other threads. *)

\* The storages make their next row durable.
PersistRow ==
  /\ UNCHANGED mode
  /\ rdur < Len(rows) /\ RowLog!Persist(rdur + 1)
  /\ UNCHANGED <<ids, vecs, vdur, index, is_dirty_, request, torn, stops>>
PersistVector ==
  /\ UNCHANGED mode
  /\ vdur < Len(vecs) /\ VecLog!Persist(vdur + 1)
  /\ UNCHANGED <<ids, rows, rdur, index, is_dirty_, request, torn, stops>>

\* AddRTVecsToIndex: the indexing thread takes the vectors of the storage,
\* durable or not.
AddToIndex ==
  /\ mode = "up" /\ Indexes
  /\ indexed < Len(vecs)
  /\ indexed' = indexed + 1
  /\ UNCHANGED <<mode, ids, storages, dumped, is_dirty_, request, torn, stops>>

\* Dump of a changed engine writes the index with its count.  The storages are
\* synced, but Sync returns with rows still to be written.
Dump ==
  /\ Idle /\ is_dirty_
  /\ dumped' = indexed
  /\ is_dirty_' = FALSE
  /\ UNCHANGED <<mode, ids, storages, indexed, request, torn, stops>>

-----------------------------------------------------------------------------
(* End and start of a process. *)

Durable == IF rdur < vdur THEN rdur ELSE vdur

Stop ==
  /\ stops < MaxStops
  /\ ~LateDeletes => \A id \in docids_bitmap_ : id < Durable
  /\ mode' = "down"
  /\ RowLog!End /\ VecLog!End
  /\ torn' = IF upd # <<>> /\ upd.stage = "row" THEN torn \union {upd.id} ELSE torn
  /\ stops' = stops + 1
  /\ max_docid_' = 0 /\ delete_num_' = 0 /\ item_to_docid_' = [k \in Keys |-> None]
  /\ indexed' = 0 /\ is_dirty_' = FALSE
  /\ call' = "none" /\ batch' = <<>> /\ seen' = {} /\ upd' = <<>>
  /\ UNCHANGED <<docids_bitmap_, dumped>>

\* The first of ids 0 .. n - 1 not deleted whose row has key k.
FoundAt(k, n) ==
  LET live == {id \in 0 .. n - 1 : id \notin docids_bitmap_ /\ rows[id + 1].key = k}
  IN  IF live = {} THEN None ELSE CHOOSE id \in live : \A other \in live : id <= other

\* Faulty Load: the key map is filled without a look at the bitmap.
LoadAllKeys ==
  LET n == Durable
  IN /\ mode = "down" /\ dumped <= n
     /\ mode' = "up"
     /\ RowLog!Cut(n) /\ VecLog!Cut(n)
     /\ max_docid_' = n
     /\ item_to_docid_' = [k \in Keys |->
          LET all == {id \in 0 .. n - 1 : rows[id + 1].key = k}
          IN  IF all = {} THEN None ELSE CHOOSE id \in all : \A other \in all : id <= other]
     /\ delete_num_' = Cardinality(docids_bitmap_ \intersect 0 .. n - 1)
     /\ indexed' = dumped
     /\ torn' = torn \intersect 0 .. n - 1
     /\ UNCHANGED <<docids_bitmap_, dumped, is_dirty_, request, stops>>

\* Faulty Load: the deleted documents are not counted.
LoadNoRecount ==
  LET n == Durable
  IN /\ mode = "down" /\ dumped <= n
     /\ mode' = "up"
     /\ RowLog!Cut(n) /\ VecLog!Cut(n)
     /\ max_docid_' = n
     /\ item_to_docid_' = [k \in Keys |-> FoundAt(k, n)]
     /\ delete_num_' = 0
     /\ indexed' = dumped
     /\ torn' = torn \intersect 0 .. n - 1
     /\ UNCHANGED <<docids_bitmap_, dumped, is_dirty_, request, stops>>

\* Faulty Load: the count of the dumped index is not compared.
LoadAnyIndex ==
  LET n == Durable
  IN /\ mode = "down"
     /\ mode' = "up"
     /\ RowLog!Cut(n) /\ VecLog!Cut(n)
     /\ max_docid_' = n
     /\ item_to_docid_' = [k \in Keys |-> FoundAt(k, n)]
     /\ delete_num_' = Cardinality(docids_bitmap_ \intersect 0 .. n - 1)
     /\ indexed' = dumped
     /\ torn' = torn \intersect 0 .. n - 1
     /\ UNCHANGED <<docids_bitmap_, dumped, is_dirty_, request, stops>>

\* Load: the documents both storages have, keys of those not deleted.
Load ==
  LET n == Durable
  IN /\ mode = "down" /\ dumped <= n
     /\ mode' = "up"
     /\ RowLog!Cut(n) /\ VecLog!Cut(n)
     /\ max_docid_' = n
     /\ item_to_docid_' = [k \in Keys |-> FoundAt(k, n)]
     /\ delete_num_' = Cardinality(docids_bitmap_ \intersect 0 .. n - 1)
     /\ indexed' = dumped
     /\ torn' = torn \intersect 0 .. n - 1
     /\ UNCHANGED <<docids_bitmap_, dumped, is_dirty_, request, stops>>

\* VectorManager::Load fails when the dumped index knows more vectors than
\* the storage has.
LoadFails ==
  /\ mode = "down" /\ dumped > Durable
  /\ mode' = "failed"
  /\ UNCHANGED <<ids, storages, index, is_dirty_, request, torn, stops>>

\* A vector of a wrong length is harmless in an update: it is rejected first.
Inserts == {d \in NewDoc : d.good \/ BadVectors}

Next ==
  \/ \E d \in Inserts : AddOrUpdateNew(d) \/ Collect(d)
  \/ \E d \in NewDoc : AddOrUpdateKnown(d) \/ FlushAndUpdate(d)
  \/ UpdateVector \/ UpdateRow
  \/ \E kind \in {"plain", "words"} : BeginDocs(kind)
  \/ EndDocs
  \/ \E k \in Keys : Delete(k)
  \/ \E v \in Versions : DelDocByFilter(v) \/ DelDocByQuery(v)
  \/ PersistRow \/ PersistVector \/ AddToIndex \/ Dump
  \/ Stop \/ Load \/ LoadFails

Spec == Init /\ [][Next]_vars

-----------------------------------------------------------------------------
(***************************************************************************)
(* Properties.                                                             *)
(***************************************************************************)

Live == {id \in 0 .. max_docid_ - 1 : id \notin docids_bitmap_}

\* GetDoc reads fields and vector at the same id from two storages that count
\* on their own (Table::GetDocInfo, VectorManager::GetVector): both belong to
\* one version of one document, except while it is updated and after an
\* update that a process end cut in two.
FieldsAndVectorBelongTogether ==
  mode = "up" =>
    /\ Len(rows) = max_docid_ /\ Len(vecs) = max_docid_
    /\ \A id \in 0 .. max_docid_ - 1 :
         \/ rows[id + 1] = vecs[id + 1]
         \/ id \in torn
         \/ upd # <<>> /\ upd.id = id

\* The key map and the documents a search can return belong together (Search
\* tests ids and bits only, GetDoc, Update and Delete go by key): no document
\* is found under a key that is not its own, none is left that no call can
\* update or delete.
KeysNameTheirDocs ==
  mode = "up" =>
    /\ \A k \in Keys : item_to_docid_[k] # None =>
         item_to_docid_[k] < Len(rows) /\ rows[item_to_docid_[k] + 1].key = k
    /\ \A id \in Live : item_to_docid_[rows[id + 1].key] = id

\* GetDocsNum, the difference of two counters, is the number of documents a
\* client can get.
DocsNumCounts ==
  mode = "up" => max_docid_ - delete_num_ = Cardinality(Live)

\* A document just added can be read: its id was never used for a document
\* whose bit is still set (GetDoc tests the bit first).
NewDocsAreVisible ==
  \A k \in Keys : item_to_docid_[k] # None => item_to_docid_[k] \notin docids_bitmap_

\* The index never holds a vector the storage does not have, also not after a
\* restart that lost vectors (VectorManager::Load compares the two counts).
IndexWithinVectors == mode = "up" => indexed <= Len(vecs)

\* What the engine dumped it can load again (gamma_api.h, Dump and Load).
LoadSucceeds == mode # "failed"

\* The engine is a map of documents: every call has the effect its key says,
\* and a restart keeps every document that was durable, at its last version.
DocOf(id) == IF id = None THEN Missing ELSE rows[id + 1].ver
IdOf(k) == IF mode = "up" THEN item_to_docid_[k] ELSE FoundAt(k, Durable)
Abstract == INSTANCE DocMap WITH
  store <- [k \in Keys |-> DocOf(IdOf(k))],
  safe <- {k \in Keys : IdOf(k) # None /\ IdOf(k) < Durable},
  up <- mode = "up"
ImplementsDocMap == Abstract!Spec

\* The counters and bits of the documents: a new document is not hidden by its
\* id's last owner, and the number of documents is right.
DocInv ==
  /\ TypeOK
  /\ NewDocsAreVisible
  /\ DocsNumCounts
=============================================================================
