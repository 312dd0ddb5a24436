---------------------------- MODULE ColumnFields ----------------------------
(***************************************************************************)
(* Fields that are added after the table was created (DocidFieldsMgr and   *)
(* the column data of each field).  A column is an append-only store of    *)
(* values.  A document's entry lists the ids of its fields and, in the     *)
(* same order, the ids of their values.  A thread rewrites the file of     *)
(* entries whenever documents were added.  The process only ends by a      *)
(* crash: the destructor joins a thread whose loop has no end.             *)
(*                                                                         *)
(* A value is known by its document and the run of the process that put    *)
(* it.  Numeric and string columns differ only in how a value is stored;   *)
(* a list column adds nothing for an empty list.                           *)
(***************************************************************************)
EXTENDS Integers, Sequences, FiniteSets

CONSTANTS
  Fields,        \* names of new fields
  Lists,         \* those of type MULTI_STRING
  SchemaFields,  \* field_num_ once the table is created
  BlockDocs,     \* block_docs_num_: the first capacity
  MaxNewFields,  \* bound: calls of AddNewField in a run of the process
  MaxDocs,       \* bound: documents at a time, with the crashes
  MaxCrashes     \* bound: crashes

ASSUME ColumnAssumption ==
  /\ Lists \subseteq Fields
  /\ {SchemaFields, MaxNewFields, MaxDocs, MaxCrashes} \subseteq Nat
  /\ BlockDocs \in Nat \ {0}
  /\ IsFiniteSet(Fields)

VARIABLES
  columns,   \* the values of each field, in the order of their ids
  fieldId,   \* fid_name2id_, of the fields that are registered
  fieldNum,  \* field_num_ of the table
  entries,   \* docid_fields_map_, a sequence as long as capacity_
  count,     \* size_
  flushed,   \* last_flushed_size_
  flushing,  \* Dump wrote the header and not yet the entries
  colFile,   \* docid_fields.mgr
  tableDocs, \* the documents of the table: the fields they came with
  crashes,   \* how often the process was restarted
  reused,    \* history: documents added since the header of the file was
             \* written, under an id it counts: a crash had lost the first one
  lostValues \* history: a crash lost values, or has put the entry of the first
             \* document of an id back in the place of the second one's

columnVars == <<columns, fieldId, fieldNum, entries, count, flushed, flushing,
                colFile, tableDocs, crashes, reused, lostValues>>

NoEntry == << >>
NoFile == [state |-> "none", count |-> 0, capacity |-> 0, fieldId |-> << >>,
           entries |-> << >>]

\* The value the document that is being added has for a field.
OwnValue(d) == <<d, crashes>>
Missing == <<>>

ColumnInit ==
  /\ columns = [f \in Fields |-> << >>]
  /\ fieldId = << >>
  /\ fieldNum = SchemaFields
  /\ entries = [i \in 1 .. BlockDocs |-> NoEntry]
  /\ count = 0
  /\ flushed = 0
  /\ flushing = FALSE
  /\ colFile = NoFile
  /\ tableDocs = << >>
  /\ crashes = 0
  /\ reused = {}
  /\ lostValues = FALSE

-----------------------------------------------------------------------------
\* AddNewField: a new field gets the number of fields as its id; a field that
\* is there already counts again and keeps its id.
Registered(f) ==
  IF f \in DOMAIN fieldId THEN fieldId
  ELSE [g \in DOMAIN fieldId \cup {f} |-> IF g = f THEN fieldNum ELSE fieldId[g]]

AddNewField(f) ==
  /\ fieldNum < SchemaFields + MaxNewFields
  /\ fieldId' = Registered(f)
  /\ fieldNum' = fieldNum + 1
  /\ UNCHANGED <<columns, entries, count, flushed, flushing, colFile, tableDocs,
                 crashes, reused, lostValues>>

\* Mutants: the id is asked for after the put; the last id, not the next.
ValueIdAfterPut(f) == Len(columns[f]) + 2
ValueIdLast(f) == Len(columns[f])
\* GetCurMaxId, asked before the value is put.
ValueId(f) == Len(columns[f]) + 1

PutValue(f, empty, d) ==
  IF empty THEN columns[f] ELSE Append(columns[f], OwnValue(d))

Entry(order) ==
  [i \in 1 .. Len(order) |->
     [fid |-> fieldId[order[i]], vid |-> ValueId(order[i])]]

\* Mutant: the entries are not copied.
GrownEmpty == [i \in 1 .. 2 * Len(entries) |-> NoEntry]
\* The table doubles once, and copies the first size_ entries.
Grown ==
  [i \in 1 .. 2 * Len(entries) |-> IF i <= count THEN entries[i] ELSE NoEntry]

RoomFor(d) == IF d > Len(entries) THEN Grown ELSE entries

\* Table::BatchAdd for a document: its column fields, in the order of the
\* document, are put if it has any; size_ counts the calls.  A field that is not
\* registered is left out with a message.  A document beyond the doubled table,
\* and copying more than the table holds, are undefined and not followed.
AddDoc(order, empties) ==
  LET d == Len(tableDocs) + 1
      named == {order[i] : i \in 1 .. Len(order)}
      room == RoomFor(d)
  IN  /\ Len(tableDocs) + crashes < MaxDocs
      /\ named \subseteq DOMAIN fieldId
      /\ empties \subseteq named \cap Lists
      /\ tableDocs' =
           Append(tableDocs, [fields |-> named \ empties, life |-> crashes])
      /\ IF order = << >>
         THEN UNCHANGED <<columns, entries, count, reused>>
         ELSE /\ d <= Len(entries) \/ count <= Len(entries)
              /\ d <= Len(room)
              /\ columns' = [f \in Fields |->
                               IF f \in named
                               THEN PutValue(f, f \in empties, d)
                               ELSE columns[f]]
              /\ entries' = [room EXCEPT ![d] = Entry(order)]
              /\ count' = count + 1
              /\ reused' = IF d <= colFile.count THEN reused \cup {d} ELSE reused
      /\ UNCHANGED <<fieldId, fieldNum, flushed, flushing, colFile, crashes,
                     lostValues>>

-----------------------------------------------------------------------------
\* Find: a binary search of a field id among the ids of an entry.
Halving(entry, fid) ==
  LET id(i) == entry[i].fid
      search[span \in (1 .. Len(entry)) \X (1 .. Len(entry))] ==
        LET s == span[1]
            e == span[2]
            m == (s - 1 + e - 1) \div 2 + 1
        IN  IF id(s) = fid THEN s
            ELSE IF id(s) > fid \/ fid > id(e) THEN 0
            ELSE IF id(e) = fid THEN e
            ELSE IF id(m) = fid THEN m
            ELSE IF fid > id(m) /\ m + 1 < e THEN search[<<m + 1, e>>]
            ELSE IF fid < id(m) /\ s < m - 1 THEN search[<<s, m - 1>>]
            ELSE 0
  IN  search[<<1, Len(entry)>>]
Find(entry, fid) == IF entry = << >> THEN 0 ELSE Halving(entry, fid)

\* The value of a column with the given id, if it has one.
Value(f, id) == IF id > Len(columns[f]) THEN Missing ELSE columns[f][id]

\* Get: what a read of field f of document d returns.
Read(d, f) ==
  LET at == Find(entries[d], fieldId[f])
  IN  IF \/ d > count
         \/ entries[d] = NoEntry
         \/ f \notin DOMAIN fieldId
         \/ at = 0
      THEN Missing
      ELSE Value(f, entries[d][at].vid)

-----------------------------------------------------------------------------
\* Mutant: a single new document is not worth a flush.
FlushDueLate == flushed + 1 < count
\* Flush looks for documents that were added since.
FlushDue == flushed < count

\* Dump: the checks and the header; the file is truncated first.
FlushBegin ==
  /\ ~flushing
  /\ FlushDue
  /\ count <= Len(entries)
  /\ Cardinality({fieldId[f] : f \in DOMAIN fieldId}) =
       Cardinality(DOMAIN fieldId)
  /\ flushed' = count
  /\ flushing' = TRUE
  /\ colFile' = [state |-> "partial", count |-> count,
                 capacity |-> Len(entries), fieldId |-> fieldId,
                 entries |-> << >>]
  /\ reused' = {}
  /\ UNCHANGED <<columns, fieldId, fieldNum, entries, count, tableDocs, crashes,
                 lostValues>>

\* The entries, unless one of them is missing.
FlushedEntries == SubSeq(entries, 1, flushed)

FlushEnd ==
  /\ flushing
  /\ flushing' = FALSE
  /\ colFile' = IF \E i \in 1 .. flushed : entries[i] = NoEntry
                THEN colFile
                ELSE [colFile EXCEPT !.state = "whole",
                                     !.entries = FlushedEntries]
  /\ UNCHANGED <<columns, fieldId, fieldNum, entries, count, flushed, tableDocs,
                 crashes, reused, lostValues>>

\* Mutant: every entry is read one place too early.
LoadedShifted ==
  [i \in 1 .. Len(entries) |->
     IF i < colFile.count THEN colFile.entries[i + 1] ELSE NoEntry]
\* Load, from a whole file or without one.
Loaded ==
  IF colFile.state = "none" THEN [i \in 1 .. BlockDocs |-> NoEntry]
  ELSE [i \in 1 .. colFile.capacity |->
          IF i <= colFile.count THEN colFile.entries[i] ELSE NoEntry]

\* A column is opened again with the values its store still has.
Reopened(kept) == [f \in Fields |-> SubSeq(columns[f], 1, kept[f])]

\* A crash and a restart.  The stores of the columns and of the table keep what
\* had been written; the table counts its fields from the schema again.  What
\* Load makes of a file that is not whole is undefined and not followed.
Restart(kept, docsKept) ==
  /\ crashes < MaxCrashes /\ Len(tableDocs) < MaxDocs
  /\ colFile.state \in {"none", "whole"}
  /\ \A f \in Fields : kept[f] <= Len(columns[f])
  /\ docsKept <= Len(tableDocs)
  /\ crashes' = crashes + 1
  /\ columns' = Reopened(kept)
  /\ tableDocs' = SubSeq(tableDocs, 1, docsKept)
  /\ fieldId' = colFile.fieldId
  /\ fieldNum' = SchemaFields
  /\ entries' = Loaded
  /\ count' = colFile.count
  /\ flushed' = 0
  /\ flushing' = FALSE
  /\ reused' = {}
  /\ lostValues' = \/ lostValues
                   \/ \E f \in Fields : kept[f] < Len(columns[f])
                   \/ \E d \in reused : d <= docsKept
  /\ UNCHANGED colFile

Orders ==
  {<< >>} \cup
  UNION {{o \in [1 .. n -> Fields] :
            \A i, j \in 1 .. n : o[i] = o[j] => i = j} : n \in 1 .. Cardinality(Fields)}

ColumnNext ==
  \/ \E f \in Fields : AddNewField(f)
  \/ \E order \in Orders, empties \in SUBSET Lists : AddDoc(order, empties)
  \/ FlushBegin
  \/ FlushEnd
  \/ \E kept \in [Fields -> 0 .. MaxDocs - 1], docsKept \in 0 .. MaxDocs - 1 :
       Restart(kept, docsKept)

\* The thread that flushes sleeps and tries again for ever.
ColumnFairness == WF_columnVars(FlushBegin) /\ WF_columnVars(FlushEnd)

-----------------------------------------------------------------------------
Ascending(entry) ==
  \A i, j \in 1 .. Len(entry) : i < j => entry[i].fid < entry[j].fid
IdsDiffer == \A f, g \in DOMAIN fieldId : fieldId[f] = fieldId[g] => f = g
EveryDocHasColumns == \A d \in DOMAIN tableDocs : tableDocs[d].fields # {}
CountedDocsHaveEntries ==
  \A d \in 1 .. count : d <= Len(entries) /\ entries[d] # NoEntry

ColumnTypeOK ==
  /\ columns \in [Fields -> Seq((1 .. MaxDocs) \X (0 .. MaxCrashes))]
  /\ DOMAIN fieldId \subseteq Fields
  /\ \A i \in DOMAIN entries : \A n \in DOMAIN entries[i] :
       entries[i][n] \in [fid : Nat, vid : Nat \ {0}]
  /\ count \in Nat /\ flushed \in 0 .. count
  /\ flushing \in BOOLEAN
  /\ colFile.state \in {"none", "partial", "whole"}
  /\ reused \subseteq 1 .. colFile.count

\* A field that a document came with never reads as the value of another
\* document: DocidFieldsMgr::Put asks a column for the next id before it puts
\* the value, for every field apart.  It holds as long as no two fields share
\* an id and no crash lost values, or documents whose ids were used again and
\* lost once more before a dump; an empty list has no value of its own.
ReadsOwnValues ==
  ~lostValues /\ IdsDiffer =>
    \A d \in DOMAIN tableDocs : \A f \in tableDocs[d].fields :
      Read(d, f) \in {Missing, <<d, tableDocs[d].life>>}

\* In the first run of the process, when every document so far came with
\* column fields, each of them is found: DocidFieldsMgr::Find halves the
\* entry without leaving out a field if its ids ascend, and growing the table
\* keeps the entries.
FindsEveryField ==
  crashes = 0 /\ EveryDocHasColumns =>
    \A d \in DOMAIN tableDocs : Ascending(entries[d]) =>
      \A f \in tableDocs[d].fields : Read(d, f) = <<d, 0>>

\* Loading the file after a crash gives each of its documents the values it
\* had, unless they were lost with the column: DocidFieldsMgr::Load reads back
\* the ids that Dump wrote, while the columns find their size by themselves.
\* A document that came after the header, under the id of a lost one, is left
\* out: the file has the entry of the lost one, or one with unknown fields.
LoadKeepsWhatWasFlushed ==
  [][crashes' # crashes =>
       \A d \in (1 .. count') \ reused : \A f \in DOMAIN fieldId' :
         Read(d, f)' \in {Read(d, f), Missing}]_columnVars

\* The file catches up with the documents when the adding stops, as long as
\* size_ counts the documents that have an entry and the fields have ids of
\* their own: DocidFieldsMgr::Flush looks every 100 ms.
FlushCatchesUp ==
  [](CountedDocsHaveEntries /\ IdsDiffer) =>
    <>[](count = 0 \/ (colFile.state = "whole" /\ colFile.count = count))

ColumnSpec == ColumnInit /\ [][ColumnNext]_columnVars /\ ColumnFairness

\* What a document was given is found, and nobody else's.
ColumnInv ==
  /\ ColumnTypeOK
  /\ ReadsOwnValues
  /\ FindsEveryField
=============================================================================
