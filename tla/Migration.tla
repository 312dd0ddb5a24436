----------------------------- MODULE Migration -----------------------------
(***************************************************************************)
(* Copying the documents of an engine while it is in use.  MigrateData     *)
(* hands out the ids below max_docid_ at the begin of the migration, then  *)
(* the entries of a file queue to which adds, updates and deletes append.  *)
(* Whoever migrates takes an id (GetMigrageDoc), which reads the document  *)
(* at that time, and applies it to the copy.                               *)
(*                                                                         *)
(* One thread calls the engine, one migrates; the steps of both interleave *)
(* at every change of state they share.  TerminateMigrate frees the data a *)
(* call of the engine may be using; it is taken between such uses.         *)
(***************************************************************************)
EXTENDS Integers, Sequences, FiniteSets

CONSTANTS
  MigKeys,
  MaxRows,     \* bound: documents ever added
  MaxChanges,  \* bound: updates and deletes ever made
  MaxBegins    \* bound: migrations ever begun

ASSUME MigrationAssumption ==
  MaxRows \in Nat \ {0} /\ {MaxChanges, MaxBegins} \subseteq Nat

RowIds == 0 .. MaxRows - 1
NoId == -1
Absent == [id |-> NoId, ver |-> 0]  \* a key without a document
Entries == [id : RowIds, del : BOOLEAN]

VARIABLES
  rowsOf,      \* key and version of each row, in id order
  maxDocid,    \* max_docid_
  hidden,      \* docids_bitmap_
  keyIds,      \* the key map
  writer,      \* the call of the engine in progress
  mig,         \* migrate_data_: "none", "new" (no file yet), "open", "begun"
  next_migrate_docid_, max_full_docid_,
  incQueue,    \* the entries of the file
  migrated,    \* entries taken (inc_migrated_offset_)
  getter,      \* the call of GetMigrageDoc in progress
  copy,        \* the documents of the copy
  missed,      \* history: ids that changed but were never handed out after it
  changes, begins

source == <<rowsOf, maxDocid, hidden, keyIds, writer>>
cursor == <<mig, next_migrate_docid_, max_full_docid_, incQueue, migrated>>
migrationVars == <<source, cursor, getter, copy, missed, changes, begins>>

NoCall == [op |-> "none", ids |-> {}, todo |-> << >>, unlogged |-> {}]
NoGet == [pc |-> "idle", id |-> 0, del |-> FALSE, ver |-> 0]

MigrationInit ==
  /\ rowsOf = << >> /\ maxDocid = 0 /\ hidden = {}
  /\ keyIds = [k \in MigKeys |-> NoId]
  /\ writer = NoCall /\ mig = "none"
  /\ next_migrate_docid_ = -1 /\ max_full_docid_ = 0
  /\ incQueue = << >> /\ migrated = 0
  /\ getter = NoGet /\ copy = [k \in MigKeys |-> Absent] /\ missed = {}
  /\ changes = 0 /\ begins = 0

-----------------------------------------------------------------------------
(* The engine. *)

Calls(op, ids) ==
  writer' = [op |-> op, ids |-> {ids[i] : i \in DOMAIN ids}, todo |-> ids, unlogged |-> {}]

\* Rows and vectors of one new document (AddOrUpdate) or of a batch.
StoreDocs(ks) ==
  /\ writer.op = "none" /\ Len(rowsOf) + Len(ks) <= MaxRows
  /\ \A i \in DOMAIN ks : keyIds[ks[i]] = NoId
  /\ rowsOf' = rowsOf \o [i \in DOMAIN ks |-> [key |-> ks[i], ver |-> 1]]
  /\ keyIds' = [k \in MigKeys |->
       IF \E i \in DOMAIN ks : ks[i] = k
       THEN Len(rowsOf) + (CHOOSE i \in DOMAIN ks : ks[i] = k) - 1
       ELSE keyIds[k]]
  /\ Calls("add", [i \in DOMAIN ks |-> Len(rowsOf) + i - 1])
  /\ UNCHANGED <<maxDocid, hidden, cursor, getter, copy, missed, changes, begins>>

\* Update by AddOrUpdate or, when it revives, by AddOrUpdateDocs.
UpdateDoc(k, revives) ==
  /\ writer.op = "none" /\ keyIds[k] # NoId /\ changes < MaxChanges
  /\ rowsOf' = [rowsOf EXCEPT ![keyIds[k] + 1].ver = @ + 1]
  /\ Calls(IF revives THEN "revive" ELSE "update", <<keyIds[k]>>)
  /\ changes' = changes + 1
  /\ UNCHANGED <<maxDocid, hidden, keyIds, cursor, getter, copy, missed, begins>>

\* Delete and DelDocByFilter.
DeleteDocument(k) ==
  /\ writer.op = "none" /\ keyIds[k] # NoId /\ keyIds[k] \notin hidden
  /\ changes < MaxChanges
  /\ hidden' = hidden \union {keyIds[k]}
  /\ keyIds' = [keyIds EXCEPT ![k] = NoId]
  /\ Calls("delete", <<keyIds[k]>>)
  /\ changes' = changes + 1
  /\ UNCHANGED <<rowsOf, maxDocid, cursor, getter, copy, missed, begins>>

\* DelDocByQuery keeps the key and tells the migration nothing.
HideByQuery(k) ==
  /\ writer.op = "none" /\ keyIds[k] # NoId /\ keyIds[k] \notin hidden
  /\ changes < MaxChanges
  /\ hidden' = hidden \union {keyIds[k]}
  /\ changes' = changes + 1
  /\ UNCHANGED <<rowsOf, maxDocid, keyIds, writer, cursor, getter, copy, missed, begins>>

\* AddDocid and DeleteDocid do nothing unless the file is open.
Logs == mig \in {"open", "begun"}

LoggedAddsOnly(id, del) ==
  IF Logs /\ ~del THEN Append(incQueue, [id |-> id, del |-> FALSE]) ELSE incQueue
Logged(id, del) ==
  IF Logs THEN Append(incQueue, [id |-> id, del |-> del]) ELSE incQueue

Log ==
  /\ writer.todo # << >>
  /\ incQueue' = Logged(Head(writer.todo), writer.op = "delete")
  /\ writer' = [writer EXCEPT !.todo = Tail(@),
       !.unlogged = IF Logs THEN @ ELSE @ \union {Head(writer.todo)}]
  /\ missed' = IF Logs THEN missed \ {Head(writer.todo)} ELSE missed
  /\ UNCHANGED <<rowsOf, maxDocid, hidden, keyIds, mig, next_migrate_docid_,
                 max_full_docid_, migrated, getter, copy, changes, begins>>

\* The last step of a call: an add counts its documents, AddOrUpdateDocs
\* clears the bit of the document it has updated.
Return ==
  /\ writer.op # "none" /\ writer.todo = << >>
  /\ maxDocid' = IF writer.op = "add" THEN Len(rowsOf) ELSE maxDocid
  /\ hidden' = IF writer.op = "revive" THEN hidden \ writer.ids ELSE hidden
  /\ missed' = IF mig # "begun" THEN missed
               ELSE missed \union {id \in writer.unlogged :
                      \/ writer.op = "add" /\ id >= max_full_docid_
                      \/ writer.op = "revive" /\ id < next_migrate_docid_ /\ id \in hidden}
  /\ writer' = NoCall
  /\ UNCHANGED <<rowsOf, keyIds, cursor, getter, copy, changes, begins>>

-----------------------------------------------------------------------------
(* The migration. *)

\* BeginMigrate: a running migration is terminated and its queue removed.
NewMigrateData ==
  /\ getter = NoGet /\ mig \in {"none", "begun"} /\ begins < MaxBegins
  /\ mig' = "new" /\ begins' = begins + 1
  /\ next_migrate_docid_' = -1 /\ max_full_docid_' = 0
  /\ incQueue' = << >> /\ migrated' = 0
  /\ copy' = [k \in MigKeys |-> Absent] /\ missed' = {}
  /\ writer' = [writer EXCEPT !.unlogged =
       writer.ids \ {writer.todo[i] : i \in DOMAIN writer.todo}]
  /\ UNCHANGED <<rowsOf, maxDocid, hidden, keyIds, getter, changes>>

OpenQueue ==
  /\ mig = "new" /\ mig' = "open"
  /\ UNCHANGED <<source, next_migrate_docid_, max_full_docid_, incQueue, migrated,
                 getter, copy, missed, changes, begins>>

ScanEndStored == Len(rowsOf)
ScanEnd == maxDocid

BeginMigrate ==
  /\ mig = "open" /\ mig' = "begun"
  /\ next_migrate_docid_' = 0 /\ max_full_docid_' = ScanEnd
  /\ UNCHANGED <<source, incQueue, migrated, getter, copy, missed, changes, begins>>

TerminateMigrate ==
  /\ mig = "begun" /\ getter = NoGet
  /\ mig' = "none" /\ next_migrate_docid_' = -1 /\ max_full_docid_' = 0
  /\ incQueue' = << >> /\ migrated' = 0
  /\ UNCHANGED <<source, getter, copy, missed, changes, begins>>

\* The ids left of the full scan: deleted ones are passed over.
Scan == {id \in next_migrate_docid_ .. max_full_docid_ - 1 : id \notin hidden}
Took(id, del) == getter' = [pc |-> "took", id |-> id, del |-> del, ver |-> 0]

TakeScanned ==
  /\ mig = "begun" /\ getter = NoGet /\ Scan # {}
  /\ LET id == CHOOSE i \in Scan : \A j \in Scan : i <= j
     IN  Took(id, FALSE) /\ next_migrate_docid_' = id + 1
  /\ UNCHANGED <<source, mig, max_full_docid_, incQueue, migrated, copy, missed,
                 changes, begins>>

AfterTakingNot == migrated
AfterTaking == migrated + 1

TakeQueued ==
  /\ mig = "begun" /\ getter = NoGet /\ Scan = {} /\ migrated < Len(incQueue)
  /\ next_migrate_docid_' = max_full_docid_
  /\ Took(incQueue[migrated + 1].id, incQueue[migrated + 1].del)
  /\ migrated' = AfterTaking
  /\ UNCHANGED <<source, mig, max_full_docid_, incQueue, copy, missed, changes, begins>>

ExistsAtBegin(id) == id < max_full_docid_ /\ id \notin hidden
Exists(id) == id < maxDocid /\ id \notin hidden

\* What is taken once is not handed out again: a document that is not yet
\* counted, or whose bit is still set, is passed over for good.
ReadRow ==
  /\ getter.pc = "took"
  /\ IF getter.del \/ Exists(getter.id)
     THEN /\ getter' = [getter EXCEPT !.pc = "read", !.ver = rowsOf[getter.id + 1].ver]
          /\ UNCHANGED missed
     ELSE /\ getter' = NoGet
          /\ missed' = IF \E i \in migrated + 1 .. Len(incQueue) : incQueue[i].id = getter.id
                       THEN missed ELSE missed \union {getter.id}
  /\ UNCHANGED <<source, cursor, copy, changes, begins>>

Apply ==
  /\ getter.pc = "read"
  /\ copy' = [copy EXCEPT ![rowsOf[getter.id + 1].key] =
       IF getter.del THEN Absent ELSE [id |-> getter.id, ver |-> getter.ver]]
  /\ getter' = NoGet
  /\ UNCHANGED <<source, cursor, missed, changes, begins>>

Batches == {<<k>> : k \in MigKeys} \union
           {ks \in [1 .. 2 -> MigKeys] : ks[1] # ks[2]}

CallEngine ==
  \/ \E ks \in Batches : StoreDocs(ks)
  \/ \E k \in MigKeys, revives \in BOOLEAN : UpdateDoc(k, revives)
  \/ \E k \in MigKeys : DeleteDocument(k) \/ HideByQuery(k)

RunCall == Log \/ Return

Migrate == OpenQueue \/ BeginMigrate \/ TakeScanned \/ TakeQueued \/ ReadRow \/ Apply

MigrationNext ==
  CallEngine \/ RunCall \/ Migrate \/ NewMigrateData \/ TerminateMigrate

\* A call that has begun runs on and whoever migrates asks again and again.
MigrationFairness == WF_migrationVars(RunCall) /\ WF_migrationVars(Migrate)

MigrationSpec == MigrationInit /\ [][MigrationNext]_migrationVars /\ MigrationFairness

-----------------------------------------------------------------------------
(* Properties. *)

MigrationTypeOK ==
  /\ Len(rowsOf) <= MaxRows /\ maxDocid \in 0 .. Len(rowsOf)
  /\ hidden \subseteq 0 .. Len(rowsOf) - 1 /\ missed \subseteq RowIds
  /\ keyIds \in [MigKeys -> RowIds \union {NoId}]
  /\ writer.op \in {"none", "add", "update", "revive", "delete"}
  /\ mig \in {"none", "new", "open", "begun"}
  /\ next_migrate_docid_ \in -1 .. max_full_docid_ /\ max_full_docid_ \in 0 .. maxDocid
  /\ incQueue \in Seq(Entries) /\ migrated \in 0 .. Len(incQueue)
  /\ getter.pc \in {"idle", "took", "read"} /\ getter.id \in RowIds

CaughtUp ==
  /\ mig = "begun" /\ writer.op = "none" /\ getter = NoGet
  /\ Scan = {} /\ migrated = Len(incQueue)

\* What a caught up copy holds for a key.
Current(k) ==
  IF keyIds[k] = NoId THEN Absent
  ELSE [id |-> keyIds[k], ver |-> rowsOf[keyIds[k] + 1].ver]

\* Once the migration has caught up, the copy has each document in its last
\* version and no deleted one, whatever was added, updated, deleted or added
\* again meanwhile.  Left out are documents deleted by DelDocByQuery, which
\* is not logged, and those whose entry was taken before the call that wrote
\* it had finished (gamma_engine.cc:887 before 888, 943 before 946, 976
\* before 980) or which an add counted after BeginMigrate had looked.
CopyIsExact ==
  CaughtUp => \A k \in MigKeys :
    keyIds[k] \notin hidden \union missed => copy[k] = Current(k)

\* Documents are only missed in a race with the call that logs them: an id
\* logged by a call that returned before the migration took it is handed out.
MissedOnlyInRaces ==
  [][\A id \in missed' \ missed : id \in writer.ids \/ id \in hidden]_migrationVars

\* A migration catches up once the calls of the engine stop.
MigrationCatchesUp == mig = "begun" ~> (CaughtUp \/ mig # "begun")

\* The other engine gets what this one has, but for the named races.
MigrationIsExact ==
  /\ []MigrationTypeOK
  /\ []CopyIsExact
  /\ MissedOnlyInRaces
=============================================================================
