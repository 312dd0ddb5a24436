---------------------------- MODULE RecordStore ----------------------------
(***************************************************************************)
(* Storage of fixed length rows: StorageManager (the segments), Segment    *)
(* (one file with a header) and AsyncWriter (the thread that writes the    *)
(* appended rows).  The table keeps its rows in one such storage, every    *)
(* raw vector its vectors in another.                                      *)
(*                                                                         *)
(* Threads: the API thread appends and updates (the engine is used by one  *)
(* writer), readers fetch rows, the handler thread of the AsyncWriter      *)
(* moves appended rows to the files.  A process may end at any step, and   *)
(* the next one reopens the files.                                         *)
(*                                                                         *)
(* Row id g lies in segment g \div SegSize.  The files' contents survive   *)
(* the end of a process; what pwrite returned is not looked at by the      *)
(* code, so writes are taken to succeed.                                   *)
(***************************************************************************)
EXTENDS Integers, Sequences, FiniteSets

CONSTANTS
  Values,        \* contents of a row
  NoRow,         \* content of a file slot never written
  SegSize,       \* options_.segment_size
  BulkSize,      \* how many queued rows the handler pops at most (1000)
  RunSize,       \* how many rows fit its buffer of one megabyte
  QueueCap,      \* queue length above which AsyncWrite waits (10000)
  Readers,       \* reader threads
  UpdateWaits,   \* TRUE: rows are fetched before they are updated (Table)
  TruncateDrops, \* TRUE: a reopened storage may be cut below its last segment
  MaxRows,       \* bound on the row ids of the model
  MaxStops       \* bound on the number of process ends of the model

ASSUME SizesAssumption ==
  /\ SegSize \in Nat \ {0}
  /\ BulkSize \in Nat \ {0}
  /\ RunSize \in Nat \ {0}
  /\ QueueCap \in Nat
  /\ MaxRows \in Nat
  /\ MaxStops \in Nat
ASSUME FlagsAssumption == UpdateWaits \in BOOLEAN /\ TruncateDrops \in BOOLEAN
ASSUME NoRowAssumption == NoRow \notin Values

Ids == 0 .. MaxRows - 1
Segs == 0 .. MaxRows
SegOf(g) == g \div SegSize
PosOf(g) == g % SegSize

VARIABLES
  mode,           \* "up", "down", or "loaded": reopened and not yet cut
  size_,          \* StorageManager::size_
  segments_,      \* number of open segments
  buffered_size_, \* per segment: rows handed to the writer
  cur_size_,      \* per segment: rows readers may fetch from the file
  files,          \* number of segment files that exist
  header,         \* per file: the size written in its header
  disk,           \* contents of the files, by row id
  pend,           \* rows added and not yet published, oldest first
  popped,         \* how many of them the handler has taken off the queue
  run,            \* how many of those the current pwrite covers
  wpc,            \* the handler: "pop", "data", "header", "publish"
  upd,            \* the row the API thread is updating, <<>> if none
  rd,             \* per reader: the id it waits for, NoRow if none
  log,            \* history: the rows acknowledged to the API thread
  synced,         \* history: rows acknowledged before the last Sync returned
  stops           \* number of process ends so far

memory == <<mode, size_, segments_, buffered_size_, cur_size_>>
files_ == <<files, header, disk>>
writer == <<pend, popped, run, wpc>>
clients == <<upd, rd>>
history == <<log, synced, stops>>
vars == <<memory, files_, writer, clients, history>>

Last == segments_ - 1
Item == [id : Ids, val : Values]

TypeOK ==
  /\ mode \in {"up", "down", "loaded"}
  /\ size_ \in 0 .. MaxRows
  /\ segments_ \in 0 .. MaxRows + 1
  /\ buffered_size_ \in [Segs -> 0 .. SegSize]
  /\ cur_size_ \in [Segs -> 0 .. SegSize]
  /\ files \in 0 .. MaxRows + 1
  /\ header \in [Segs -> 0 .. SegSize]
  /\ disk \in [Ids -> Values \union {NoRow}]
  /\ pend \in Seq(Item)
  /\ popped \in 0 .. Len(pend)
  /\ run \in 0 .. popped
  /\ wpc \in {"pop", "data", "header", "publish"}
  /\ upd \in Item \union {<<>>}
  /\ rd \in [Readers -> Ids \union {NoRow}]
  /\ log \in Seq(Values)
  /\ synced \in 0 .. MaxRows
  /\ stops \in 0 .. MaxStops

Init ==
  /\ mode = "up"
  /\ size_ = 0
  /\ segments_ = 1
  /\ buffered_size_ = [s \in Segs |-> 0]
  /\ cur_size_ = [s \in Segs |-> 0]
  /\ files = 1
  /\ header = [s \in Segs |-> 0]
  /\ disk = [g \in Ids |-> NoRow]
  /\ pend = <<>>
  /\ popped = 0
  /\ run = 0
  /\ wpc = "pop"
  /\ upd = <<>>
  /\ rd = [r \in Readers |-> NoRow]
  /\ log = <<>>
  /\ synced = 0
  /\ stops = 0

-----------------------------------------------------------------------------
(***************************************************************************)
(* The API thread.                                                         *)
(***************************************************************************)

\* Extend: open the file of the next segment.  Segment::Init does not write
\* the size of the header, so a file left by an earlier process keeps it.
Extend(n) ==
  /\ segments_' = n + 1
  /\ files' = IF files > n THEN files ELSE n + 1

\* Faulty Add: the row is placed after the rows already in the file.
AddAfterFlushed(v) ==
  LET slot == Last * SegSize + cur_size_[Last]
      count == buffered_size_[Last] + 1
  IN /\ mode = "up" /\ upd = <<>>
     /\ size_ < MaxRows /\ Len(pend) - popped <= QueueCap
     /\ pend' = Append(pend, [id |-> slot, val |-> v])
     /\ buffered_size_' = [buffered_size_ EXCEPT ![Last] = count]
     /\ IF count = SegSize THEN Extend(segments_) ELSE UNCHANGED <<segments_, files>>
     /\ size_' = size_ + 1
     /\ log' = Append(log, v)
     /\ UNCHANGED <<mode, cur_size_, header, disk, popped, run, wpc, clients,
                    synced, stops>>

\* StorageManager::Add: the row goes to the end of the last segment, through
\* the queue of the writer (AsyncWrite waits while the queue is too long);
\* a segment that became full is followed by a new one at once.
Add(v) ==
  LET slot == Last * SegSize + buffered_size_[Last]
      count == buffered_size_[Last] + 1
  IN /\ mode = "up" /\ upd = <<>>
     /\ size_ < MaxRows /\ slot < MaxRows
     /\ Len(pend) - popped <= QueueCap
     /\ pend' = Append(pend, [id |-> slot, val |-> v])
     /\ buffered_size_' = [buffered_size_ EXCEPT ![Last] = count]
     /\ IF count = SegSize THEN Extend(segments_) ELSE UNCHANGED <<segments_, files>>
     /\ size_' = size_ + 1
     /\ log' = Append(log, v)
     /\ UNCHANGED <<mode, cur_size_, header, disk, popped, run, wpc, clients,
                    synced, stops>>

\* An update of row g.  Table::Update first reads the row it is going to
\* change, and so waits until the row is in the file; a raw vector is
\* replaced without a look at the old one.
UpdateBegin(g, v) ==
  /\ mode = "up" /\ upd = <<>>
  /\ g < size_
  /\ upd' = [id |-> g, val |-> v]
  /\ UNCHANGED <<memory, files_, writer, rd, history>>

\* Faulty update of a table row: it does not wait for the row to be written.
UpdateWriteAtOnce ==
  /\ mode = "up" /\ upd # <<>>
  /\ disk' = [disk EXCEPT ![upd.id] = upd.val]
  /\ log' = [log EXCEPT ![upd.id + 1] = upd.val]
  /\ upd' = <<>>
  /\ UNCHANGED <<memory, files, header, writer, rd, synced, stops>>

\* Segment::Update: written to the file by the API thread itself.
UpdateWrite ==
  /\ mode = "up" /\ upd # <<>>
  /\ UpdateWaits => PosOf(upd.id) < cur_size_[SegOf(upd.id)]
  /\ disk' = [disk EXCEPT ![upd.id] = upd.val]
  /\ log' = [log EXCEPT ![upd.id + 1] = upd.val]
  /\ upd' = <<>>
  /\ UNCHANGED <<memory, files, header, writer, rd, synced, stops>>

\* AsyncWriter::Sync returns when the queue is empty.
Sync ==
  /\ mode = "up" /\ upd = <<>>
  /\ popped = Len(pend)
  /\ synced' = Len(log)
  /\ UNCHANGED <<memory, files_, writer, clients, log, stops>>

(***************************************************************************)
(* A reader: StorageManager::Get and Segment::GetValues.                   *)
(***************************************************************************)
GetBegin(r, g) ==
  /\ mode = "up" /\ rd[r] = NoRow
  /\ g < size_
  /\ rd' = [rd EXCEPT ![r] = g]
  /\ UNCHANGED <<memory, files_, writer, upd, history>>

\* Faulty read: waits until the row after it is there as well.
GetReadOneMore(r) ==
  /\ mode = "up" /\ rd[r] # NoRow
  /\ PosOf(rd[r]) + 1 < cur_size_[SegOf(rd[r])]
  /\ rd' = [rd EXCEPT ![r] = NoRow]
  /\ UNCHANGED <<memory, files_, writer, upd, history>>

\* The row is fetched once cur_size_ covers it.
GetRead(r) ==
  /\ mode = "up" /\ rd[r] # NoRow
  /\ PosOf(rd[r]) < cur_size_[SegOf(rd[r])]
  /\ rd' = [rd EXCEPT ![r] = NoRow]
  /\ UNCHANGED <<memory, files_, writer, upd, history>>

-----------------------------------------------------------------------------
(***************************************************************************)
(* The handler thread of the AsyncWriter.                                  *)
(***************************************************************************)
Pop ==
  /\ mode = "up" /\ wpc = "pop"
  /\ popped < Len(pend) /\ popped < BulkSize
  /\ popped' = popped + 1
  /\ UNCHANGED <<memory, files_, pend, run, wpc, clients, history>>

\* The queue is empty or the batch is full.
Collected ==
  /\ mode = "up" /\ wpc = "pop" /\ popped > 0
  /\ popped = Len(pend) \/ popped = BulkSize
  /\ wpc' = "data"
  /\ UNCHANGED <<memory, files_, pend, popped, run, clients, history>>

\* Faulty run: the change of file is not noticed.
IsRunAcrossFiles(n) ==
  /\ n \in 1 .. popped /\ n <= RunSize
  /\ n = popped \/ n = RunSize

\* n rows at the head of the batch go out in one pwrite: all of one file, and
\* as many as there are before another file begins or the buffer is full.
IsRun(n) ==
  /\ n \in 1 .. popped /\ n <= RunSize
  /\ \A k \in 1 .. n : SegOf(pend[k].id) = SegOf(pend[1].id)
  /\ \/ n = popped
     \/ n = RunSize
     \/ n < popped /\ SegOf(pend[n + 1].id) # SegOf(pend[1].id)

\* The rows are copied one after the other into the buffer, and the buffer is
\* written at the place of the first of them.
WriteData ==
  /\ mode = "up" /\ wpc = "data"
  /\ \E n \in 1 .. popped :
       /\ IsRun(n)
       /\ run' = n
       /\ disk' = [g \in Ids |->
            IF g \in pend[1].id .. pend[1].id + n - 1
            THEN pend[g - pend[1].id + 1].val ELSE disk[g]]
  /\ wpc' = "header"
  /\ UNCHANGED <<memory, files, header, pend, popped, clients, history>>

\* UpdateSize: the new size goes to the header of the file ...
WriteHeader ==
  LET s == SegOf(pend[1].id)
  IN /\ mode = "up" /\ wpc = "header"
     /\ header' = [header EXCEPT ![s] = cur_size_[s] + run]
     /\ wpc' = "publish"
     /\ UNCHANGED <<memory, files, disk, pend, popped, run, clients, history>>

\* Faulty Publish: the rest of the batch is forgotten after its first run.
PublishDropsBatch ==
  LET s == SegOf(pend[1].id)
  IN /\ mode = "up" /\ wpc = "publish"
     /\ cur_size_' = [cur_size_ EXCEPT ![s] = @ + run]
     /\ pend' = SubSeq(pend, popped + 1, Len(pend))
     /\ popped' = 0
     /\ run' = 0
     /\ wpc' = "pop"
     /\ UNCHANGED <<mode, size_, segments_, buffered_size_, files_, clients,
                    history>>

\* ... and then to cur_size_, where readers see it.
Publish ==
  LET s == SegOf(pend[1].id)
  IN /\ mode = "up" /\ wpc = "publish"
     /\ cur_size_' = [cur_size_ EXCEPT ![s] = @ + run]
     /\ pend' = SubSeq(pend, run + 1, Len(pend))
     /\ popped' = popped - run
     /\ run' = 0
     /\ wpc' = IF popped = run THEN "pop" ELSE "data"
     /\ UNCHANGED <<mode, size_, segments_, buffered_size_, files_, clients,
                    history>>

WriterNext == Pop \/ Collected \/ WriteData \/ WriteHeader \/ Publish

-----------------------------------------------------------------------------
(***************************************************************************)
(* End and start of a process.                                             *)
(***************************************************************************)

\* A crash; and also a regular Close, because ~StorageManager closes the
\* files and frees cur_size_ before it waits for the writer.
Stop ==
  /\ mode = "up" /\ stops < MaxStops
  /\ mode' = "down"
  /\ stops' = stops + 1
  /\ pend' = <<>> /\ popped' = 0 /\ run' = 0 /\ wpc' = "pop"
  /\ upd' = <<>> /\ rd' = [r \in Readers |-> NoRow]
  /\ size_' = 0 /\ segments_' = 0
  /\ buffered_size_' = [s \in Segs |-> 0]
  /\ cur_size_' = [s \in Segs |-> 0]
  /\ UNCHANGED <<files_, log, synced>>

\* Rows the headers account for, over the files 0 .. n - 1.
HeaderSum(n) ==
  Cardinality({slot \in Segs \X (0 .. SegSize - 1) :
                 slot[1] < n /\ slot[2] < header[slot[1]]})

\* Faulty Load: the rows found are not counted as handed to the writer.
LoadUnbuffered ==
  /\ mode = "down"
  /\ mode' = "loaded"
  /\ segments_' = files
  /\ cur_size_' = [s \in Segs |-> IF s < files THEN header[s] ELSE 0]
  /\ size_' = HeaderSum(files)
  /\ UNCHANGED <<buffered_size_, files_, writer, clients, history>>

\* Load: the files are opened one after the other; the size of the storage is
\* the sum of their headers.
Load ==
  /\ mode = "down"
  /\ mode' = "loaded"
  /\ segments_' = files
  /\ cur_size_' = [s \in Segs |-> IF s < files THEN header[s] ELSE 0]
  /\ buffered_size_' = cur_size_'
  /\ size_' = HeaderSum(files)
  /\ UNCHANGED <<files_, writer, clients, history>>

\* Faulty Truncate: the size in the last header is not cut.
TruncateKeepHeader(n) ==
  LET full == SegOf(n)
      keep == IF PosOf(n) > 0 THEN full + 1 ELSE full
      cut(f) == [s \in Segs |->
                   IF s >= keep THEN 0
                   ELSE IF s = full /\ f[s] > PosOf(n) THEN PosOf(n) ELSE f[s]]
  IN /\ mode = "loaded"
     /\ n <= size_ /\ keep <= segments_
     /\ ~TruncateDrops => \A s \in keep .. segments_ - 1 : header[s] = 0
     /\ mode' = "up"
     /\ cur_size_' = cut(cur_size_)
     /\ buffered_size_' = cut(buffered_size_)
     /\ IF keep = 0 \/ buffered_size_'[keep - 1] = SegSize
        THEN Extend(keep)
        ELSE segments_' = keep /\ UNCHANGED files
     /\ size_' = n
     /\ log' = SubSeq(log, 1, n)
     /\ synced' = 0
     /\ UNCHANGED <<header, disk, writer, clients, stops>>

\* Truncate(n): segments past the n-th row are closed (their files stay), the
\* header of the last one is cut, and there is always a segment with room.
Truncate(n) ==
  LET full == SegOf(n)
      keep == IF PosOf(n) > 0 THEN full + 1 ELSE full
      cut(f) == [s \in Segs |->
                   IF s >= keep THEN 0
                   ELSE IF s = full /\ f[s] > PosOf(n) THEN PosOf(n) ELSE f[s]]
  IN /\ mode = "loaded"
     /\ n <= size_ /\ keep <= segments_
     /\ ~TruncateDrops => \A s \in keep .. segments_ - 1 : header[s] = 0
     /\ mode' = "up"
     /\ cur_size_' = cut(cur_size_)
     /\ buffered_size_' = cut(buffered_size_)
     /\ header' = IF PosOf(n) > 0 THEN [header EXCEPT ![full] = PosOf(n)] ELSE header
     /\ IF keep = 0 \/ buffered_size_'[keep - 1] = SegSize
        THEN Extend(keep)
        ELSE segments_' = keep /\ UNCHANGED files
     /\ size_' = n
     /\ log' = SubSeq(log, 1, n)
     /\ synced' = 0
     /\ UNCHANGED <<disk, writer, clients, stops>>

Next ==
  \/ \E v \in Values : Add(v)
  \/ \E g \in Ids, v \in Values : UpdateBegin(g, v)
  \/ UpdateWrite
  \/ Sync
  \/ \E r \in Readers, g \in Ids : GetBegin(r, g)
  \/ \E r \in Readers : GetRead(r)
  \/ WriterNext
  \/ Stop
  \/ Load
  \/ \E n \in 0 .. MaxRows : Truncate(n)

Spec == Init /\ [][Next]_vars

\* The handler thread runs until the process ends, a waiting reader or update
\* polls cur_size_ every 20 milliseconds.
Fairness ==
  /\ WF_vars(WriterNext)
  /\ WF_vars(UpdateWrite)
  /\ \A r \in Readers : WF_vars(GetRead(r))

FairSpec == Spec /\ Fairness

-----------------------------------------------------------------------------
(***************************************************************************)
(* The inductive invariant behind the properties: every counter of the     *)
(* storage is the share of one of four row counts in a segment.            *)
(***************************************************************************)

\* How many of the first n rows lie in segment s.
Share(n, s) == IF s < SegOf(n) THEN SegSize
               ELSE IF s = SegOf(n) THEN PosOf(n) ELSE 0
Shares(n) == [s \in Segs |-> Share(n, s)]

Published == size_ - Len(pend)
InHeader == IF wpc = "publish" THEN Published + run ELSE Published
InFile == IF wpc \in {"header", "publish"} THEN Published + run ELSE Published

QueueIsTail ==
  \A k \in 1 .. Len(pend) :
    pend[k] = [id |-> Published + k - 1, val |-> log[Published + k]]

HandlerInv ==
  /\ wpc \in {"pop", "data"} => run = 0
  /\ wpc # "pop" => popped > 0
  /\ wpc \in {"header", "publish"} =>
       run > 0 /\ SegOf(Published + run - 1) = SegOf(Published)

UpInv ==
  /\ size_ = Len(log) /\ Len(pend) <= size_
  /\ QueueIsTail
  /\ HandlerInv
  /\ segments_ = SegOf(size_) + 1 /\ files >= segments_
  /\ buffered_size_ = Shares(size_)
  /\ cur_size_ = Shares(Published)
  /\ header = Shares(InHeader)
  /\ \A g \in 0 .. InFile - 1 : disk[g] = log[g + 1]
  /\ upd # <<>> => upd.id < size_

\* What the next process finds: n rows, and a file with room for the next.
Found(n) ==
  /\ n <= Len(log)
  /\ header = Shares(n)
  /\ files >= SegOf(n) + 1
  /\ \A g \in 0 .. n - 1 : disk[g] = log[g + 1]

DownInv ==
  /\ pend = <<>> /\ popped = 0 /\ run = 0 /\ wpc = "pop" /\ upd = <<>>
  /\ \E n \in 0 .. MaxRows :
       /\ Found(n)
       /\ mode = "loaded" =>
            /\ size_ = n /\ segments_ = files
            /\ buffered_size_ = Shares(n) /\ cur_size_ = Shares(n)

IInv ==
  /\ TypeOK
  /\ Len(log) <= MaxRows
  /\ IF mode = "up" THEN UpInv ELSE DownInv

-----------------------------------------------------------------------------
(***************************************************************************)
(* Properties.                                                             *)
(***************************************************************************)

\* What Segment::GetValues hands out (segment.cc, the loop on cur_size_ and
\* the read after it) is the row last acknowledged for that id: publishing a
\* size never runs ahead of the data, and no late write of the handler undoes
\* an update.
FlushedRowsAreCurrent ==
  mode = "up" =>
    \A g \in 0 .. size_ - 1 :
      PosOf(g) < cur_size_[SegOf(g)] => disk[g] = log[g + 1]

\* StorageManager::Add counts ids in size_ while Segment::Add places the row
\* at its own buffered_size_: the two always name the same slot, otherwise
\* every later id would be read from a neighbour's place.
IdNamesItsSlot ==
  mode = "up" => /\ segments_ > 0
                 /\ buffered_size_[Last] < SegSize
                 /\ size_ = Last * SegSize + buffered_size_[Last]

\* The handler writes a run of rows with one pwrite at the place of the first
\* (async_writer.cc): this is right only because the rows in the queue are
\* exactly the not yet published ids, without gap or repetition.
PendingIsTheTail ==
  mode = "up" =>
    /\ size_ = Len(log)
    /\ \A k \in 1 .. Len(pend) : pend[k].id = size_ - Len(pend) + k - 1

\* A process that opens the storage finds no row that was never added
\* (storage_manager.h, the comment of Truncate: Truncate sets the size).
NoRowFromNowhere == mode = "loaded" => size_ <= Len(log)

\* Rows for which Sync returned are found again by the next process
\* (gamma_api.h, Dump: "dump datas into disk").
SyncedRowsSurvive == mode = "loaded" => size_ >= synced

\* A restart finds a prefix of the acknowledged rows, each as it was last
\* acknowledged, and the owner may only shorten it: the storage implements
\* DurableLog.
Recovered == [i \in 1 .. HeaderSum(files) |-> disk[i - 1]]
Abstract == INSTANCE DurableLog WITH
  log <- IF mode = "up" THEN log ELSE Recovered,
  durable <- HeaderSum(files),
  up <- mode = "up"
ImplementsDurableLog == Abstract!Spec

\* Every appended row reaches its file unless the process ends first: the
\* handler never leaves a row in the queue or in its batch.
RowsGetWritten ==
  \A n \in 1 .. MaxRows :
    mode = "up" /\ size_ = n ~> mode # "up" \/ HeaderSum(files) >= n

\* A reader that passed the check against size_ gets its row: the polling loop
\* of GetValues ends.
ReadersReturn == \A r \in Readers : rd[r] # NoRow ~> rd[r] = NoRow

\* Nothing waits for ever: the handler writes what was added, and a reader that
\* polls for a written row gets it.
RowsReachReaders ==
  /\ RowsGetWritten
  /\ ReadersReturn
=============================================================================
