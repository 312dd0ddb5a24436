----------------------------- MODULE IndexDump -----------------------------
(***************************************************************************)
(* Dumps of the vector index and what the next process makes of them       *)
(* (GammaEngine::Dump and Load, VectorManager::Dump and Load,              *)
(* GammaIVFPQIndex::Dump and Load, WriteInvertedLists and                  *)
(* ReadInvertedLists).  A dump is a directory named by the second it began *)
(* in; a file dump.done marks it as complete and the directory before it   *)
(* is removed.  Documents come and go and the indexing thread works while  *)
(* the steps of a dump run; the process may end between any two steps.     *)
(*                                                                         *)
(* Lists are filled and compacted in single steps here (RTBuckets has the  *)
(* details); a vector is on disk as soon as it was dumped or, by chance,   *)
(* earlier.  The index is trained from the start.                          *)
(***************************************************************************)
EXTENDS Integers, Sequences, FiniteSets

CONSTANTS
  MaxVectors,   \* bound: vectors that get stored
  BucketOf,     \* the bucket of each version of a vector, by version
  MaxDumps,     \* bound: dumps, each in a second of its own or not
  MaxProcesses, \* bound: processes that open the database
  SameSecond    \* whether two dumps may begin in one second

ASSUME IndexDumpAssumption ==
  /\ {MaxVectors, MaxDumps, MaxProcesses} \subseteq Nat
  /\ BucketOf \in Seq(Nat) \ {<< >>}
  /\ SameSecond \in BOOLEAN

DumpBuckets == {BucketOf[k] : k \in DOMAIN BucketOf}

VARIABLES
  engine,     \* "up", "down" or "failed": Load returned an error or died
  processes,  \* processes so far
  clock,      \* the second of the last dump; others do not matter
  stored,     \* number of vectors: their ids are 0 .. stored - 1
  synced,     \* how many of them the last dump has written
  version,    \* of each vector; the first bucket is that of version 1
  gone,       \* deleted documents
  lists,      \* [DumpBuckets -> Seq(entries)] of the index in memory
  place,      \* vid_bucket_no_pos_
  dead,       \* deleted_nums_
  indexed_count_,
  updated,    \* updated_vids_
  updating,   \* GammaIVFPQIndex::Update has not looked for compactions yet
  dirty,      \* is_dirty_
  lastDir,    \* last_dump_dir_, 0 when there is none
  dirs,       \* the dump directories, by their second
  dump        \* the call of Dump: its next step and what it read

dumpVars == <<engine, processes, clock, stored, synced, version, gone, lists,
              place, dead, indexed_count_, updated, updating, dirty, lastDir,
              dirs, dump>>

\* History, for the properties only.
VARIABLES
  late,    \* vectors that changed behind a running dump
  unsure,    \* the running dump lost track of lists that changed under it
  loaded   \* whether any process loaded masked entries or a torn dump

dumpHistory == <<late, unsure, loaded>>
indexDumpVars == <<dumpVars, dumpHistory>>

VectorIds == 0 .. (MaxVectors - 1)
ListEntry(v) == [vid |-> v, version |-> version[v], masked |-> FALSE]
NoLists == [b \in DumpBuckets |-> << >>]
NoPlaces == [v \in VectorIds |-> << >>]
NoDead == [b \in DumpBuckets |-> 0]
NoDump == [step |-> "none"]
NothingLoaded == [masks |-> FALSE, torn |-> FALSE]

\* A directory that was made and holds no index yet, or part of one.
EmptyDir == [index |-> "none", lists |-> NoLists, torn |-> FALSE,
             done |-> FALSE]

IndexDumpInit ==
  /\ engine = "up" /\ processes = 1 /\ clock = 0
  /\ stored = 0 /\ synced = 0
  /\ version = [v \in VectorIds |-> 1]
  /\ gone = {}
  /\ lists = NoLists /\ place = NoPlaces /\ dead = NoDead
  /\ indexed_count_ = 0 /\ updated = << >> /\ updating = FALSE
  /\ dirty = FALSE /\ lastDir = 0
  /\ dirs = << >>
  /\ dump = NoDump
  /\ late = {} /\ unsure = FALSE /\ loaded = NothingLoaded

\* The entries of a list that name v and are not masked.
EntriesOf(v, s) == {k \in DOMAIN s : s[k].vid = v /\ ~s[k].masked}

\* The places after the entries of every list from its position `from` on were
\* noted, one list after the other: the last one of a vector counts.
Noted(places, ls, from) ==
  [v \in VectorIds |->
     LET homes == {b \in DumpBuckets : \E k \in EntriesOf(v, ls[b]) : k >= from[b]}
         b == CHOOSE c \in homes : \A d \in homes : d <= c
         at == EntriesOf(v, ls[b])
     IN IF homes = {} THEN places[v]
        ELSE <<b, CHOOSE k \in at : \A l \in at : l <= k>>]
All == [b \in DumpBuckets |-> 1]

\* The entries of s that are in S, in their order.
Among(s, S) ==
  LET among[n \in 0 .. Len(s)] ==
        IF n = 0 THEN << >>
        ELSE IF s[n] \in S THEN Append(among[n - 1], s[n]) ELSE among[n - 1]
  IN among[Len(s)]
EntriesIn(s) == {s[k] : k \in DOMAIN s}

\* A running dump does not see what happens from now on to these vectors.
Behind(vids) == late' = IF dump.step = "none" THEN late ELSE late \cup vids

\* The lists a running dump has begun to read no longer hold what it read.
Tears == unsure' = (unsure \/ dump.step \in {"codes", "ids"})

----------------------------------------------------------------------------
(* The callers of the engine and its indexing thread.                       *)

\* Mutant: the engine does not remember that it changed.
AddVectorClean ==
  /\ engine = "up" /\ stored < MaxVectors
  /\ stored' = stored + 1
  /\ Behind({stored})
  /\ UNCHANGED <<engine, processes, clock, synced, version, gone, lists,
                 place, dead, indexed_count_, updated, updating, dirty,
                 lastDir, dirs, dump, unsure, loaded>>

AddVector ==
  /\ engine = "up" /\ stored < MaxVectors
  /\ stored' = stored + 1
  /\ dirty' = TRUE
  /\ Behind({stored})
  /\ UNCHANGED <<engine, processes, clock, synced, version, gone, lists,
                 place, dead, indexed_count_, updated, updating, lastDir,
                 dirs, dump, unsure, loaded>>

\* GammaEngine::Update with a new vector.
ChangeVector(v) ==
  /\ engine = "up" /\ v < stored /\ v \notin gone
  /\ version[v] < Len(BucketOf)
  /\ version' = [version EXCEPT ![v] = @ + 1]
  /\ updated' = Append(updated, v)
  /\ dirty' = TRUE
  /\ Behind({v})
  /\ UNCHANGED <<engine, processes, clock, stored, synced, gone, lists,
                 place, dead, indexed_count_, updating, lastDir, dirs, dump,
                 unsure, loaded>>

\* GammaEngine::Delete: the entry is counted as dead and stays.
DropVector(v) ==
  /\ engine = "up" /\ v < stored /\ v \notin gone
  /\ gone' = gone \cup {v}
  /\ dead' = [b \in DumpBuckets |->
                dead[b] + IF place[v] # << >> /\ place[v][1] = b
                          THEN 1 ELSE 0]
  /\ dirty' = TRUE
  /\ UNCHANGED <<engine, processes, clock, stored, synced, version, lists,
                 place, indexed_count_, updated, updating, lastDir, dirs,
                 dump, late, unsure, loaded>>

\* VectorManager::AddRTVecsToIndex, the vectors that are new.
AddRTVecs ==
  LET new == [k \in 1 .. (stored - indexed_count_) |->
                ListEntry(indexed_count_ + k - 1)]
      of(b) == Among(new, {e \in EntriesIn(new) : BucketOf[e.version] = b})
  IN /\ engine = "up" /\ ~updating /\ indexed_count_ < stored
     /\ lists' = [b \in DumpBuckets |-> lists[b] \o of(b)]
     /\ place' = Noted(place, lists',
                       [b \in DumpBuckets |-> Len(lists[b]) + 1])
     /\ dead' = [b \in DumpBuckets |->
                   dead[b] + Cardinality({k \in DOMAIN of(b) :
                                            of(b)[k].vid \in gone})]
     /\ indexed_count_' = stored
     /\ dirty' = TRUE
     /\ Behind({new[k].vid : k \in DOMAIN new})
     /\ UNCHANGED <<engine, processes, clock, stored, synced, version, gone,
                    updated, updating, lastDir, dirs, dump, unsure, loaded>>

\* The same function, an updated vector: dropped when its document is gone,
\* overwritten in its bucket or masked there and added to another one.
UpdateIndex ==
  LET v == Head(updated)
      to == BucketOf[version[v]]
      p == place[v]
  IN /\ engine = "up" /\ ~updating /\ updated # << >>
     /\ v \in gone \/ v < indexed_count_
     /\ updated' = Tail(updated)
     /\ CASE v \in gone \/ p = << >> ->
               UNCHANGED <<lists, place, dead, unsure>>
          [] v \notin gone /\ p # << >> /\ p[1] = to ->
               /\ lists' = [lists EXCEPT ![to][p[2]].version = version[v]]
               /\ UNCHANGED <<place, dead, unsure>>
          [] OTHER ->
               /\ lists' = [lists EXCEPT ![p[1]][p[2]].masked = TRUE,
                                         ![to] = Append(@, ListEntry(v))]
               /\ place' = [place EXCEPT ![v] = <<to, Len(lists[to]) + 1>>]
               /\ dead' = [dead EXCEPT ![p[1]] = @ + 1]
               /\ Tears
     /\ updating' = (v \notin gone)
     /\ dirty' = (dirty \/ v \notin gone)
     /\ Behind({v})
     /\ UNCHANGED <<engine, processes, clock, stored, synced, version, gone,
                    indexed_count_, lastDir, dirs, dump, loaded>>

\* An updated vector that is not indexed yet goes to the end of the queue.
UpdateLater ==
  /\ engine = "up" /\ ~updating /\ updated # << >>
  /\ Head(updated) \notin gone /\ Head(updated) >= indexed_count_
  /\ updated' = Append(Tail(updated), Head(updated))
  /\ UNCHANGED <<engine, processes, clock, stored, synced, version, gone,
                 lists, place, dead, indexed_count_, updating, dirty,
                 lastDir, dirs, dump, dumpHistory>>

\* CompactIfNeed at the end of an update: the lists with three dead of ten.
CompactIfNeed ==
  LET packed == {b \in DumpBuckets : dead[b] > 0
                                     /\ 10 * dead[b] >= 3 * Len(lists[b])}
  IN /\ engine = "up" /\ updating
     /\ lists' = [b \in DumpBuckets |->
                    IF b \notin packed THEN lists[b]
                    ELSE Among(lists[b], {e \in EntriesIn(lists[b]) :
                                            ~e.masked /\ e.vid \notin gone})]
     /\ place' = Noted(place, lists',
                       [b \in DumpBuckets |->
                          IF b \in packed THEN 1 ELSE Len(lists[b]) + 1])
     /\ dead' = [b \in DumpBuckets |-> IF b \in packed THEN 0 ELSE dead[b]]
     /\ updating' = FALSE
     /\ IF packed = {} THEN UNCHANGED unsure ELSE Tears
     /\ UNCHANGED <<engine, processes, clock, stored, synced, version, gone,
                    indexed_count_, updated, dirty, lastDir, dirs, dump, late,
                    loaded>>

----------------------------------------------------------------------------
(* GammaEngine::Dump.                                                       *)

OnlyDump == UNCHANGED <<engine, processes, stored, version, gone, lists,
                        place, dead, indexed_count_, updated, updating,
                        loaded>>

\* Nothing is dumped when nothing changed.  The directory of this second may
\* exist already.
BeginDump ==
  /\ engine = "up" /\ dump.step = "none" /\ dirty
  /\ \/ clock < MaxDumps /\ clock' = clock + 1
     \/ SameSecond /\ clock > 0 /\ UNCHANGED clock
  /\ dirs' = IF clock' \in DOMAIN dirs THEN dirs
             ELSE [s \in DOMAIN dirs \cup {clock'} |->
                     IF s = clock' THEN EmptyDir ELSE dirs[s]]
  /\ dump' = [step |-> "sizes", dir |-> clock']
  /\ late' = {} /\ unsure' = FALSE
  /\ OnlyDump /\ UNCHANGED <<synced, dirty, lastDir>>

\* WriteInvertedLists up to the sizes: the file exists and is not complete.
WriteSizes ==
  /\ dump.step = "sizes"
  /\ dirs' = [dirs EXCEPT ![dump.dir].index = "part"]
  /\ dump' = [step |-> "codes", dir |-> dump.dir, rest |-> DumpBuckets,
              sizes |-> [b \in DumpBuckets |-> Len(lists[b])],
              versions |-> << >>, read |-> NoLists]
  /\ OnlyDump /\ UNCHANGED <<clock, synced, dirty, lastDir, late, unsure>>

NextBucket == CHOOSE b \in dump.rest : \A c \in dump.rest : b <= c

\* What lies beyond a list that was compacted meanwhile is not known; the
\* dump is torn and its content does not matter.
FirstOf(s, n) == SubSeq(s, 1, IF n <= Len(s) THEN n ELSE Len(s))

WriteCodes ==
  /\ dump.step = "codes"
  /\ LET part == FirstOf(lists[NextBucket], dump.sizes[NextBucket])
     IN dump' = [dump EXCEPT !.step = "ids",
                             !.versions = [k \in DOMAIN part |->
                                             part[k].version]]
  /\ OnlyDump /\ UNCHANGED <<clock, synced, dirty, lastDir, dirs, late,
                            unsure>>

\* After the ids of the last bucket the file is whole.
WriteIds ==
  LET b == NextBucket
      part == FirstOf(lists[b], Len(dump.versions))
      read == [dump.read EXCEPT ![b] =
                 [k \in DOMAIN part |->
                    [part[k] EXCEPT !.version = dump.versions[k]]]]
  IN /\ dump.step = "ids"
     /\ IF dump.rest = {b}
        THEN /\ dump' = [step |-> "vectors", dir |-> dump.dir]
             /\ dirs' = [dirs EXCEPT
                           ![dump.dir] = [@ EXCEPT !.index = "whole",
                                                   !.lists = read,
                                                   !.torn = unsure]]
        ELSE /\ dump' = [dump EXCEPT !.step = "codes", !.read = read,
                                     !.rest = @ \ {b}]
             /\ UNCHANGED dirs
     /\ OnlyDump /\ UNCHANGED <<clock, synced, dirty, lastDir, late, unsure>>

\* Mutant: the vectors are left to the writer's own pace.
SyncNothing ==
  /\ dump.step = "vectors"
  /\ dump' = [dump EXCEPT !.step = "done"]
  /\ OnlyDump /\ UNCHANGED <<clock, synced, dirty, lastDir, dirs, late,
                            unsure>>

\* Mutant: the directory of the dump before goes before this one is done.
SyncAndRemove ==
  /\ dump.step = "vectors"
  /\ synced' = stored
  /\ dirs' = [s \in DOMAIN dirs \ {lastDir} |-> dirs[s]]
  /\ dump' = [dump EXCEPT !.step = "done"]
  /\ OnlyDump /\ UNCHANGED <<clock, dirty, lastDir, late, unsure>>

\* RawVectorIO::Dump
SyncVectors ==
  /\ dump.step = "vectors"
  /\ synced' = stored
  /\ dump' = [dump EXCEPT !.step = "done"]
  /\ OnlyDump /\ UNCHANGED <<clock, dirty, lastDir, dirs, late,
                            unsure>>

WriteDone ==
  /\ dump.step = "done"
  /\ dirs' = [dirs EXCEPT ![dump.dir].done = TRUE]
  /\ dump' = [dump EXCEPT !.step = "last"]
  /\ OnlyDump /\ UNCHANGED <<clock, synced, dirty, lastDir, late, unsure>>

\* The directory of the dump before is removed, whichever it is, and
\* is_dirty_ is cleared, whoever set it meanwhile.
RemoveLast ==
  /\ dump.step = "last"
  /\ dirs' = [s \in DOMAIN dirs \ {lastDir} |-> dirs[s]]
  /\ lastDir' = dump.dir
  /\ dirty' = FALSE
  /\ dump' = NoDump
  /\ OnlyDump /\ UNCHANGED <<clock, synced, late, unsure>>

----------------------------------------------------------------------------
(* The end of a process and the start of the next one.                      *)

\* Vectors that were not dumped are lost or not.
EndProcess ==
  /\ engine = "up" /\ processes < MaxProcesses
  /\ engine' = "down"
  /\ stored' \in synced .. stored
  /\ synced' = stored'
  /\ version' = [v \in VectorIds |-> IF v < stored' THEN version[v] ELSE 1]
  /\ gone' = gone \cap (0 .. stored' - 1)
  /\ lists' = NoLists /\ place' = NoPlaces /\ dead' = NoDead
  /\ indexed_count_' = 0 /\ updated' = << >> /\ updating' = FALSE
  /\ dirty' = FALSE /\ lastDir' = 0 /\ dump' = NoDump
  /\ late' = {} /\ unsure' = FALSE
  /\ UNCHANGED <<processes, clock, dirs, loaded>>

DoneDirs == {s \in DOMAIN dirs : dirs[s].done}
Newest == CHOOSE s \in DoneDirs : \A t \in DoneDirs : t <= s

MaskedIn(s) == Cardinality({k \in DOMAIN s : s[k].masked})
HasMasks(ls) == \E b \in DumpBuckets : \E k \in DOMAIN ls[b] : ls[b][k].masked

\* indexed_vec_count: the sizes of the lists, less, at every entry that is not
\* masked, the masked ones of its list that were counted so far.
Places(ls) == UNION {{b} \X DOMAIN ls[b] : b \in DumpBuckets}
Subtracted(ls) ==
  UNION {{p \in {b} \X (DOMAIN ls[b]) \X DOMAIN ls[b] :
            p[3] < p[2] /\ ls[b][p[3]].masked /\ ~ls[b][p[2]].masked} :
           b \in DumpBuckets}

\* Mutant: one vector too many is counted.
LoadedCountOneMore(ls) ==
  Cardinality(Places(ls)) - Cardinality(Subtracted(ls)) + 1

LoadedCount(ls) == Cardinality(Places(ls)) - Cardinality(Subtracted(ls))

\* No dump is done: the index starts empty and is built again.
LoadWithoutIndex ==
  /\ engine = "down" /\ DoneDirs = {}
  /\ engine' = "up" /\ processes' = processes + 1
  /\ dirs' = << >>
  /\ UNCHANGED <<clock, stored, synced, version, gone, lists, place, dead,
                 indexed_count_, updated, updating, dirty, lastDir, dump,
                 dumpHistory>>

\* Mutant: the number read is not compared with the vectors there are.
LoadNewestUnchecked ==
  LET ls == dirs[Newest].lists
      n == LoadedCount(ls)
  IN /\ engine = "down" /\ DoneDirs # {}
     /\ processes' = processes + 1
     /\ loaded' = [masks |-> loaded.masks \/ HasMasks(ls),
                   torn |-> loaded.torn \/ dirs[Newest].torn]
     /\ engine' = "up"
     /\ lists' = ls
     /\ indexed_count_' = n
     /\ lastDir' = Newest
     /\ dirs' = [s \in DoneDirs |-> dirs[s]]
     /\ UNCHANGED <<clock, stored, synced, version, gone, place, dead,
                    updated, updating, dirty, dump, late, unsure>>

\* The newest one is read.  An index file that stops in the middle ends the
\* process; a number of vectors that cannot be is an error.
LoadNewest ==
  LET ls == dirs[Newest].lists
      n == LoadedCount(ls)
  IN /\ engine = "down" /\ DoneDirs # {}
     /\ processes' = processes + 1
     /\ loaded' = [masks |-> loaded.masks \/ HasMasks(ls),
                   torn |-> loaded.torn \/ dirs[Newest].torn]
     /\ IF dirs[Newest].index = "whole" /\ n \in 0 .. stored
        THEN /\ engine' = "up"
             /\ lists' = ls
             /\ place' = Noted(NoPlaces, ls, All)
             /\ dead' = [b \in DumpBuckets |-> MaskedIn(ls[b])]
             /\ indexed_count_' = n
             /\ lastDir' = Newest
             /\ dirs' = [s \in DoneDirs |-> dirs[s]]
        ELSE /\ engine' = "failed"
             /\ UNCHANGED <<lists, place, dead, indexed_count_, lastDir, dirs>>
     /\ UNCHANGED <<clock, stored, synced, version, gone, updated, updating,
                    dirty, dump, late, unsure>>

IndexDumpNext ==
  \/ AddVector \/ AddRTVecs \/ UpdateIndex \/ UpdateLater \/ CompactIfNeed
  \/ \E v \in VectorIds : ChangeVector(v) \/ DropVector(v)
  \/ BeginDump \/ WriteSizes \/ WriteCodes \/ WriteIds \/ SyncVectors
  \/ WriteDone \/ RemoveLast
  \/ EndProcess \/ LoadWithoutIndex \/ LoadNewest

IndexDumpSpec == IndexDumpInit /\ [][IndexDumpNext]_indexDumpVars

----------------------------------------------------------------------------
(* Properties.                                                              *)

IndexDumpTypeOK ==
  /\ engine \in {"up", "down", "failed"}
  /\ 0 <= synced /\ synced <= stored /\ stored <= MaxVectors
  /\ indexed_count_ \in 0 .. stored
  /\ gone \subseteq 0 .. (stored - 1)
  /\ DOMAIN dirs \subseteq 1 .. MaxDumps /\ lastDir \in 0 .. MaxDumps

\* A process that ends in the middle of a dump leaves an older one or its
\* own, whole: a dump that was done once is never missed, and the one the
\* next process reads has all of its index (gamma_engine.cc:1531, 1542).
NewestDumpIsWhole ==
  /\ DoneDirs # {} => dirs[Newest].index = "whole"
  /\ lastDir # 0 => DoneDirs # {}

\* Lists without a masked entry, read while nothing tore them, load.
DumpsLoad == engine = "failed" => loaded.masks \/ loaded.torn

\* Indexing goes on behind the loaded vectors: every one before is in the
\* lists unless its document is gone, so none is skipped for good
\* (vector_manager.cc:861).
NoVectorIsSkipped ==
  engine = "up" /\ ~loaded.masks /\ ~loaded.torn =>
    \A v \in 0 .. (indexed_count_ - 1) :
      v \in gone \/ \E b \in DumpBuckets : EntriesOf(v, lists[b]) # {}

\* An engine that is not dirty has dumped every vector, but for those that
\* were added while a dump ran (gamma_engine.cc:1548).
CleanMeansDumped ==
  engine = "up" /\ ~dirty /\ lastDir # 0 =>
    \A v \in synced .. (stored - 1) : v \in late

\* The newest dump is whole and loads, and has every vector of an engine that is
\* not dirty, but for those added meanwhile.
NewestDumpServes ==
  /\ IndexDumpTypeOK
  /\ NewestDumpIsWhole
  /\ DumpsLoad
  /\ CleanMeansDumped
=============================================================================
