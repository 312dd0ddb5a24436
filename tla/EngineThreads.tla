--------------------------- MODULE EngineThreads ---------------------------
(***************************************************************************)
(* The threads of an engine and its end.  BuildIndex counts b_running_ up  *)
(* and starts a detached thread that trains the index and then adds new    *)
(* vectors to it in rounds; a table starts another detached thread,        *)
(* BuildFieldIndex.  ~GammaEngine clears each flag and waits on a condition *)
(* for the thread to tell that it leaves its loop, under a mutex that the  *)
(* thread does not know: a notification before the wait is lost.           *)
(*                                                                         *)
(* One thread calls the engine and destroys it when no call is running.    *)
(* The wait has no predicate; it is taken to end by a notification only,   *)
(* which the language does not promise.                                    *)
(***************************************************************************)
EXTENDS Integers

CONSTANTS
  IndexingSize,  \* indexing_size_
  MaxStored,     \* bound: documents ever added
  MaxFailures    \* bound: trainings and rounds that ever fail

ASSUME ThreadsAssumption == {IndexingSize, MaxStored, MaxFailures} \subseteq Nat

VARIABLES
  stored,        \* max_docid_
  inIndex,       \* vectors the index holds
  indexStatus,   \* index_status_
  b_running_, b_field_running_,
  indexThread, fieldThread,
  api,           \* the thread that calls: "idle" or "indexing"
  ender,         \* where ~GammaEngine is
  failures,
  lost           \* history: the end waits for a notification that will not come

threadVars == <<stored, inIndex, indexStatus, b_running_, b_field_running_,
                indexThread, fieldThread, api, ender, failures, lost>>

ThreadsInit ==
  /\ stored = 0 /\ inIndex = 0 /\ indexStatus = "UNINDEXED"
  /\ b_running_ = 0 /\ b_field_running_ = FALSE
  /\ indexThread = "none" /\ fieldThread = "none"
  /\ api = "idle" /\ ender = "none" /\ failures = 0 /\ lost = FALSE

InUse == api = "idle" /\ ender = "none"
Fails == failures < MaxFailures /\ failures' = failures + 1

-----------------------------------------------------------------------------
(* Calls of the engine. *)

\* The first call starts the thread, a later one trains by itself.
BuildIndex ==
  /\ b_running_' = b_running_ + 1
  /\ IF b_running_ = 0
     THEN indexThread' = "training" /\ UNCHANGED api
     ELSE api' = "indexing" /\ UNCHANGED indexThread

AddStored ==
  /\ InUse /\ stored < MaxStored
  /\ stored' = stored + 1
  /\ IF b_running_ = 0 /\ indexStatus = "UNINDEXED" /\ stored' >= IndexingSize
     THEN BuildIndex ELSE UNCHANGED <<b_running_, indexThread, api>>
  /\ UNCHANGED <<inIndex, indexStatus, b_field_running_, fieldThread, ender,
                 failures, lost>>

\* BuildIndex of the interface; the model repeats it once.
CallBuildIndex ==
  /\ InUse /\ b_running_ < 2 /\ BuildIndex
  /\ UNCHANGED <<stored, inIndex, indexStatus, b_field_running_, fieldThread,
                 ender, failures, lost>>

\* VectorManager::Indexing, whatever it answers.
CallTrained ==
  /\ api = "indexing" /\ api' = "idle"
  /\ UNCHANGED <<stored, inIndex, indexStatus, b_running_, b_field_running_,
                 indexThread, fieldThread, ender, failures, lost>>

CreateTable ==
  /\ InUse /\ fieldThread = "none" /\ fieldThread' = "starting"
  /\ UNCHANGED <<stored, inIndex, indexStatus, b_running_, b_field_running_,
                 indexThread, api, ender, failures, lost>>

-----------------------------------------------------------------------------
(* The index thread. *)

Waiting == ender \in {"clearedIndex", "waitIndex"}

Trained ==
  /\ indexThread = "training" /\ indexThread' = "loop"
  /\ UNCHANGED <<stored, inIndex, indexStatus, b_running_, b_field_running_,
                 fieldThread, api, ender, failures, lost>>

\* The thread ends without telling anybody.
TrainingFails ==
  /\ indexThread = "training" /\ Fails
  /\ b_running_' = 0 /\ indexThread' = "none"
  /\ lost' = (lost \/ Waiting)
  /\ UNCHANGED <<stored, inIndex, indexStatus, b_field_running_, fieldThread,
                 api, ender>>

Goes == b_running_ > 0

\* Searches use the index from the first round on, before it has vectors.
BeginRound ==
  /\ indexThread = "loop" /\ Goes
  /\ indexStatus' = "INDEXED" /\ indexThread' = "adding"
  /\ UNCHANGED <<stored, inIndex, b_running_, b_field_running_, fieldThread, api,
                 ender, failures, lost>>

NothingAdded == inIndex
AddedOneMore == stored + 1
AddedInRound == stored

EndRound ==
  /\ indexThread = "adding"
  /\ inIndex' = AddedInRound /\ indexThread' = "loop"
  /\ UNCHANGED <<stored, indexStatus, b_running_, b_field_running_, fieldThread,
                 api, ender, failures, lost>>

\* After a failed round the thread adds nothing any more (has_error).
RoundFails ==
  /\ indexThread = "adding" /\ Fails /\ indexThread' = "error"
  /\ UNCHANGED <<stored, inIndex, indexStatus, b_running_, b_field_running_,
                 fieldThread, api, ender, lost>>

WakesNobody == ender
WakesEnder == IF ender = "waitIndex" THEN "indexEnded" ELSE ender

LeaveLoop ==
  /\ indexThread \in {"loop", "error"} /\ ~Goes
  /\ indexThread' = "none"
  /\ ender' = WakesEnder
  /\ lost' = (lost \/ ender = "clearedIndex")
  /\ UNCHANGED <<stored, inIndex, indexStatus, b_running_, b_field_running_,
                 fieldThread, api, failures>>

-----------------------------------------------------------------------------
(* The thread of the fields: its loop does nothing. *)

StartFields ==
  /\ fieldThread = "starting" /\ fieldThread' = "loop" /\ b_field_running_' = TRUE
  /\ UNCHANGED <<stored, inIndex, indexStatus, b_running_, indexThread, api,
                 ender, failures, lost>>

LeaveFields ==
  /\ fieldThread = "loop" /\ ~b_field_running_ /\ fieldThread' = "ended"
  /\ ender' = IF ender = "waitFields" THEN "freed" ELSE ender
  /\ lost' = (lost \/ ender = "clearedFields")
  /\ UNCHANGED <<stored, inIndex, indexStatus, b_running_, b_field_running_,
                 indexThread, api, failures>>

-----------------------------------------------------------------------------
(* ~GammaEngine. *)

SkipsIfTrained == b_running_ = 0 \/ indexStatus = "INDEXED"
NobodyRuns == b_running_ = 0

EndIndex ==
  /\ InUse
  /\ IF NobodyRuns THEN ender' = "indexEnded" /\ UNCHANGED b_running_
     ELSE ender' = "clearedIndex" /\ b_running_' = 0
  /\ UNCHANGED <<stored, inIndex, indexStatus, b_field_running_, indexThread,
                 fieldThread, api, failures, lost>>

Wait ==
  /\ ender' = CASE ender = "clearedIndex" -> "waitIndex"
                [] ender = "clearedFields" -> "waitFields"
                [] OTHER -> ender
  /\ ender' # ender
  /\ UNCHANGED <<stored, inIndex, indexStatus, b_running_, b_field_running_,
                 indexThread, fieldThread, api, failures, lost>>

EndFields ==
  /\ ender = "indexEnded"
  /\ ender' = IF b_field_running_ THEN "clearedFields" ELSE "freed"
  /\ b_field_running_' = FALSE
  /\ UNCHANGED <<stored, inIndex, indexStatus, b_running_, indexThread,
                 fieldThread, api, failures, lost>>

IndexThread == Trained \/ TrainingFails \/ BeginRound \/ EndRound \/ RoundFails \/ LeaveLoop
FieldThread == StartFields \/ LeaveFields
End == Wait \/ EndFields

ThreadsNext ==
  AddStored \/ CallBuildIndex \/ CallTrained \/ CreateTable
  \/ IndexThread \/ FieldThread \/ EndIndex \/ End

\* Threads run; a destructor and a call that have begun run on.
ThreadsFairness ==
  /\ WF_threadVars(IndexThread) /\ WF_threadVars(FieldThread)
  /\ WF_threadVars(End \/ CallTrained)

ThreadsSpec == ThreadsInit /\ [][ThreadsNext]_threadVars /\ ThreadsFairness

-----------------------------------------------------------------------------
(* Properties. *)

ThreadsTypeOK ==
  /\ stored \in 0 .. MaxStored /\ inIndex \in 0 .. stored
  /\ indexStatus \in {"UNINDEXED", "INDEXED"}
  /\ b_running_ \in Nat /\ b_field_running_ \in BOOLEAN
  /\ indexThread \in {"none", "training", "loop", "adding", "error"}
  /\ fieldThread \in {"none", "starting", "loop", "ended"}
  /\ api \in {"idle", "indexing"}
  /\ ender \in {"none", "clearedIndex", "waitIndex", "indexEnded", "clearedFields",
                "waitFields", "freed"}
  /\ failures \in 0 .. MaxFailures /\ lost \in BOOLEAN

\* ~GammaEngine frees vectors, table and bitmap only after the thread that
\* indexes has left them, also when a training failed, was begun again, or
\* BuildIndex was called while it ran.
FreedAfterIndexing ==
  ender \in {"indexEnded", "clearedFields", "waitFields", "freed"} => indexThread = "none"

\* The end of an engine takes as long as the round that runs, unless the
\* thread leaves between the clearing of its flag and the wait
\* (gamma_engine.cc:196 and 199, 203 and 206), or its training fails then.
EndReturns == ender # "none" ~> (ender = "freed" \/ lost)

\* A search without the index sees all documents.  With the index it sees
\* those of the last round; every document is seen in the end, whatever
\* trainings fail and are begun again, unless a round fails or the engine
\* ends.
AllSearchable == indexStatus = "UNINDEXED" \/ inIndex = stored
DocumentsBecomeSearchable ==
  ~AllSearchable ~> (AllSearchable \/ indexThread = "error" \/ ender # "none")

\* No thread uses what the destructor has freed.
ThreadsInv ==
  /\ ThreadsTypeOK
  /\ FreedAfterIndexing
=============================================================================
