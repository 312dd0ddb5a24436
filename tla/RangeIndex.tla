----------------------------- MODULE RangeIndex ----------------------------
(***************************************************************************)
(* The range index kept up to date in the background.  GammaEngine's add,  *)
(* update and delete change the table and push operations on a queue       *)
(* (MultiFieldsRangeIndex::Add and Delete); one detached worker pops and   *)
(* applies them.  An ADD carries no value: the worker reads it from the    *)
(* table when it applies the operation.  A DELETE carries the value the    *)
(* document had when Delete was called, and is pushed only after the queue *)
(* was seen empty.  Empty means that every operation was popped, not that  *)
(* it was applied.                                                         *)
(*                                                                         *)
(* One indexed field, one thread that calls the engine, searches at any    *)
(* time.                                                                   *)
(***************************************************************************)
EXTENDS RangeNode

CONSTANTS
  Values,      \* the values the field takes
  MaxDocs,     \* bound: documents ever added
  MaxUpdates,  \* bound: updates and deletes ever made
  Column       \* TRUE: the field was created after the table (AddNewField)
               \* and lives in DocidFieldsMgr, not in the row

CONSTANT NoValue   \* the empty string

ASSUME IndexAssumption ==
  /\ MaxDocs \in Nat \ {0}
  /\ MaxUpdates \in Nat
  /\ Column \in BOOLEAN
  /\ NoValue \notin Values

Docs == 0..(MaxDocs - 1)
Op == [type : {"ADD", "DELETE"}, doc : Docs, value : Values \cup {NoValue}]
NoOp == [type |-> "NONE", doc |-> 0, value |-> NoValue]

VARIABLES
  table,    \* the field's value of each document added, in id order
  deleted,  \* docids_bitmap_
  queue,    \* field_operate_q_
  held,     \* the operation the worker has popped and not yet applied
  read,     \* the value the worker read for the ADD it holds
  node,     \* [Values -> node]: FieldRangeIndex of the field
  caller,   \* where the engine's caller is
  updates   \* updates and deletes made so far (bounds the model)

vars == <<table, deleted, queue, held, read, node, caller, updates>>

Idle == [pc |-> "idle", doc |-> 0, old |-> NoValue, new |-> NoValue]
CallerType == [pc : {"idle", "wait", "write", "add"}, doc : Docs,
               old : Values \cup {NoValue}, new : Values \cup {NoValue}]

Size == Len(table)
Value(d) == table[d + 1]

Init ==
  /\ table = << >>
  /\ deleted = {}
  /\ queue = << >>
  /\ held = NoOp
  /\ read = NoValue
  /\ node = [v \in Values |-> NewNode]
  /\ caller = Idle
  /\ updates = 0

----------------------------------------------------------------------------
(* The caller.                                                             *)

\* Mutant: the id after the document's.
AddOpNext(d) == [type |-> "ADD", doc |-> d + 1, value |-> NoValue]

AddOp(d) == [type |-> "ADD", doc |-> d, value |-> NoValue]

\* GammaEngine::AddOrUpdate of a new key: Table::Add, then Add.
AddDoc(v) ==
  /\ caller.pc = "idle"
  /\ Size < MaxDocs
  /\ table' = Append(table, v)
  /\ queue' = Append(queue, AddOp(Size))
  /\ UNCHANGED <<deleted, held, read, node, caller, updates>>

\* What Delete copies into the operation: GetFieldRawValue knows the row's
\* fields only, and leaves the value empty for the others.
Captured(d) == IF Column THEN NoValue ELSE Value(d)

\* GammaEngine::Update up to the wait in MultiFieldsRangeIndex::Delete.
UpdateCapture(d, v) ==
  /\ caller.pc = "idle"
  /\ updates < MaxUpdates
  /\ d < Size /\ d \notin deleted
  /\ caller' = [pc |-> "wait", doc |-> d, old |-> Captured(d), new |-> v]
  /\ updates' = updates + 1
  /\ UNCHANGED <<table, deleted, queue, held, read, node>>

\* GammaEngine::Delete up to the same wait; the document is marked first.
DeleteCapture(d) ==
  /\ caller.pc = "idle"
  /\ updates < MaxUpdates
  /\ d < Size /\ d \notin deleted
  /\ deleted' = deleted \cup {d}
  /\ caller' = [pc |-> "wait", doc |-> d, old |-> Captured(d), new |-> NoValue]
  /\ updates' = updates + 1
  /\ UNCHANGED <<table, queue, held, read, node>>

\* MultiFieldsRangeIndex::Delete pushes once it saw the queue empty.
PushDelete ==
  /\ caller.pc = "wait"
  /\ queue = << >>
  /\ queue' = <<[type |-> "DELETE", doc |-> caller.doc, value |-> caller.old]>>
  /\ caller' = IF caller.new = NoValue THEN Idle ELSE [caller EXCEPT !.pc = "write"]
  /\ UNCHANGED <<table, deleted, held, read, node, updates>>

\* Mutant: the update returns before it adds the document again.
TableUpdateReturns ==
  /\ caller.pc = "write"
  /\ table' = [table EXCEPT ![caller.doc + 1] = caller.new]
  /\ caller' = Idle
  /\ UNCHANGED <<deleted, queue, held, read, node, updates>>

\* Table::Update looks the field up among the row's fields and skips it
\* when it is not there.
TableUpdate ==
  /\ caller.pc = "write"
  /\ table' = IF Column THEN table
                        ELSE [table EXCEPT ![caller.doc + 1] = caller.new]
  /\ caller' = [caller EXCEPT !.pc = "add"]
  /\ UNCHANGED <<deleted, queue, held, read, node, updates>>

\* The last part of GammaEngine::Update: MultiFieldsRangeIndex::Add.
PushAdd ==
  /\ caller.pc = "add"
  /\ queue' = Append(queue, AddOp(caller.doc))
  /\ caller' = Idle
  /\ UNCHANGED <<table, deleted, held, read, node, updates>>

----------------------------------------------------------------------------
(* FieldOperateWorker.                                                     *)

\* Mutant: the worker waits until a second operation is queued.
PopPairs ==
  /\ held = NoOp
  /\ Len(queue) > 1
  /\ held' = Head(queue)
  /\ queue' = Tail(queue)
  /\ UNCHANGED <<table, deleted, read, node, caller, updates>>

Pop ==
  /\ held = NoOp
  /\ queue # << >>
  /\ held' = Head(queue)
  /\ queue' = Tail(queue)
  /\ UNCHANGED <<table, deleted, read, node, caller, updates>>

\* AddDoc reads the value from the row, or from the column.
ReadValue ==
  /\ held.type = "ADD"
  /\ read = NoValue
  /\ read' = Value(held.doc)
  /\ UNCHANGED <<table, deleted, queue, held, node, caller, updates>>

ApplyAdd ==
  /\ held.type = "ADD"
  /\ read # NoValue
  /\ node' = [node EXCEPT ![read] = AddNode(@, held.doc)]
  /\ held' = NoOp
  /\ read' = NoValue
  /\ UNCHANGED <<table, deleted, queue, caller, updates>>

\* DeleteDoc ignores an empty value.
ApplyDelete ==
  /\ held.type = "DELETE"
  /\ node' = IF held.value = NoValue THEN node
             ELSE [node EXCEPT ![held.value] = DeleteNode(@, held.doc)]
  /\ held' = NoOp
  /\ UNCHANGED <<table, deleted, queue, read, caller, updates>>

Call == \/ \E v \in Values : AddDoc(v)
        \/ \E d \in Docs, v \in Values : UpdateCapture(d, v)
        \/ \E d \in Docs : DeleteCapture(d)

Continue == PushDelete \/ TableUpdate \/ PushAdd

Worker == Pop \/ ReadValue \/ ApplyAdd \/ ApplyDelete

Next == Call \/ Continue \/ Worker

Spec == Init /\ [][Next]_vars

\* The worker loops until the index is destroyed and a call that has begun
\* runs on; nobody is obliged to call.
FairSpec == Spec /\ WF_vars(Worker) /\ WF_vars(Continue)

----------------------------------------------------------------------------
(* Properties.                                                             *)

TypeOK ==
  /\ table \in Seq(Values) /\ Size <= MaxDocs
  /\ deleted \subseteq 0..(Size - 1)
  /\ queue \in Seq(Op)
  /\ held \in Op \cup {NoOp}
  /\ read \in Values \cup {NoValue}
  /\ caller \in CallerType
  /\ updates \in 0..MaxUpdates

\* What a filter on value v returns: GammaEngine::Search drops deleted ids.
Matches(v) == Members(node[v]) \ deleted

PendingAdd(d) == \/ held.type = "ADD" /\ held.doc = d
                 \/ \E i \in 1..Len(queue) : queue[i].type = "ADD" /\ queue[i].doc = d
                 \/ caller.pc \in {"write", "add"} /\ caller.doc = d

\* A document is found under its current value, or an operation that will
\* add it there is on its way: the value read late by the worker, the
\* deletes with the values of earlier calls and the repeated adds never
\* take the last entry of the current value away.
FoundOrPending ==
  \A d \in 0..(Size - 1) : d \notin deleted =>
     d \in Matches(Value(d)) \/ PendingAdd(d)

Drained == queue = << >> /\ held = NoOp /\ caller.pc = "idle"

\* MultiFieldsRangeIndex::Delete does not wait for ever on the worker: every
\* update and delete returns.
CallsReturn == caller.pc # "idle" ~> caller.pc = "idle"

Holds(d, v) == d < Size /\ d \notin deleted /\ Value(d) = v

\* A value written by an add or update becomes searchable, unless it is
\* replaced or its document deleted first.
ValuesBecomeSearchable ==
  \A d \in Docs, v \in Values :
     Holds(d, v) ~> d \in Matches(v) \/ ~Holds(d, v)

(***************************************************************************)
(* Statements of the source that its code does not keep.                   *)
(***************************************************************************)

\* Real time updating: once every operation is applied a document is found
\* under no value but its own.
NoStaleEntry ==
  Drained => \A d \in 0..(Size - 1), v \in Values :
                d \in Matches(v) => v = Value(d)

\* "if doc existed, update it": the row holds the new value when the update
\* pushes its last operation.
UpdateTakesEffect ==
  caller.pc = "add" => Value(caller.doc) = caller.new

\* A document is found under its value, or an operation is on the way.
QueueInv ==
  /\ TypeOK
  /\ FoundOrPending
=============================================================================
