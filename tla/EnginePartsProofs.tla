------------------------- MODULE EnginePartsProofs -------------------------
(***************************************************************************)
(* What is proved about the queue of the range index (RangeIndex): while   *)
(* its nodes are arrays, a live document is found under its value or an    *)
(* operation that will list it there is on its way, for every number of    *)
(* documents, values and updates, and for row fields and column fields.    *)
(* And about the words of documents (TextRetrieval), whose hits restrict   *)
(* the answers of the range index: a search for words finds exactly the    *)
(* documents that hold them all, for any lists, queries and documents.     *)
(* And about the migration of an engine in use (Migration): caught up, the *)
(* copy has every document as it is, for any number of them, of updates,   *)
(* deletes and migrations, but for those a race has left out.              *)
(***************************************************************************)
EXTENDS RangeIndex, TextRetrieval, Migration, FiniteSetTheorems,
        SequenceTheorems, WellFoundedInduction, TLAPS

\* The ids span less than the spread above which nodes become bitmaps
\* (100000).  A bitmap counts an id twice when it is added twice and down when
\* it is not there, and a count too low lets it lose ids.
StaysSparse == MaxDocs - 1 <= Spread

SparseType ==
  [dense : {FALSE}, list : Seq(Nat), bits : {{}}, size : Int, min : Nat,
   max : -1 .. MaxDocs - 1, lo : Int, hi : Int]

NodesAreArrays == node \in [Values -> SparseType]

\* What the operations in flight are about: documents that exist; an update
\* has not deleted its document, a deletion has.
OpsAreReal ==
  /\ \A i \in 1 .. Len(queue) : queue[i].doc < Size
  /\ held # NoOp => held.doc < Size
  /\ read # NoValue => held.type = "ADD"
  /\ caller.pc # "idle" => caller.doc < Size
  /\ caller.pc # "idle" /\ caller.new = NoValue =>
       caller.pc = "wait" /\ caller.doc \in deleted

\* A DELETE is pushed into an empty queue, so nothing is queued before it.
DeletesComeFirst == \A i \in 2 .. Len(queue) : queue[i].type = "ADD"

\* The ADD of a document will be taken after the operation the worker holds.
ComingFrom(ops, call, d) ==
  \/ \E i \in 1 .. Len(ops) : ops[i].type = "ADD" /\ ops[i].doc = d
  \/ call.pc \in {"write", "add"} /\ call.doc = d
Coming(d) == ComingFrom(queue, caller, d)

\* The DELETE of an update is followed by the ADD of the same document.
DeletesAreFollowed ==
  /\ \A i \in 1 .. Len(queue) :
       queue[i].type = "DELETE" => queue[i].doc \in deleted \/ Coming(queue[i].doc)
  /\ held.type = "DELETE" => held.doc \in deleted \/ Coming(held.doc)

\* A value the worker read too early will be read again.
StaleReadsAreRepeated ==
  held.type = "ADD" /\ read # NoValue =>
    read = Value(held.doc) \/ Coming(held.doc)

IInv ==
  /\ TypeOK
  /\ NodesAreArrays
  /\ OpsAreReal
  /\ DeletesComeFirst
  /\ DeletesAreFollowed
  /\ StaleReadsAreRepeated
  /\ FoundOrPending

-----------------------------------------------------------------------------
(* Numbers.                                                                *)

\* The bounds of a run are numbers.
LEMMA Bounds ==
  /\ MaxDocs \in Nat \ {0} /\ MaxUpdates \in Nat /\ NoValue \notin Values
  /\ Word \in Nat \ {0} /\ IntMax \in Nat /\ Spread \in Nat
  BY IndexAssumption, NodeAssumption

\* The intervals from 0 to the members of a set are finite, and strict
\* inclusion is well founded on finite sets.
LEMMA LeastNumber ==
  ASSUME NEW S, S \subseteq Nat, S # {}
  PROVE  \E m \in S : \A k \in S : m <= k
<1> DEFINE R == StrictSubsetOrdering(Nat)
           F == FiniteSubsetsOf(Nat)
           T == {0 .. n : n \in S}
<1>1. IsWellFoundedOn(R, F)
  BY FS_StrictSubsetOrderingWellFounded
<1>2. T \subseteq F
  <2>1. ASSUME NEW n \in S PROVE 0 .. n \in F
    <3>1. n \in Nat /\ 0 .. n \subseteq Nat
      OBVIOUS
    <3>2. IsFiniteSet(0 .. n)
      BY <3>1, FS_Interval
    <3> QED
      BY <3>1, <3>2 DEF FiniteSubsetsOf
  <2> HIDE DEF F
  <2> QED
    BY <2>1
<1>3. T # {}
  OBVIOUS
<1>4. PICK x \in T : \A y \in T : ~(<<y, x>> \in R)
  <2> HIDE DEF R, F, T
  <2> QED
    BY <1>1, <1>2, <1>3, WFMin
<1>5. PICK m \in S : x = 0 .. m
  OBVIOUS
<1>6. ASSUME NEW k \in S, k < m PROVE FALSE
  <2>1. m \in Nat /\ k \in Nat
    OBVIOUS
  <2>2. 0 .. k \subseteq 0 .. m /\ m \in 0 .. m /\ m \notin 0 .. k
    BY <1>6, <2>1
  <2>3. 0 .. k \in T /\ 0 .. k \subseteq Nat /\ 0 .. m \subseteq Nat
    BY <2>1
  <2>4. <<0 .. k, 0 .. m>> \in R
    BY <2>2, <2>3 DEF StrictSubsetOrdering
  <2> QED
    BY <2>3, <2>4, <1>4, <1>5
<1> QED
  BY <1>6

-----------------------------------------------------------------------------
(* Nodes that are arrays.                                                  *)

\* A node begins as an array.
LEMMA NewNodeIsArray == NewNode \in SparseType
  BY Bounds DEF NewNode, SparseType

\* The ids at which the word of an id begins and ends are numbers.
LEMMA WordEnds ==
  ASSUME NEW v \in Nat
  PROVE  WordStart(v) \in Int /\ WordEnd(v) \in Int
<1>1. v \div Word \in Int
  BY Bounds
<1> QED
  BY <1>1, Bounds DEF WordStart, WordEnd

\* Node::Add appends: what was listed stays listed.
LEMMA AddNodeLists ==
  ASSUME StaysSparse, NEW n \in SparseType, NEW v \in Docs
  PROVE  /\ AddNode(n, v) \in SparseType
         /\ Members(AddNode(n, v)) = Members(n) \cup {v}
<1>1. v \in Nat /\ v <= MaxDocs - 1 /\ MaxDocs \in Nat
  BY Bounds DEF Docs
<1>2. n.dense = FALSE /\ n.list \in Seq(Nat) /\ n.min \in Nat /\ n.max \in -1 .. MaxDocs - 1
  BY DEF SparseType
<1>3. ~Wide(n)
  BY <1>1, <1>2, Bounds DEF Wide, StaysSparse
<1> DEFINE m == AddSparse(n, v)
<1>4. AddNode(n, v) = m
  BY <1>2, <1>3 DEF AddNode
<1>5. Append(n.list, v) \in Seq(Nat)
  BY <1>1, <1>2
<1>6. Lesser(n.min, v) \in Nat /\ Greater(n.max, v) \in -1 .. MaxDocs - 1
  BY <1>1, <1>2 DEF Lesser, Greater
<1>7. /\ (IF v < n.lo THEN WordStart(v) ELSE n.lo) \in Int
      /\ (IF v > n.hi THEN WordEnd(v) ELSE n.hi) \in Int
  BY <1>1, WordEnds DEF SparseType
<1>8. m \in SparseType
  <2>1. n.size + 1 \in Int
    <3>1. n.size \in Int
      BY DEF SparseType
    <3> QED
      BY <3>1
  <2>2. m = [n EXCEPT !.list = Append(n.list, v), !.size = n.size + 1,
                      !.min = Lesser(n.min, v), !.max = Greater(n.max, v),
                      !.lo = IF v < n.lo THEN WordStart(v) ELSE n.lo,
                      !.hi = IF v > n.hi THEN WordEnd(v) ELSE n.hi]
    BY DEF AddSparse
  <2> QED
    BY <2>1, <2>2, <1>5, <1>6, <1>7 DEF SparseType
<1>9. m.dense = FALSE /\ m.list = Append(n.list, v)
  BY DEF SparseType, AddSparse
<1>10. Members(m) = Members(n) \cup {v}
  <2> DEFINE L == n.list
             k == Len(L)
  <2>1. k \in Nat /\ Len(Append(L, v)) = k + 1
    BY <1>2
  <2>2. \A i \in 1 .. k : Append(L, v)[i] = L[i]
    BY <1>2
  <2>3. Append(L, v)[k + 1] = v
    BY <1>2
  <2>4. Members(n) = {L[i] : i \in 1 .. k}
    BY <1>2 DEF Members
  <2>5. Members(m) = {Append(L, v)[i] : i \in 1 .. k + 1}
    BY <1>9, <2>1 DEF Members
  <2> HIDE DEF L, k
  <2>6. 1 .. k + 1 = 1 .. k \cup {k + 1}
    BY <2>1
  <2>7. ASSUME NEW x \in Members(m) PROVE x \in Members(n) \cup {v}
    <3>1. PICK i \in 1 .. k + 1 : x = Append(L, v)[i]
      BY <2>5
    <3>2. CASE i \in 1 .. k
      BY <2>2, <2>4, <3>1, <3>2
    <3>3. CASE i = k + 1
      BY <2>3, <3>1, <3>3
    <3> QED
      BY <2>6, <3>2, <3>3
  <2>8. ASSUME NEW x \in Members(n) PROVE x \in Members(m)
    <3>1. PICK i \in 1 .. k : x = L[i]
      BY <2>4
    <3>2. i \in 1 .. k + 1 /\ Append(L, v)[i] = x
      BY <2>2, <2>6, <3>1
    <3> QED
      BY <2>5, <3>2
  <2>9. v \in Members(m)
    BY <2>3, <2>5, <2>6
  <2> QED
    BY <2>7, <2>8, <2>9
<1> HIDE DEF m
<1> QED
  BY <1>4, <1>8, <1>10

\* Node::Delete takes one entry of the id away and no other.
LEMMA DeleteNodeKeeps ==
  ASSUME NEW n \in SparseType, NEW v
  PROVE  /\ DeleteNode(n, v) \in SparseType
         /\ \A d \in Members(n) : d # v => d \in Members(DeleteNode(n, v))
<1> DEFINE L == n.list
           k == Len(L)
           i == FirstAt(L, v)
           R == [j \in 1..(k - 1) |-> IF j < i THEN L[j] ELSE L[j + 1]]
           m == DeleteSparse(n, v)
<1>1. n.dense = FALSE /\ L \in Seq(Nat) /\ k \in Nat /\ n.size \in Int
  <2>1. n.dense = FALSE /\ n.list \in Seq(Nat) /\ n.size \in Int
    BY DEF SparseType
  <2> QED
    BY <2>1
<1>2. DeleteNode(n, v) = m
  BY <1>1 DEF DeleteNode
<1>3. Members(n) = {L[j] : j \in 1 .. k}
  BY <1>1 DEF Members
<1>4. CASE v \notin Members(n)
  <2>1. m = n
    BY <1>4 DEF DeleteSparse
  <2> QED
    BY <2>1, <1>2
<1>5. CASE v \in Members(n)
  <2>1. i \in 1 .. k /\ L[i] = v
    <3> HIDE DEF L, k, i
    <3> DEFINE S == {j \in 1 .. k : L[j] = v}
    <3>1. S \subseteq Nat /\ S # {}
      BY <1>3, <1>5
    <3>2. PICK j \in S : \A h \in S : j <= h
      BY <3>1, LeastNumber
    <3>3. \A h \in 1 .. (j - 1) : L[h] # v
      BY <3>2, <1>1
    <3>4. i = CHOOSE x \in 1 .. k : L[x] = v /\ \A h \in 1 .. (x - 1) : L[h] # v
      BY DEF i, FirstAt, k
    <3>5. \E x \in 1 .. k : L[x] = v /\ \A h \in 1 .. (x - 1) : L[h] # v
      BY <3>2, <3>3, Zenon
    <3> QED
      BY <3>4, <3>5, Zenon
  <2>2. /\ m = [n EXCEPT !.list = R, !.size = @ - 1]
    BY <1>5 DEF DeleteSparse
  <2> HIDE DEF i
  <2>3. R \in Seq(Nat) /\ Len(R) = k - 1
    <3> HIDE DEF L, k
    <3>1. \A j \in 1..(k - 1) : j \in 1..k /\ j + 1 \in 1..k
      BY <1>1
    <3>2. \A j \in 1..k : L[j] \in Nat
      BY <1>1 DEF k
    <3>3. R \in [1..(k - 1) -> Nat]
      BY <3>1, <3>2
    <3>4. k - 1 \in Nat
      BY <2>1, <1>1
    <3> HIDE DEF R
    <3> QED
      BY <3>3, <3>4
  <2> HIDE DEF R, m
  <2>4. m \in SparseType /\ m.dense = FALSE /\ m.list = R
    <3>1. n.size - 1 \in Int /\ m = [n EXCEPT !.list = R, !.size = n.size - 1]
      BY <1>1, <2>2
    <3> HIDE DEF L
    <3> QED
      BY <3>1, <2>3 DEF SparseType
  <2>5. Members(m) = {R[j] : j \in 1 .. k - 1}
    BY <2>3, <2>4 DEF Members
  <2>6. ASSUME NEW d \in Members(n), d # v PROVE d \in Members(m)
    <3> HIDE DEF L, k
    <3>1. PICK h \in 1 .. k : L[h] = d
      BY <1>3
    <3>2. h \in Int /\ i \in Int /\ h # i
      BY <2>1, <2>6, <3>1
    <3>3. CASE h < i
      <4>1. h \in 1 .. k - 1 /\ R[h] = L[h]
        BY <3>2, <3>3, <1>1, <2>1 DEF R
      <4> QED
        BY <4>1, <3>1, <2>5
    <3>4. CASE h > i
      <4>1. h - 1 \in 1 .. k - 1 /\ ~(h - 1 < i) /\ h - 1 + 1 = h
        BY <3>2, <3>4, <1>1, <2>1
      <4>2. R[h - 1] = L[h]
        BY <4>1 DEF R
      <4> QED
        BY <4>1, <4>2, <3>1, <2>5
    <3> QED
      BY <3>2, <3>3, <3>4
  <2> QED
    BY <2>4, <2>6, <1>2
<1> QED
  BY <1>4, <1>5

-----------------------------------------------------------------------------
(* The steps.                                                              *)

\* What Append does to length and items.
LEMMA Appended ==
  ASSUME NEW S, NEW s \in Seq(S), NEW x \in S
  PROVE  /\ Append(s, x) \in Seq(S) /\ Len(s) \in Nat
         /\ Len(Append(s, x)) = Len(s) + 1
         /\ \A i \in 1 .. Len(s) : Append(s, x)[i] = s[i]
         /\ Append(s, x)[Len(s) + 1] = x
  OBVIOUS

\* The fields of an operation.
LEMMA OpFields ==
  /\ \A op \in Op : op.type \in {"ADD", "DELETE"} /\ op.doc \in Docs
                     /\ op.value \in Values \cup {NoValue} /\ op # NoOp
  /\ NoOp.type = "NONE"
  BY DEF Op, NoOp

\* The fields of an ADD.
LEMMA AddOpFields ==
  ASSUME NEW d \in Docs
  PROVE  AddOp(d) \in Op /\ AddOp(d).type = "ADD" /\ AddOp(d).doc = d
  BY DEF AddOp, Op

\* An empty index satisfies the invariant.
LEMMA InitHolds == Init => IInv
<1> SUFFICES ASSUME Init PROVE IInv
  OBVIOUS
<1>1. /\ table = << >> /\ deleted = {} /\ queue = << >> /\ held = NoOp /\ read = NoValue
      /\ node = [v \in Values |-> NewNode] /\ caller = Idle /\ updates = 0
  BY DEF Init
<1>2. Len(table) = 0 /\ Len(queue) = 0 /\ Size = 0
  BY <1>1 DEF Size
<1>3. TypeOK
  <2>1. 0 \in Docs /\ Idle \in CallerType
    BY Bounds DEF Docs, Idle, CallerType
  <2>2. table \in Seq(Values) /\ queue \in Seq(Op)
    BY <1>1
  <2> QED
    BY <1>1, <1>2, <2>1, <2>2, Bounds DEF TypeOK
<1>4. NodesAreArrays
  BY <1>1, NewNodeIsArray DEF NodesAreArrays
<1>5. OpsAreReal /\ DeletesComeFirst /\ DeletesAreFollowed /\ StaleReadsAreRepeated
  BY <1>1, <1>2, OpFields
  DEF OpsAreReal, DeletesComeFirst, DeletesAreFollowed, StaleReadsAreRepeated, Idle
<1>6. FoundOrPending
  BY <1>2 DEF FoundOrPending
<1> QED
  BY <1>3, <1>4, <1>5, <1>6 DEF IInv

\* A document is found when its value's node lists it.

\* The invariant with the definitions that a step primes written out.
LEMMA FollowedMeans ==
  DeletesAreFollowed <=>
    /\ \A i \in 1 .. Len(queue) : queue[i].type = "DELETE" =>
         queue[i].doc \in deleted \/ ComingFrom(queue, caller, queue[i].doc)
    /\ held.type = "DELETE" =>
         held.doc \in deleted \/ ComingFrom(queue, caller, held.doc)
  BY DEF DeletesAreFollowed, Coming

\* The same of the value that was read and is repeated.
LEMMA RepeatedMeans ==
  StaleReadsAreRepeated <=>
    (held.type = "ADD" /\ read # NoValue =>
       read = table[held.doc + 1] \/ ComingFrom(queue, caller, held.doc))
  BY DEF StaleReadsAreRepeated, Value, Coming

\* The same of documents found or pending.
LEMMA FoundMeans ==
  FoundOrPending <=>
    \A d \in 0 .. Len(table) - 1 : d \notin deleted =>
      \/ d \in Members(node[table[d + 1]])
      \/ held.type = "ADD" /\ held.doc = d
      \/ ComingFrom(queue, caller, d)
  BY DEF FoundOrPending, Matches, Value, Size, PendingAdd, ComingFrom

\* The types of all variables, as facts.
LEMMA Typed ==
  ASSUME IInv
  PROVE  /\ table \in Seq(Values) /\ Len(table) \in Nat /\ Len(table) <= MaxDocs
         /\ \A d \in 0 .. Len(table) - 1 : table[d + 1] \in Values
         /\ deleted \subseteq 0 .. Len(table) - 1
         /\ queue \in Seq(Op) /\ Len(queue) \in Nat
         /\ \A i \in 1 .. Len(queue) :
              queue[i] \in Op /\ queue[i].doc \in 0 .. Len(table) - 1
         /\ held \in Op \cup {NoOp}
         /\ held # NoOp => held \in Op /\ held.doc \in 0 .. Len(table) - 1
         /\ read \in Values \cup {NoValue}
         /\ caller \in CallerType /\ updates \in 0 .. MaxUpdates
         /\ node \in [Values -> SparseType]
<1>1. TypeOK /\ OpsAreReal /\ NodesAreArrays
  BY DEF IInv
<1>2. /\ table \in Seq(Values) /\ Len(table) \in Nat /\ Len(table) <= MaxDocs
      /\ deleted \subseteq 0 .. Len(table) - 1
      /\ queue \in Seq(Op) /\ Len(queue) \in Nat
      /\ held \in Op \cup {NoOp} /\ read \in Values \cup {NoValue}
      /\ caller \in CallerType /\ updates \in 0 .. MaxUpdates
      /\ node \in [Values -> SparseType]
  BY <1>1 DEF TypeOK, NodesAreArrays, Size
<1>3. \A d \in 0 .. Len(table) - 1 : table[d + 1] \in Values
  BY <1>2
<1>4. \A i \in 1 .. Len(queue) : queue[i] \in Op
  BY <1>2
<1>5. \A op \in Op : op.doc < Len(table) => op.doc \in 0 .. Len(table) - 1
  BY <1>2, OpFields, Bounds DEF Docs
<1>6. \A i \in 1 .. Len(queue) : queue[i].doc \in 0 .. Len(table) - 1
  BY <1>1, <1>4, <1>5 DEF OpsAreReal, Size
<1>7. held # NoOp => held \in Op /\ held.doc \in 0 .. Len(table) - 1
  BY <1>1, <1>2, <1>5 DEF OpsAreReal, Size
<1> QED
  BY <1>2, <1>3, <1>4, <1>6, <1>7

\* An operation queued last: what was coming still comes, and its document.
LEMMA QueuedLast ==
  ASSUME NEW ops \in Seq(Op), NEW op \in Op, NEW call
  PROVE  LET more == Append(ops, op)
         IN  /\ more \in Seq(Op) /\ Len(more) = Len(ops) + 1 /\ Len(ops) \in Nat
             /\ \A i \in 1 .. Len(ops) : more[i] = ops[i]
             /\ more[Len(ops) + 1] = op
             /\ \A d : ComingFrom(ops, call, d) => ComingFrom(more, call, d)
             /\ op.type = "ADD" => ComingFrom(more, call, op.doc)
<1> DEFINE more == Append(ops, op)
<1>1. /\ more \in Seq(Op) /\ Len(more) = Len(ops) + 1 /\ Len(ops) \in Nat
      /\ \A i \in 1 .. Len(ops) : more[i] = ops[i]
      /\ more[Len(ops) + 1] = op
  BY Appended
<1> HIDE DEF more
<1>2. \A d : ComingFrom(ops, call, d) => ComingFrom(more, call, d)
  BY <1>1 DEF ComingFrom
<1>3. op.type = "ADD" => ComingFrom(more, call, op.doc)
  BY <1>1 DEF ComingFrom
<1> QED
  BY <1>1, <1>2, <1>3 DEF more

\* A document and its ADD, queued last.
LEMMA AddDocKeeps ==
  ASSUME IInv, NEW v \in Values, AddDoc(v)
  PROVE  IInv'
<1> DEFINE n == Len(table)
           op == AddOp(Size)
<1>1. /\ caller.pc = "idle" /\ n < MaxDocs
      /\ table' = Append(table, v) /\ queue' = Append(queue, op)
      /\ UNCHANGED <<deleted, held, read, node, caller, updates>>
  BY DEF AddDoc, Size
<1>2. n \in Nat /\ op \in Op /\ op.type = "ADD" /\ op.doc = n
  BY <1>1, Typed, Bounds, AddOpFields DEF Docs, Size
<1>3. /\ table' \in Seq(Values) /\ Len(table') = n + 1
      /\ \A d \in 0 .. n - 1 : table'[d + 1] = table[d + 1]
  <2>1. /\ table' \in Seq(Values) /\ Len(table') = n + 1
        /\ \A i \in 1 .. n : table'[i] = table[i]
    BY <1>1, Typed, Appended
  <2> QED
    BY <2>1, <1>2
<1>4. /\ queue' \in Seq(Op) /\ Len(queue') = Len(queue) + 1 /\ Len(queue) \in Nat
      /\ \A i \in 1 .. Len(queue) : queue'[i] = queue[i]
      /\ queue'[Len(queue) + 1] = op
      /\ \A d : ComingFrom(queue, caller, d) => ComingFrom(queue', caller', d)
      /\ ComingFrom(queue', caller', n)
  BY <1>1, <1>2, Typed, QueuedLast
<1> HIDE DEF n, op
<1>5. 0 .. n - 1 \subseteq 0 .. (n + 1) - 1
  BY <1>2
<1>6. TypeOK'
  <2>1. n + 1 <= MaxDocs
    BY <1>1, <1>2, Bounds
  <2>2. deleted \subseteq 0 .. (n + 1) - 1
    BY <1>5, Typed DEF n
  <2> QED
    BY <1>1, <1>3, <1>4, <2>1, <2>2, Typed DEF TypeOK, Size
<1>7. NodesAreArrays'
  BY <1>1 DEF IInv, NodesAreArrays
<1>8. OpsAreReal'
  <2>1. ASSUME NEW i \in 1 .. Len(queue') PROVE queue'[i].doc < n + 1
    <3>1. CASE i \in 1 .. Len(queue)
      <4>1. queue[i].doc \in 0 .. n - 1
        BY <3>1, Typed DEF n
      <4> QED
        BY <4>1, <3>1, <1>2, <1>4
    <3>2. CASE i = Len(queue) + 1
      BY <3>2, <1>2, <1>4
    <3> QED
      BY <3>1, <3>2, <1>4
  <2>2. held # NoOp => held.doc < n + 1
    <3>1. held # NoOp => held.doc \in 0 .. n - 1
      BY Typed DEF n
    <3> QED
      BY <3>1, <1>2
  <2>3. read # NoValue => held.type = "ADD"
    BY DEF IInv, OpsAreReal
  <2> QED
    BY <2>1, <2>2, <2>3, <1>1, <1>3 DEF OpsAreReal, Size
<1>9. DeletesComeFirst'
  <2> SUFFICES ASSUME NEW i \in 2 .. Len(queue') PROVE queue'[i].type = "ADD"
    BY DEF DeletesComeFirst
  <2>1. CASE i \in 2 .. Len(queue)
    BY <2>1, <1>4 DEF IInv, DeletesComeFirst
  <2>2. CASE i = Len(queue) + 1
    BY <2>2, <1>2, <1>4
  <2> QED
    BY <2>1, <2>2, <1>4
<1>10. DeletesAreFollowed'
  <2>1. held.type = "DELETE" => held.doc \in deleted \/ ComingFrom(queue', caller', held.doc)
    BY <1>4, FollowedMeans DEF IInv
  <2>2. ASSUME NEW i \in 1 .. Len(queue'), queue'[i].type = "DELETE"
        PROVE  queue'[i].doc \in deleted \/ ComingFrom(queue', caller', queue'[i].doc)
    <3>1. i \in 1 .. Len(queue) /\ queue'[i] = queue[i]
      BY <2>2, <1>2, <1>4
    <3>2. queue[i].doc \in deleted \/ ComingFrom(queue, caller, queue[i].doc)
      BY <2>2, <3>1, FollowedMeans DEF IInv
    <3> QED
      BY <3>1, <3>2, <1>4
  <2> QED
    BY <2>1, <2>2, <1>1 DEF DeletesAreFollowed, Coming
<1>11. StaleReadsAreRepeated'
  <2> SUFFICES ASSUME held.type = "ADD", read # NoValue
               PROVE  read = table'[held.doc + 1] \/ ComingFrom(queue', caller', held.doc)
    BY <1>1 DEF StaleReadsAreRepeated, Value, Coming
  <2>1. held.doc \in 0 .. n - 1
    BY Typed, OpFields DEF n
  <2>2. read = table[held.doc + 1] \/ ComingFrom(queue, caller, held.doc)
    BY RepeatedMeans DEF IInv
  <2> QED
    BY <2>1, <2>2, <1>3, <1>4
<1>12. FoundOrPending'
  <2> SUFFICES ASSUME NEW d \in 0 .. n, d \notin deleted
               PROVE  \/ d \in Members(node[table'[d + 1]])
                      \/ held.type = "ADD" /\ held.doc = d
                      \/ ComingFrom(queue', caller', d)
    BY <1>1, <1>2, <1>3
    DEF FoundOrPending, Matches, Value, Size, PendingAdd, ComingFrom
  <2>1. CASE d \in 0 .. n - 1
    BY <2>1, <1>3, <1>4, FoundMeans DEF IInv, n
  <2>2. CASE d = n
    BY <2>2, <1>4
  <2> QED
    BY <2>1, <2>2, <1>2
<1> QED
  BY <1>6, <1>7, <1>8, <1>9, <1>10, <1>11, <1>12 DEF IInv

\* A step of the caller that leaves the queue and the table alone and after
\* which what was coming still comes.
LEMMA CallerSteps ==
  ASSUME IInv, UNCHANGED <<table, queue, held, read, node>>, deleted \subseteq deleted',
         \A d : ComingFrom(queue, caller, d) => ComingFrom(queue, caller', d)
  PROVE  /\ NodesAreArrays' /\ DeletesComeFirst' /\ DeletesAreFollowed'
         /\ StaleReadsAreRepeated' /\ FoundOrPending'
<1>1. NodesAreArrays' /\ DeletesComeFirst'
  BY DEF IInv, NodesAreArrays, DeletesComeFirst
<1>2. DeletesAreFollowed'
  <2>1. /\ \A i \in 1 .. Len(queue) : queue[i].type = "DELETE" =>
             queue[i].doc \in deleted' \/ ComingFrom(queue, caller', queue[i].doc)
        /\ held.type = "DELETE" =>
             held.doc \in deleted' \/ ComingFrom(queue, caller', held.doc)
    BY FollowedMeans DEF IInv
  <2> QED
    BY <2>1 DEF DeletesAreFollowed, Coming
<1>3. StaleReadsAreRepeated'
  <2>1. held.type = "ADD" /\ read # NoValue =>
          read = table[held.doc + 1] \/ ComingFrom(queue, caller', held.doc)
    BY RepeatedMeans DEF IInv
  <2> QED
    BY <2>1 DEF StaleReadsAreRepeated, Value, Coming
<1>4. FoundOrPending'
  <2>1. \A d \in 0 .. Len(table) - 1 : d \notin deleted' =>
          \/ d \in Members(node[table[d + 1]])
          \/ held.type = "ADD" /\ held.doc = d
          \/ ComingFrom(queue, caller', d)
    BY FoundMeans DEF IInv
  <2> QED
    BY <2>1 DEF FoundOrPending, Matches, Value, Size, PendingAdd, ComingFrom
<1> QED
  BY <1>1, <1>2, <1>3, <1>4

\* An update reads the old value.
LEMMA UpdateCaptureKeeps ==
  ASSUME IInv, NEW d \in Docs, NEW v \in Values, UpdateCapture(d, v)
  PROVE  IInv'
<1>1. /\ caller.pc = "idle" /\ updates < MaxUpdates /\ d < Size
      /\ caller' = [pc |-> "wait", doc |-> d, old |-> Captured(d), new |-> v]
      /\ updates' = updates + 1
      /\ UNCHANGED <<table, deleted, queue, held, read, node>>
  BY DEF UpdateCapture
<1>2. Captured(d) \in Values \cup {NoValue}
  BY <1>1, Typed, Bounds DEF Captured, Value, Size, Docs
<1>3. TypeOK'
  <2>1. caller' \in CallerType /\ updates' \in 0 .. MaxUpdates
    BY <1>1, <1>2, Typed, Bounds DEF CallerType
  <2> QED
    BY <1>1, <2>1 DEF IInv, TypeOK, Size
<1>4. OpsAreReal'
  BY <1>1, Bounds DEF IInv, OpsAreReal, Size
<1>5. \A x : ComingFrom(queue, caller, x) => ComingFrom(queue, caller', x)
  BY <1>1 DEF ComingFrom
<1>6. /\ NodesAreArrays' /\ DeletesComeFirst' /\ DeletesAreFollowed'
      /\ StaleReadsAreRepeated' /\ FoundOrPending'
  BY <1>1, <1>5, CallerSteps
<1> QED
  BY <1>3, <1>4, <1>6 DEF IInv

\* A delete reads the value it will take away.
LEMMA DeleteCaptureKeeps ==
  ASSUME IInv, NEW d \in Docs, DeleteCapture(d)
  PROVE  IInv'
<1>1. /\ caller.pc = "idle" /\ updates < MaxUpdates /\ d < Size
      /\ deleted' = deleted \cup {d}
      /\ caller' = [pc |-> "wait", doc |-> d, old |-> Captured(d), new |-> NoValue]
      /\ updates' = updates + 1
      /\ UNCHANGED <<table, queue, held, read, node>>
  BY DEF DeleteCapture
<1>2. Captured(d) \in Values \cup {NoValue} /\ d \in 0 .. Len(table) - 1
  BY <1>1, Typed, Bounds DEF Captured, Value, Size, Docs
<1>3. TypeOK'
  <2>1. caller' \in CallerType /\ updates' \in 0 .. MaxUpdates
    BY <1>1, <1>2, Typed, Bounds DEF CallerType
  <2>2. deleted' \subseteq 0 .. Len(table) - 1
    BY <1>1, <1>2, Typed
  <2> QED
    BY <1>1, <2>1, <2>2 DEF IInv, TypeOK, Size
<1>4. OpsAreReal'
  <2>1. caller'.doc = d /\ caller'.pc = "wait" /\ d \in deleted'
    BY <1>1
  <2> QED
    BY <1>1, <2>1 DEF IInv, OpsAreReal, Size
<1>5. \A x : ComingFrom(queue, caller, x) => ComingFrom(queue, caller', x)
  BY <1>1 DEF ComingFrom
<1>6. /\ NodesAreArrays' /\ DeletesComeFirst' /\ DeletesAreFollowed'
      /\ StaleReadsAreRepeated' /\ FoundOrPending'
  BY <1>1, <1>5, CallerSteps
<1> QED
  BY <1>3, <1>4, <1>6 DEF IInv

\* The queue is empty: what the worker holds is all that is on its way.
LEMMA PushDeleteKeeps ==
  ASSUME IInv, PushDelete
  PROVE  IInv'
<1> DEFINE op == [type |-> "DELETE", doc |-> caller.doc, value |-> caller.old]
<1>1. /\ caller.pc = "wait" /\ queue = << >> /\ queue' = <<op>>
      /\ caller' = IF caller.new = NoValue THEN Idle ELSE [caller EXCEPT !.pc = "write"]
      /\ UNCHANGED <<table, deleted, held, read, node, updates>>
  BY DEF PushDelete
<1>2. /\ caller \in CallerType /\ caller.doc \in Docs /\ caller.doc < Size
      /\ caller.new = NoValue => caller.doc \in deleted
  BY <1>1, Typed DEF IInv, OpsAreReal, CallerType
<1>3. op \in Op /\ op.type = "DELETE" /\ op.doc = caller.doc
  BY <1>2 DEF Op, CallerType
<1> HIDE DEF op
<1>4. Len(queue) = 0 /\ Len(queue') = 1 /\ queue'[1] = op /\ queue' \in Seq(Op)
  BY <1>1, <1>3
<1>5. /\ caller' \in CallerType
      /\ caller.new # NoValue => /\ caller'.pc = "write" /\ caller'.doc = caller.doc
                                 /\ caller'.new # NoValue
      /\ caller.new = NoValue => caller'.pc = "idle"
  <2>1. CASE caller.new = NoValue
    <3>1. caller' = Idle
      BY <1>1, <2>1
    <3> QED
      BY <2>1, <3>1, Bounds DEF Idle, CallerType, Docs
  <2>2. CASE caller.new # NoValue
    BY <1>1, <1>2, <2>2 DEF CallerType
  <2> QED
    BY <2>1, <2>2
<1>6. \A d : ~ComingFrom(queue, caller, d)
  BY <1>1, <1>4 DEF ComingFrom
<1>7. TypeOK'
  BY <1>1, <1>4, <1>5 DEF IInv, TypeOK, Size
<1>8. NodesAreArrays' /\ DeletesComeFirst'
  BY <1>1, <1>4 DEF IInv, NodesAreArrays, DeletesComeFirst
<1>9. OpsAreReal'
  BY <1>1, <1>2, <1>3, <1>4, <1>5 DEF IInv, OpsAreReal, Size
<1>10. DeletesAreFollowed'
  <2>1. held.type = "DELETE" => held.doc \in deleted
    BY <1>6, FollowedMeans DEF IInv
  <2>2. op.doc \in deleted \/ ComingFrom(queue', caller', op.doc)
    BY <1>2, <1>3, <1>5 DEF ComingFrom
  <2>3. \A i \in 1 .. Len(queue') : queue'[i] = op
    BY <1>4
  <2> QED
    BY <2>1, <2>2, <2>3, <1>1 DEF DeletesAreFollowed, Coming
<1>11. StaleReadsAreRepeated'
  <2>1. held.type = "ADD" /\ read # NoValue => read = table[held.doc + 1]
    BY <1>6, RepeatedMeans DEF IInv
  <2> QED
    BY <2>1, <1>1 DEF StaleReadsAreRepeated, Value
<1>12. FoundOrPending'
  <2>1. \A d \in 0 .. Len(table) - 1 : d \notin deleted =>
          \/ d \in Members(node[table[d + 1]])
          \/ held.type = "ADD" /\ held.doc = d
    BY <1>6, FoundMeans DEF IInv
  <2> QED
    BY <2>1, <1>1 DEF FoundOrPending, Matches, Value, Size, PendingAdd
<1> QED
  BY <1>7, <1>8, <1>9, <1>10, <1>11, <1>12 DEF IInv

\* The value of the document changes; its ADD is about to be pushed.
LEMMA TableUpdateKeeps ==
  ASSUME IInv, TableUpdate
  PROVE  IInv'
<1> DEFINE c == caller.doc
<1>1. /\ caller.pc = "write"
      /\ table' = IF Column THEN table ELSE [table EXCEPT ![c + 1] = caller.new]
      /\ caller' = [caller EXCEPT !.pc = "add"]
      /\ UNCHANGED <<deleted, queue, held, read, node, updates>>
  BY DEF TableUpdate
<1>2. /\ caller \in CallerType /\ c \in 0 .. Len(table) - 1
      /\ caller.new \in Values
  BY <1>1, Typed DEF IInv, OpsAreReal, CallerType, Docs, Size
<1>3. caller' \in CallerType /\ caller'.pc = "add" /\ caller'.doc = c /\ caller'.new = caller.new
  BY <1>1, <1>2 DEF CallerType
<1> HIDE DEF c
<1>4. /\ table' \in Seq(Values) /\ Len(table') = Len(table)
      /\ \A d \in 0 .. Len(table) - 1 : d # c => table'[d + 1] = table[d + 1]
  BY <1>1, <1>2, Typed
<1>5. \A d : ComingFrom(queue, caller, d) => ComingFrom(queue, caller', d)
  BY <1>1, <1>3 DEF ComingFrom, c
<1>6. ComingFrom(queue, caller', c)
  BY <1>3 DEF ComingFrom
<1>7. TypeOK'
  BY <1>1, <1>3, <1>4 DEF IInv, TypeOK, Size
<1>8. NodesAreArrays' /\ DeletesComeFirst'
  BY <1>1 DEF IInv, NodesAreArrays, DeletesComeFirst
<1>9. OpsAreReal'
  <2>1. caller'.doc < Len(table') /\ caller'.new # NoValue
    BY <1>2, <1>3, <1>4, Bounds, Typed
  <2> QED
    BY <2>1, <1>1, <1>4 DEF IInv, OpsAreReal, Size
<1>10. DeletesAreFollowed'
  <2>1. /\ \A i \in 1 .. Len(queue) : queue[i].type = "DELETE" =>
             queue[i].doc \in deleted \/ ComingFrom(queue, caller', queue[i].doc)
        /\ held.type = "DELETE" =>
             held.doc \in deleted \/ ComingFrom(queue, caller', held.doc)
    BY <1>5, FollowedMeans DEF IInv
  <2> QED
    BY <2>1, <1>1 DEF DeletesAreFollowed, Coming
<1>11. StaleReadsAreRepeated'
  <2> SUFFICES ASSUME held.type = "ADD", read # NoValue
               PROVE  read = table'[held.doc + 1] \/ ComingFrom(queue, caller', held.doc)
    BY <1>1 DEF StaleReadsAreRepeated, Value, Coming
  <2>1. held.doc \in 0 .. Len(table) - 1
    BY Typed, OpFields
  <2>2. read = table[held.doc + 1] \/ ComingFrom(queue, caller, held.doc)
    BY RepeatedMeans DEF IInv
  <2> QED
    BY <2>1, <2>2, <1>4, <1>5, <1>6
<1>12. FoundOrPending'
  <2>1. ASSUME NEW d \in 0 .. Len(table) - 1, d \notin deleted
        PROVE  \/ d \in Members(node[table'[d + 1]])
               \/ held.type = "ADD" /\ held.doc = d
               \/ ComingFrom(queue, caller', d)
    BY <2>1, <1>4, <1>5, <1>6, FoundMeans DEF IInv
  <2> QED
    BY <2>1, <1>1, <1>4 DEF FoundOrPending, Matches, Value, Size, PendingAdd, ComingFrom
<1> QED
  BY <1>7, <1>8, <1>9, <1>10, <1>11, <1>12 DEF IInv

\* The ADD of an update is queued behind all that was.
LEMMA PushAddKeeps ==
  ASSUME IInv, PushAdd
  PROVE  IInv'
<1> DEFINE c == caller.doc
           op == AddOp(c)
<1>1. /\ caller.pc = "add" /\ queue' = Append(queue, op) /\ caller' = Idle
      /\ UNCHANGED <<table, deleted, held, read, node, updates>>
  BY DEF PushAdd
<1>2. c \in 0 .. Len(table) - 1 /\ c \in Docs
  BY <1>1, Typed DEF IInv, OpsAreReal, CallerType, Docs, Size
<1>3. op \in Op /\ op.type = "ADD" /\ op.doc = c
  BY <1>2, AddOpFields
<1>4. Idle \in CallerType /\ Idle.pc = "idle"
  BY Bounds DEF Idle, CallerType, Docs
<1>5. /\ queue' \in Seq(Op) /\ Len(queue') = Len(queue) + 1 /\ Len(queue) \in Nat
      /\ \A i \in 1 .. Len(queue) : queue'[i] = queue[i]
      /\ queue'[Len(queue) + 1] = op
  BY <1>1, <1>3, Typed, QueuedLast
<1>6. \A d : ComingFrom(queue, caller, d) => ComingFrom(queue', caller', d)
  <2> SUFFICES ASSUME NEW d, ComingFrom(queue, caller, d)
               PROVE  ComingFrom(queue', caller', d)
    OBVIOUS
  <2> HIDE DEF op
  <2>1. CASE d = c
    BY <2>1, <1>3, <1>5 DEF ComingFrom
  <2>2. CASE d # c
    <3>1. PICK i \in 1 .. Len(queue) : queue[i].type = "ADD" /\ queue[i].doc = d
      BY <2>2 DEF ComingFrom
    <3> QED
      BY <3>1, <1>5 DEF ComingFrom
  <2> QED
    BY <2>1, <2>2
<1> HIDE DEF c, op
<1>7. TypeOK'
  BY <1>1, <1>4, <1>5 DEF IInv, TypeOK, Size
<1>8. NodesAreArrays'
  BY <1>1 DEF IInv, NodesAreArrays
<1>9. DeletesComeFirst'
  <2> SUFFICES ASSUME NEW i \in 2 .. Len(queue') PROVE queue'[i].type = "ADD"
    BY DEF DeletesComeFirst
  <2>1. CASE i \in 2 .. Len(queue)
    BY <2>1, <1>5 DEF IInv, DeletesComeFirst
  <2>2. CASE i = Len(queue) + 1
    BY <2>2, <1>3, <1>5
  <2> QED
    BY <2>1, <2>2, <1>5
<1>10. OpsAreReal'
  <2>1. ASSUME NEW i \in 1 .. Len(queue') PROVE queue'[i].doc < Len(table)
    <3>1. CASE i \in 1 .. Len(queue)
      <4>1. queue[i].doc < Len(table)
        BY <3>1 DEF IInv, OpsAreReal, Size
      <4> QED
        BY <4>1, <3>1, <1>5
    <3>2. CASE i = Len(queue) + 1
      BY <3>2, <1>2, <1>3, <1>5, Typed
    <3> QED
      BY <3>1, <3>2, <1>5
  <2> QED
    BY <2>1, <1>1, <1>4 DEF IInv, OpsAreReal, Size
<1>11. DeletesAreFollowed'
  <2>1. held.type = "DELETE" => held.doc \in deleted \/ ComingFrom(queue', caller', held.doc)
    BY <1>6, FollowedMeans DEF IInv
  <2>2. ASSUME NEW i \in 1 .. Len(queue'), queue'[i].type = "DELETE"
        PROVE  queue'[i].doc \in deleted \/ ComingFrom(queue', caller', queue'[i].doc)
    <3>1. i \in 1 .. Len(queue) /\ queue'[i] = queue[i]
      BY <2>2, <1>3, <1>5
    <3>2. queue[i].doc \in deleted \/ ComingFrom(queue, caller, queue[i].doc)
      BY <2>2, <3>1, FollowedMeans DEF IInv
    <3> QED
      BY <3>1, <3>2, <1>6
  <2> QED
    BY <2>1, <2>2, <1>1 DEF DeletesAreFollowed, Coming
<1>12. StaleReadsAreRepeated'
  <2>1. held.type = "ADD" /\ read # NoValue =>
          read = table[held.doc + 1] \/ ComingFrom(queue', caller', held.doc)
    BY <1>6, RepeatedMeans DEF IInv
  <2> QED
    BY <2>1, <1>1 DEF StaleReadsAreRepeated, Value, Coming
<1>13. FoundOrPending'
  <2>1. \A d \in 0 .. Len(table) - 1 : d \notin deleted =>
          \/ d \in Members(node[table[d + 1]])
          \/ held.type = "ADD" /\ held.doc = d
          \/ ComingFrom(queue', caller', d)
    BY <1>6, FoundMeans DEF IInv
  <2> QED
    BY <2>1, <1>1 DEF FoundOrPending, Matches, Value, Size, PendingAdd, ComingFrom
<1> QED
  BY <1>7, <1>8, <1>9, <1>10, <1>11, <1>12, <1>13 DEF IInv

-----------------------------------------------------------------------------
(* The worker.                                                             *)

\* Behind the operation popped there are ADDs only.
LEMMA PopKeeps ==
  ASSUME IInv, Pop
  PROVE  IInv'
<1>1. /\ held = NoOp /\ queue # << >> /\ held' = Head(queue) /\ queue' = Tail(queue)
      /\ UNCHANGED <<table, deleted, read, node, caller, updates>>
  BY DEF Pop
<1>2. queue \in Seq(Op) /\ Len(queue) \in Nat
  BY Typed
<1>3. /\ Len(queue) >= 1 /\ held' = queue[1] /\ held' \in Op
      /\ queue' \in Seq(Op) /\ Len(queue') = Len(queue) - 1
      /\ \A i \in 1 .. Len(queue') : queue'[i] = queue[i + 1] /\ i + 1 \in 2 .. Len(queue)
  BY <1>1, <1>2
<1>4. \A i \in 1 .. Len(queue') : queue'[i].type = "ADD"
  BY <1>3 DEF IInv, DeletesComeFirst
<1>5. read = NoValue
  BY <1>1, OpFields DEF IInv, OpsAreReal
<1>6. ASSUME NEW d, ComingFrom(queue, caller, d)
      PROVE  (held'.type = "ADD" /\ held'.doc = d) \/ ComingFrom(queue', caller', d)
  <2>1. CASE caller.pc \in {"write", "add"} /\ caller.doc = d
    BY <2>1, <1>1 DEF ComingFrom
  <2>2. CASE \E i \in 1 .. Len(queue) : queue[i].type = "ADD" /\ queue[i].doc = d
    <3>1. PICK i \in 1 .. Len(queue) : queue[i].type = "ADD" /\ queue[i].doc = d
      BY <2>2
    <3>2. CASE i = 1
      BY <3>1, <3>2, <1>3
    <3>3. CASE i # 1
      <4>1. i - 1 \in 1 .. Len(queue') /\ i - 1 + 1 = i
        BY <3>3, <1>2, <1>3
      <4>2. queue'[i - 1] = queue[i]
        BY <4>1, <1>3
      <4> QED
        BY <3>1, <4>1, <4>2 DEF ComingFrom
    <3> QED
      BY <3>2, <3>3
  <2> QED
    BY <1>6, <2>1, <2>2 DEF ComingFrom
<1>7. TypeOK'
  BY <1>1, <1>3 DEF IInv, TypeOK, Size
<1>8. NodesAreArrays'
  BY <1>1 DEF IInv, NodesAreArrays
<1>9. DeletesComeFirst'
  BY <1>3, <1>4 DEF DeletesComeFirst
<1>10. OpsAreReal'
  <2>1. \A i \in 1 .. Len(queue') : queue'[i].doc < Len(table)
    <3>1. \A i \in 1 .. Len(queue) : queue[i].doc < Len(table)
      BY DEF IInv, OpsAreReal, Size
    <3> QED
      BY <3>1, <1>2, <1>3
  <2>2. held'.doc < Len(table)
    BY <1>2, <1>3 DEF IInv, OpsAreReal, Size
  <2> QED
    BY <2>1, <2>2, <1>1, <1>5 DEF IInv, OpsAreReal, Size
<1>11. DeletesAreFollowed'
  <2>1. ASSUME held'.type = "DELETE"
        PROVE  held'.doc \in deleted \/ ComingFrom(queue', caller', held'.doc)
    <3>1. queue[1].doc \in deleted \/ ComingFrom(queue, caller, queue[1].doc)
      BY <2>1, <1>2, <1>3, FollowedMeans DEF IInv
    <3> QED
      BY <2>1, <3>1, <1>3, <1>6
  <2> QED
    BY <2>1, <1>1, <1>4 DEF DeletesAreFollowed, Coming
<1>12. StaleReadsAreRepeated'
  BY <1>1, <1>5 DEF StaleReadsAreRepeated
<1>13. FoundOrPending'
  <2>1. ASSUME NEW d \in 0 .. Len(table) - 1, d \notin deleted
        PROVE  \/ d \in Members(node[table[d + 1]])
               \/ held'.type = "ADD" /\ held'.doc = d
               \/ ComingFrom(queue', caller', d)
    <3>1. d \in Members(node[table[d + 1]]) \/ ComingFrom(queue, caller, d)
      BY <2>1, <1>1, OpFields, FoundMeans DEF IInv
    <3> QED
      BY <3>1, <1>6
  <2> QED
    BY <2>1, <1>1 DEF FoundOrPending, Matches, Value, Size, PendingAdd, ComingFrom
<1> QED
  BY <1>7, <1>8, <1>9, <1>10, <1>11, <1>12, <1>13 DEF IInv

\* The worker reads the value of the document whose ADD it holds.
LEMMA ReadValueKeeps ==
  ASSUME IInv, ReadValue
  PROVE  IInv'
<1>1. /\ held.type = "ADD" /\ read' = table[held.doc + 1]
      /\ UNCHANGED <<table, deleted, queue, held, node, caller, updates>>
  BY DEF ReadValue, Value
<1>2. read' \in Values
  BY <1>1, Typed, OpFields
<1>3. TypeOK' /\ NodesAreArrays' /\ DeletesComeFirst'
  BY <1>1, <1>2 DEF IInv, TypeOK, NodesAreArrays, DeletesComeFirst, Size
<1>4. OpsAreReal'
  BY <1>1 DEF IInv, OpsAreReal, Size
<1>5. DeletesAreFollowed' /\ StaleReadsAreRepeated'
  BY <1>1 DEF IInv, DeletesAreFollowed, StaleReadsAreRepeated, Coming, Value
<1>6. FoundOrPending'
  BY <1>1 DEF IInv, FoundOrPending, Matches, Value, Size, PendingAdd
<1> QED
  BY <1>3, <1>4, <1>5, <1>6 DEF IInv

\* The document is listed under its value, or under one that will be
\* followed by an ADD of the same document.
LEMMA ApplyAddKeeps ==
  ASSUME StaysSparse, IInv, ApplyAdd
  PROVE  IInv'
<1> DEFINE h == held.doc
<1>1. /\ held.type = "ADD" /\ read # NoValue
      /\ node' = [node EXCEPT ![read] = AddNode(@, h)]
      /\ held' = NoOp /\ read' = NoValue
      /\ UNCHANGED <<table, deleted, queue, caller, updates>>
  BY DEF ApplyAdd
<1>2. /\ h \in 0 .. Len(table) - 1 /\ h \in Docs /\ read \in Values
      /\ node \in [Values -> SparseType]
  BY <1>1, Typed, OpFields
<1>3. /\ AddNode(node[read], h) \in SparseType
      /\ Members(AddNode(node[read], h)) = Members(node[read]) \cup {h}
  BY <1>2, AddNodeLists
<1>4. node' \in [Values -> SparseType]
  BY <1>1, <1>2, <1>3
<1>5. /\ \A v \in Values : Members(node[v]) \subseteq Members(node'[v])
      /\ h \in Members(node'[read])
  BY <1>1, <1>2, <1>3
<1> HIDE DEF h
<1>6. TypeOK' /\ NodesAreArrays' /\ DeletesComeFirst'
  BY <1>1, <1>4 DEF IInv, TypeOK, NodesAreArrays, DeletesComeFirst, Size
<1>7. OpsAreReal'
  BY <1>1 DEF IInv, OpsAreReal, Size
<1>8. DeletesAreFollowed' /\ StaleReadsAreRepeated'
  BY <1>1, OpFields DEF IInv, DeletesAreFollowed, StaleReadsAreRepeated, Coming
<1>9. FoundOrPending'
  <2>1. ASSUME NEW d \in 0 .. Len(table) - 1, d \notin deleted
        PROVE  d \in Members(node'[table[d + 1]]) \/ ComingFrom(queue, caller, d)
    <3>1. table[d + 1] \in Values
      BY Typed
    <3>2. CASE d = h
      <4>1. read = table[h + 1] \/ ComingFrom(queue, caller, h)
        BY <1>1, RepeatedMeans DEF IInv, h
      <4> QED
        BY <4>1, <3>2, <1>5
    <3>3. CASE d # h
      <4>1. d \in Members(node[table[d + 1]]) \/ ComingFrom(queue, caller, d)
        BY <2>1, <3>3, FoundMeans DEF IInv, h
      <4> QED
        BY <4>1, <3>1, <1>5
    <3> QED
      BY <3>2, <3>3
  <2> QED
    BY <2>1, <1>1 DEF FoundOrPending, Matches, Value, Size, PendingAdd, ComingFrom
<1> QED
  BY <1>6, <1>7, <1>8, <1>9 DEF IInv

\* What a DELETE takes away belongs to a deleted document or will be added
\* again.
LEMMA ApplyDeleteKeeps ==
  ASSUME IInv, ApplyDelete
  PROVE  IInv'
<1> DEFINE h == held.doc
<1>1. /\ held.type = "DELETE"
      /\ node' = IF held.value = NoValue THEN node
                 ELSE [node EXCEPT ![held.value] = DeleteNode(@, h)]
      /\ held' = NoOp
      /\ UNCHANGED <<table, deleted, queue, read, caller, updates>>
  BY DEF ApplyDelete
<1>2. held.value \in Values \cup {NoValue} /\ node \in [Values -> SparseType]
  BY <1>1, Typed, OpFields
<1>3. /\ node' \in [Values -> SparseType]
      /\ \A v \in Values : \A d \in Members(node[v]) : d # h => d \in Members(node'[v])
  <2>1. CASE held.value = NoValue
    BY <2>1, <1>1, <1>2
  <2>2. CASE held.value # NoValue
    <3> DEFINE w == held.value
    <3>1. w \in Values /\ node[w] \in SparseType /\ node' = [node EXCEPT ![w] = DeleteNode(node[w], h)]
      BY <2>2, <1>1, <1>2
    <3>2. /\ DeleteNode(node[w], h) \in SparseType
          /\ \A d \in Members(node[w]) : d # h => d \in Members(DeleteNode(node[w], h))
      BY <3>1, DeleteNodeKeeps
    <3> HIDE DEF w, h
    <3> QED
      BY <3>1, <3>2, <1>2
  <2> QED
    BY <2>1, <2>2
<1>4. h \in deleted \/ ComingFrom(queue, caller, h)
  BY <1>1, FollowedMeans DEF IInv
<1>5. read = NoValue
  BY <1>1 DEF IInv, OpsAreReal
<1> HIDE DEF h
<1>6. TypeOK' /\ NodesAreArrays' /\ DeletesComeFirst'
  BY <1>1, <1>3 DEF IInv, TypeOK, NodesAreArrays, DeletesComeFirst, Size
<1>7. OpsAreReal'
  BY <1>1, <1>5 DEF IInv, OpsAreReal, Size
<1>8. DeletesAreFollowed' /\ StaleReadsAreRepeated'
  BY <1>1, OpFields DEF IInv, DeletesAreFollowed, StaleReadsAreRepeated, Coming
<1>9. FoundOrPending'
  <2>1. ASSUME NEW d \in 0 .. Len(table) - 1, d \notin deleted
        PROVE  d \in Members(node'[table[d + 1]]) \/ ComingFrom(queue, caller, d)
    <3>1. table[d + 1] \in Values
      BY Typed
    <3>2. d \in Members(node[table[d + 1]]) \/ ComingFrom(queue, caller, d)
      BY <2>1, <1>1, FoundMeans DEF IInv
    <3> QED
      BY <2>1, <3>1, <3>2, <1>3, <1>4
  <2> QED
    BY <2>1, <1>1 DEF FoundOrPending, Matches, Value, Size, PendingAdd, ComingFrom
<1> QED
  BY <1>6, <1>7, <1>8, <1>9 DEF IInv

-----------------------------------------------------------------------------
(* The theorems.                                                           *)

\* Every step of the callers and the worker keeps the invariant.
LEMMA StepHolds ==
  ASSUME StaysSparse, IInv, [Next]_vars
  PROVE  IInv'
<1>1. CASE UNCHANGED vars
  BY <1>1 DEF vars, IInv, TypeOK, NodesAreArrays, OpsAreReal, DeletesComeFirst,
              DeletesAreFollowed, StaleReadsAreRepeated, FoundOrPending, Matches,
              Value, Size, PendingAdd, Coming
<1>2. CASE Call
  BY <1>2, AddDocKeeps, UpdateCaptureKeeps, DeleteCaptureKeeps DEF Call
<1>3. CASE Continue
  BY <1>3, PushDeleteKeeps, TableUpdateKeeps, PushAddKeeps DEF Continue
<1>4. CASE Worker
  BY <1>4, PopKeeps, ReadValueKeeps, ApplyAddKeeps, ApplyDeleteKeeps DEF Worker
<1> QED
  BY <1>1, <1>2, <1>3, <1>4 DEF Next

\* While the nodes stay arrays, the queue, the worker and the callers keep to
\* the order that makes repeated reads of the table safe.
THEOREM InvariantHolds == StaysSparse => (Spec => []IInv)
<1> SUFFICES ASSUME StaysSparse PROVE Spec => []IInv
  OBVIOUS
<1>1. IInv /\ [Next]_vars => IInv'
  BY StepHolds
<1> QED
  BY <1>1, InitHolds, PTL DEF Spec

\* Until an index has ids that span more than the spread, a document that is
\* not deleted is found under its value or an operation that lists it there
\* is queued, held by the worker or about to be pushed by the update.
THEOREM ValuesAreFound == StaysSparse => (Spec => []QueueInv)
<1> SUFFICES ASSUME StaysSparse PROVE Spec => []QueueInv
  OBVIOUS
<1>1. IInv => QueueInv
  BY DEF IInv, QueueInv
<1> QED
  BY <1>1, InvariantHolds, PTL

-----------------------------------------------------------------------------
(* The words of documents (TextRetrieval): the invariant of the walk.      *)

Ascends(list) == \A j, k \in DOMAIN list : j < k => list[j] < list[k]
Climbs(list) == \A j, k \in DOMAIN list : j <= k => list[j] <= list[k]

\* Documents are noted in the order of their ids.
ListsAscend ==
  \A w \in Words : inverted[w] \in Seq(0 .. (textDocs - 1)) /\ Ascends(inverted[w])

ListOf(q, i) == inverted[q[i]]

\* The documents found are those that hold every word.
FoundAll(q, hits) ==
  /\ q \in TextQueries /\ hits \in Seq(Ids)
  /\ ToSet(hits) = Holding(q)
  /\ Climbs(hits)
  /\ Len(q) > 1 => IsInjective(hits)

\* What was found so far holds every word, and all that do so were found or
\* are not before the farthest document.
FoundSoFar(q, hits, start) ==
  /\ ToSet(hits) \subseteq Holding(q)
  /\ \A d \in Holding(q) : d \in ToSet(hits) \/ d >= start
  /\ Climbs(hits)
  /\ \A n \in DOMAIN hits : hits[n] <= start
  /\ Len(q) > 1 => IsInjective(hits)

\* The lists walked to the farthest document, start, have passed it; the others
\* are before it, unless it is a hit that all have passed.
Passed(list, p, start) == \E k \in DOMAIN list : k < p /\ list[k] = start
Before(list, p, start) == \A k \in DOMAIN list : k < p => list[k] < start
Reached(q, hits, start, base, count, pos) ==
  /\ start \in ToSet(ListOf(q, base))
  /\ \A i \in DOMAIN q : \A k \in DOMAIN ListOf(q, i) :
       k < pos[i] => ListOf(q, i)[k] <= start
  /\ \A i \in DOMAIN q \ {base} :
       /\ i >= count => start \in ToSet(hits) \/ Before(ListOf(q, i), pos[i], start)
       /\ i < count \/ start \in ToSet(hits) => Passed(ListOf(q, i), pos[i], start)
  /\ start \in ToSet(hits) /\ Len(q) > 1 => count = 1 \/ (count = 2 /\ base = 1)

WalkTypes(q, hits, start, base, count, pos) ==
  /\ q \in TextQueries /\ hits \in Seq(Ids)
  /\ start \in Ids /\ base \in DOMAIN q /\ count \in 1 .. (Len(q) + 1)
  /\ pos \in [DOMAIN q -> Nat]

Walking(q, hits, start, base, count, pos) ==
  /\ WalkTypes(q, hits, start, base, count, pos)
  /\ FoundSoFar(q, hits, start)
  /\ Reached(q, hits, start, base, count, pos)

SeekOf(q, hits, start, base, count, pos) ==
  [pc |-> "seek", query |-> q, hits |-> hits, start |-> start, base |-> base,
   count |-> count, pos |-> pos]

TextIInv ==
  /\ textDocs \in 0 .. MaxTextDocs
  /\ ListsAscend
  /\ \/ seek = NotSeeking
     \/ \E q, hits, start, base, count, pos :
          /\ seek = SeekOf(q, hits, start, base, count, pos)
          /\ Walking(q, hits, start, base, count, pos)
     \/ seek.pc = "end" /\ FoundAll(seek.query, seek.hits)

\* A set of numbers has a lowest one.
LEMMA LowestNumber ==
  ASSUME NEW S, S \subseteq Nat, S # {}
  PROVE  \E m \in S : \A k \in S : m <= k
<1> DEFINE R == StrictSubsetOrdering(Nat)
           F == FiniteSubsetsOf(Nat)
           T == {0 .. n : n \in S}
<1>1. IsWellFoundedOn(R, F)
  BY FS_StrictSubsetOrderingWellFounded
<1>2. T \subseteq F
  <2>1. ASSUME NEW n \in S PROVE 0 .. n \in F
    <3>1. n \in Nat /\ 0 .. n \subseteq Nat
      OBVIOUS
    <3>2. IsFiniteSet(0 .. n)
      BY <3>1, FS_Interval
    <3> QED
      BY <3>1, <3>2 DEF FiniteSubsetsOf
  <2> HIDE DEF F
  <2> QED
    BY <2>1
<1>3. T # {}
  OBVIOUS
<1>4. PICK x \in T : \A y \in T : ~(<<y, x>> \in R)
  <2> HIDE DEF R, F, T
  <2> QED
    BY <1>1, <1>2, <1>3, WFMin
<1>5. PICK m \in S : x = 0 .. m
  OBVIOUS
<1>6. ASSUME NEW k \in S, k < m PROVE FALSE
  <2>1. m \in Nat /\ k \in Nat
    OBVIOUS
  <2>2. 0 .. k \subseteq 0 .. m /\ m \in 0 .. m /\ m \notin 0 .. k
    BY <1>6, <2>1
  <2>3. 0 .. k \in T /\ 0 .. k \subseteq Nat /\ 0 .. m \subseteq Nat
    BY <2>1
  <2>4. <<0 .. k, 0 .. m>> \in R
    BY <2>2, <2>3 DEF StrictSubsetOrdering
  <2> QED
    BY <2>3, <2>4, <1>4, <1>5
<1> QED
  BY <1>6

\* A bounded set of numbers has a highest one.
LEMMA HighestNumber ==
  ASSUME NEW n \in Nat, NEW S, S \subseteq 0 .. n, S # {}
  PROVE  \E m \in S : \A k \in S : k <= m
<1> DEFINE T == {n - k : k \in S}
<1>1. T \subseteq Nat /\ T # {}
  <2>1. \A k \in S : k \in 0 .. n /\ n - k \in Nat
    OBVIOUS
  <2>2. T \subseteq Nat
    BY <2>1
  <2>3. T # {}
    OBVIOUS
  <2> QED
    BY <2>2, <2>3
<1>2. PICK m \in T : \A k \in T : m <= k
  <2> HIDE DEF T
  <2> QED
    BY <1>1, LowestNumber
<1>3. PICK h \in S : m = n - h
  OBVIOUS
<1>4. ASSUME NEW k \in S PROVE k <= h
  <2>1. n - k \in T
    OBVIOUS
  <2>2. m <= n - k /\ k \in 0 .. n /\ h \in 0 .. n
    BY <1>2, <2>1
  <2> QED
    BY <1>3, <2>2
<1> QED
  BY <1>4


------------------------------------------------------

\* Lists and queries.
LEMMA QueryIs ==
  ASSUME NEW q \in TextQueries
  PROVE  /\ q \in Seq(Words) /\ DOMAIN q = 1 .. Len(q) /\ Len(q) \in Nat \ {0}
         /\ \A i \in DOMAIN q : q[i] \in Words
<1>1. q \in Seq(Words) /\ q # << >>
  BY TextAssumption
<1> QED
  BY <1>1

\* The documents of a list are ids, noted in ascending order.
LEMMA ListIs ==
  ASSUME ListsAscend, textDocs \in 0 .. MaxTextDocs, NEW w \in Words
  PROVE  /\ inverted[w] \in Seq(Ids) /\ Ascends(inverted[w])
         /\ DOMAIN inverted[w] = 1 .. Len(inverted[w]) /\ Len(inverted[w]) \in Nat
         /\ \A k \in DOMAIN inverted[w] : inverted[w][k] \in Ids
<1>1. inverted[w] \in Seq(0 .. (textDocs - 1)) /\ Ascends(inverted[w])
  BY DEF ListsAscend
<1>2. MaxTextDocs \in Nat
  BY TextAssumption
<1>3. \A n \in 0 .. (textDocs - 1) : n \in Ids
  BY <1>2 DEF Ids
<1>4. DOMAIN inverted[w] = 1 .. Len(inverted[w]) /\ Len(inverted[w]) \in Nat
      /\ \A k \in DOMAIN inverted[w] : inverted[w][k] \in 0 .. (textDocs - 1)
  BY <1>1
<1>5. \A k \in 1 .. Len(inverted[w]) : inverted[w][k] \in Ids
  BY <1>3, <1>4
<1>6. inverted[w] \in Seq(Ids)
  BY <1>1, <1>4, <1>5
<1> QED
  BY <1>1, <1>4, <1>5, <1>6

\* Ids are numbers.
LEMMA IdsAreNumbers == Ids \subseteq Nat
  BY TextAssumption DEF Ids

\* DocDetail::Seek stops at the first document that is not before the farthest.
LEMMA SeekFinds ==
  ASSUME NEW i, NEW list, list = inverted[seek.query[i]], NEW n \in Nat,
         DOMAIN list = 1 .. n
  PROVE  \/ /\ Seek(i).id = -1
            /\ \A k \in DOMAIN list : ~(k >= seek.pos[i] /\ list[k] >= seek.start)
         \/ \E k \in DOMAIN list :
              /\ k >= seek.pos[i] /\ list[k] >= seek.start
              /\ \A m \in DOMAIN list : m >= seek.pos[i] /\ list[m] >= seek.start => k <= m
              /\ Seek(i) = [id |-> list[k], pos |-> k + 1]
<1> DEFINE ahead == {k \in DOMAIN list : k >= seek.pos[i] /\ list[k] >= seek.start}
           first == CHOOSE l \in ahead : \A m \in ahead : l <= m
<1>1. Seek(i) = IF ahead = {} THEN [id |-> -1, pos |-> Len(list) + 1]
                ELSE [id |-> list[first], pos |-> first + 1]
  BY DEF Seek
<1>2. CASE ahead = {}
  <2>1. Seek(i) = [id |-> -1, pos |-> Len(list) + 1]
    <3> HIDE DEF ahead, first
    <3> QED
      BY <1>1, <1>2
  <2>2. \A k \in DOMAIN list : ~(k >= seek.pos[i] /\ list[k] >= seek.start)
    BY <1>2
  <2> QED
    BY <2>1, <2>2
<1>3. CASE ahead # {}
  <2>1. \E l \in ahead : \A m \in ahead : l <= m
    <3>1. ahead \subseteq Nat
      OBVIOUS
    <3> HIDE DEF ahead
    <3> QED
      BY <1>3, <3>1, LowestNumber
  <2>2. first \in ahead /\ \A m \in ahead : first <= m
    <3> HIDE DEF ahead
    <3> QED
      BY <2>1
  <2>3. Seek(i) = [id |-> list[first], pos |-> first + 1]
    BY <1>1, <1>3
  <2> HIDE DEF first
  <2> QED
    BY <2>2, <2>3
<1> QED
  BY <1>2, <1>3

-----------------------------------------------------------------------------
(* TextHasDoc: halving the hits.                                           *)

\* g is the function TextHasDoc defines, on the pairs of ends lo and hi.
Spans(hits) == (1 .. (Len(hits) + 1)) \X (0 .. Len(hits))
HalvedAt(hits, d, g, span) ==
  LET lo == span[1]
      hi == span[2]
      mid == ((lo - 1) + (hi - 1)) \div 2 + 1 IN
   \/ lo = hi /\ d = hits[lo]
   \/ /\ lo < hi /\ hits[lo] <= d /\ d <= hits[hi]
      /\ \/ d \in {hits[lo], hits[hi], hits[mid]}
         \/ d > hits[mid] /\ g[<<mid + 1, hi>>]
         \/ d < hits[mid] /\ g[<<lo, mid - 1>>]
Halved(hits, d, g) == [span \in Spans(hits) |-> HalvedAt(hits, d, g, span)]

\* d is one of hits[lo .. hi].
Within(hits, d, lo, hi) == \E k \in lo .. hi : hits[k] = d

\* The middle lies between the ends.
LEMMA MiddleIs ==
  ASSUME NEW n \in Nat, NEW lo \in 1 .. (n + 1), NEW hi \in 0 .. n, lo < hi
  PROVE  LET mid == ((lo - 1) + (hi - 1)) \div 2 + 1
         IN  mid \in lo .. hi /\ mid < hi /\ mid \in 1 .. n
             /\ mid + 1 \in 1 .. (n + 1) /\ mid - 1 \in 0 .. n
<1> DEFINE sum == (lo - 1) + (hi - 1)
           half == sum \div 2
<1>1. half \in Int /\ 2 * half <= sum /\ sum < 2 * half + 2
  OBVIOUS
<1> HIDE DEF half
<1>2. half + 1 \in lo .. hi /\ half + 1 < hi
  BY <1>1
<1> QED
  BY <1>2 DEF half

\* One halving of [lo .. hi] answers whether d is within, when those of
\* shorter spans do.
LEMMA WithinHalves ==
  ASSUME NEW hits \in Seq(Ids), Climbs(hits), NEW d \in Ids, NEW g,
         NEW lo \in 1 .. (Len(hits) + 1), NEW hi \in 0 .. Len(hits),
         \A l \in 1 .. (Len(hits) + 1), h \in 0 .. Len(hits) :
           h - l < hi - lo => (g[<<l, h>>] <=> Within(hits, d, l, h))
  PROVE  HalvedAt(hits, d, g, <<lo, hi>>) <=> Within(hits, d, lo, hi)
<1> DEFINE n == Len(hits)
           mid == ((lo - 1) + (hi - 1)) \div 2 + 1
<1>1. n \in Nat /\ \A k \in 1 .. n : hits[k] \in Nat
  <2>1. n \in Nat /\ \A k \in 1 .. n : hits[k] \in Ids
    OBVIOUS
  <2> QED
    BY <2>1, IdsAreNumbers
<1>2. \A j, k \in 1 .. n : j <= k => hits[j] <= hits[k]
  BY DEF Climbs
<1>3. d \in Nat /\ lo \in Nat /\ hi \in Nat
  BY <1>1, IdsAreNumbers
<1>4. HalvedAt(hits, d, g, <<lo, hi>>) <=>
        \/ lo = hi /\ d = hits[lo]
        \/ /\ lo < hi /\ hits[lo] <= d /\ d <= hits[hi]
           /\ \/ d \in {hits[lo], hits[hi], hits[mid]}
              \/ d > hits[mid] /\ g[<<mid + 1, hi>>]
              \/ d < hits[mid] /\ g[<<lo, mid - 1>>]
  BY DEF HalvedAt
<1>5. CASE lo > hi
  <2>1. ~ Within(hits, d, lo, hi)
    BY <1>3, <1>5 DEF Within
  <2> QED
    BY <1>3, <1>4, <1>5, <2>1
<1>6. CASE lo = hi
  <2>1. Within(hits, d, lo, hi) <=> hits[lo] = d
    BY <1>3, <1>6 DEF Within
  <2> QED
    BY <1>3, <1>4, <1>6, <2>1
<1>7. CASE lo < hi
  <2>1. mid \in lo .. hi /\ mid < hi /\ mid \in 1 .. n
        /\ mid + 1 \in 1 .. (n + 1) /\ mid - 1 \in 0 .. n
    BY <1>1, <1>7, MiddleIs
  <2> HIDE DEF mid
  <2>2. lo \in 1 .. n /\ hi \in 1 .. n /\ lo .. hi \subseteq 1 .. n
    BY <1>1, <1>3, <1>7, <2>1
  <2>3. hi - (mid + 1) < hi - lo /\ (mid - 1) - lo < hi - lo
    BY <1>3, <2>1
  <2>4. /\ g[<<mid + 1, hi>>] <=> Within(hits, d, mid + 1, hi)
        /\ g[<<lo, mid - 1>>] <=> Within(hits, d, lo, mid - 1)
    BY <2>1, <2>3
  <2> HIDE DEF n
  <2>5. \A k \in lo .. hi : hits[lo] <= hits[k] /\ hits[k] <= hits[hi]
    BY <1>2, <1>3, <2>2
  <2>6. hits[lo] \in Nat /\ hits[hi] \in Nat /\ hits[mid] \in Nat
    BY <1>1, <2>1, <2>2
  <2>7. \A k \in lo .. hi : (k <= mid => hits[k] <= hits[mid])
                            /\ (mid <= k => hits[mid] <= hits[k])
    BY <1>2, <2>1, <2>2
  <2>8. ASSUME Within(hits, d, lo, hi) PROVE HalvedAt(hits, d, g, <<lo, hi>>)
    <3>1. PICK k \in lo .. hi : hits[k] = d
      BY <2>8 DEF Within
    <3>2. hits[lo] <= d /\ d <= hits[hi]
      BY <2>5, <3>1
    <3>3. mid \in Int /\ k \in Int /\ lo <= k /\ k <= hi
      BY <1>3, <2>1
    <3>4. (k <= mid => d <= hits[mid]) /\ (mid <= k => hits[mid] <= d)
      BY <2>7, <3>1
    <3>5. (d > hits[mid] => ~(k <= mid)) /\ (d < hits[mid] => ~(mid <= k))
      BY <1>3, <2>6, <3>4
    <3>6. d > hits[mid] => k \in (mid + 1) .. hi
      BY <1>3, <3>3, <3>5
    <3>7. d < hits[mid] => k \in lo .. (mid - 1)
      BY <1>3, <3>3, <3>5
    <3>8. d > hits[mid] => g[<<mid + 1, hi>>]
      BY <2>4, <3>1, <3>6 DEF Within
    <3>9. d < hits[mid] => g[<<lo, mid - 1>>]
      BY <2>4, <3>1, <3>7 DEF Within
    <3>10. d = hits[mid] \/ d > hits[mid] \/ d < hits[mid]
      BY <1>3, <2>6
    <3> QED
      BY <1>4, <1>7, <3>2, <3>8, <3>9, <3>10
  <2>9. ASSUME HalvedAt(hits, d, g, <<lo, hi>>) PROVE Within(hits, d, lo, hi)
    <3>1. lo \in lo .. hi /\ hi \in lo .. hi /\ mid \in lo .. hi
          /\ (mid + 1) .. hi \subseteq lo .. hi /\ lo .. (mid - 1) \subseteq lo .. hi
      BY <1>3, <1>7, <2>1
    <3>2. \/ d \in {hits[lo], hits[hi], hits[mid]}
          \/ g[<<mid + 1, hi>>]
          \/ g[<<lo, mid - 1>>]
      BY <1>3, <1>4, <1>7, <2>9
    <3> QED
      BY <2>4, <3>1, <3>2 DEF Within
  <2> QED
    BY <2>8, <2>9
<1> QED
  BY <1>3, <1>5, <1>6, <1>7

\* Halving hits that climb finds what is there.
LEMMA HalvingFinds ==
  ASSUME NEW hits \in Seq(Ids), Climbs(hits), NEW d \in Ids
  PROVE  TextHasDoc(hits, d) <=> d \in ToSet(hits)
<1> DEFINE n == Len(hits)
           Lows == 1 .. (n + 1)
           Highs == 0 .. n
           there == [span \in Spans(hits) |-> Within(hits, d, span[1], span[2])]
           found == CHOOSE g : g = Halved(hits, d, g)
<1>1. n \in Nat /\ DOMAIN hits = 1 .. n
  OBVIOUS
<1>2. TextHasDoc(hits, d) <=> n > 0 /\ found[<<1, n>>]
  BY Zenon DEF TextHasDoc, Halved, HalvedAt, Spans
<1>3. \A g : DOMAIN Halved(hits, d, g) = Spans(hits)
             /\ \A l \in Lows, h \in Highs :
                  Halved(hits, d, g)[<<l, h>>] = HalvedAt(hits, d, g, <<l, h>>)
  BY DEF Halved, Spans
<1>4. there = Halved(hits, d, there)
  <2>1. \A l \in Lows, h \in Highs : there[<<l, h>>] = Within(hits, d, l, h)
    BY DEF Spans
  <2> HIDE DEF there
  <2>2. \A l \in Lows, h \in Highs :
          HalvedAt(hits, d, there, <<l, h>>) <=> Within(hits, d, l, h)
    BY <2>1, WithinHalves
  <2>3. \A span \in Spans(hits) :
          HalvedAt(hits, d, there, span) <=> Within(hits, d, span[1], span[2])
    <3> SUFFICES ASSUME NEW l \in Lows, NEW h \in Highs
                 PROVE  HalvedAt(hits, d, there, <<l, h>>) <=> Within(hits, d, l, h)
      BY DEF Spans
    <3> QED
      BY <2>2
  <2>4. \A span \in Spans(hits) :
          HalvedAt(hits, d, there, span) \in BOOLEAN
          /\ Within(hits, d, span[1], span[2]) \in BOOLEAN
    BY Zenon DEF HalvedAt, Within
  <2>5. \A span \in Spans(hits) :
          HalvedAt(hits, d, there, span) = Within(hits, d, span[1], span[2])
    BY <2>3, <2>4, Zenon
  <2>6. there = [span \in Spans(hits) |-> Within(hits, d, span[1], span[2])]
    BY DEF there
  <2> QED
    BY <2>5, <2>6, Zenon DEF Halved
<1>5. found = Halved(hits, d, found)
  <2> HIDE DEF there
  <2> QED
    BY <1>4, Zenon
<1> HIDE DEF found, there
<1>6. \A lo \in Lows, hi \in Highs :
        found[<<lo, hi>>] <=> HalvedAt(hits, d, found, <<lo, hi>>)
  BY <1>3, <1>5
<1>7. \A lo \in Lows, hi \in Highs : found[<<lo, hi>>] <=> Within(hits, d, lo, hi)
  <2> DEFINE wrong(lo, hi) == ~(found[<<lo, hi>>] <=> Within(hits, d, lo, hi))
             Bad == {w \in Nat : \E lo \in Lows, hi \in Highs :
                                   w = hi - lo + n + 1 /\ wrong(lo, hi)}
  <2> SUFFICES ASSUME NEW lo0 \in Lows, NEW hi0 \in Highs, wrong(lo0, hi0) PROVE FALSE
    OBVIOUS
  <2> HIDE DEF wrong
  <2>0. Bad # {}
    <3>1. hi0 - lo0 + n + 1 \in Nat
      BY <1>1
    <3> QED
      BY <3>1, Zenon
  <2>1. PICK w \in Bad : \A v \in Bad : w <= v
    <3>1. Bad \subseteq Nat
      OBVIOUS
    <3> HIDE DEF Bad
    <3> QED
      BY <2>0, <3>1, LowestNumber
  <2>2. PICK lo \in Lows, hi \in Highs : w = hi - lo + n + 1 /\ wrong(lo, hi)
    BY <2>1
  <2>3. \A l \in Lows, h \in Highs : h - l < hi - lo => ~wrong(l, h)
    <3> SUFFICES ASSUME NEW l \in Lows, NEW h \in Highs, h - l < hi - lo, wrong(l, h)
                 PROVE  FALSE
      OBVIOUS
    <3>1. h - l + n + 1 \in Nat /\ h - l + n + 1 < w
      BY <1>1, <2>2
    <3>2. h - l + n + 1 \in Bad
      BY <3>1, Zenon
    <3>3. w <= h - l + n + 1 /\ w \in Nat
      BY <2>1, <3>2
    <3> QED
      BY <3>1, <3>3
  <2>4. \A l \in Lows, h \in Highs :
          h - l < hi - lo => (found[<<l, h>>] <=> Within(hits, d, l, h))
    BY <2>3 DEF wrong
  <2>5. HalvedAt(hits, d, found, <<lo, hi>>) <=> Within(hits, d, lo, hi)
    BY <2>4, WithinHalves
  <2> QED
    BY <1>6, <2>2, <2>5 DEF wrong
<1>8. n > 0 => (found[<<1, n>>] <=> \E k \in 1 .. n : hits[k] = d)
  <2> SUFFICES ASSUME n > 0 PROVE found[<<1, n>>] <=> \E k \in 1 .. n : hits[k] = d
    OBVIOUS
  <2>1. 1 \in Lows /\ n \in Highs
    BY <1>1
  <2> QED
    BY <1>7, <2>1, Zenon DEF Within
<1>9. d \in ToSet(hits) <=> \E k \in 1 .. n : hits[k] = d
  BY <1>1 DEF ToSet
<1> QED
  BY <1>1, <1>2, <1>8, <1>9

-----------------------------------------------------------------------------
(* The walk over the lists.                                                *)

\* What a query's lists are, and their documents.
LEMMA ListsAre ==
  ASSUME ListsAscend, textDocs \in 0 .. MaxTextDocs, NEW q \in TextQueries, NEW i \in DOMAIN q
  PROVE  /\ DOMAIN ListOf(q, i) = 1 .. Len(ListOf(q, i)) /\ Len(ListOf(q, i)) \in Nat
         /\ \A k \in DOMAIN ListOf(q, i) : ListOf(q, i)[k] \in Ids /\ ListOf(q, i)[k] \in Nat
         /\ \A j, k \in DOMAIN ListOf(q, i) : j < k => ListOf(q, i)[j] < ListOf(q, i)[k]
<1>1. q[i] \in Words
  BY QueryIs
<1> QED
  BY <1>1, ListIs, IdsAreNumbers DEF ListOf, Ascends

\* A document holds every word of a query when each of its lists has it.
LEMMA HoldingIs ==
  ASSUME NEW q, NEW d
  PROVE  d \in Holding(q) <=>
           d \in Ids /\ \A i \in DOMAIN q : \E k \in DOMAIN ListOf(q, i) : ListOf(q, i)[k] = d
  BY Zenon DEF Holding, ToSet, ListOf

\* A list without a document from the farthest on ends the walk: whatever holds
\* every word is behind and was found.
LEMMA WalkEnds ==
  ASSUME ListsAscend, textDocs \in 0 .. MaxTextDocs,
         NEW q, NEW hits, NEW start, NEW base, NEW count, NEW pos,
         Walking(q, hits, start, base, count, pos),
         NEW i \in DOMAIN q,
         \A k \in DOMAIN ListOf(q, i) : ~(k >= pos[i] /\ ListOf(q, i)[k] >= start),
         start \in ToSet(hits) \/ (i = count /\ i # base)
  PROVE  FoundAll(q, hits)
<1>1. WalkTypes(q, hits, start, base, count, pos) /\ FoundSoFar(q, hits, start)
      /\ Reached(q, hits, start, base, count, pos)
  BY DEF Walking
<1>2. q \in TextQueries /\ start \in Nat /\ pos[i] \in Nat /\ hits \in Seq(Ids)
      /\ count \in Nat
  BY <1>1, IdsAreNumbers DEF WalkTypes
<1>3. ASSUME NEW d \in Holding(q) PROVE d \in ToSet(hits)
  <2>1. CASE d \in ToSet(hits)
    BY <2>1
  <2>2. CASE d \notin ToSet(hits)
    <3>1. d >= start /\ d \in Ids
      BY <1>1, <2>2, HoldingIs DEF FoundSoFar
    <3>2. PICK k \in DOMAIN ListOf(q, i) : ListOf(q, i)[k] = d
      BY HoldingIs
    <3>3. k \in Nat /\ d \in Nat
      BY <1>2, <3>1, <3>2, ListsAre, IdsAreNumbers
    <3>4. k < pos[i]
      BY <1>2, <3>1, <3>2, <3>3
    <3>5. d <= start
      BY <1>1, <3>2, <3>4 DEF Reached
    <3>6. d = start
      BY <1>2, <3>1, <3>3, <3>5
    <3>7. i = count /\ i # base
      BY <2>2, <3>6
    <3>8. Before(ListOf(q, i), pos[i], start)
      BY <1>1, <1>2, <2>2, <3>6, <3>7 DEF Reached
    <3> QED
      BY <1>2, <3>2, <3>4, <3>6, <3>8 DEF Before
  <2> QED
    BY <2>1, <2>2
<1> QED
  BY <1>1, <1>2, <1>3 DEF FoundAll, FoundSoFar

\* A document beyond the farthest is the farthest from now on, its list the base.
LEMMA WalkGoesFarther ==
  ASSUME ListsAscend, textDocs \in 0 .. MaxTextDocs,
         NEW q, NEW hits, NEW start, NEW base, NEW count, NEW pos,
         Walking(q, hits, start, base, count, pos),
         NEW i \in DOMAIN q, NEW k \in DOMAIN ListOf(q, i),
         k >= pos[i], ListOf(q, i)[k] >= start, ListOf(q, i)[k] # start,
         \A m \in DOMAIN ListOf(q, i) : m >= pos[i] /\ ListOf(q, i)[m] >= start => k <= m,
         start \in ToSet(hits) \/ (i = count /\ i # base)
  PROVE  Walking(q, hits, ListOf(q, i)[k], i, 1, [pos EXCEPT ![i] = k + 1])
<1> DEFINE next == ListOf(q, i)[k]
           pos1 == [pos EXCEPT ![i] = k + 1]
<1>1. WalkTypes(q, hits, start, base, count, pos) /\ FoundSoFar(q, hits, start)
      /\ Reached(q, hits, start, base, count, pos)
  BY DEF Walking
<1>2. q \in TextQueries /\ start \in Nat /\ hits \in Seq(Ids) /\ count \in Nat
      /\ pos \in [DOMAIN q -> Nat] /\ pos[i] \in Nat
  BY <1>1, IdsAreNumbers DEF WalkTypes
<1>3. next \in Ids /\ next \in Nat /\ next > start /\ k \in Nat
  BY <1>2, ListsAre
<1>4. pos1 \in [DOMAIN q -> Nat] /\ pos1[i] = k + 1
      /\ \A j \in DOMAIN q \ {i} : pos1[j] = pos[j]
  BY <1>2, <1>3
<1> HIDE DEF pos1
<1>5. \A n \in DOMAIN hits : hits[n] \in Nat /\ hits[n] <= start
  <2>1. \A n \in DOMAIN hits : hits[n] \in Ids
    BY <1>2
  <2> QED
    BY <1>1, <2>1, IdsAreNumbers DEF FoundSoFar
<1>6. next \notin ToSet(hits)
  BY <1>2, <1>3, <1>5 DEF ToSet
<1>7. ASSUME NEW d \in Holding(q), d \notin ToSet(hits) PROVE d >= next
  <2>1. d >= start /\ d \in Ids
    BY <1>1, <1>7, HoldingIs DEF FoundSoFar
  <2>2. PICK m \in DOMAIN ListOf(q, i) : ListOf(q, i)[m] = d
    BY <1>7, HoldingIs
  <2>3. m \in Nat /\ d \in Nat
    BY <1>2, <2>2, ListsAre
  <2>4. CASE m >= pos[i]
    <3>1. k <= m
      BY <2>1, <2>2, <2>4
    <3> QED
      BY <1>2, <1>3, <2>2, <2>3, <3>1, ListsAre
  <2>5. CASE m < pos[i]
    <3>1. d <= start
      BY <1>1, <2>2, <2>5 DEF Reached
    <3>2. d = start
      BY <1>2, <2>1, <2>3, <3>1
    <3>3. i = count /\ i # base
      BY <1>7, <3>2
    <3>4. Before(ListOf(q, i), pos[i], start)
      BY <1>1, <1>2, <1>7, <3>2, <3>3 DEF Reached
    <3> QED
      BY <1>2, <2>2, <2>5, <3>2, <3>4 DEF Before
  <2> QED
    BY <1>2, <2>3, <2>4, <2>5
<1>8. FoundSoFar(q, hits, next)
  <2>1. \A n \in DOMAIN hits : hits[n] <= next
    BY <1>2, <1>3, <1>5
  <2>2. \A d \in Holding(q) : d \in ToSet(hits) \/ d >= next
    BY <1>7
  <2> HIDE DEF next
  <2> QED
    BY <1>1, <2>1, <2>2 DEF FoundSoFar
<1>9. \A j \in DOMAIN q : \A m \in DOMAIN ListOf(q, j) :
        m < pos1[j] => ListOf(q, j)[m] <= next
  <2> SUFFICES ASSUME NEW j \in DOMAIN q, NEW m \in DOMAIN ListOf(q, j), m < pos1[j]
               PROVE  ListOf(q, j)[m] <= next
    OBVIOUS
  <2>1. m \in Nat /\ ListOf(q, j)[m] \in Nat
    BY <1>2, ListsAre
  <2>2. CASE j = i
    <3>1. m = k \/ m < k
      BY <1>3, <1>4, <2>1, <2>2
    <3> QED
      BY <1>2, <1>3, <2>1, <2>2, <3>1, ListsAre
  <2>3. CASE j # i
    <3>1. m < pos[j]
      BY <1>4, <2>3
    <3>2. ListOf(q, j)[m] <= start
      BY <1>1, <3>1 DEF Reached
    <3> QED
      BY <1>2, <1>3, <2>1, <3>2
  <2> QED
    BY <2>2, <2>3
<1>10. \A j \in DOMAIN q \ {i} : Before(ListOf(q, j), pos1[j], next)
  <2> SUFFICES ASSUME NEW j \in DOMAIN q \ {i}, NEW m \in DOMAIN ListOf(q, j), m < pos1[j]
               PROVE  ListOf(q, j)[m] < next
    BY DEF Before
  <2>1. m \in Nat /\ ListOf(q, j)[m] \in Nat
    BY <1>2, ListsAre
  <2>2. ListOf(q, j)[m] <= start
    BY <1>1, <1>4 DEF Reached
  <2> QED
    BY <1>2, <1>3, <2>1, <2>2
<1>11. next \in ToSet(ListOf(q, i))
  BY DEF ToSet
<1>12. DOMAIN q \subseteq Nat \ {0} /\ Len(q) \in Nat \ {0}
  BY <1>2, QueryIs
<1> HIDE DEF next
<1>13. Reached(q, hits, next, i, 1, pos1)
  <2>1. \A j \in DOMAIN q \ {i} : ~(j < 1)
    BY <1>12
  <2> QED
    BY <1>6, <1>9, <1>10, <1>11, <2>1 DEF Reached
<1>14. WalkTypes(q, hits, next, i, 1, pos1)
  BY <1>2, <1>3, <1>4, <1>12 DEF WalkTypes
<1> QED
  BY <1>8, <1>13, <1>14 DEF Walking, next, pos1

\* The base list is not walked again.
LEMMA WalkSkips ==
  ASSUME NEW q, NEW hits, NEW start, NEW base, NEW pos,
         Walking(q, hits, start, base, base, pos)
  PROVE  Walking(q, hits, start, base, base + 1, pos)
<1>1. WalkTypes(q, hits, start, base, base, pos) /\ FoundSoFar(q, hits, start)
      /\ Reached(q, hits, start, base, base, pos)
  BY DEF Walking
<1>2. q \in TextQueries /\ base \in DOMAIN q
  BY <1>1 DEF WalkTypes
<1>3. Len(q) \in Nat /\ DOMAIN q = 1 .. Len(q)
  BY <1>2, QueryIs
<1>4. base \in 1 .. Len(q)
  BY <1>2, <1>3
<1>5. WalkTypes(q, hits, start, base, base + 1, pos)
  BY <1>1, <1>3, <1>4 DEF WalkTypes
<1>6. \A i \in DOMAIN q \ {base} : (i >= base + 1 => i >= base) /\ (i < base + 1 => i < base)
  BY <1>3, <1>4
<1>7. start \in ToSet(hits) /\ Len(q) > 1 => base = 1
  BY <1>1 DEF Reached
<1>8. Reached(q, hits, start, base, base + 1, pos)
  <2>1. start \in ToSet(hits) /\ Len(q) > 1
          => base + 1 = 1 \/ (base + 1 = 2 /\ base = 1)
    BY <1>4, <1>7
  <2> QED
    BY <1>1, <1>6, <2>1 DEF Reached
<1> QED
  BY <1>1, <1>5, <1>8 DEF Walking

\* A list that has the farthest document is passed, and the next one follows.
LEMMA WalkPasses ==
  ASSUME ListsAscend, textDocs \in 0 .. MaxTextDocs,
         NEW q, NEW hits, NEW start, NEW base, NEW count, NEW pos,
         Walking(q, hits, start, base, count, pos),
         count \in DOMAIN q, count # base, NEW k \in DOMAIN ListOf(q, count),
         k >= pos[count], ListOf(q, count)[k] = start
  PROVE  Walking(q, hits, start, base, count + 1, [pos EXCEPT ![count] = k + 1])
<1> DEFINE pos1 == [pos EXCEPT ![count] = k + 1]
<1>1. WalkTypes(q, hits, start, base, count, pos) /\ FoundSoFar(q, hits, start)
      /\ Reached(q, hits, start, base, count, pos)
  BY DEF Walking
<1>2. q \in TextQueries /\ start \in Nat /\ base \in DOMAIN q /\ pos \in [DOMAIN q -> Nat]
  BY <1>1, IdsAreNumbers DEF WalkTypes
<1>3. Len(q) \in Nat /\ DOMAIN q = 1 .. Len(q)
  BY <1>2, QueryIs
<1>4. count \in Nat /\ count + 1 \in 1 .. (Len(q) + 1) /\ k \in Nat
  BY <1>2, <1>3, ListsAre
<1>5. pos1 \in [DOMAIN q -> Nat] /\ pos1[count] = k + 1
      /\ \A j \in DOMAIN q \ {count} : pos1[j] = pos[j]
  BY <1>2, <1>4
<1> HIDE DEF pos1
<1>6. start \notin ToSet(hits)
  <2> SUFFICES ASSUME start \in ToSet(hits) PROVE FALSE
    OBVIOUS
  <2>1. Passed(ListOf(q, count), pos[count], start)
    BY <1>1 DEF Reached
  <2>2. PICK m \in DOMAIN ListOf(q, count) : m < pos[count] /\ ListOf(q, count)[m] = start
    BY <2>1 DEF Passed
  <2>3. m \in Nat /\ m < k
    BY <1>2, <1>4, <2>2, ListsAre
  <2>4. ListOf(q, count)[m] < ListOf(q, count)[k]
    BY <1>2, <2>2, <2>3, ListsAre
  <2> QED
    BY <1>2, <2>2, <2>4
<1>7. \A j \in DOMAIN q : \A m \in DOMAIN ListOf(q, j) :
        m < pos1[j] => ListOf(q, j)[m] <= start
  <2> SUFFICES ASSUME NEW j \in DOMAIN q, NEW m \in DOMAIN ListOf(q, j), m < pos1[j]
               PROVE  ListOf(q, j)[m] <= start
    OBVIOUS
  <2>1. CASE j = count
    <3>1. m \in Nat
      BY <1>2, ListsAre
    <3>2. m < k + 1
      BY <1>5, <2>1
    <3>3. m = k \/ m < k
      BY <1>4, <3>1, <3>2
    <3> QED
      BY <1>2, <2>1, <3>3, ListsAre
  <2>2. CASE j # count
    BY <1>1, <1>5, <2>2 DEF Reached
  <2> QED
    BY <2>1, <2>2
<1>8. \A j \in DOMAIN q \ {base} :
        /\ j >= count + 1 => Before(ListOf(q, j), pos1[j], start)
        /\ j < count + 1 => Passed(ListOf(q, j), pos1[j], start)
  <2> SUFFICES ASSUME NEW j \in DOMAIN q \ {base}
               PROVE  /\ j >= count + 1 => Before(ListOf(q, j), pos1[j], start)
                      /\ j < count + 1 => Passed(ListOf(q, j), pos1[j], start)
    OBVIOUS
  <2>1. CASE j = count
    <3>1. k < pos1[j]
      BY <1>4, <1>5, <2>1
    <3>2. Passed(ListOf(q, j), pos1[j], start)
      BY <2>1, <3>1 DEF Passed
    <3> QED
      BY <1>4, <2>1, <3>2
  <2>2. CASE j # count
    <3>1. j \in Nat /\ (j >= count + 1 => j >= count) /\ (j < count + 1 => j < count)
      BY <1>3, <1>4, <2>2
    <3>2. pos1[j] = pos[j]
      BY <1>5, <2>2
    <3> QED
      BY <1>1, <1>6, <3>1, <3>2 DEF Reached
  <2> QED
    BY <2>1, <2>2
<1>9. Reached(q, hits, start, base, count + 1, pos1)
  BY <1>1, <1>6, <1>7, <1>8 DEF Reached
<1>10. WalkTypes(q, hits, start, base, count + 1, pos1)
  BY <1>1, <1>4, <1>5 DEF WalkTypes
<1> QED
  BY <1>1, <1>9, <1>10 DEF Walking, pos1

\* The farthest document is one that all lists have: it is a hit.
LEMMA WalkHits ==
  ASSUME ListsAscend, textDocs \in 0 .. MaxTextDocs,
         NEW q, NEW hits, NEW start, NEW base, NEW pos,
         Walking(q, hits, start, base, Len(q) + 1, pos)
  PROVE  /\ Walking(q, Append(hits, start), start, base, 1, pos)
         /\ start \in ToSet(Append(hits, start))
<1> DEFINE hits1 == Append(hits, start)
           n == Len(hits)
<1>1. WalkTypes(q, hits, start, base, Len(q) + 1, pos) /\ FoundSoFar(q, hits, start)
      /\ Reached(q, hits, start, base, Len(q) + 1, pos)
  BY DEF Walking
<1>2. q \in TextQueries /\ start \in Ids /\ start \in Nat /\ base \in DOMAIN q
      /\ hits \in Seq(Ids)
  BY <1>1, IdsAreNumbers DEF WalkTypes
<1>3. Len(q) \in Nat \ {0} /\ DOMAIN q = 1 .. Len(q)
  BY <1>2, QueryIs
<1>4. /\ n \in Nat /\ DOMAIN hits = 1 .. n /\ DOMAIN hits1 = 1 .. (n + 1)
      /\ hits1 \in Seq(Ids) /\ hits1[n + 1] = start
      /\ \A m \in 1 .. n : hits1[m] = hits[m] /\ hits[m] \in Ids
  BY <1>2
<1>5. \A m \in 1 .. n : hits[m] \in Nat
  BY <1>4, IdsAreNumbers
<1> HIDE DEF hits1, n
<1>6. \A d : d \in ToSet(hits1) <=> (d \in ToSet(hits) \/ d = start)
  <2>1. \A d : d \in ToSet(hits1) <=> \E m \in 1 .. (n + 1) : hits1[m] = d
    BY <1>4 DEF ToSet
  <2>2. \A d : d \in ToSet(hits) <=> \E m \in 1 .. n : hits[m] = d
    BY <1>4 DEF ToSet
  <2>3. n + 1 \in 1 .. (n + 1) /\ \A m \in 1 .. (n + 1) : (m = n + 1 \/ m \in 1 .. n)
        /\ \A l \in 1 .. n : l \in 1 .. (n + 1)
    BY <1>4
  <2> QED
    BY <1>4, <2>1, <2>2, <2>3
<1>7. \A j \in DOMAIN q : \E k \in DOMAIN ListOf(q, j) : ListOf(q, j)[k] = start
  <2> SUFFICES ASSUME NEW j \in DOMAIN q
               PROVE  \E k \in DOMAIN ListOf(q, j) : ListOf(q, j)[k] = start
    OBVIOUS
  <2>1. CASE j = base
    BY <1>1, <2>1 DEF Reached, ToSet
  <2>2. CASE j # base
    <3>1. j < Len(q) + 1
      BY <1>3
    <3> QED
      BY <1>1, <2>2, <3>1 DEF Reached, Passed
  <2> QED
    BY <2>1, <2>2
<1>8. start \in Holding(q)
  BY <1>2, <1>7, HoldingIs
<1>9. Climbs(hits1)
  <2> SUFFICES ASSUME NEW l \in 1 .. (n + 1), NEW m \in 1 .. (n + 1), l <= m
               PROVE  hits1[l] <= hits1[m]
    BY <1>4 DEF Climbs
  <2>1. CASE m = n + 1
    <3>1. l = n + 1 \/ l \in 1 .. n
      BY <1>4
    <3> QED
      BY <1>1, <1>2, <1>4, <2>1, <3>1 DEF FoundSoFar
  <2>2. CASE m # n + 1
    <3>1. l \in 1 .. n /\ m \in 1 .. n
      BY <1>4, <2>2
    <3> QED
      BY <1>1, <1>4, <3>1 DEF FoundSoFar, Climbs
  <2> QED
    BY <2>1, <2>2
<1>10. \A m \in DOMAIN hits1 : hits1[m] <= start
  <2>1. \A m \in 1 .. (n + 1) : (m = n + 1 \/ m \in 1 .. n)
    BY <1>4
  <2> QED
    BY <1>1, <1>2, <1>4, <2>1 DEF FoundSoFar
<1>11. Len(q) > 1 => start \notin ToSet(hits)
  <2>1. Len(q) > 1 => ~(Len(q) + 1 = 1 \/ (Len(q) + 1 = 2 /\ base = 1))
    BY <1>3
  <2> QED
    BY <1>1, <2>1 DEF Reached
<1>12. Len(q) > 1 => IsInjective(hits1)
  <2> SUFFICES ASSUME Len(q) > 1, NEW l \in 1 .. (n + 1), NEW m \in 1 .. (n + 1),
                      hits1[l] = hits1[m]
               PROVE  l = m
    BY <1>4 DEF IsInjective
  <2>1. \A o \in 1 .. n : hits[o] # start
    BY <1>4, <1>11 DEF ToSet
  <2>2. \A o \in 1 .. (n + 1) : o = n + 1 \/ o \in 1 .. n
    BY <1>4
  <2>3. l \in 1 .. n /\ m \in 1 .. n => hits[l] = hits[m]
    BY <1>4
  <2> QED
    BY <1>1, <1>4, <2>1, <2>2, <2>3 DEF FoundSoFar, IsInjective
<1>13. FoundSoFar(q, hits1, start)
  BY <1>1, <1>6, <1>8, <1>9, <1>10, <1>12 DEF FoundSoFar
<1>14. Reached(q, hits1, start, base, 1, pos)
  <2>1. \A j \in DOMAIN q \ {base} : Passed(ListOf(q, j), pos[j], start)
    <3>1. \A j \in DOMAIN q : j < Len(q) + 1
      BY <1>3
    <3> QED
      BY <1>1, <3>1 DEF Reached
  <2> QED
    BY <1>1, <1>6, <2>1 DEF Reached
<1>15. WalkTypes(q, hits1, start, base, 1, pos)
  BY <1>1, <1>3, <1>4 DEF WalkTypes
<1> QED
  BY <1>6, <1>13, <1>14, <1>15 DEF Walking, hits1

\* The base list may have the hit once more, where it has not been walked yet.
LEMMA WalkStays ==
  ASSUME ListsAscend, textDocs \in 0 .. MaxTextDocs,
         NEW q, NEW hits, NEW start, NEW base, NEW pos,
         Walking(q, hits, start, base, 1, pos), start \in ToSet(hits),
         NEW k \in DOMAIN ListOf(q, base), ListOf(q, base)[k] = start
  PROVE  Walking(q, hits, start, base, 1, [pos EXCEPT ![base] = k + 1])
<1> DEFINE pos1 == [pos EXCEPT ![base] = k + 1]
<1>1. WalkTypes(q, hits, start, base, 1, pos) /\ FoundSoFar(q, hits, start)
      /\ Reached(q, hits, start, base, 1, pos)
  BY DEF Walking
<1>2. q \in TextQueries /\ start \in Nat /\ base \in DOMAIN q /\ pos \in [DOMAIN q -> Nat]
  BY <1>1, IdsAreNumbers DEF WalkTypes
<1>3. k \in Nat
  BY <1>2, ListsAre
<1>4. pos1 \in [DOMAIN q -> Nat] /\ pos1[base] = k + 1
      /\ \A j \in DOMAIN q \ {base} : pos1[j] = pos[j]
  BY <1>2, <1>3
<1> HIDE DEF pos1
<1>5. \A j \in DOMAIN q : \A m \in DOMAIN ListOf(q, j) :
        m < pos1[j] => ListOf(q, j)[m] <= start
  <2> SUFFICES ASSUME NEW j \in DOMAIN q, NEW m \in DOMAIN ListOf(q, j), m < pos1[j]
               PROVE  ListOf(q, j)[m] <= start
    OBVIOUS
  <2>1. CASE j = base
    <3>1. m \in Nat /\ (m = k \/ m < k)
      BY <1>2, <1>3, <1>4, <2>1, ListsAre
    <3> QED
      BY <1>2, <2>1, <3>1, ListsAre
  <2>2. CASE j # base
    BY <1>1, <1>4, <2>2 DEF Reached
  <2> QED
    BY <2>1, <2>2
<1>6. Reached(q, hits, start, base, 1, pos1)
  BY <1>1, <1>4, <1>5 DEF Reached
<1>7. WalkTypes(q, hits, start, base, 1, pos1)
  BY <1>1, <1>4 DEF WalkTypes
<1> QED
  BY <1>1, <1>6, <1>7 DEF Walking, pos1

-----------------------------------------------------------------------------
(* Every step keeps the invariant.                                         *)

WalkKept ==
  \/ \E q, hits, start, base, count, pos :
       /\ seek' = SeekOf(q, hits, start, base, count, pos)
       /\ Walking(q, hits, start, base, count, pos)
  \/ seek'.pc = "end" /\ FoundAll(seek'.query, seek'.hits)

\* What is found is about the lists, which a step of the walk leaves alone.
LEMMA WalkIsKept ==
  ASSUME TextIInv, WalkKept, UNCHANGED <<textDocs, inverted>>
  PROVE  TextIInv'
<1>1. ListsAscend' /\ (textDocs \in 0 .. MaxTextDocs)'
  BY DEF TextIInv, ListsAscend
<1>2. \A q, hits, start, base, count, pos :
        Walking(q, hits, start, base, count, pos)
          => Walking(q, hits, start, base, count, pos)'
  <2> SUFFICES ASSUME NEW q, NEW hits, NEW start, NEW base, NEW count, NEW pos
               PROVE  Walking(q, hits, start, base, count, pos)
                        => Walking(q, hits, start, base, count, pos)'
    OBVIOUS
  <2>1. inverted' = inverted
    OBVIOUS
  <2>2. Holding(q)' = Holding(q) /\ \A i : ListOf(q, i)' = ListOf(q, i)
    BY <2>1 DEF Holding, ListOf
  <2>3. FoundSoFar(q, hits, start) => FoundSoFar(q, hits, start)'
    BY <2>2 DEF FoundSoFar
  <2>4. Reached(q, hits, start, base, count, pos)
          => Reached(q, hits, start, base, count, pos)'
    BY <2>1 DEF Reached, ListOf
  <2>5. WalkTypes(q, hits, start, base, count, pos)
          => WalkTypes(q, hits, start, base, count, pos)'
    BY DEF WalkTypes
  <2> QED
    BY <2>3, <2>4, <2>5 DEF Walking
<1>3. \A q, hits : FoundAll(q, hits) => FoundAll(q, hits)'
  BY Zenon DEF FoundAll, Holding
<1>4. CASE seek'.pc = "end" /\ FoundAll(seek'.query, seek'.hits)
  <2>1. FoundAll(seek.query, seek.hits)'
    BY <1>4 DEF FoundAll, Holding
  <2> QED
    BY <1>1, <1>4, <2>1 DEF TextIInv
<1>5. CASE \E q, hits, start, base, count, pos :
             /\ seek' = SeekOf(q, hits, start, base, count, pos)
             /\ Walking(q, hits, start, base, count, pos)
  <2>1. PICK q, hits, start, base, count, pos :
             /\ seek' = SeekOf(q, hits, start, base, count, pos)
             /\ Walking(q, hits, start, base, count, pos)
    BY <1>5
  <2>2. Walking(q, hits, start, base, count, pos)'
    BY <1>2, <2>1
  <2>3. (\E q1, hits1, start1, base1, count1, pos1 :
           /\ seek = SeekOf(q1, hits1, start1, base1, count1, pos1)
           /\ Walking(q1, hits1, start1, base1, count1, pos1))'
    BY <2>1, <2>2
  <2> QED
    BY <1>1, <2>3, Zenon DEF TextIInv
<1> QED
  BY <1>4, <1>5 DEF WalkKept

\* A walk that goes on is one of the invariant's.
LEMMA WalkIs ==
  ASSUME TextIInv, seek.pc = "seek"
  PROVE  \E q, hits, start, base, count, pos :
           /\ seek = SeekOf(q, hits, start, base, count, pos)
           /\ Walking(q, hits, start, base, count, pos)
  BY DEF TextIInv, NotSeeking

\* SearchResult::Retrieve starts at the head of the longest list.
LEMMA BeginRetrieveStep ==
  ASSUME TextIInv, NEW q \in TextQueries, BeginRetrieve(q)
  PROVE  TextIInv'
<1>1. ListsAscend /\ textDocs \in 0 .. MaxTextDocs
  BY DEF TextIInv
<1>2. Len(q) \in Nat \ {0} /\ DOMAIN q = 1 .. Len(q) /\ \A i \in DOMAIN q : q[i] \in Words
  BY QueryIs
<1>3. UNCHANGED <<textDocs, inverted>>
  BY DEF BeginRetrieve
<1>4. << >> \in Seq(Ids) /\ ToSet(<< >>) = {} /\ Climbs(<< >>) /\ IsInjective(<< >>)
      /\ DOMAIN << >> = {}
  BY DEF ToSet, Climbs, IsInjective
<1>5. CASE \E i \in DOMAIN q : inverted[q[i]] = << >>
  <2>1. seek' = [pc |-> "end", query |-> q, hits |-> << >>]
    BY <1>5 DEF BeginRetrieve
  <2>2. PICK i \in DOMAIN q : ListOf(q, i) = << >>
    BY <1>5 DEF ListOf
  <2>3. Holding(q) = {}
    <3> SUFFICES ASSUME NEW d \in Holding(q) PROVE FALSE
      OBVIOUS
    <3>1. PICK k \in DOMAIN ListOf(q, i) : ListOf(q, i)[k] = d
      BY HoldingIs
    <3> QED
      BY <1>4, <2>2, <3>1
  <2>4. FoundAll(q, << >>)
    BY <1>4, <2>3 DEF FoundAll
  <2>5. WalkKept
    BY <2>1, <2>4 DEF WalkKept
  <2> QED
    BY <1>3, <2>5, WalkIsKept
<1>6. CASE ~ \E i \in DOMAIN q : inverted[q[i]] = << >>
  <2> DEFINE first(i) == inverted[q[i]][1]
             last(i) == /\ \A j \in DOMAIN q : first(j) <= first(i)
                        /\ \A j \in 1 .. (i - 1) : first(j) < first(i)
             base == CHOOSE i \in DOMAIN q : last(i)
             pos == [i \in DOMAIN q |-> 1]
  <2>1. \A i \in DOMAIN q : 1 \in DOMAIN ListOf(q, i) /\ first(i) = ListOf(q, i)[1]
                            /\ first(i) \in Ids /\ first(i) \in Nat
    <3> SUFFICES ASSUME NEW i \in DOMAIN q
                 PROVE  1 \in DOMAIN ListOf(q, i) /\ first(i) = ListOf(q, i)[1]
                        /\ first(i) \in Ids /\ first(i) \in Nat
      OBVIOUS
    <3>1. ListOf(q, i) # << >> /\ ListOf(q, i) \in Seq(Ids)
      BY <1>1, <1>2, <1>6, ListIs DEF ListOf
    <3>2. 1 \in DOMAIN ListOf(q, i)
      BY <3>1
    <3> QED
      BY <1>1, <3>2, ListsAre DEF ListOf
  <2>2. \E i \in DOMAIN q : last(i)
    <3> DEFINE tops == {first(i) : i \in DOMAIN q}
               at(m) == {i \in DOMAIN q : first(i) = m}
    <3> HIDE DEF first
    <3>1. tops \subseteq 0 .. (MaxTextDocs - 1) /\ tops # {} /\ MaxTextDocs \in Nat
      <4>1. \A i \in DOMAIN q : first(i) \in 0 .. (MaxTextDocs - 1)
        BY <2>1 DEF Ids
      <4>2. 1 \in DOMAIN q /\ MaxTextDocs \in Nat
        BY <1>2, TextAssumption
      <4> QED
        BY <4>1, <4>2
    <3>2. MaxTextDocs - 1 \in Nat
      BY <3>1
    <3>3. PICK m \in tops : \A k \in tops : k <= m
      <4> HIDE DEF tops
      <4> QED
        BY <3>1, <3>2, HighestNumber
    <3>4. at(m) # {} /\ at(m) \subseteq Nat
      BY <1>2, <3>3
    <3>5. PICK i \in at(m) : \A j \in at(m) : i <= j
      <4> HIDE DEF at
      <4> QED
        BY <3>4, LowestNumber
    <3>6. i \in 1 .. Len(q) /\ first(i) = m /\ \A j \in DOMAIN q : first(j) <= m
      BY <1>2, <3>3, <3>5
    <3>7. \A j \in 1 .. (i - 1) : j \in DOMAIN q /\ ~(i <= j)
      BY <1>2, <3>6
    <3>8. \A j \in 1 .. (i - 1) : first(j) # m
      BY <3>5, <3>7
    <3>9. \A j \in 1 .. (i - 1) : first(j) < m
      BY <2>1, <3>6, <3>7, <3>8
    <3> QED
      BY <1>2, <3>6, <3>9
  <2>3. base \in DOMAIN q /\ last(base)
    <3> HIDE DEF last
    <3> QED
      BY <2>2, Zenon
  <2>4. Start(q) = [start |-> first(base), base |-> base]
    BY Zenon DEF Start
  <2> HIDE DEF base
  <2>5. seek' = SeekOf(q, << >>, first(base), base, 1, pos)
    BY <1>6, <2>4 DEF BeginRetrieve, SeekOf
  <2>6. WalkTypes(q, << >>, first(base), base, 1, pos)
    BY <1>2, <1>4, <2>1, <2>3 DEF WalkTypes
  <2>7. FoundSoFar(q, << >>, first(base))
    <3>1. \A d \in Holding(q) : d >= first(base)
      <4> SUFFICES ASSUME NEW d \in Holding(q) PROVE d >= first(base)
        OBVIOUS
      <4>1. PICK k \in DOMAIN ListOf(q, base) : ListOf(q, base)[k] = d
        BY <2>3, HoldingIs
      <4>2. k \in Nat /\ (k = 1 \/ 1 < k) /\ d \in Nat
        BY <1>1, <2>3, <4>1, ListsAre
      <4>3. 1 < k => ListOf(q, base)[1] < ListOf(q, base)[k]
        BY <1>1, <2>1, <2>3, <4>1, ListsAre
      <4> HIDE DEF first
      <4> QED
        BY <2>1, <2>3, <4>1, <4>2, <4>3
    <3> QED
      BY <1>4, <3>1 DEF FoundSoFar
  <2>8. \A i \in DOMAIN q : \A k \in DOMAIN ListOf(q, i) : ~(k < pos[i])
    <3> SUFFICES ASSUME NEW i \in DOMAIN q, NEW k \in DOMAIN ListOf(q, i), k < 1
                 PROVE  FALSE
      OBVIOUS
    <3> QED
      BY <1>1, ListsAre
  <2>9. Reached(q, << >>, first(base), base, 1, pos)
    <3>1. first(base) \in ToSet(ListOf(q, base))
      BY <2>1, <2>3 DEF ToSet
    <3>2. \A i \in DOMAIN q : Before(ListOf(q, i), pos[i], first(base)) /\ ~(i < 1)
      BY <1>2, <2>8 DEF Before
    <3> HIDE DEF first, pos
    <3> QED
      BY <1>4, <2>8, <3>1, <3>2 DEF Reached
  <2>10. WalkKept
    BY <2>5, <2>6, <2>7, <2>9, Zenon DEF WalkKept, Walking
  <2> QED
    BY <1>3, <2>10, WalkIsKept
<1> QED
  BY <1>5, <1>6

\* The round passes over the list whose head is the farthest document.
LEMMA SkipBaseStep ==
  ASSUME TextIInv, SkipBase
  PROVE  TextIInv'
<1>1. seek.pc = "seek" /\ seek.count = seek.base /\ UNCHANGED <<textDocs, inverted>>
      /\ seek' = [seek EXCEPT !.count = @ + 1]
  BY DEF SkipBase
<1>2. PICK q, hits, start, base, count, pos :
        /\ seek = SeekOf(q, hits, start, base, count, pos)
        /\ Walking(q, hits, start, base, count, pos)
  BY <1>1, WalkIs, Zenon
<1>3. count = base /\ seek' = SeekOf(q, hits, start, base, base + 1, pos)
  BY <1>1, <1>2 DEF SeekOf
<1>4. Walking(q, hits, start, base, base + 1, pos)
  BY <1>2, <1>3, WalkSkips
<1>5. WalkKept
  BY <1>3, <1>4, Zenon DEF WalkKept
<1> QED
  BY <1>1, <1>5, WalkIsKept

\* One list is moved to the farthest document, or past it, or is at its end.
LEMMA SeekOneStep ==
  ASSUME TextIInv, SeekOne
  PROVE  TextIInv'
<1>1. /\ seek.pc = "seek" /\ seek.count <= Len(seek.query) /\ seek.count # seek.base
      /\ UNCHANGED <<textDocs, inverted>>
  BY DEF SeekOne
<1>2. PICK q, hits, start, base, count, pos :
        /\ seek = SeekOf(q, hits, start, base, count, pos)
        /\ Walking(q, hits, start, base, count, pos)
  BY <1>1, WalkIs, Zenon
<1>3. /\ seek.query = q /\ seek.hits = hits /\ seek.start = start /\ seek.base = base
      /\ seek.count = count /\ seek.pos = pos
  BY <1>2 DEF SeekOf
<1>4. ListsAscend /\ textDocs \in 0 .. MaxTextDocs
  BY DEF TextIInv
<1>5. WalkTypes(q, hits, start, base, count, pos)
  BY <1>2 DEF Walking
<1>6. q \in TextQueries /\ count \in DOMAIN q /\ count # base /\ start \in Nat
      /\ pos \in [DOMAIN q -> Nat]
  BY <1>1, <1>3, <1>5, QueryIs, IdsAreNumbers DEF WalkTypes
<1>7. DOMAIN ListOf(q, count) = 1 .. Len(ListOf(q, count)) /\ Len(ListOf(q, count)) \in Nat
      /\ \A k \in DOMAIN ListOf(q, count) : ListOf(q, count)[k] \in Nat
  BY <1>4, <1>6, ListsAre
<1> DEFINE found == Seek(count)
           moved == [seek EXCEPT !.pos[count] = found.pos]
<1>8. seek' = CASE found.id = -1 -> [seek EXCEPT !.pc = "end"]
                [] found.id = start -> [moved EXCEPT !.count = @ + 1]
                [] OTHER -> [moved EXCEPT !.start = found.id, !.count = 1, !.base = count]
  BY <1>3, Zenon DEF SeekOne
<1>9. \/ /\ found.id = -1
         /\ \A k \in DOMAIN ListOf(q, count) : ~(k >= pos[count] /\ ListOf(q, count)[k] >= start)
      \/ \E k \in DOMAIN ListOf(q, count) :
           /\ k >= pos[count] /\ ListOf(q, count)[k] >= start
           /\ \A m \in DOMAIN ListOf(q, count) :
                m >= pos[count] /\ ListOf(q, count)[m] >= start => k <= m
           /\ found = [id |-> ListOf(q, count)[k], pos |-> k + 1]
  <2>1. ListOf(q, count) = inverted[seek.query[count]]
    BY <1>3 DEF ListOf
  <2> QED
    BY <1>3, <1>7, <2>1, SeekFinds
<1> HIDE DEF found
<1>10. CASE /\ found.id = -1
            /\ \A k \in DOMAIN ListOf(q, count) :
                 ~(k >= pos[count] /\ ListOf(q, count)[k] >= start)
  <2>1. FoundAll(q, hits)
    BY <1>2, <1>4, <1>6, <1>10, WalkEnds
  <2>2. seek' = [seek EXCEPT !.pc = "end"]
    <3>1. found.id # start
      BY <1>6, <1>10
    <3> HIDE DEF moved
    <3> QED
      BY <1>8, <1>10, <3>1
  <2>3. seek'.pc = "end" /\ seek'.query = q /\ seek'.hits = hits
    BY <1>2, <2>2 DEF SeekOf
  <2> QED
    BY <1>1, <2>1, <2>3, WalkIsKept DEF WalkKept
<1>11. ASSUME NEW k \in DOMAIN ListOf(q, count),
              k >= pos[count], ListOf(q, count)[k] >= start,
              \A m \in DOMAIN ListOf(q, count) :
                m >= pos[count] /\ ListOf(q, count)[m] >= start => k <= m,
              found = [id |-> ListOf(q, count)[k], pos |-> k + 1]
       PROVE  TextIInv'
  <2>1. found.id = ListOf(q, count)[k] /\ found.pos = k + 1 /\ found.id # -1
    BY <1>7, <1>11
  <2> DEFINE pos1 == [pos EXCEPT ![count] = k + 1]
  <2>2. moved = SeekOf(q, hits, start, base, count, pos1)
    BY <1>2, <2>1 DEF SeekOf
  <2> HIDE DEF moved
  <2>3. CASE found.id = start
    <3>1. seek' = [moved EXCEPT !.count = @ + 1]
      BY <1>8, <2>1, <2>3
    <3>2. seek' = SeekOf(q, hits, start, base, count + 1, pos1)
      BY <2>2, <3>1 DEF SeekOf
    <3>3. Walking(q, hits, start, base, count + 1, pos1)
      BY <1>2, <1>4, <1>6, <1>11, <2>1, <2>3, WalkPasses
    <3> QED
      BY <1>1, <3>2, <3>3, WalkIsKept DEF WalkKept
  <2>4. CASE found.id # start
    <3>1. seek' = [moved EXCEPT !.start = found.id, !.count = 1, !.base = count]
      BY <1>8, <2>1, <2>4
    <3>2. seek' = SeekOf(q, hits, ListOf(q, count)[k], count, 1, pos1)
      BY <2>1, <2>2, <3>1 DEF SeekOf
    <3>3. Walking(q, hits, ListOf(q, count)[k], count, 1, pos1)
      BY <1>2, <1>4, <1>6, <1>11, <2>1, <2>4, WalkGoesFarther
    <3> QED
      BY <1>1, <3>2, <3>3, WalkIsKept DEF WalkKept
  <2> QED
    BY <2>3, <2>4
<1> QED
  BY <1>9, <1>10, <1>11

\* Every list has met the farthest document, which is a hit.
LEMMA TakeHitStep ==
  ASSUME TextIInv, TakeHit
  PROVE  TextIInv'
<1>1. /\ seek.pc = "seek" /\ seek.count = Len(seek.query) + 1
      /\ UNCHANGED <<textDocs, inverted>>
  BY DEF TakeHit
<1>2. PICK q, hits, start, base, count, pos :
        /\ seek = SeekOf(q, hits, start, base, count, pos)
        /\ Walking(q, hits, start, base, count, pos)
  BY <1>1, WalkIs, Zenon
<1>3. /\ seek.query = q /\ seek.hits = hits /\ seek.start = start /\ seek.base = base
      /\ seek.count = count /\ seek.pos = pos /\ count = Len(q) + 1
  BY <1>1, <1>2 DEF SeekOf
<1>4. ListsAscend /\ textDocs \in 0 .. MaxTextDocs
  BY DEF TextIInv
<1>5. WalkTypes(q, hits, start, base, count, pos)
  BY <1>2 DEF Walking
<1>6. q \in TextQueries /\ base \in DOMAIN q /\ start \in Nat /\ pos \in [DOMAIN q -> Nat]
  BY <1>5, IdsAreNumbers DEF WalkTypes
<1>7. DOMAIN ListOf(q, base) = 1 .. Len(ListOf(q, base)) /\ Len(ListOf(q, base)) \in Nat
      /\ \A k \in DOMAIN ListOf(q, base) : ListOf(q, base)[k] \in Nat
  BY <1>4, <1>6, ListsAre
<1> DEFINE hits1 == Append(hits, start)
           hit == [seek EXCEPT !.hits = Append(@, seek.start)]
           found == Seek(base)
<1>8. Walking(q, hits1, start, base, 1, pos) /\ start \in ToSet(hits1)
  BY <1>2, <1>3, <1>4, WalkHits
<1>9. hit = SeekOf(q, hits1, start, base, count, pos)
  BY <1>2 DEF SeekOf
<1>10. seek' = IF found.id = -1 THEN [hit EXCEPT !.pc = "end"]
               ELSE [hit EXCEPT !.pos[base] = found.pos, !.start = found.id, !.count = 1]
  BY <1>3, Zenon DEF TakeHit
<1>11. \/ /\ found.id = -1
          /\ \A k \in DOMAIN ListOf(q, base) : ~(k >= pos[base] /\ ListOf(q, base)[k] >= start)
       \/ \E k \in DOMAIN ListOf(q, base) :
            /\ k >= pos[base] /\ ListOf(q, base)[k] >= start
            /\ \A m \in DOMAIN ListOf(q, base) :
                 m >= pos[base] /\ ListOf(q, base)[m] >= start => k <= m
            /\ found = [id |-> ListOf(q, base)[k], pos |-> k + 1]
  <2>1. ListOf(q, base) = inverted[seek.query[base]]
    BY <1>3 DEF ListOf
  <2> QED
    BY <1>3, <1>7, <2>1, SeekFinds
<1> HIDE DEF found, hit, hits1
<1>12. CASE /\ found.id = -1
            /\ \A k \in DOMAIN ListOf(q, base) : ~(k >= pos[base] /\ ListOf(q, base)[k] >= start)
  <2>1. FoundAll(q, hits1)
    BY <1>4, <1>6, <1>8, <1>12, WalkEnds
  <2>2. seek' = [hit EXCEPT !.pc = "end"]
    BY <1>10, <1>12
  <2>3. seek'.pc = "end" /\ seek'.query = q /\ seek'.hits = hits1
    BY <1>9, <2>2 DEF SeekOf
  <2> QED
    BY <1>1, <2>1, <2>3, WalkIsKept DEF WalkKept
<1>13. ASSUME NEW k \in DOMAIN ListOf(q, base),
              k >= pos[base], ListOf(q, base)[k] >= start,
              \A m \in DOMAIN ListOf(q, base) :
                m >= pos[base] /\ ListOf(q, base)[m] >= start => k <= m,
              found = [id |-> ListOf(q, base)[k], pos |-> k + 1]
       PROVE  TextIInv'
  <2>1. found.id = ListOf(q, base)[k] /\ found.pos = k + 1 /\ found.id # -1
    BY <1>7, <1>13
  <2> DEFINE pos1 == [pos EXCEPT ![base] = k + 1]
  <2>2. seek' = [hit EXCEPT !.pos[base] = found.pos, !.start = found.id, !.count = 1]
    BY <1>10, <2>1
  <2>3. seek' = SeekOf(q, hits1, ListOf(q, base)[k], base, 1, pos1)
    BY <1>9, <2>1, <2>2 DEF SeekOf
  <2>4. Walking(q, hits1, ListOf(q, base)[k], base, 1, pos1)
    <3>1. CASE ListOf(q, base)[k] = start
      BY <1>4, <1>8, <3>1, WalkStays
    <3>2. CASE ListOf(q, base)[k] # start
      BY <1>4, <1>6, <1>8, <1>13, <3>2, WalkGoesFarther
    <3> QED
      BY <3>1, <3>2
  <2> QED
    BY <1>1, <2>3, <2>4, WalkIsKept DEF WalkKept
<1> QED
  BY <1>11, <1>12, <1>13

\* A document is noted behind those of every list.
LEMMA AddTextDocStep ==
  ASSUME TextIInv, NEW ws \in SUBSET Words, NEW noted \in BOOLEAN, AddTextDoc(ws, noted)
  PROVE  TextIInv'
<1>1. /\ seek.pc = "idle" /\ textDocs < MaxTextDocs /\ textDocs' = textDocs + 1
      /\ seek' = seek
      /\ inverted' = [w \in Words |->
                        IF noted /\ w \in ws THEN Append(inverted[w], textDocs)
                        ELSE inverted[w]]
  BY DEF AddTextDoc
<1>2. ListsAscend /\ textDocs \in 0 .. MaxTextDocs
  BY DEF TextIInv
<1>3. textDocs \in Nat /\ textDocs' \in 0 .. MaxTextDocs
  BY <1>1, <1>2, TextAssumption
<1>4. ASSUME NEW w \in Words
      PROVE  inverted'[w] \in Seq(0 .. textDocs) /\ Ascends(inverted'[w])
  <2> DEFINE list == inverted[w]
  <2>1. list \in Seq(0 .. (textDocs - 1)) /\ Ascends(list)
    BY <1>2 DEF ListsAscend
  <2> DEFINE ids == 0 .. (textDocs - 1)
  <2>2. \A k \in 1 .. Len(list) : list[k] \in ids
    <3> HIDE DEF ids, list
    <3>1. list \in Seq(ids)
      BY <2>1 DEF ids
    <3> QED
      BY <3>1
  <2>3. \A k \in 1 .. Len(list) : list[k] \in 0 .. textDocs /\ list[k] < textDocs
    BY <1>3, <2>2
  <2>4. list \in Seq(0 .. textDocs) /\ DOMAIN list = 1 .. Len(list) /\ Len(list) \in Nat
    <3> DEFINE all == 0 .. textDocs
    <3> HIDE DEF list, ids, all
    <3>1. list \in Seq(ids)
      BY <2>1 DEF ids
    <3>2. DOMAIN list = 1 .. Len(list) /\ Len(list) \in Nat
      BY <3>1
    <3>3. \A k \in 1 .. Len(list) : list[k] \in all
      BY <2>3 DEF all
    <3>4. list \in Seq(all)
      BY <3>1, <3>2, <3>3
    <3> QED
      BY <3>2, <3>4 DEF all
  <2>5. CASE noted /\ w \in ws
    <3>1. inverted'[w] = Append(list, textDocs)
      BY <1>1, <2>5
    <3> DEFINE longer == Append(list, textDocs)
               n == Len(list)
    <3>2. /\ longer \in Seq(0 .. textDocs) /\ DOMAIN longer = 1 .. (n + 1)
          /\ longer[n + 1] = textDocs /\ \A k \in 1 .. n : longer[k] = list[k]
      BY <1>3, <2>4
    <3> HIDE DEF longer, n, list
    <3>3. Ascends(longer)
      <4> SUFFICES ASSUME NEW j \in 1 .. (n + 1), NEW k \in 1 .. (n + 1), j < k
                   PROVE  longer[j] < longer[k]
        BY <3>2 DEF Ascends
      <4>1. j \in 1 .. n /\ (k = n + 1 \/ k \in 1 .. n)
        BY <2>4 DEF n
      <4>2. longer[j] < textDocs
        BY <2>3, <3>2, <4>1 DEF n
      <4>3. k \in 1 .. n => list[j] < list[k]
        BY <2>1, <2>4, <4>1 DEF Ascends, n
      <4> QED
        BY <3>2, <4>1, <4>2, <4>3
    <3> QED
      BY <3>1, <3>2, <3>3 DEF longer
  <2>6. CASE ~(noted /\ w \in ws)
    BY <1>1, <2>1, <2>4, <2>6
  <2> QED
    BY <2>5, <2>6
<1>5. (textDocs' - 1) = textDocs
  BY <1>1, <1>3
<1>6. ListsAscend'
  BY <1>4, <1>5 DEF ListsAscend
<1>7. seek = NotSeeking
  BY <1>1 DEF TextIInv, SeekOf
<1> QED
  BY <1>1, <1>3, <1>6, <1>7 DEF TextIInv, NotSeeking

\* A restart leaves no lists.
LEMMA RestartTextStep ==
  ASSUME TextIInv, RestartText
  PROVE  TextIInv'
<1>1. /\ seek.pc = "idle" /\ seek' = seek /\ textDocs' = textDocs
      /\ inverted' = [w \in Words |-> << >>]
  BY DEF RestartText
<1>2. ListsAscend'
  BY <1>1 DEF ListsAscend, Ascends
<1>3. seek = NotSeeking
  BY <1>1 DEF TextIInv, SeekOf
<1> QED
  BY <1>1, <1>2, <1>3 DEF TextIInv, NotSeeking

\* The answer is dropped.
LEMMA EndSearchStep ==
  ASSUME TextIInv, EndSearch
  PROVE  TextIInv'
  BY DEF TextIInv, EndSearch, ListsAscend

\* There are no documents and no search at first.
LEMMA TextInitInv ==
  ASSUME TextInit
  PROVE  TextIInv
<1>1. textDocs \in 0 .. MaxTextDocs
  BY TextAssumption DEF TextInit
<1>2. ListsAscend
  BY DEF TextInit, ListsAscend, Ascends
<1> QED
  BY <1>1, <1>2 DEF TextInit, TextIInv

\* Every step keeps the invariant.
LEMMA TextStepInv ==
  ASSUME TextIInv, [TextNext]_textVars
  PROVE  TextIInv'
<1>1. CASE \E ws \in SUBSET Words, noted \in BOOLEAN : AddTextDoc(ws, noted)
  BY <1>1, AddTextDocStep
<1>2. CASE RestartText
  BY <1>2, RestartTextStep
<1>3. CASE \E q \in TextQueries : BeginRetrieve(q)
  BY <1>3, BeginRetrieveStep
<1>4. CASE RetrieveStep
  BY <1>4, SkipBaseStep, SeekOneStep, TakeHitStep DEF RetrieveStep
<1>5. CASE EndSearch
  BY <1>5, EndSearchStep
<1>6. CASE UNCHANGED textVars
  <2>1. UNCHANGED <<textDocs, inverted, seek>>
    BY <1>6 DEF textVars
  <2>2. WalkKept \/ seek = NotSeeking
    BY <2>1, Zenon DEF TextIInv, WalkKept
  <2>3. CASE WalkKept
    BY <2>1, <2>3, WalkIsKept
  <2>4. CASE seek = NotSeeking
    BY <2>1, <2>4 DEF TextIInv, ListsAscend, NotSeeking
  <2> QED
    BY <2>2, <2>3, <2>4
<1> QED
  BY <1>1, <1>2, <1>3, <1>4, <1>5, <1>6 DEF TextNext

\* Lists of words ascend, a walk is where it says and has missed nothing, and at
\* its end the hits are what holds every word (awadb_retrieval.cc:98-143).
THEOREM TextInvariant == TextSpec => []TextIInv
<1>1. TextInit => TextIInv
  BY TextInitInv
<1>2. TextIInv /\ [TextNext]_textVars => TextIInv'
  BY TextStepInv
<1> QED
  BY <1>1, <1>2, PTL DEF TextSpec

\* The hits of a walk are exactly the documents that hold every word, halving
\* finds each of them, and they restrict the answers of a search whose filter on
\* fields is none or names documents (awadb_retrieval.cc:102, gamma_engine.cc:561).
THEOREM TextIsFound == TextSpec => []TextInv
<1>1. TextIInv => TextInv
  <2> SUFFICES ASSUME TextIInv PROVE TextInv
    OBVIOUS
  <2>1. ListsAscend /\ textDocs \in 0 .. MaxTextDocs
    BY DEF TextIInv
  <2>2. seek.pc = "end" => FoundAll(seek.query, seek.hits)
    BY DEF TextIInv, SeekOf, NotSeeking
  <2>3. TextTypeOK
    <3>1. \A w \in Words : inverted[w] \in Seq(Ids)
      BY <2>1, ListIs
    <3>2. seek.pc \in {"idle", "seek", "end"}
      BY DEF TextIInv, SeekOf, NotSeeking
    <3>3. ASSUME seek.pc = "seek"
          PROVE  /\ seek.start \in Ids /\ seek.base \in DOMAIN seek.query
                 /\ seek.count \in 1 .. (Len(seek.query) + 1)
      <4>1. PICK q, hits, start, base, count, pos :
              /\ seek = SeekOf(q, hits, start, base, count, pos)
              /\ Walking(q, hits, start, base, count, pos)
        BY <3>3, WalkIs, Zenon
      <4> QED
        BY <4>1 DEF SeekOf, Walking, WalkTypes
    <3> QED
      BY <2>1, <3>1, <3>2, <3>3 DEF TextTypeOK
  <2>4. WalkFindsTheMeet
    BY <2>2 DEF FoundAll, WalkFindsTheMeet
  <2>5. HitsCanBeSearched
    <3> SUFFICES ASSUME seek.pc = "end"
                 PROVE  /\ \A d \in Ids : TextHasDoc(seek.hits, d) <=> d \in ToSet(seek.hits)
                        /\ Len(seek.query) > 1 => IsInjective(seek.hits)
      BY DEF HitsCanBeSearched
    <3> QED
      BY <2>2, HalvingFinds DEF FoundAll
  <2>6. WordsRestrictAnswers
    <3> SUFFICES ASSUME seek.pc = "end", seek.hits # << >>,
                        NEW fields \in FieldAnswers \ {Everything},
                        NEW d \in Answered(fields)
                 PROVE  d \in Holding(seek.query)
      BY DEF WordsRestrictAnswers
    <3>1. d \in 0 .. (textDocs - 1)
      BY DEF Answered
    <3>2. d \in Ids
      BY <2>1, <3>1, TextAssumption DEF Ids
    <3>3. fields # Everything
      OBVIOUS
    <3>4. TextHasDoc(seek.hits, d)
      <4>1. CASE fields = NoFilters
        BY <4>1 DEF Answered, NoFilters, Everything
      <4>2. CASE fields # NoFilters
        BY <3>3, <4>2 DEF Answered
      <4> QED
        BY <4>1, <4>2
    <3>5. d \in ToSet(seek.hits)
      BY <2>2, <3>2, <3>4, HalvingFinds DEF FoundAll
    <3> QED
      BY <2>2, <3>5 DEF FoundAll
  <2> QED
    BY <2>3, <2>4, <2>5, <2>6 DEF TextInv
<1> QED
  BY <1>1, TextInvariant, PTL

-----------------------------------------------------------------------------
(* The migration (Migration): the invariant.                               *)

Rows == 0 .. Len(rowsOf) - 1
KeyOf(i) == rowsOf[i + 1].key
VerOf(i) == rowsOf[i + 1].ver
Elems(s) == {s[n] : n \in DOMAIN s}

MigTypes ==
  /\ rowsOf \in Seq([key : MigKeys, ver : Nat]) /\ Len(rowsOf) <= MaxRows
  /\ maxDocid \in 0 .. Len(rowsOf)
  /\ hidden \subseteq Rows /\ missed \subseteq Rows
  /\ keyIds \in [MigKeys -> Rows \union {NoId}]
  /\ writer \in [op : {"none", "add", "update", "revive", "delete"},
                 ids : SUBSET Rows, todo : Seq(Rows), unlogged : SUBSET Rows]
  /\ mig \in {"none", "new", "open", "begun"}
  /\ max_full_docid_ \in 0 .. maxDocid
  /\ next_migrate_docid_ \in -1 .. max_full_docid_
  /\ mig = "begun" => next_migrate_docid_ >= 0
  /\ incQueue \in Seq([id : Rows, del : BOOLEAN]) /\ migrated \in 0 .. Len(incQueue)
  /\ getter \in [pc : {"idle", "took", "read"}, id : RowIds, del : BOOLEAN, ver : Nat]
  /\ getter.pc # "idle" => getter.id \in Rows
  /\ copy \in [MigKeys -> [id : RowIds \union {NoId}, ver : Nat]]

\* The key of row i leads to it: no other row has replaced it.
Leads(i) == keyIds[KeyOf(i)] = i

\* A key leads to its own row; rows no key leads to are deleted for good.
KeysLead ==
  /\ \A k \in MigKeys, i \in Rows : keyIds[k] = i => KeyOf(i) = k
  /\ \A j \in Rows : Leads(j) \/ j \in hidden

\* The call of the engine is about rows their keys lead to, a delete about one
\* that has lost its key; only an add has rows that are not counted yet.
WriterIsReal ==
  /\ Elems(writer.todo) \union writer.unlogged \subseteq writer.ids
  /\ writer.op = "none" => writer.ids = {}
  /\ \A i \in writer.ids :
       /\ writer.op = "delete" => keyIds[KeyOf(i)] = NoId
       /\ writer.op # "delete" => Leads(i)
  /\ \A i \in Rows : i < maxDocid \/ (writer.op = "add" /\ i \in writer.ids)

\* Nothing is queued, taken or copied before its time.
QuietBefore ==
  /\ ~Logs => incQueue = << >>
  /\ mig # "begun" => migrated = 0 /\ getter = NoGet
  /\ getter.pc = "idle" => getter = NoGet
  /\ mig \in {"new", "open"} => \A k \in MigKeys : copy[k] = Absent

\* Entry p of the queue or a later one is about i, or the call of the engine
\* will add one that is.
AddsFrom(p, i) == \E q \in p .. Len(incQueue) : incQueue[q] = [id |-> i, del |-> FALSE]
DeletesFrom(p, i) == \E q \in p .. Len(incQueue) : incQueue[q] = [id |-> i, del |-> TRUE]
ToAdd(p, i) == AddsFrom(p, i) \/ (writer.op # "delete" /\ i \in Elems(writer.todo))
ToDelete(p, i) == DeletesFrom(p, i) \/ (writer.op = "delete" /\ i \in Elems(writer.todo))
ToCome(i) == ToAdd(migrated + 1, i)
Going(i) == ToDelete(migrated + 1, i)
BeingDeleted(i) == getter.pc # "idle" /\ getter.del /\ getter.id = i

\* Deletes are about rows that have left their keys, and the rows that replaced
\* these come after the deletes.
DeletesAreOld == \A j \in Rows : DeletesFrom(1, j) \/ BeingDeleted(j) => ~Leads(j)
NewFollowDeletes ==
  \A j, i \in Rows : KeyOf(i) = KeyOf(j) /\ Leads(i) =>
    /\ \A p \in (migrated + 1) .. Len(incQueue) :
         incQueue[p] = [id |-> j, del |-> TRUE] => ToAdd(p + 1, i)
    /\ BeingDeleted(j) => ToCome(i)

\* Before the scan begins, a document it will not reach is queued or will be.
UncountedAreQueued ==
  mig \in {"new", "open"} =>
    \A i \in Rows : i >= maxDocid => ToAdd(1, i) \/ i \in writer.unlogged

\* A copy of a document that has left its key will be deleted.
OldCopiesGo ==
  mig = "begun" =>
    /\ \A k \in MigKeys : copy[k] # Absent =>
         \E j \in Rows : /\ copy[k].id = j /\ KeyOf(j) = k
                         /\ Leads(j) \/ Going(j) \/ BeingDeleted(j)
    /\ \A j \in Rows : getter.pc = "read" /\ ~getter.del /\ getter.id = j =>
         Leads(j) \/ Going(j)

\* A document is in the copy as it is, on its way there, or missed.
OnItsWay(i) ==
  \/ i \in missed
  \/ copy[KeyOf(i)] = [id |-> i, ver |-> VerOf(i)]
  \/ i \in next_migrate_docid_ .. (max_full_docid_ - 1)
  \/ getter.pc = "took" /\ ~getter.del /\ getter.id = i
  \/ getter.pc = "read" /\ ~getter.del /\ getter.id = i /\ getter.ver = VerOf(i)
  \/ ToCome(i)
  \/ i \in writer.unlogged /\ writer.op = "add" /\ i >= max_full_docid_
  \/ i \in writer.unlogged /\ writer.op = "revive" /\ i < next_migrate_docid_ /\ i \in hidden
Shown(i) == i \notin hidden \/ (writer.op = "revive" /\ i \in writer.ids)
WillBeCopied ==
  mig = "begun" => \A i \in Rows : Leads(i) /\ Shown(i) => OnItsWay(i)

\* A document that is about to show again is queued or will be, was handed out
\* while it was hidden, or is not logged at all, so that its call notes it.
RevivedAreQueued ==
  mig # "none" /\ writer.op = "revive" =>
    \A i \in writer.ids \intersect hidden :
      \/ ToCome(i) \/ i \in writer.unlogged \/ i \in missed
      \/ getter.pc = "took" /\ ~getter.del /\ getter.id = i

\* What was read is the document as it is, or the document comes again.
ReadsAreRepeated ==
  \A i \in Rows : getter.pc = "read" /\ ~getter.del /\ getter.id = i /\ Leads(i) =>
    getter.ver = VerOf(i) \/ ToCome(i)

MigIInv ==
  /\ MigTypes
  /\ KeysLead
  /\ WriterIsReal
  /\ QuietBefore
  /\ DeletesAreOld
  /\ NewFollowDeletes
  /\ UncountedAreQueued
  /\ OldCopiesGo
  /\ WillBeCopied
  /\ RevivedAreQueued
  /\ ReadsAreRepeated

-----------------------------------------------------------------------------
(* The migration: the facts its steps use.                                 *)

\* What is in a sequence, its head and its tail.
LEMMA ElemsOf ==
  ASSUME NEW S, NEW s \in Seq(S), s # << >>
  PROVE  /\ Head(s) \in S /\ Tail(s) \in Seq(S)
         /\ Elems(s) = Elems(Tail(s)) \union {Head(s)}
<1>1. Len(s) \in Nat \ {0} /\ DOMAIN s = 1 .. Len(s)
      /\ Len(Tail(s)) = Len(s) - 1 /\ DOMAIN Tail(s) = 1 .. (Len(s) - 1)
      /\ Tail(s) \in Seq(S) /\ Head(s) = s[1] /\ s[1] \in S
      /\ \A n \in 1 .. (Len(s) - 1) : Tail(s)[n] = s[n + 1]
  OBVIOUS
<1>2. \A n \in 1 .. Len(s) : n = 1 \/ (n - 1 \in 1 .. (Len(s) - 1) /\ s[n] = Tail(s)[n - 1])
  <2> SUFFICES ASSUME NEW n \in 1 .. Len(s), n # 1
               PROVE  n - 1 \in 1 .. (Len(s) - 1) /\ s[n] = Tail(s)[n - 1]
    OBVIOUS
  <2>1. n - 1 \in 1 .. (Len(s) - 1) /\ (n - 1) + 1 = n
    BY <1>1
  <2> QED
    BY <1>1, <2>1
<1>3. \A n \in 1 .. (Len(s) - 1) : n + 1 \in 1 .. Len(s)
  BY <1>1
<1>4. ASSUME NEW x PROVE x \in Elems(s) <=> x \in Elems(Tail(s)) \union {Head(s)}
  <2>1. x \in Elems(s) <=> \E n \in 1 .. Len(s) : s[n] = x
    BY <1>1 DEF Elems
  <2>2. x \in Elems(Tail(s)) <=> \E n \in 1 .. (Len(s) - 1) : Tail(s)[n] = x
    BY <1>1 DEF Elems
  <2>3. 1 \in 1 .. Len(s)
    BY <1>1
  <2> QED
    BY <1>1, <1>2, <1>3, <2>1, <2>2, <2>3
<1> QED
  BY <1>1, <1>4

\* A sequence of one.
LEMMA ElemsOfOne == ASSUME NEW i PROVE Elems(<<i>>) = {i}
  BY DEF Elems

\* The empty sequence holds nothing.
LEMMA ElemsOfNone == Elems(<< >>) = {}
  BY DEF Elems

\* What is in a sequence is in its set.
LEMMA ElemsInside == ASSUME NEW S, NEW s \in Seq(S) PROVE Elems(s) \subseteq S
  BY DEF Elems

\* A sequence that holds nothing is empty.
LEMMA NothingInside ==
  ASSUME NEW S, NEW s \in Seq(S), Elems(s) = {} PROVE s = << >>
<1> SUFFICES ASSUME s # << >> PROVE FALSE
  OBVIOUS
<1>1. 1 \in DOMAIN s
  OBVIOUS
<1>2. s[1] \in Elems(s)
  BY <1>1 DEF Elems
<1> QED
  BY <1>2

\* One document, or a batch of two.
LEMMA BatchIs ==
  ASSUME NEW ks \in Batches
  PROVE  /\ ks \in Seq(MigKeys) /\ Len(ks) \in {1, 2} /\ DOMAIN ks = 1 .. Len(ks)
         /\ \A m, n \in DOMAIN ks : ks[m] = ks[n] => m = n
<1>1. CASE \E k \in MigKeys : ks = <<k>>
  BY <1>1
<1>2. CASE ks \in [1 .. 2 -> MigKeys] /\ ks[1] # ks[2]
  <2>1. ks = <<ks[1], ks[2]>> /\ ks[1] \in MigKeys /\ ks[2] \in MigKeys
    BY <1>2
  <2>3. ks \in Seq(MigKeys) /\ Len(ks) = 2 /\ DOMAIN ks = 1 .. 2
    <3> DEFINE first == ks[1]
               second == ks[2]
    <3>1. ks = <<first, second>> /\ first \in MigKeys /\ second \in MigKeys
      BY <2>1
    <3> HIDE DEF first, second
    <3> QED
      BY <3>1
  <2>2. \A m \in 1 .. 2 : m = 1 \/ m = 2
    OBVIOUS
  <2> QED
    BY <1>2, <2>2, <2>3
<1> QED
  BY <1>1, <1>2 DEF Batches

\* What the invariant says of rows and of the call of the engine.
LEMMA RowsAre ==
  ASSUME MigTypes
  PROVE  /\ Len(rowsOf) \in Nat /\ Rows \subseteq Nat /\ Rows \subseteq RowIds
         /\ MaxRows \in Nat /\ NoId \notin Rows /\ DOMAIN rowsOf = 1 .. Len(rowsOf)
         /\ \A i \in Rows : /\ i + 1 \in 1 .. Len(rowsOf) /\ KeyOf(i) \in MigKeys
                            /\ rowsOf[i + 1] \in [key : MigKeys, ver : Nat]
<1> DEFINE row == [key : MigKeys, ver : Nat]
<1>0. rowsOf \in Seq(row)
  BY DEF MigTypes
<1>1. Len(rowsOf) \in Nat /\ DOMAIN rowsOf = 1 .. Len(rowsOf)
      /\ \A n \in 1 .. Len(rowsOf) : rowsOf[n] \in row
  <2> HIDE DEF row
  <2> QED
    BY <1>0
<1>2. MaxRows \in Nat /\ Len(rowsOf) <= MaxRows
  BY MigrationAssumption DEF MigTypes
<1>3. \A i \in Rows : i \in Nat /\ i + 1 \in 1 .. Len(rowsOf) /\ i \in RowIds
  BY <1>1, <1>2 DEF Rows, RowIds
<1>4. NoId \notin Rows
  BY DEF Rows, NoId
<1> QED
  BY <1>1, <1>2, <1>3, <1>4 DEF KeyOf

\* What is queued or will be, while the queue stays as it is.
LEMMA ComingStays ==
  ASSUME Elems(writer.todo) = {}, UNCHANGED <<incQueue, migrated>>
  PROVE  /\ \A p, i : ToAdd(p, i) => ToAdd(p, i)'
         /\ \A p, i : ToDelete(p, i) => ToDelete(p, i)'
         /\ \A i : ToCome(i) => ToCome(i)'
         /\ \A i : Going(i) => Going(i)'
         /\ \A i : i \in Elems(writer'.todo) /\ writer'.op # "delete" =>
              ToCome(i)' /\ \A p : ToAdd(p, i)'
         /\ \A i : i \in Elems(writer'.todo) /\ writer'.op = "delete" => Going(i)'
         /\ \A p, i : DeletesFrom(p, i)' <=> DeletesFrom(p, i)
  BY DEF ToCome, Going, ToAdd, ToDelete, AddsFrom, DeletesFrom, Elems

\* The entries of the queue are about rows.
LEMMA EntriesAre ==
  ASSUME MigTypes
  PROVE  /\ Len(incQueue) \in Nat /\ DOMAIN incQueue = 1 .. Len(incQueue) /\ migrated \in Nat
         /\ \A p \in 1 .. Len(incQueue) :
              incQueue[p] \in [id : Rows, del : BOOLEAN] /\ incQueue[p].id \in Rows
         /\ \A j : DeletesFrom(1, j) => j \in Rows
         /\ \A j : getter.pc # "idle" /\ getter.id = j => j \in Rows
<1> DEFINE entry == [id : Rows, del : BOOLEAN]
<1>1. incQueue \in Seq(entry) /\ migrated \in 0 .. Len(incQueue)
      /\ (getter.pc # "idle" => getter.id \in Rows)
  BY DEF MigTypes
<1>2. /\ Len(incQueue) \in Nat /\ DOMAIN incQueue = 1 .. Len(incQueue) /\ migrated \in Nat
      /\ \A p \in 1 .. Len(incQueue) : incQueue[p] \in entry
  <2> HIDE DEF entry
  <2> QED
    BY <1>1
<1>3. \A p \in 1 .. Len(incQueue) : incQueue[p].id \in Rows
  BY <1>2
<1>4. \A j : DeletesFrom(1, j) => j \in Rows
  <2> SUFFICES ASSUME NEW j, DeletesFrom(1, j) PROVE j \in Rows
    OBVIOUS
  <2>1. PICK q \in 1 .. Len(incQueue) : incQueue[q] = [id |-> j, del |-> TRUE]
    BY DEF DeletesFrom
  <2>2. incQueue[q].id = j
    BY <2>1
  <2> QED
    BY <1>3, <2>2
<1> QED
  BY <1>1, <1>2, <1>3, <1>4

\* The delete of a call that is about to begin is to come, as is what it adds.
LEMMA CallKeeps ==
  ASSUME MigIInv, Elems(writer.todo) = {}, UNCHANGED <<cursor, getter, copy>>,
         Rows \subseteq Rows', \A i \in Rows : KeyOf(i)' = KeyOf(i),
         \A i \in Rows : Leads(i)' => Leads(i),
         \A i \in Rows : Leads(i) => Leads(i)' \/ (writer'.op = "delete" /\ i \in Elems(writer'.todo)),
         \A i \in Rows' \ Rows : writer'.op # "delete" /\ i \in Elems(writer'.todo),
         \A i \in Rows :
           VerOf(i)' = VerOf(i) \/ (writer'.op # "delete" /\ i \in Elems(writer'.todo)),
         writer'.op = "revive" => Elems(writer'.todo) = writer'.ids
  PROVE  /\ QuietBefore' /\ DeletesAreOld' /\ NewFollowDeletes' /\ OldCopiesGo'
         /\ RevivedAreQueued' /\ ReadsAreRepeated'
<1>0. /\ mig' = mig /\ next_migrate_docid_' = next_migrate_docid_
      /\ max_full_docid_' = max_full_docid_ /\ incQueue' = incQueue
      /\ migrated' = migrated /\ getter' = getter /\ copy' = copy
  BY DEF cursor
<1>1. QuietBefore'
  BY <1>0 DEF MigIInv, QuietBefore, Logs, NoGet, Absent
<1>2. /\ \A j : BeingDeleted(j)' <=> BeingDeleted(j)
      /\ \A j : DeletesFrom(1, j)' <=> DeletesFrom(1, j)
  BY <1>0, ComingStays DEF BeingDeleted
<1>3. \A j : DeletesFrom(1, j) \/ BeingDeleted(j) => j \in Rows
  BY EntriesAre DEF MigIInv, BeingDeleted
<1>4. DeletesAreOld'
  <2> SUFFICES ASSUME NEW j \in Rows', DeletesFrom(1, j) \/ BeingDeleted(j) PROVE ~Leads(j)'
    BY <1>2 DEF DeletesAreOld
  <2>1. j \in Rows /\ ~Leads(j)
    BY <1>3 DEF MigIInv, DeletesAreOld
  <2> QED
    BY <2>1
<1>5. NewFollowDeletes'
  <2> SUFFICES ASSUME NEW j \in Rows', NEW i \in Rows', KeyOf(i)' = KeyOf(j)', Leads(i)'
               PROVE  /\ \A p \in (migrated + 1) .. Len(incQueue) :
                           incQueue[p] = [id |-> j, del |-> TRUE] => ToAdd(p + 1, i)'
                      /\ BeingDeleted(j) => ToCome(i)'
    BY <1>0, <1>2 DEF NewFollowDeletes
  <2>1. CASE i \notin Rows
    BY <2>1, <1>0, ComingStays
  <2>2. CASE i \in Rows
    <3>1. Leads(i)
      BY <2>2
    <3>2. ASSUME NEW p \in (migrated + 1) .. Len(incQueue), incQueue[p] = [id |-> j, del |-> TRUE]
          PROVE  ToAdd(p + 1, i)'
      <4>1. p \in 1 .. Len(incQueue) /\ incQueue[p].id = j
        BY <3>2, EntriesAre DEF MigIInv
      <4>2. j \in Rows
        BY <4>1, EntriesAre DEF MigIInv
      <4>3. ToAdd(p + 1, i)
        BY <2>2, <3>1, <3>2, <4>2 DEF MigIInv, NewFollowDeletes
      <4> QED
        BY <1>0, <4>3, ComingStays
    <3>3. ASSUME BeingDeleted(j) PROVE ToCome(i)'
      <4>1. j \in Rows
        BY <1>3, <3>3
      <4>2. ToCome(i)
        BY <2>2, <3>1, <3>3, <4>1 DEF MigIInv, NewFollowDeletes
      <4> QED
        BY <1>0, <4>2, ComingStays
    <3> QED
      BY <3>2, <3>3
  <2> QED
    BY <2>1, <2>2
<1>6. \A j \in Rows : Leads(j) \/ Going(j) => Leads(j)' \/ Going(j)'
  BY <1>0, ComingStays
<1>7. OldCopiesGo'
  <2> SUFFICES ASSUME mig = "begun"
               PROVE  /\ \A k \in MigKeys : copy[k] # Absent =>
                           \E j \in Rows' : /\ copy[k].id = j /\ KeyOf(j)' = k
                                            /\ Leads(j)' \/ Going(j)' \/ BeingDeleted(j)
                      /\ \A j \in Rows' : getter.pc = "read" /\ ~getter.del /\ getter.id = j =>
                           Leads(j)' \/ Going(j)'
    BY <1>0, <1>2 DEF OldCopiesGo, Absent
  <2>1. /\ \A k \in MigKeys : copy[k] # Absent =>
             \E j \in Rows : /\ copy[k].id = j /\ KeyOf(j) = k
                             /\ Leads(j) \/ Going(j) \/ BeingDeleted(j)
        /\ \A j \in Rows : getter.pc = "read" /\ ~getter.del /\ getter.id = j =>
             Leads(j) \/ Going(j)
    BY DEF MigIInv, OldCopiesGo
  <2>2. \A j : getter.pc = "read" /\ getter.id = j => j \in Rows
    BY EntriesAre DEF MigIInv
  <2>3. ASSUME NEW k \in MigKeys, copy[k] # Absent
        PROVE  \E j \in Rows' : /\ copy[k].id = j /\ KeyOf(j)' = k
                                /\ Leads(j)' \/ Going(j)' \/ BeingDeleted(j)
    <3>1. PICK j \in Rows : /\ copy[k].id = j /\ KeyOf(j) = k
                            /\ Leads(j) \/ Going(j) \/ BeingDeleted(j)
      BY <2>1, <2>3
    <3> QED
      BY <1>6, <3>1
  <2> QED
    BY <1>6, <2>1, <2>2, <2>3
<1>8. RevivedAreQueued'
  BY <1>0, ComingStays DEF RevivedAreQueued
<1>9. ReadsAreRepeated'
  <2> SUFFICES ASSUME NEW i \in Rows, getter.pc = "read" /\ ~getter.del /\ getter.id = i,
                      Leads(i)'
               PROVE  getter.ver = VerOf(i)' \/ ToCome(i)'
    <3>1. \A j : getter.pc = "read" /\ getter.id = j => j \in Rows
      BY EntriesAre DEF MigIInv
    <3> QED
      BY <1>0, <3>1 DEF ReadsAreRepeated
  <2>1. getter.ver = VerOf(i) \/ ToCome(i)
    BY DEF MigIInv, ReadsAreRepeated
  <2> QED
    BY <1>0, <2>1, ComingStays
<1> QED
  BY <1>1, <1>4, <1>5, <1>7, <1>8, <1>9

\* While no call is in progress there is nothing to log and nothing unlogged.
LEMMA NoCallIs ==
  ASSUME MigIInv, writer.op = "none"
  PROVE  /\ writer.ids = {} /\ writer.unlogged = {} /\ Elems(writer.todo) = {}
         /\ \A i \in Rows : i < maxDocid
  BY DEF MigIInv, WriterIsReal

\* A call that begins leaves on its way what it does not change.
LEMMA StillOnItsWay ==
  ASSUME MigIInv, writer.op = "none", UNCHANGED <<cursor, getter, copy, missed>>,
         NEW i \in Rows, KeyOf(i)' = KeyOf(i), VerOf(i)' = VerOf(i), OnItsWay(i)
  PROVE  OnItsWay(i)'
<1>1. Elems(writer.todo) = {} /\ writer.unlogged = {}
  BY NoCallIs
<1>2. /\ next_migrate_docid_' = next_migrate_docid_ /\ max_full_docid_' = max_full_docid_
      /\ incQueue' = incQueue /\ migrated' = migrated
  BY DEF cursor
<1>3. ToCome(i) => ToCome(i)'
  BY <1>1, <1>2, ComingStays
<1> QED
  BY <1>1, <1>2, <1>3 DEF OnItsWay

\* New documents are rows behind the others, to which their keys lead.
LEMMA StoreDocsIs ==
  ASSUME MigIInv, NEW ks \in Batches, StoreDocs(ks), NEW n, n = Len(rowsOf)
  PROVE  /\ rowsOf' \in Seq([key : MigKeys, ver : Nat]) /\ Len(rowsOf') <= MaxRows
         /\ n \in Nat /\ Len(rowsOf') = n + Len(ks)
         /\ \A i \in Rows : KeyOf(i)' = KeyOf(i) /\ VerOf(i)' = VerOf(i)
         /\ Rows \subseteq Rows'
         /\ \A i \in Rows' \ Rows : \E m \in DOMAIN ks : i = n + m - 1
         /\ \A m \in DOMAIN ks : /\ n + m - 1 \in Rows' \ Rows
                                 /\ KeyOf(n + m - 1)' = ks[m]
                                 /\ keyIds'[ks[m]] = n + m - 1
                                 /\ keyIds[ks[m]] = NoId
         /\ \A k \in MigKeys : (\A m \in DOMAIN ks : ks[m] # k) => keyIds'[k] = keyIds[k]
         /\ DOMAIN keyIds' = MigKeys
         /\ writer'.op = "add" /\ writer'.unlogged = {}
         /\ writer' = [op |-> "add", ids |-> writer'.ids, todo |-> writer'.todo, unlogged |-> {}]
         /\ writer'.todo \in Seq(Rows') /\ writer'.ids = Rows' \ Rows
         /\ Elems(writer'.todo) = Rows' \ Rows
<1> DEFINE new == [i \in DOMAIN ks |-> [key |-> ks[i], ver |-> 1]]
           ids == [i \in DOMAIN ks |-> n + i - 1]
           row == [key : MigKeys, ver : Nat]
<1>1. /\ n + Len(ks) <= MaxRows /\ \A i \in DOMAIN ks : keyIds[ks[i]] = NoId
      /\ rowsOf' = rowsOf \o new
      /\ keyIds' = [k \in MigKeys |->
           IF \E i \in DOMAIN ks : ks[i] = k
           THEN n + (CHOOSE i \in DOMAIN ks : ks[i] = k) - 1 ELSE keyIds[k]]
      /\ writer' = [op |-> "add", ids |-> {ids[i] : i \in DOMAIN ids}, todo |-> ids,
                    unlogged |-> {}]
  BY DEF StoreDocs, Calls
<1>2. /\ ks \in Seq(MigKeys) /\ Len(ks) \in {1, 2} /\ DOMAIN ks = 1 .. Len(ks)
      /\ \A l, m \in DOMAIN ks : ks[l] = ks[m] => l = m
      /\ \A m \in DOMAIN ks : ks[m] \in MigKeys
  <2>1. /\ ks \in Seq(MigKeys) /\ Len(ks) \in {1, 2} /\ DOMAIN ks = 1 .. Len(ks)
        /\ \A l, m \in DOMAIN ks : ks[l] = ks[m] => l = m
    BY BatchIs
  <2> QED
    BY <2>1
<1>3. rowsOf \in Seq(row) /\ n \in Nat /\ n = Len(rowsOf)
  BY DEF MigIInv, MigTypes
<1>4. new \in Seq(row) /\ Len(new) = Len(ks) /\ \A m \in DOMAIN ks : new[m].key = ks[m]
  <2>1. \A m \in 1 .. Len(ks) : new[m] \in row
    BY <1>2
  <2>2. new = [m \in 1 .. Len(ks) |-> new[m]] /\ Len(ks) \in Nat
    BY <1>2
  <2>3. new \in [1 .. Len(ks) -> row]
    BY <2>1, <2>2
  <2>4. new \in Seq(row) /\ Len(new) = Len(ks)
    <3> HIDE DEF new, row
    <3> QED
      BY <2>2, <2>3
  <2> QED
    BY <2>4
<1>5. /\ rowsOf' \in Seq(row) /\ Len(rowsOf') = n + Len(ks)
      /\ \A l \in 1 .. n : rowsOf'[l] = rowsOf[l]
      /\ \A m \in 1 .. Len(ks) : rowsOf'[n + m] = new[m]
  <2> HIDE DEF new, row
  <2>1. /\ rowsOf \o new \in Seq(row) /\ Len(rowsOf \o new) = Len(rowsOf) + Len(new)
        /\ \A l \in 1 .. Len(rowsOf) + Len(new) :
             (rowsOf \o new)[l] = IF l <= Len(rowsOf) THEN rowsOf[l] ELSE new[l - Len(rowsOf)]
    <3>1. rowsOf \in Seq(row) /\ new \in Seq(row)
      BY <1>3, <1>4
    <3> QED
      BY <3>1, ConcatProperties
  <2>2. \A m \in 1 .. Len(ks) : n + m \in 1 .. n + Len(ks) /\ ~(n + m <= n) /\ (n + m) - n = m
    BY <1>2, <1>3
  <2>3. \A l \in 1 .. n : l \in 1 .. n + Len(ks) /\ l <= n
    BY <1>2, <1>3
  <2> QED
    BY <1>1, <1>4, <2>1, <2>2, <2>3
<1>6. /\ Rows = 0 .. n - 1 /\ Rows' = 0 .. n + Len(ks) - 1 /\ Len(ks) \in Nat
  BY <1>2, <1>5 DEF Rows
<1> HIDE DEF new, row
<1>7. \A i \in Rows : i \in Nat /\ i + 1 \in 1 .. n
  BY <1>3, <1>6
<1>8. \A i \in Rows : KeyOf(i)' = KeyOf(i) /\ VerOf(i)' = VerOf(i)
  BY <1>5, <1>7 DEF KeyOf, VerOf
<1>9. Rows \subseteq Rows'
  BY <1>3, <1>6
<1>10. \A m \in DOMAIN ks : n + m - 1 \in Rows' \ Rows /\ (n + m - 1) + 1 = n + m
  BY <1>2, <1>3, <1>6
<1>11. \A i \in Rows' \ Rows : \E m \in DOMAIN ks : i = n + m - 1
  <2> SUFFICES ASSUME NEW i \in Rows' \ Rows PROVE \E m \in DOMAIN ks : i = n + m - 1
    OBVIOUS
  <2>1. i - n + 1 \in DOMAIN ks /\ i = n + (i - n + 1) - 1
    BY <1>2, <1>3, <1>6
  <2> QED
    BY <2>1
<1>12. \A m \in DOMAIN ks : KeyOf(n + m - 1)' = ks[m]
  <2> SUFFICES ASSUME NEW m \in DOMAIN ks PROVE KeyOf(n + m - 1)' = ks[m]
    OBVIOUS
  <2>1. rowsOf'[(n + m - 1) + 1] = new[m]
    BY <1>2, <1>5, <1>10
  <2> QED
    BY <1>4, <2>1 DEF KeyOf
<1>13. \A m \in DOMAIN ks : keyIds'[ks[m]] = n + m - 1
  <2> SUFFICES ASSUME NEW m \in DOMAIN ks PROVE keyIds'[ks[m]] = n + m - 1
    OBVIOUS
  <2>1. (CHOOSE l \in DOMAIN ks : ks[l] = ks[m]) = m
    BY <1>2
  <2> QED
    BY <1>1, <1>2, <2>1
<1>14. \A k \in MigKeys : (\A m \in DOMAIN ks : ks[m] # k) => keyIds'[k] = keyIds[k]
  BY <1>1
<1>15. ids \in Seq(Rows') /\ Elems(ids) = Rows' \ Rows
  <2>1. \A m \in DOMAIN ks : ids[m] \in Rows' \ Rows /\ ids[m] = n + m - 1
    BY <1>10
  <2>2. ids \in [1 .. Len(ks) -> Rows'] /\ DOMAIN ids = DOMAIN ks
    BY <1>2, <2>1
  <2>3. ids \in Seq(Rows')
    <3>1. Len(ks) \in Nat
      BY <1>6
    <3> HIDE DEF ids
    <3> QED
      BY <2>2, <3>1
  <2>4. \A i \in Rows' \ Rows : \E m \in DOMAIN ids : ids[m] = i
    BY <1>11, <2>1, <2>2
  <2> HIDE DEF ids
  <2> QED
    BY <2>1, <2>2, <2>3, <2>4 DEF Elems
<1>16. /\ writer'.op = "add" /\ writer'.unlogged = {}
       /\ writer'.todo = ids /\ writer'.ids = Elems(ids)
       /\ writer' = [op |-> "add", ids |-> writer'.ids, todo |-> writer'.todo, unlogged |-> {}]
  <2> HIDE DEF ids
  <2> QED
    BY <1>1 DEF Elems
<1> HIDE DEF ids
<1>17. Len(rowsOf') <= MaxRows
  BY <1>1, <1>5
<1>18. DOMAIN keyIds' = MigKeys
  BY <1>1
<1> QED
  BY <1>1, <1>3, <1>5, <1>8, <1>9, <1>10, <1>11, <1>12, <1>13, <1>14, <1>15, <1>16, <1>17, <1>18
     DEF row

\* AddOrUpdate, or a batch, has stored new documents.
LEMMA StoreDocsStep ==
  ASSUME MigIInv, NEW ks \in Batches, StoreDocs(ks)
  PROVE  MigIInv'
<1> DEFINE n == Len(rowsOf)
<1>1. /\ rowsOf' \in Seq([key : MigKeys, ver : Nat]) /\ Len(rowsOf') <= MaxRows
      /\ n \in Nat /\ Len(rowsOf') = n + Len(ks)
      /\ \A i \in Rows : KeyOf(i)' = KeyOf(i) /\ VerOf(i)' = VerOf(i)
      /\ Rows \subseteq Rows'
  BY StoreDocsIs
<1>2. /\ \A k \in MigKeys : keyIds'[k] = keyIds[k] \/ (keyIds[k] = NoId /\ keyIds'[k] \in Rows' \ Rows)
      /\ \A k \in MigKeys, i \in Rows' \ Rows : keyIds'[k] = i => KeyOf(i)' = k
      /\ \A i \in Rows' \ Rows : Leads(i)' /\ KeyOf(i)' \in MigKeys
      /\ DOMAIN keyIds' = MigKeys
  <2> SUFFICES ASSUME NEW m, m = Len(rowsOf)
               PROVE  /\ \A k \in MigKeys : keyIds'[k] = keyIds[k] \/ (keyIds[k] = NoId /\ keyIds'[k] \in Rows' \ Rows)
                      /\ \A k \in MigKeys, i \in Rows' \ Rows : keyIds'[k] = i => KeyOf(i)' = k
                      /\ \A i \in Rows' \ Rows : Leads(i)' /\ KeyOf(i)' \in MigKeys
                      /\ DOMAIN keyIds' = MigKeys
    OBVIOUS
  <2>1. /\ \A i \in Rows' \ Rows : \E l \in DOMAIN ks : i = m + l - 1
        /\ \A l \in DOMAIN ks : /\ m + l - 1 \in Rows' \ Rows
                                /\ KeyOf(m + l - 1)' = ks[l]
                                /\ keyIds'[ks[l]] = m + l - 1
                                /\ keyIds[ks[l]] = NoId
        /\ \A k \in MigKeys : (\A l \in DOMAIN ks : ks[l] # k) => keyIds'[k] = keyIds[k]
        /\ DOMAIN keyIds' = MigKeys
    BY StoreDocsIs
  <2>2. \A l \in DOMAIN ks : ks[l] \in MigKeys
    <3>1. ks \in Seq(MigKeys)
      BY BatchIs
    <3> QED
      BY <3>1
  <2>3. \A k \in MigKeys : keyIds[k] \in Rows \union {NoId}
    BY DEF MigIInv, MigTypes
  <2>4. \A k \in MigKeys, i \in Rows' \ Rows : keyIds'[k] = i => KeyOf(i)' = k
    <3> SUFFICES ASSUME NEW k \in MigKeys, NEW i \in Rows' \ Rows, keyIds'[k] = i
                 PROVE  KeyOf(i)' = k
      OBVIOUS
    <3>1. NoId \notin Rows'
      BY DEF Rows, NoId
    <3>2. keyIds'[k] # keyIds[k]
      BY <2>3, <3>1
    <3>3. PICK l \in DOMAIN ks : ks[l] = k
      BY <2>1, <3>2
    <3>4. i = m + l - 1
      BY <2>1, <3>3
    <3> QED
      BY <2>1, <3>3, <3>4
  <2>5. \A i \in Rows' \ Rows : Leads(i)' /\ KeyOf(i)' \in MigKeys
    <3> SUFFICES ASSUME NEW i \in Rows' \ Rows PROVE keyIds'[KeyOf(i)'] = i /\ KeyOf(i)' \in MigKeys
      BY DEF Leads
    <3>1. PICK l \in DOMAIN ks : i = m + l - 1
      BY <2>1
    <3>2. KeyOf(i)' = ks[l]
      BY <2>1, <3>1
    <3> QED
      BY <2>1, <2>2, <3>1, <3>2
  <2> QED
    BY <2>1, <2>4, <2>5
<1>3. /\ writer' = [op |-> "add", ids |-> writer'.ids, todo |-> writer'.todo, unlogged |-> {}]
      /\ writer'.todo \in Seq(Rows') /\ writer'.ids = Rows' \ Rows
      /\ Elems(writer'.todo) = Rows' \ Rows
      /\ writer'.op = "add" /\ writer'.unlogged = {}
  BY StoreDocsIs
<1>4. /\ writer.op = "none"
      /\ UNCHANGED <<maxDocid, hidden, cursor, getter, copy, missed, changes, begins>>
  BY DEF StoreDocs
<1>5. /\ mig' = mig /\ next_migrate_docid_' = next_migrate_docid_
      /\ max_full_docid_' = max_full_docid_ /\ incQueue' = incQueue /\ migrated' = migrated
  BY <1>4 DEF cursor
<1>6. \A i \in Rows : Leads(i)' <=> Leads(i)
  <2> SUFFICES ASSUME NEW i \in Rows PROVE keyIds'[KeyOf(i)'] = i <=> keyIds[KeyOf(i)] = i
    BY DEF Leads
  <2>1. KeyOf(i) \in MigKeys /\ NoId \notin Rows
    BY RowsAre DEF MigIInv
  <2> QED
    BY <1>1, <1>2, <2>1
<1> HIDE DEF n
<1>7. MigTypes'
  <2>1. maxDocid' \in 0 .. Len(rowsOf') /\ max_full_docid_' \in 0 .. maxDocid'
        /\ next_migrate_docid_' \in -1 .. max_full_docid_'
        /\ migrated' \in 0 .. Len(incQueue')
        /\ mig' \in {"none", "new", "open", "begun"}
        /\ (mig' = "begun" => next_migrate_docid_' >= 0)
    <3>1. Len(ks) \in Nat
      BY BatchIs
    <3> QED
      BY <1>1, <1>4, <1>5, <3>1 DEF MigIInv, MigTypes, n
  <2>2. hidden' \subseteq Rows' /\ missed' \subseteq Rows'
    BY <1>1, <1>4 DEF MigIInv, MigTypes
  <2>3. keyIds' \in [MigKeys -> Rows' \union {NoId}]
    <3>1. \A k \in MigKeys : keyIds[k] \in Rows \union {NoId}
      BY DEF MigIInv, MigTypes
    <3>2. \A k \in MigKeys : keyIds'[k] \in Rows' \union {NoId}
      BY <1>1, <1>2, <3>1
    <3>3. keyIds' = [k \in MigKeys |-> keyIds'[k]]
      BY DEF StoreDocs
    <3> QED
      BY <3>2, <3>3
  <2>4. writer' \in [op : {"none", "add", "update", "revive", "delete"},
                     ids : SUBSET Rows', todo : Seq(Rows'), unlogged : SUBSET Rows']
    BY <1>3
  <2>5. incQueue' \in Seq([id : Rows', del : BOOLEAN])
    <3>1. incQueue \in Seq([id : Rows, del : BOOLEAN])
      BY DEF MigIInv, MigTypes
    <3>2. [id : Rows, del : BOOLEAN] \subseteq [id : Rows', del : BOOLEAN]
      BY <1>1
    <3> QED
      BY <1>5, <3>1, <3>2, SeqMonotonic
  <2>6. /\ getter' \in [pc : {"idle", "took", "read"}, id : RowIds, del : BOOLEAN, ver : Nat]
        /\ getter'.pc # "idle" => getter'.id \in Rows'
        /\ copy' \in [MigKeys -> [id : RowIds \union {NoId}, ver : Nat]]
    BY <1>1, <1>4 DEF MigIInv, MigTypes
  <2> QED
    BY <1>1, <2>1, <2>2, <2>3, <2>4, <2>5, <2>6 DEF MigTypes
<1>8. KeysLead'
  <2>1. ASSUME NEW k \in MigKeys, NEW i \in Rows', keyIds'[k] = i PROVE KeyOf(i)' = k
    <3>1. CASE i \in Rows
      <4>1. keyIds[k] = i
        BY <1>2, <2>1, <3>1
      <4> QED
        BY <1>1, <3>1, <4>1 DEF MigIInv, KeysLead
    <3> QED
      BY <1>2, <2>1, <3>1
  <2>2. ASSUME NEW j \in Rows' PROVE Leads(j)' \/ j \in hidden'
    BY <1>2, <1>4, <1>6 DEF MigIInv, KeysLead
  <2> QED
    BY <2>1, <2>2 DEF KeysLead
<1>9. WriterIsReal'
  <2>1. \A i \in Rows : i < maxDocid
    BY <1>4, NoCallIs
  <2> QED
    BY <1>2, <1>3, <1>4, <2>1 DEF WriterIsReal
<1>10. Elems(writer.todo) = {}
  BY <1>4, NoCallIs
<1>11. QuietBefore' /\ DeletesAreOld' /\ NewFollowDeletes' /\ OldCopiesGo'
       /\ RevivedAreQueued' /\ ReadsAreRepeated'
  BY <1>1, <1>3, <1>4, <1>6, <1>10, CallKeeps
<1>12. \A i \in Rows' \ Rows : ToCome(i)' /\ ToAdd(1, i)'
  BY <1>3, <1>5, <1>10, ComingStays
<1>13. UncountedAreQueued'
  <2>1. \A i \in Rows : i < maxDocid
    BY <1>4, NoCallIs
  <2>2. maxDocid \in Nat /\ Rows \subseteq Nat
    BY RowsAre DEF MigIInv, MigTypes
  <2>3. \A i \in Rows : ~(i >= maxDocid)
    BY <2>1, <2>2
  <2> QED
    BY <1>4, <1>12, <2>3 DEF UncountedAreQueued
<1>14. WillBeCopied'
  <2> SUFFICES ASSUME mig = "begun", NEW i \in Rows', Leads(i)', Shown(i)' PROVE OnItsWay(i)'
    BY <1>5 DEF WillBeCopied
  <2>1. CASE i \notin Rows
    BY <1>12, <2>1 DEF OnItsWay
  <2>2. CASE i \in Rows
    <3>1. Leads(i) /\ Shown(i)
      BY <1>3, <1>4, <1>6, <2>2 DEF Shown
    <3>2. OnItsWay(i)
      BY <2>2, <3>1 DEF MigIInv, WillBeCopied
    <3> QED
      BY <1>1, <1>4, <2>2, <3>2, StillOnItsWay
  <2> QED
    BY <2>1, <2>2
<1> QED
  BY <1>7, <1>8, <1>9, <1>11, <1>13, <1>14 DEF MigIInv

\* What a step that stores no rows leaves well typed.
LEMMA TypesStay ==
  ASSUME MigTypes, rowsOf' \in Seq([key : MigKeys, ver : Nat]), Len(rowsOf') = Len(rowsOf),
         maxDocid' \in maxDocid .. Len(rowsOf), UNCHANGED <<cursor, getter, copy>>,
         hidden' \subseteq Rows, missed' \subseteq Rows,
         keyIds' \in [MigKeys -> Rows \union {NoId}],
         writer' \in [op : {"none", "add", "update", "revive", "delete"},
                      ids : SUBSET Rows, todo : Seq(Rows), unlogged : SUBSET Rows]
  PROVE  MigTypes' /\ Rows' = Rows
<1>1. Rows' = Rows
  BY DEF Rows
<1>2. /\ mig' = mig /\ next_migrate_docid_' = next_migrate_docid_
      /\ max_full_docid_' = max_full_docid_ /\ incQueue' = incQueue /\ migrated' = migrated
      /\ getter' = getter /\ copy' = copy
  BY DEF cursor
<1>3. /\ maxDocid' \in 0 .. Len(rowsOf') /\ max_full_docid_' \in 0 .. maxDocid'
      /\ next_migrate_docid_' \in -1 .. max_full_docid_' /\ migrated' \in 0 .. Len(incQueue')
      /\ (mig' = "begun" => next_migrate_docid_' >= 0)
  BY <1>2 DEF MigTypes
<1>4. Len(rowsOf') <= MaxRows
  BY DEF MigTypes
<1>5. incQueue' \in Seq([id : Rows', del : BOOLEAN])
  BY <1>1, <1>2 DEF MigTypes
<1>6. /\ mig' \in {"none", "new", "open", "begun"}
      /\ getter' \in [pc : {"idle", "took", "read"}, id : RowIds, del : BOOLEAN, ver : Nat]
      /\ getter'.pc # "idle" => getter'.id \in Rows'
      /\ copy' \in [MigKeys -> [id : RowIds \union {NoId}, ver : Nat]]
  BY <1>1, <1>2 DEF MigTypes
<1> QED
  BY <1>1, <1>3, <1>4, <1>5, <1>6 DEF MigTypes

\* The call is about one row, which it is to log.
LEMMA OneToLog ==
  ASSUME MigTypes, NEW i \in Rows, NEW op \in {"add", "update", "revive", "delete"},
         writer' = [op |-> op, ids |-> {<<i>>[n] : n \in DOMAIN <<i>>}, todo |-> <<i>>,
                    unlogged |-> {}]
  PROVE  /\ writer'.op = op /\ writer'.ids = {i} /\ Elems(writer'.todo) = {i}
         /\ writer'.unlogged = {}
         /\ writer' \in [op : {"none", "add", "update", "revive", "delete"},
                         ids : SUBSET Rows, todo : Seq(Rows), unlogged : SUBSET Rows]
<1>1. {<<i>>[n] : n \in DOMAIN <<i>>} = {i} /\ <<i>> \in Seq(Rows)
  OBVIOUS
<1>2. Elems(<<i>>) = {i}
  BY ElemsOfOne
<1> QED
  BY <1>1, <1>2

\* An update writes its row anew and has it to log.
LEMMA UpdateDocStep ==
  ASSUME MigIInv, NEW k \in MigKeys, NEW revives \in BOOLEAN, UpdateDoc(k, revives)
  PROVE  MigIInv'
<1>0. PICK i : i = keyIds[k]
  OBVIOUS
<1>1. /\ writer.op = "none" /\ i # NoId
      /\ rowsOf' = [rowsOf EXCEPT ![i + 1].ver = @ + 1]
      /\ UNCHANGED <<maxDocid, hidden, keyIds, cursor, getter, copy, missed, begins>>
  BY <1>0 DEF UpdateDoc
<1>2. PICK op \in {"revive", "update"} :
        writer' = [op |-> op, ids |-> {<<i>>[n] : n \in DOMAIN <<i>>}, todo |-> <<i>>,
                   unlogged |-> {}]
  BY <1>0 DEF UpdateDoc, Calls
<1>3. i \in Rows /\ Leads(i)
  <2>1. i \in Rows
    BY <1>0, <1>1 DEF MigIInv, MigTypes
  <2> QED
    BY <1>0, <2>1 DEF MigIInv, KeysLead, Leads
<1>4. /\ rowsOf' \in Seq([key : MigKeys, ver : Nat]) /\ Len(rowsOf') = Len(rowsOf)
      /\ \A j \in Rows : KeyOf(j)' = KeyOf(j) /\ (j # i => VerOf(j)' = VerOf(j))
  <2> DEFINE row == [key : MigKeys, ver : Nat]
             new == [rowsOf[i + 1] EXCEPT !.ver = @ + 1]
  <2>1. /\ i + 1 \in 1 .. Len(rowsOf) /\ rowsOf[i + 1] \in row
        /\ \A j \in Rows : j + 1 \in 1 .. Len(rowsOf) /\ (j # i => j + 1 # i + 1)
    BY <1>3, RowsAre DEF MigIInv
  <2>2. new \in row /\ new.key = rowsOf[i + 1].key
    BY <2>1
  <2>3. rowsOf \in Seq(row) /\ rowsOf' = [rowsOf EXCEPT ![i + 1] = new]
    BY <1>1 DEF MigIInv, MigTypes
  <2> HIDE DEF row, new
  <2>4. /\ rowsOf' \in Seq(row) /\ Len(rowsOf') = Len(rowsOf)
        /\ \A l \in 1 .. Len(rowsOf) : rowsOf'[l] = IF l = i + 1 THEN new ELSE rowsOf[l]
    BY <2>1, <2>2, <2>3, ExceptSeq
  <2>5. \A j \in Rows : KeyOf(j)' = KeyOf(j) /\ (j # i => VerOf(j)' = VerOf(j))
    BY <2>1, <2>2, <2>4 DEF KeyOf, VerOf
  <2> QED
    BY <2>4, <2>5 DEF row
<1>5. /\ writer'.op = op /\ writer'.ids = {i} /\ Elems(writer'.todo) = {i}
      /\ writer'.unlogged = {}
      /\ writer' \in [op : {"none", "add", "update", "revive", "delete"},
                      ids : SUBSET Rows, todo : Seq(Rows), unlogged : SUBSET Rows]
  BY <1>2, <1>3, OneToLog DEF MigIInv
<1>6. MigTypes' /\ Rows' = Rows
  <2>1. maxDocid' \in maxDocid .. Len(rowsOf)
    BY <1>1 DEF MigIInv, MigTypes
  <2>2. hidden' \subseteq Rows /\ missed' \subseteq Rows
        /\ keyIds' \in [MigKeys -> Rows \union {NoId}]
    BY <1>1 DEF MigIInv, MigTypes
  <2> QED
    BY <1>1, <1>4, <1>5, <2>1, <2>2, TypesStay DEF MigIInv
<1>7. \A j \in Rows : Leads(j)' <=> Leads(j)
  BY <1>1, <1>4 DEF Leads
<1>8. KeysLead'
  BY <1>1, <1>4, <1>6, <1>7 DEF MigIInv, KeysLead
<1>9. Elems(writer.todo) = {} /\ \A j \in Rows : j < maxDocid
  BY <1>1, NoCallIs
<1>10. WriterIsReal'
  BY <1>1, <1>3, <1>5, <1>6, <1>7, <1>9 DEF WriterIsReal
<1>11. QuietBefore' /\ DeletesAreOld' /\ NewFollowDeletes' /\ OldCopiesGo'
       /\ RevivedAreQueued' /\ ReadsAreRepeated'
  BY <1>1, <1>4, <1>5, <1>6, <1>7, <1>9, CallKeeps
<1>12. ToCome(i)'
  BY <1>1, <1>5, <1>9, ComingStays DEF cursor
<1>13. UncountedAreQueued'
  <2>1. \A j \in Rows : j < maxDocid /\ maxDocid \in Nat /\ j \in Nat
    BY <1>9, RowsAre DEF MigIInv, MigTypes
  <2> QED
    BY <1>1, <1>6, <2>1 DEF UncountedAreQueued
<1>14. WillBeCopied'
  <2> SUFFICES ASSUME mig = "begun", NEW j \in Rows, Leads(j)', Shown(j)' PROVE OnItsWay(j)'
    BY <1>1, <1>6 DEF WillBeCopied, cursor
  <2>1. CASE j = i
    BY <1>12, <2>1 DEF OnItsWay
  <2>2. CASE j # i
    <3>1. Leads(j) /\ Shown(j)
      BY <1>1, <1>5, <1>7, <2>2 DEF Shown
    <3>2. OnItsWay(j)
      BY <3>1 DEF MigIInv, WillBeCopied
    <3> QED
      BY <1>1, <1>4, <2>2, <3>2, StillOnItsWay
  <2> QED
    BY <2>1, <2>2
<1> QED
  BY <1>6, <1>8, <1>10, <1>11, <1>13, <1>14 DEF MigIInv

\* A delete hides its row, takes it from its key and has it to log.
LEMMA DeleteDocumentStep ==
  ASSUME MigIInv, NEW k \in MigKeys, DeleteDocument(k)
  PROVE  MigIInv'
<1>0. PICK i : i = keyIds[k]
  OBVIOUS
<1>1. /\ writer.op = "none" /\ i # NoId /\ hidden' = hidden \union {i}
      /\ keyIds' = [keyIds EXCEPT ![k] = NoId]
      /\ writer' = [op |-> "delete", ids |-> {<<i>>[n] : n \in DOMAIN <<i>>}, todo |-> <<i>>,
                    unlogged |-> {}]
      /\ UNCHANGED <<rowsOf, maxDocid, cursor, getter, copy, missed, begins>>
  BY <1>0 DEF DeleteDocument, Calls
<1>2. i \in Rows /\ KeyOf(i) = k
  <2>1. i \in Rows
    BY <1>0, <1>1 DEF MigIInv, MigTypes
  <2> QED
    BY <1>0, <2>1 DEF MigIInv, KeysLead
<1>3. \A j \in Rows : KeyOf(j)' = KeyOf(j) /\ VerOf(j)' = VerOf(j) /\ KeyOf(j) \in MigKeys
  BY <1>1, RowsAre DEF KeyOf, VerOf, MigIInv
<1>4. /\ writer'.op = "delete" /\ writer'.ids = {i} /\ Elems(writer'.todo) = {i}
      /\ writer'.unlogged = {}
      /\ writer' \in [op : {"none", "add", "update", "revive", "delete"},
                      ids : SUBSET Rows, todo : Seq(Rows), unlogged : SUBSET Rows]
  BY <1>1, <1>2, OneToLog DEF MigIInv
<1>5. /\ keyIds'[k] = NoId /\ \A l \in MigKeys \ {k} : keyIds'[l] = keyIds[l]
      /\ keyIds' \in [MigKeys -> Rows \union {NoId}]
  BY <1>1 DEF MigIInv, MigTypes
<1>6. MigTypes' /\ Rows' = Rows
  <2>1. maxDocid' \in maxDocid .. Len(rowsOf)
    BY <1>1 DEF MigIInv, MigTypes
  <2>2. hidden' \subseteq Rows /\ missed' \subseteq Rows
        /\ rowsOf' \in Seq([key : MigKeys, ver : Nat]) /\ Len(rowsOf') = Len(rowsOf)
    BY <1>1, <1>2 DEF MigIInv, MigTypes
  <2> QED
    BY <1>1, <1>4, <1>5, <2>1, <2>2, TypesStay DEF MigIInv
<1>7. NoId \notin Rows
  BY DEF Rows, NoId
<1>8. \A j \in Rows : Leads(j)' <=> (Leads(j) /\ j # i)
  <2> SUFFICES ASSUME NEW j \in Rows
               PROVE  keyIds'[KeyOf(j)] = j <=> (keyIds[KeyOf(j)] = j /\ j # i)
    BY <1>3 DEF Leads
  <2>1. CASE KeyOf(j) = k
    BY <1>0, <1>5, <1>7, <2>1
  <2>2. CASE KeyOf(j) # k
    BY <1>2, <1>3, <1>5, <2>2
  <2> QED
    BY <2>1, <2>2
<1>9. KeysLead'
  <2>1. ASSUME NEW l \in MigKeys, NEW j \in Rows, keyIds'[l] = j PROVE KeyOf(j)' = l
    BY <1>3, <1>5, <1>7, <2>1 DEF MigIInv, KeysLead
  <2> QED
    BY <1>1, <1>6, <1>8, <2>1 DEF MigIInv, KeysLead
<1>10. Elems(writer.todo) = {} /\ \A j \in Rows : j < maxDocid
  BY <1>1, NoCallIs
<1>11. WriterIsReal'
  BY <1>1, <1>2, <1>3, <1>4, <1>5, <1>6, <1>10 DEF WriterIsReal
<1>12. QuietBefore' /\ DeletesAreOld' /\ NewFollowDeletes' /\ OldCopiesGo'
       /\ RevivedAreQueued' /\ ReadsAreRepeated'
  BY <1>1, <1>3, <1>4, <1>6, <1>8, <1>10, CallKeeps
<1>13. UncountedAreQueued'
  <2>1. \A j \in Rows : j < maxDocid /\ maxDocid \in Nat /\ j \in Nat
    BY <1>10, RowsAre DEF MigIInv, MigTypes
  <2> QED
    BY <1>1, <1>6, <2>1 DEF UncountedAreQueued
<1>14. WillBeCopied'
  <2> SUFFICES ASSUME mig = "begun", NEW j \in Rows, Leads(j)', Shown(j)' PROVE OnItsWay(j)'
    BY <1>1, <1>6 DEF WillBeCopied, cursor
  <2>1. Leads(j) /\ Shown(j)
    BY <1>1, <1>4, <1>8 DEF Shown
  <2>2. OnItsWay(j)
    BY <2>1 DEF MigIInv, WillBeCopied
  <2> QED
    BY <1>1, <1>3, <2>2, StillOnItsWay
<1> QED
  BY <1>6, <1>9, <1>11, <1>12, <1>13, <1>14 DEF MigIInv

\* A delete by a query hides its row and nothing more.
LEMMA HideByQueryStep ==
  ASSUME MigIInv, NEW k \in MigKeys, HideByQuery(k)
  PROVE  MigIInv'
<1>0. PICK i : i = keyIds[k]
  OBVIOUS
<1>1. /\ writer.op = "none" /\ i # NoId /\ hidden' = hidden \union {i}
      /\ UNCHANGED <<rowsOf, maxDocid, keyIds, writer, cursor, getter, copy, missed, begins>>
  BY <1>0 DEF HideByQuery
<1>2. i \in Rows
  BY <1>0, <1>1 DEF MigIInv, MigTypes
<1>3. \A j : KeyOf(j)' = KeyOf(j) /\ VerOf(j)' = VerOf(j) /\ (Leads(j)' <=> Leads(j))
  BY <1>1 DEF KeyOf, VerOf, Leads
<1>4. MigTypes' /\ Rows' = Rows
  <2>1. maxDocid' \in maxDocid .. Len(rowsOf)
    BY <1>1 DEF MigIInv, MigTypes
  <2>2. hidden' \subseteq Rows /\ missed' \subseteq Rows
        /\ rowsOf' \in Seq([key : MigKeys, ver : Nat]) /\ Len(rowsOf') = Len(rowsOf)
        /\ keyIds' \in [MigKeys -> Rows \union {NoId}]
    BY <1>1, <1>2 DEF MigIInv, MigTypes
  <2>3. writer' \in [op : {"none", "add", "update", "revive", "delete"},
                     ids : SUBSET Rows, todo : Seq(Rows), unlogged : SUBSET Rows]
    BY <1>1 DEF MigIInv, MigTypes
  <2> QED
    BY <1>1, <2>1, <2>2, <2>3, TypesStay DEF MigIInv
<1>5. KeysLead'
  BY <1>1, <1>3, <1>4 DEF MigIInv, KeysLead
<1>6. Elems(writer.todo) = {} /\ writer.ids = {} /\ \A j \in Rows : j < maxDocid
  BY <1>1, NoCallIs
<1>7. WriterIsReal'
  BY <1>1, <1>3, <1>4 DEF MigIInv, WriterIsReal, Elems
<1>8. QuietBefore' /\ DeletesAreOld' /\ NewFollowDeletes' /\ OldCopiesGo'
       /\ RevivedAreQueued' /\ ReadsAreRepeated'
  BY <1>1, <1>3, <1>4, <1>6, CallKeeps
<1>9. UncountedAreQueued'
  <2>1. \A j \in Rows : j < maxDocid /\ maxDocid \in Nat /\ j \in Nat
    BY <1>6, RowsAre DEF MigIInv, MigTypes
  <2> QED
    BY <1>1, <1>4, <2>1 DEF UncountedAreQueued
<1>10. WillBeCopied'
  <2> SUFFICES ASSUME mig = "begun", NEW j \in Rows, Leads(j)', Shown(j)' PROVE OnItsWay(j)'
    BY <1>1, <1>4 DEF WillBeCopied, cursor
  <2>1. Leads(j) /\ Shown(j)
    BY <1>1, <1>3, <1>6 DEF Shown
  <2>2. OnItsWay(j)
    BY <2>1 DEF MigIInv, WillBeCopied
  <2> QED
    BY <1>1, <1>3, <2>2, StillOnItsWay
<1> QED
  BY <1>4, <1>5, <1>7, <1>8, <1>9, <1>10 DEF MigIInv

\* A call returns: what it has added counts, what it has revived shows, and what
\* neither the queue nor the scan has of either is missed.
LEMMA ReturnStep ==
  ASSUME MigIInv, Return
  PROVE  MigIInv'
<1>1. /\ writer.op # "none" /\ writer.todo = << >>
      /\ maxDocid' = IF writer.op = "add" THEN Len(rowsOf) ELSE maxDocid
      /\ hidden' = IF writer.op = "revive" THEN hidden \ writer.ids ELSE hidden
      /\ missed' = IF mig # "begun" THEN missed
                   ELSE missed \union {id \in writer.unlogged :
                      \/ writer.op = "add" /\ id >= max_full_docid_
                      \/ writer.op = "revive" /\ id < next_migrate_docid_ /\ id \in hidden}
      /\ writer' = [op |-> "none", ids |-> {}, todo |-> << >>, unlogged |-> {}]
      /\ UNCHANGED <<rowsOf, keyIds, cursor, getter, copy, changes, begins>>
  BY DEF Return, NoCall
<1>2. \A j : KeyOf(j)' = KeyOf(j) /\ VerOf(j)' = VerOf(j) /\ (Leads(j)' <=> Leads(j))
  BY <1>1 DEF KeyOf, VerOf, Leads
<1>3. Elems(writer.todo) = {} /\ Elems(writer'.todo) = {}
  BY <1>1, ElemsOfNone
<1>4. MigTypes' /\ Rows' = Rows
  <2>1. maxDocid' \in maxDocid .. Len(rowsOf)
    BY <1>1 DEF MigIInv, MigTypes
  <2>2. hidden' \subseteq Rows /\ keyIds' \in [MigKeys -> Rows \union {NoId}]
        /\ rowsOf' \in Seq([key : MigKeys, ver : Nat]) /\ Len(rowsOf') = Len(rowsOf)
    BY <1>1 DEF MigIInv, MigTypes
  <2>3. writer' \in [op : {"none", "add", "update", "revive", "delete"},
                     ids : SUBSET Rows, todo : Seq(Rows), unlogged : SUBSET Rows]
    BY <1>1
  <2>4. missed' \subseteq Rows
    <3>1. missed \subseteq Rows /\ writer.unlogged \subseteq Rows
      BY DEF MigIInv, MigTypes
    <3> QED
      BY <1>1, <3>1
  <2> QED
    BY <1>1, <2>1, <2>2, <2>3, <2>4, TypesStay DEF MigIInv
<1>5. KeysLead'
  <2>1. ASSUME NEW j \in Rows PROVE Leads(j) \/ j \in hidden'
    <3>1. CASE writer.op = "revive" /\ j \in writer.ids
      BY <3>1 DEF MigIInv, WriterIsReal
    <3>2. CASE ~(writer.op = "revive" /\ j \in writer.ids)
      BY <1>1, <3>2 DEF MigIInv, KeysLead
    <3> QED
      BY <3>1, <3>2
  <2> QED
    BY <1>1, <1>2, <1>4, <2>1 DEF MigIInv, KeysLead
<1>6. \A j \in Rows : j < maxDocid' /\ maxDocid' \in Nat /\ j \in Nat
  <2>1. CASE writer.op = "add"
    BY <1>1, <2>1, RowsAre DEF MigIInv, Rows
  <2>2. CASE writer.op # "add"
    BY <1>1, <2>2, RowsAre DEF MigIInv, WriterIsReal, MigTypes
  <2> QED
    BY <2>1, <2>2
<1>7. WriterIsReal'
  BY <1>1, <1>3, <1>4, <1>6 DEF WriterIsReal
<1>8. QuietBefore' /\ DeletesAreOld' /\ NewFollowDeletes' /\ OldCopiesGo'
       /\ RevivedAreQueued' /\ ReadsAreRepeated'
  BY <1>1, <1>2, <1>3, <1>4, CallKeeps
<1>9. UncountedAreQueued'
  BY <1>4, <1>6 DEF UncountedAreQueued
<1>10. WillBeCopied'
  <2> SUFFICES ASSUME mig = "begun", NEW j \in Rows, Leads(j)', Shown(j)' PROVE OnItsWay(j)'
    BY <1>1, <1>4 DEF WillBeCopied, cursor
  <2>1. Leads(j) /\ Shown(j)
    BY <1>1, <1>2 DEF Shown
  <2>2. OnItsWay(j)
    BY <2>1 DEF MigIInv, WillBeCopied
  <2>3. ToCome(j) => ToCome(j)'
    BY <1>1, <1>3, ComingStays DEF cursor
  <2>4. missed \subseteq missed'
    BY <1>1
  <2>5. CASE j \in writer.unlogged /\ writer.op = "add" /\ j >= max_full_docid_
    BY <1>1, <2>5 DEF OnItsWay
  <2>6. CASE j \in writer.unlogged /\ writer.op = "revive" /\ j < next_migrate_docid_ /\ j \in hidden
    BY <1>1, <2>6 DEF OnItsWay
  <2>7. CASE /\ ~(j \in writer.unlogged /\ writer.op = "add" /\ j >= max_full_docid_)
             /\ ~(j \in writer.unlogged /\ writer.op = "revive" /\ j < next_migrate_docid_
                  /\ j \in hidden)
    BY <1>1, <1>2, <2>2, <2>3, <2>4, <2>7 DEF OnItsWay, cursor
  <2> QED
    BY <2>5, <2>6, <2>7
<1> QED
  BY <1>4, <1>5, <1>7, <1>8, <1>9, <1>10 DEF MigIInv

\* An entry is added behind the others.
LEMMA LogGrows ==
  ASSUME MigIInv, Log, Logs, NEW h, h = Head(writer.todo)
  PROVE  /\ Len(incQueue) \in Nat /\ Len(incQueue') = Len(incQueue) + 1
         /\ incQueue' \in Seq([id : Rows, del : BOOLEAN])
         /\ \A p \in 1 .. Len(incQueue) : incQueue'[p] = incQueue[p]
         /\ incQueue'[Len(incQueue) + 1] = [id |-> h, del |-> (writer.op = "delete")]
<1> DEFINE entry == [id : Rows, del : BOOLEAN]
           e == [id |-> h, del |-> (writer.op = "delete")]
<1>1. incQueue' = Append(incQueue, e)
  BY DEF Log, Logged
<1>2. incQueue \in Seq(entry) /\ writer.todo \in Seq(Rows) /\ writer.todo # << >>
  BY DEF Log, MigIInv, MigTypes
<1>3. h \in Rows
  BY <1>2, ElemsOf
<1>4. e \in entry
  BY <1>3
<1> HIDE DEF e, entry
<1>5. /\ Len(incQueue) \in Nat /\ Len(incQueue') = Len(incQueue) + 1
      /\ incQueue' \in Seq(entry)
      /\ \A p \in 1 .. Len(incQueue) : incQueue'[p] = incQueue[p]
      /\ incQueue'[Len(incQueue) + 1] = e
  BY <1>1, <1>2, <1>4
<1> QED
  BY <1>5 DEF e, entry

\* What was to come or to be deleted still is, now by way of the queue.
LEMMA LogBrings ==
  ASSUME MigIInv, Log, Logs
  PROVE  /\ \A i : \A p \in 1 .. (Len(incQueue) + 1) : ToAdd(p, i) => ToAdd(p, i)'
         /\ \A i : ToCome(i) => ToCome(i)'
         /\ \A i : Going(i) => Going(i)'
         /\ \A j : DeletesFrom(1, j)' =>
              DeletesFrom(1, j) \/ (writer.op = "delete" /\ j = Head(writer.todo))
<1>1. PICK h : h = Head(writer.todo)
  OBVIOUS
<1>2. /\ Len(incQueue) \in Nat /\ Len(incQueue') = Len(incQueue) + 1
      /\ \A p \in 1 .. Len(incQueue) : incQueue'[p] = incQueue[p]
      /\ incQueue'[Len(incQueue) + 1] = [id |-> h, del |-> (writer.op = "delete")]
  BY <1>1, LogGrows
<1>3. /\ migrated' = migrated /\ migrated \in 0 .. Len(incQueue)
      /\ writer'.op = writer.op /\ writer'.todo = Tail(writer.todo)
  BY DEF Log, MigIInv, MigTypes
<1>4. Elems(writer.todo) = Elems(writer'.todo) \union {h}
  <2>1. writer.todo \in Seq(Rows) /\ writer.todo # << >>
    BY DEF Log, MigIInv, MigTypes
  <2> QED
    BY <1>1, <1>3, <2>1, ElemsOf
<1>5. \A i : \A p \in 1 .. (Len(incQueue) + 1) : AddsFrom(p, i) => AddsFrom(p, i)'
  BY <1>2 DEF AddsFrom
<1>6. \A i : \A p \in 1 .. (Len(incQueue) + 1) : DeletesFrom(p, i) => DeletesFrom(p, i)'
  BY <1>2 DEF DeletesFrom
<1>7. \A p \in 1 .. (Len(incQueue) + 1) :
        /\ writer.op = "delete" => DeletesFrom(p, h)'
        /\ writer.op # "delete" => AddsFrom(p, h)'
  <2> SUFFICES ASSUME NEW p \in 1 .. (Len(incQueue) + 1)
               PROVE  /\ writer.op = "delete" => DeletesFrom(p, h)'
                      /\ writer.op # "delete" => AddsFrom(p, h)'
    OBVIOUS
  <2>1. Len(incQueue) + 1 \in p .. Len(incQueue')
    BY <1>2
  <2>2. /\ writer.op = "delete" => incQueue'[Len(incQueue) + 1] = [id |-> h, del |-> TRUE]
        /\ writer.op # "delete" => incQueue'[Len(incQueue) + 1] = [id |-> h, del |-> FALSE]
    BY <1>2
  <2> QED
    BY <2>1, <2>2 DEF AddsFrom, DeletesFrom
<1>8. \A i : \A p \in 1 .. (Len(incQueue) + 1) : ToAdd(p, i) => ToAdd(p, i)'
  BY <1>3, <1>4, <1>5, <1>7 DEF ToAdd
<1>9. \A i : \A p \in 1 .. (Len(incQueue) + 1) : ToDelete(p, i) => ToDelete(p, i)'
  BY <1>3, <1>4, <1>6, <1>7 DEF ToDelete
<1>10. PICK m \in 1 .. (Len(incQueue) + 1) : m = migrated + 1
  BY <1>2, <1>3
<1>11. /\ \A i : ToCome(i) <=> ToAdd(m, i)
       /\ \A i : ToCome(i)' <=> ToAdd(m, i)'
       /\ \A i : Going(i) <=> ToDelete(m, i)
       /\ \A i : Going(i)' <=> ToDelete(m, i)'
  BY <1>3, <1>10 DEF ToCome, Going, ToAdd, ToDelete, AddsFrom, DeletesFrom
<1>12. ASSUME NEW j, DeletesFrom(1, j)'
       PROVE  DeletesFrom(1, j) \/ (writer.op = "delete" /\ j = h)
  <2>1. PICK q \in 1 .. Len(incQueue') : incQueue'[q] = [id |-> j, del |-> TRUE]
    BY <1>12 DEF DeletesFrom
  <2>2. CASE q \in 1 .. Len(incQueue)
    BY <1>2, <2>1, <2>2 DEF DeletesFrom
  <2>3. CASE q = Len(incQueue) + 1
    <3>1. [id |-> h, del |-> (writer.op = "delete")] = [id |-> j, del |-> TRUE]
      BY <1>2, <2>1, <2>3
    <3>2. h = j /\ (writer.op = "delete") = TRUE
      BY <3>1
    <3> QED
      BY <3>2
  <2> QED
    BY <1>2, <2>2, <2>3
<1> QED
  BY <1>1, <1>8, <1>9, <1>11, <1>12

\* One document of the call is logged, or is not while there is no queue.
LEMMA LogStep ==
  ASSUME MigIInv, Log
  PROVE  MigIInv'
<1>0. PICK h : h = Head(writer.todo)
  OBVIOUS
<1>1. /\ writer.todo # << >> /\ writer.todo \in Seq(Rows)
      /\ writer' = [writer EXCEPT !.todo = Tail(@),
           !.unlogged = IF Logs THEN @ ELSE @ \union {h}]
      /\ missed' = IF Logs THEN missed \ {h} ELSE missed
      /\ incQueue' = Logged(h, writer.op = "delete")
      /\ UNCHANGED <<rowsOf, maxDocid, hidden, keyIds, mig, next_migrate_docid_,
                     max_full_docid_, migrated, getter, copy, changes, begins>>
  BY <1>0 DEF Log, MigIInv, MigTypes
<1>2. /\ h \in Rows /\ Tail(writer.todo) \in Seq(Rows)
      /\ Elems(writer.todo) = Elems(Tail(writer.todo)) \union {h}
  BY <1>0, <1>1, ElemsOf
<1>3. writer \in [op : {"none", "add", "update", "revive", "delete"},
                  ids : SUBSET Rows, todo : Seq(Rows), unlogged : SUBSET Rows]
  BY DEF MigIInv, MigTypes
<1>4. /\ writer'.op = writer.op /\ writer'.ids = writer.ids /\ writer'.todo = Tail(writer.todo)
      /\ writer'.unlogged = IF Logs THEN writer.unlogged ELSE writer.unlogged \union {h}
      /\ writer' \in [op : {"none", "add", "update", "revive", "delete"},
                      ids : SUBSET Rows, todo : Seq(Rows), unlogged : SUBSET Rows]
  BY <1>1, <1>2, <1>3
<1>5. /\ Elems(writer.todo) \union writer.unlogged \subseteq writer.ids
      /\ h \in writer.ids
  BY <1>2 DEF MigIInv, WriterIsReal
<1>6. Elems(writer'.todo) \union writer'.unlogged \subseteq writer'.ids
  BY <1>2, <1>4, <1>5
<1>7. /\ Rows' = Rows
      /\ \A j : KeyOf(j)' = KeyOf(j) /\ VerOf(j)' = VerOf(j) /\ (Leads(j)' <=> Leads(j))
      /\ \A j : (BeingDeleted(j)' <=> BeingDeleted(j)) /\ (Shown(j)' <=> Shown(j))
      /\ Logs' = Logs
  BY <1>1, <1>4 DEF Rows, KeyOf, VerOf, Leads, BeingDeleted, Shown, Logs
<1>8. NoId \notin Rows
  BY DEF Rows, NoId
<1>9. writer.op = "delete" => keyIds[KeyOf(h)] = NoId /\ ~Leads(h)
  BY <1>2, <1>5, <1>8 DEF MigIInv, WriterIsReal, Leads
<1>10. MigTypes'
  <2>1. incQueue' \in Seq([id : Rows, del : BOOLEAN]) /\ migrated' \in 0 .. Len(incQueue')
    <3>1. CASE Logs
      <4>1. Len(incQueue) \in Nat /\ Len(incQueue') = Len(incQueue) + 1
            /\ incQueue' \in Seq([id : Rows, del : BOOLEAN])
        BY <1>0, <3>1, LogGrows
      <4> QED
        BY <1>1, <4>1 DEF MigIInv, MigTypes
    <3>2. CASE ~Logs
      BY <1>1, <3>2 DEF MigIInv, MigTypes, Logged
    <3> QED
      BY <3>1, <3>2
  <2>2. missed' \subseteq Rows
    BY <1>1 DEF MigIInv, MigTypes
  <2> QED
    BY <1>1, <1>4, <1>7, <2>1, <2>2 DEF MigIInv, MigTypes
<1>11. KeysLead'
  BY <1>1, <1>7 DEF MigIInv, KeysLead
<1>12. WriterIsReal'
  BY <1>1, <1>4, <1>6, <1>7 DEF MigIInv, WriterIsReal
<1>13. QuietBefore'
  BY <1>1, <1>7 DEF MigIInv, QuietBefore, Logged, Absent, NoGet
<1>14. CASE Logs
  <2>1. /\ \A i : \A p \in 1 .. (Len(incQueue) + 1) : ToAdd(p, i) => ToAdd(p, i)'
        /\ \A i : ToCome(i) => ToCome(i)'
        /\ \A i : Going(i) => Going(i)'
        /\ \A j : DeletesFrom(1, j)' => DeletesFrom(1, j) \/ (writer.op = "delete" /\ j = h)
    BY <1>0, <1>14, LogBrings
  <2>2. DeletesAreOld'
    BY <1>7, <1>9, <2>1 DEF MigIInv, DeletesAreOld
  <2>3. NewFollowDeletes'
    <3> SUFFICES ASSUME NEW j \in Rows, NEW i \in Rows, KeyOf(i) = KeyOf(j), Leads(i)
                 PROVE  /\ \A p \in (migrated + 1) .. Len(incQueue') :
                             incQueue'[p] = [id |-> j, del |-> TRUE] => ToAdd(p + 1, i)'
                        /\ BeingDeleted(j) => ToCome(i)'
      BY <1>1, <1>7 DEF NewFollowDeletes
    <3>1. /\ Len(incQueue) \in Nat /\ Len(incQueue') = Len(incQueue) + 1
          /\ \A p \in 1 .. Len(incQueue) : incQueue'[p] = incQueue[p]
          /\ incQueue'[Len(incQueue) + 1] = [id |-> h, del |-> (writer.op = "delete")]
          /\ migrated \in Nat
      BY <1>0, <1>14, LogGrows, EntriesAre DEF MigIInv
    <3>2. ASSUME NEW p \in (migrated + 1) .. Len(incQueue'), incQueue'[p] = [id |-> j, del |-> TRUE]
          PROVE  ToAdd(p + 1, i)'
      <4>1. CASE p \in 1 .. Len(incQueue)
        <5>1. ToAdd(p + 1, i)
          BY <3>1, <3>2, <4>1 DEF MigIInv, NewFollowDeletes
        <5>2. p + 1 \in 1 .. (Len(incQueue) + 1)
          BY <3>1, <4>1
        <5> QED
          BY <2>1, <5>1, <5>2
      <4>2. CASE p = Len(incQueue) + 1
        <5>1. [id |-> h, del |-> (writer.op = "delete")] = [id |-> j, del |-> TRUE]
          BY <3>1, <3>2, <4>2
        <5>2. h = j /\ (writer.op = "delete") = TRUE
          BY <5>1
        <5>3. keyIds[KeyOf(i)] = NoId
          BY <1>9, <5>2
        <5> QED
          BY <1>8, <5>3 DEF Leads
      <4> QED
        BY <3>1, <4>1, <4>2
    <3>3. BeingDeleted(j) => ToCome(i)'
      BY <2>1 DEF MigIInv, NewFollowDeletes
    <3> QED
      BY <3>2, <3>3
  <2>4. UncountedAreQueued'
    <3>1. 1 \in 1 .. (Len(incQueue) + 1)
      BY EntriesAre DEF MigIInv
    <3> QED
      BY <1>1, <1>4, <1>7, <1>14, <2>1, <3>1 DEF MigIInv, UncountedAreQueued
  <2>5. OldCopiesGo'
    BY <1>1, <1>7, <2>1 DEF MigIInv, OldCopiesGo, Absent
  <2>6. WillBeCopied'
    <3> SUFFICES ASSUME mig = "begun", NEW i \in Rows, Leads(i), Shown(i) PROVE OnItsWay(i)'
      BY <1>1, <1>7 DEF WillBeCopied
    <3>1. OnItsWay(i)
      BY DEF MigIInv, WillBeCopied
    <3>2. CASE i = h
      <4>1. ToCome(i)
        BY <1>2, <1>9, <3>2 DEF ToCome, ToAdd
      <4> QED
        BY <2>1, <4>1 DEF OnItsWay
    <3>3. CASE i # h
      BY <1>1, <1>4, <1>7, <1>14, <2>1, <3>1, <3>3 DEF OnItsWay
    <3> QED
      BY <3>2, <3>3
  <2>7. RevivedAreQueued'
    <3> SUFFICES ASSUME mig # "none", writer.op = "revive", NEW i \in writer.ids \intersect hidden
                 PROVE  \/ ToCome(i)' \/ i \in writer'.unlogged \/ i \in missed'
                        \/ getter.pc = "took" /\ ~getter.del /\ getter.id = i
      BY <1>1, <1>4 DEF RevivedAreQueued
    <3>1. CASE i = h
      <4>1. ToCome(i)
        BY <1>2, <3>1 DEF ToCome, ToAdd
      <4> QED
        BY <2>1, <4>1
    <3>2. CASE i # h
      BY <1>1, <1>4, <1>14, <2>1, <3>2 DEF MigIInv, RevivedAreQueued
    <3> QED
      BY <3>1, <3>2
  <2>8. ReadsAreRepeated'
    BY <1>1, <1>7, <2>1 DEF MigIInv, ReadsAreRepeated
  <2> QED
    BY <1>10, <1>11, <1>12, <1>13, <2>2, <2>3, <2>4, <2>5, <2>6, <2>7, <2>8 DEF MigIInv
<1>15. CASE ~Logs
  <2>1. /\ incQueue = << >> /\ incQueue' = << >> /\ migrated = 0
        /\ getter.pc = "idle" /\ mig \notin {"open", "begun"}
    BY <1>1, <1>15 DEF MigIInv, QuietBefore, Logged, Logs, NoGet
  <2>2. Len(incQueue) = 0 /\ Len(incQueue') = 0
    BY <2>1
  <2>3. DeletesAreOld' /\ NewFollowDeletes' /\ OldCopiesGo' /\ WillBeCopied'
    BY <1>1, <2>1, <2>2
       DEF DeletesAreOld, NewFollowDeletes, OldCopiesGo, WillBeCopied, DeletesFrom, BeingDeleted
  <2>4. UncountedAreQueued'
    <3> SUFFICES ASSUME mig = "new", NEW i \in Rows, i >= maxDocid
                 PROVE  ToAdd(1, i)' \/ i \in writer'.unlogged
      BY <1>1, <1>7, <2>1 DEF UncountedAreQueued
    <3>1. ToAdd(1, i) \/ i \in writer.unlogged
      BY DEF MigIInv, UncountedAreQueued
    <3>2. CASE i \in writer.unlogged \/ i = h
      BY <1>4, <1>15, <3>2
    <3>3. CASE i \notin writer.unlogged /\ i # h
      <4>1. writer.op # "delete" /\ i \in Elems(writer.todo)
        BY <2>1, <2>2, <3>1, <3>3 DEF ToAdd, AddsFrom
      <4>2. i \in Elems(writer'.todo)
        BY <1>2, <1>4, <3>3, <4>1
      <4> QED
        BY <1>4, <4>1, <4>2 DEF ToAdd
    <3> QED
      BY <3>2, <3>3
  <2>5. RevivedAreQueued'
    <3> SUFFICES ASSUME mig # "none", writer.op = "revive", NEW i \in writer.ids \intersect hidden
                 PROVE  ToCome(i)' \/ i \in writer'.unlogged \/ i \in missed'
      BY <1>1, <1>4 DEF RevivedAreQueued
    <3>1. ToCome(i) \/ i \in writer.unlogged \/ i \in missed
      BY <2>1 DEF MigIInv, RevivedAreQueued
    <3>2. ToCome(i) => i \in Elems(writer.todo)
      BY <2>1, <2>2 DEF ToCome, ToAdd, AddsFrom
    <3>3. i \in Elems(writer'.todo) => ToCome(i)'
      BY <1>4 DEF ToCome, ToAdd
    <3> QED
      BY <1>1, <1>2, <1>4, <1>15, <3>1, <3>2, <3>3
  <2>6. ReadsAreRepeated'
    BY <1>1, <2>1 DEF ReadsAreRepeated
  <2> QED
    BY <1>10, <1>11, <1>12, <1>13, <2>3, <2>4, <2>5, <2>6 DEF MigIInv
<1> QED
  BY <1>14, <1>15

\* The steps of the migration leave the engine alone.
LEMMA SourceStays ==
  ASSUME MigIInv, UNCHANGED source
  PROVE  /\ Rows' = Rows /\ KeysLead' /\ WriterIsReal'
         /\ \A i : KeyOf(i)' = KeyOf(i) /\ VerOf(i)' = VerOf(i)
         /\ \A i : (Leads(i)' <=> Leads(i)) /\ (Shown(i)' <=> Shown(i))
  BY DEF MigIInv, source, Rows, KeyOf, VerOf, Leads, Shown, KeysLead, WriterIsReal, Elems

\* BeginMigrate makes the data: nothing is queued, what the call has logged before
\* counts as not logged.
LEMMA NewMigrateDataStep ==
  ASSUME MigIInv, NewMigrateData
  PROVE  MigIInv'
<1>1. /\ getter = NoGet /\ mig' = "new" /\ next_migrate_docid_' = -1 /\ max_full_docid_' = 0
      /\ incQueue' = << >> /\ migrated' = 0 /\ copy' = [k \in MigKeys |-> Absent]
      /\ missed' = {} /\ writer' = [writer EXCEPT !.unlogged = writer.ids \ Elems(writer.todo)]
      /\ UNCHANGED <<rowsOf, maxDocid, hidden, keyIds, getter, changes>>
  BY DEF NewMigrateData, Elems
<1>2. writer \in [op : {"none", "add", "update", "revive", "delete"},
                  ids : SUBSET Rows, todo : Seq(Rows), unlogged : SUBSET Rows]
  BY DEF MigIInv, MigTypes
<1>3. /\ writer'.op = writer.op /\ writer'.ids = writer.ids /\ writer'.todo = writer.todo
      /\ writer'.unlogged = writer.ids \ Elems(writer.todo)
      /\ writer' \in [op : {"none", "add", "update", "revive", "delete"},
                      ids : SUBSET Rows, todo : Seq(Rows), unlogged : SUBSET Rows]
  BY <1>1, <1>2
<1>4. /\ Rows' = Rows /\ \A i : KeyOf(i)' = KeyOf(i) /\ (Leads(i)' <=> Leads(i))
  BY <1>1 DEF Rows, KeyOf, Leads
<1>5. copy' \in [MigKeys -> [id : RowIds \union {NoId}, ver : Nat]]
  BY <1>1 DEF Absent
<1>6. MigTypes'
  <2>1. /\ maxDocid' \in 0 .. Len(rowsOf') /\ max_full_docid_' \in 0 .. maxDocid'
        /\ next_migrate_docid_' \in -1 .. max_full_docid_' /\ migrated' \in 0 .. Len(incQueue')
        /\ incQueue' \in Seq([id : Rows', del : BOOLEAN])
    BY <1>1 DEF MigIInv, MigTypes
  <2> QED
    BY <1>1, <1>3, <1>4, <1>5, <2>1 DEF MigIInv, MigTypes
<1>7. KeysLead'
  BY <1>1, <1>4 DEF MigIInv, KeysLead
<1>8. WriterIsReal'
  BY <1>1, <1>3, <1>4 DEF MigIInv, WriterIsReal
<1>9. QuietBefore'
  BY <1>1 DEF QuietBefore, Logs, Absent, NoGet
<1>10. getter.pc = "idle" /\ Len(incQueue') = 0
  BY <1>1 DEF NoGet
<1>11. DeletesAreOld' /\ NewFollowDeletes' /\ OldCopiesGo' /\ WillBeCopied' /\ ReadsAreRepeated'
  BY <1>1, <1>10
     DEF DeletesAreOld, NewFollowDeletes, OldCopiesGo, WillBeCopied, DeletesFrom, BeingDeleted,
         ReadsAreRepeated
<1>12. \A i \in writer.ids : i \in writer'.unlogged \/ i \in Elems(writer'.todo)
  BY <1>3
<1>13. UncountedAreQueued'
  <2> SUFFICES ASSUME NEW i \in Rows, i >= maxDocid
               PROVE  ToAdd(1, i)' \/ i \in writer'.unlogged
    BY <1>1, <1>4 DEF UncountedAreQueued
  <2>1. i \in Nat /\ maxDocid \in Nat
    BY RowsAre DEF MigIInv, MigTypes
  <2>2. writer.op = "add" /\ i \in writer.ids
    BY <2>1 DEF MigIInv, WriterIsReal
  <2> QED
    BY <1>3, <1>12, <2>2 DEF ToAdd
<1>14. RevivedAreQueued'
  BY <1>1, <1>3, <1>12 DEF RevivedAreQueued, ToCome, ToAdd
<1> QED
  BY <1>6, <1>7, <1>8, <1>9, <1>11, <1>13, <1>14 DEF MigIInv

\* The queue is opened: from now on calls log.
LEMMA OpenQueueStep ==
  ASSUME MigIInv, OpenQueue
  PROVE  MigIInv'
<1>1. /\ mig = "new" /\ mig' = "open"
      /\ UNCHANGED <<source, next_migrate_docid_, max_full_docid_, incQueue, migrated,
                     getter, copy, missed, changes, begins>>
  BY DEF OpenQueue
<1>2. /\ Rows' = Rows /\ KeysLead' /\ WriterIsReal' /\ writer' = writer /\ hidden' = hidden
      /\ rowsOf' = rowsOf /\ maxDocid' = maxDocid /\ keyIds' = keyIds
      /\ \A i : (Leads(i)' <=> Leads(i)) /\ VerOf(i)' = VerOf(i)
  BY <1>1, SourceStays DEF source
<1>3. incQueue = << >> /\ migrated = 0 /\ getter.pc = "idle" /\ Len(incQueue) = 0
  BY <1>1 DEF MigIInv, QuietBefore, Logs, NoGet
<1>4. MigTypes'
  BY <1>1, <1>2 DEF MigIInv, MigTypes
<1>5. QuietBefore'
  BY <1>1 DEF MigIInv, QuietBefore, Logs, Absent, NoGet
<1>6. DeletesAreOld' /\ NewFollowDeletes' /\ OldCopiesGo' /\ WillBeCopied' /\ ReadsAreRepeated'
  BY <1>1, <1>3
     DEF DeletesAreOld, NewFollowDeletes, OldCopiesGo, WillBeCopied, DeletesFrom, BeingDeleted,
         ReadsAreRepeated
<1>7. \A i : (ToAdd(1, i)' <=> ToAdd(1, i)) /\ (ToCome(i)' <=> ToCome(i))
  BY <1>1, <1>2 DEF ToAdd, ToCome, AddsFrom
<1>8. UncountedAreQueued' /\ RevivedAreQueued'
  BY <1>1, <1>2, <1>7 DEF MigIInv, UncountedAreQueued, RevivedAreQueued
<1> QED
  BY <1>2, <1>4, <1>5, <1>6, <1>8 DEF MigIInv

\* The scan begins: it is to reach what is counted, the rest is queued or noted.
LEMMA BeginMigrateStep ==
  ASSUME MigIInv, BeginMigrate
  PROVE  MigIInv'
<1>1. /\ mig = "open" /\ mig' = "begun"
      /\ next_migrate_docid_' = 0 /\ max_full_docid_' = maxDocid
      /\ UNCHANGED <<source, incQueue, migrated, getter, copy, missed, changes, begins>>
  BY DEF BeginMigrate, ScanEnd
<1>2. /\ Rows' = Rows /\ KeysLead' /\ WriterIsReal' /\ writer' = writer /\ hidden' = hidden
      /\ rowsOf' = rowsOf /\ maxDocid' = maxDocid /\ keyIds' = keyIds
      /\ \A i : (Leads(i)' <=> Leads(i)) /\ VerOf(i)' = VerOf(i) /\ KeyOf(i)' = KeyOf(i)
      /\ \A i : Shown(i)' <=> Shown(i)
  BY <1>1, SourceStays DEF source
<1>3. migrated = 0 /\ getter.pc = "idle" /\ \A k \in MigKeys : copy[k] = Absent
  BY <1>1 DEF MigIInv, QuietBefore, NoGet
<1>4. MigTypes'
  BY <1>1, <1>2 DEF MigIInv, MigTypes
<1>5. QuietBefore'
  BY <1>1 DEF MigIInv, QuietBefore, Logs, NoGet
<1>6. \A i : /\ (ToAdd(1, i)' <=> ToAdd(1, i)) /\ (ToCome(i)' <=> ToCome(i))
             /\ (ToCome(i) <=> ToAdd(1, i)) /\ (BeingDeleted(i)' <=> BeingDeleted(i))
             /\ (DeletesFrom(1, i)' <=> DeletesFrom(1, i))
  BY <1>1, <1>2, <1>3 DEF ToAdd, ToCome, AddsFrom, DeletesFrom, BeingDeleted
<1>7. \A p, i : ToAdd(p, i)' <=> ToAdd(p, i)
  BY <1>1, <1>2 DEF ToAdd, AddsFrom
<1>8. DeletesAreOld' /\ NewFollowDeletes'
  BY <1>1, <1>2, <1>6, <1>7 DEF MigIInv, DeletesAreOld, NewFollowDeletes
<1>9. UncountedAreQueued' /\ RevivedAreQueued'
  BY <1>1, <1>2, <1>6 DEF MigIInv, UncountedAreQueued, RevivedAreQueued
<1>10. OldCopiesGo' /\ ReadsAreRepeated'
  BY <1>1, <1>3 DEF OldCopiesGo, ReadsAreRepeated, Absent
<1>11. WillBeCopied'
  <2> SUFFICES ASSUME NEW i \in Rows, Leads(i), Shown(i) PROVE OnItsWay(i)'
    BY <1>2 DEF WillBeCopied
  <2>1. i \in Nat /\ maxDocid \in Nat
    BY RowsAre DEF MigIInv, MigTypes
  <2>2. CASE i < maxDocid
    <3>1. i \in 0 .. (maxDocid - 1)
      BY <2>1, <2>2
    <3> QED
      BY <1>1, <3>1 DEF OnItsWay
  <2>3. CASE ~(i < maxDocid)
    <3>1. writer.op = "add"
      BY <2>3 DEF MigIInv, WriterIsReal
    <3>2. i >= maxDocid
      BY <2>1, <2>3
    <3>3. ToAdd(1, i) \/ i \in writer.unlogged
      BY <1>1, <3>2 DEF MigIInv, UncountedAreQueued
    <3> QED
      BY <1>1, <1>2, <1>6, <3>1, <3>2, <3>3 DEF OnItsWay
  <2> QED
    BY <2>2, <2>3
<1> QED
  BY <1>2, <1>4, <1>5, <1>8, <1>9, <1>10, <1>11 DEF MigIInv

\* The migration ends and its queue is removed.
LEMMA TerminateMigrateStep ==
  ASSUME MigIInv, TerminateMigrate
  PROVE  MigIInv'
<1>1. /\ getter = NoGet /\ mig' = "none" /\ next_migrate_docid_' = -1 /\ max_full_docid_' = 0
      /\ incQueue' = << >> /\ migrated' = 0
      /\ UNCHANGED <<source, getter, copy, missed, changes, begins>>
  BY DEF TerminateMigrate
<1>2. /\ Rows' = Rows /\ KeysLead' /\ WriterIsReal' /\ writer' = writer /\ hidden' = hidden
      /\ rowsOf' = rowsOf /\ maxDocid' = maxDocid /\ keyIds' = keyIds
  BY <1>1, SourceStays DEF source
<1>3. MigTypes'
  <2>1. /\ max_full_docid_' \in 0 .. maxDocid'
        /\ next_migrate_docid_' \in -1 .. max_full_docid_' /\ migrated' \in 0 .. Len(incQueue')
        /\ incQueue' \in Seq([id : Rows', del : BOOLEAN])
    BY <1>1, <1>2 DEF MigIInv, MigTypes
  <2> QED
    BY <1>1, <1>2, <2>1 DEF MigIInv, MigTypes
<1>4. QuietBefore'
  BY <1>1 DEF QuietBefore, Logs, NoGet
<1>5. getter.pc = "idle" /\ Len(incQueue') = 0
  BY <1>1 DEF NoGet
<1>6. /\ DeletesAreOld' /\ NewFollowDeletes' /\ OldCopiesGo' /\ WillBeCopied'
      /\ ReadsAreRepeated' /\ UncountedAreQueued' /\ RevivedAreQueued'
  BY <1>1, <1>5
     DEF DeletesAreOld, NewFollowDeletes, OldCopiesGo, WillBeCopied, DeletesFrom, BeingDeleted,
         ReadsAreRepeated, UncountedAreQueued, RevivedAreQueued
<1> QED
  BY <1>2, <1>3, <1>4, <1>6 DEF MigIInv

\* What is to come of the call stays when only the reading of the queue goes on.
LEMMA QueueStays ==
  ASSUME UNCHANGED <<writer, incQueue>>
  PROVE  /\ \A p, i : (ToAdd(p, i)' <=> ToAdd(p, i)) /\ (ToDelete(p, i)' <=> ToDelete(p, i))
         /\ \A p, i : DeletesFrom(p, i)' <=> DeletesFrom(p, i)
         /\ migrated' = migrated =>
              \A i : (ToCome(i)' <=> ToCome(i)) /\ (Going(i)' <=> Going(i))
  BY DEF ToAdd, ToDelete, AddsFrom, DeletesFrom, ToCome, Going

\* An entry about a document its key leads to is no delete.
LEMMA LaterEntryAdds ==
  ASSUME MigIInv, NEW i \in Rows, Leads(i),
         NEW q \in (migrated + 1) .. Len(incQueue), incQueue[q].id = i
  PROVE  ToCome(i)
<1>1. q \in 1 .. Len(incQueue) /\ incQueue[q] \in [id : Rows, del : BOOLEAN]
  BY EntriesAre DEF MigIInv
<1>2. incQueue[q].del # TRUE
  <2> SUFFICES ASSUME incQueue[q].del = TRUE PROVE FALSE
    OBVIOUS
  <2>1. incQueue[q] = [id |-> i, del |-> TRUE]
    BY <1>1
  <2>2. DeletesFrom(1, i)
    BY <1>1, <2>1 DEF DeletesFrom
  <2> QED
    BY <2>2 DEF MigIInv, DeletesAreOld
<1>3. incQueue[q] = [id |-> i, del |-> FALSE]
  BY <1>1, <1>2
<1> QED
  BY <1>3 DEF ToCome, ToAdd, AddsFrom

\* The next document of the scan is taken; those passed over are hidden.
LEMMA TakeScannedStep ==
  ASSUME MigIInv, TakeScanned
  PROVE  MigIInv'
<1>1. PICK id : /\ id = CHOOSE i \in Scan : \A j \in Scan : i <= j
                /\ getter' = [pc |-> "took", id |-> id, del |-> FALSE, ver |-> 0]
                /\ next_migrate_docid_' = id + 1
  BY DEF TakeScanned, Took
<1>2. /\ mig = "begun" /\ getter = NoGet /\ Scan # {}
      /\ UNCHANGED <<source, mig, max_full_docid_, incQueue, migrated, copy, missed,
                     changes, begins>>
  BY DEF TakeScanned
<1>3. /\ Rows' = Rows /\ KeysLead' /\ WriterIsReal' /\ writer' = writer /\ hidden' = hidden
      /\ rowsOf' = rowsOf /\ maxDocid' = maxDocid /\ keyIds' = keyIds
      /\ \A i : (Leads(i)' <=> Leads(i)) /\ VerOf(i)' = VerOf(i) /\ KeyOf(i)' = KeyOf(i)
      /\ \A i : Shown(i)' <=> Shown(i)
  BY <1>2, SourceStays DEF source
<1>4. /\ next_migrate_docid_ \in Nat /\ max_full_docid_ \in Nat /\ maxDocid \in Nat
      /\ max_full_docid_ <= maxDocid /\ maxDocid <= Len(rowsOf) /\ Len(rowsOf) \in Nat
  BY <1>2, RowsAre DEF MigIInv, MigTypes
<1>5. Scan \subseteq Nat
  BY <1>4 DEF Scan
<1>6. id \in Scan /\ \A j \in Scan : id <= j
  <2>1. \E i \in Scan : \A j \in Scan : i <= j
    BY <1>2, <1>5, LowestNumber
  <2> QED
    BY <1>1, <2>1
<1>7. id \in Rows /\ id >= next_migrate_docid_ /\ id + 1 <= max_full_docid_ /\ id \in Nat
  BY <1>4, <1>6 DEF Scan, Rows
<1>8. /\ \A p, i : ToAdd(p, i)' <=> ToAdd(p, i)
      /\ \A i : (ToCome(i)' <=> ToCome(i)) /\ (Going(i)' <=> Going(i))
      /\ \A i : DeletesFrom(1, i)' <=> DeletesFrom(1, i)
  BY <1>2, <1>3, QueueStays
<1>9. \A i : ~BeingDeleted(i) /\ ~BeingDeleted(i)'
  BY <1>1, <1>2 DEF BeingDeleted, NoGet
<1>10. MigTypes'
  <2>1. /\ max_full_docid_' \in 0 .. maxDocid' /\ next_migrate_docid_' \in -1 .. max_full_docid_'
        /\ next_migrate_docid_' >= 0
    BY <1>1, <1>2, <1>3, <1>4, <1>7
  <2>2. /\ getter' \in [pc : {"idle", "took", "read"}, id : RowIds, del : BOOLEAN, ver : Nat]
        /\ getter'.id \in Rows
    BY <1>1, <1>7, RowsAre DEF MigIInv
  <2> QED
    BY <1>2, <1>3, <2>1, <2>2 DEF MigIInv, MigTypes
<1>11. QuietBefore'
  BY <1>1, <1>2 DEF MigIInv, QuietBefore, Logs
<1>12. DeletesAreOld' /\ NewFollowDeletes'
  BY <1>2, <1>3, <1>8, <1>9 DEF MigIInv, DeletesAreOld, NewFollowDeletes
<1>13. UncountedAreQueued' /\ ReadsAreRepeated'
  BY <1>1, <1>2 DEF UncountedAreQueued, ReadsAreRepeated
<1>14. OldCopiesGo'
  BY <1>1, <1>2, <1>3, <1>8, <1>9 DEF MigIInv, OldCopiesGo, Absent
<1>15. RevivedAreQueued'
  BY <1>2, <1>3, <1>8 DEF MigIInv, RevivedAreQueued, NoGet
<1>16. WillBeCopied'
  <2> SUFFICES ASSUME NEW i \in Rows, Leads(i), Shown(i) PROVE OnItsWay(i)'
    BY <1>3 DEF WillBeCopied
  <2>1. OnItsWay(i) /\ i \in Nat
    BY <1>2, RowsAre DEF MigIInv, WillBeCopied
  <2>2. CASE i = id
    BY <1>1, <2>2 DEF OnItsWay
  <2>3. CASE i # id /\ i \in next_migrate_docid_ .. (max_full_docid_ - 1)
    <3>1. CASE i > id
      <4>1. i \in (id + 1) .. (max_full_docid_ - 1)
        BY <1>4, <1>7, <2>1, <2>3, <3>1
      <4> QED
        BY <1>1, <1>2, <4>1 DEF OnItsWay
    <3>2. CASE i < id
      <4>1. i \notin Scan
        BY <1>6, <1>7, <2>1, <3>2
      <4>2. i \in hidden
        BY <2>3, <4>1 DEF Scan
      <4>3. writer.op = "revive" /\ i \in writer.ids
        BY <4>2 DEF Shown
      <4>4. ToCome(i) \/ i \in writer.unlogged \/ i \in missed
        BY <1>2, <4>2, <4>3 DEF MigIInv, RevivedAreQueued, NoGet
      <4>5. i < id + 1
        BY <1>7, <2>1, <3>2
      <4> QED
        BY <1>1, <1>2, <1>3, <1>8, <4>2, <4>3, <4>4, <4>5 DEF OnItsWay
    <3> QED
      BY <1>7, <2>1, <2>3, <3>1, <3>2
  <2>4. CASE i # id /\ i \notin next_migrate_docid_ .. (max_full_docid_ - 1)
    <3>1. i < next_migrate_docid_ => i < id + 1
      BY <1>4, <1>7, <2>1
    <3> QED
      BY <1>1, <1>2, <1>3, <1>8, <2>1, <2>4, <3>1 DEF OnItsWay, NoGet
  <2> QED
    BY <2>2, <2>3, <2>4
<1> QED
  BY <1>3, <1>10, <1>11, <1>12, <1>13, <1>14, <1>15, <1>16 DEF MigIInv

\* The next entry of the queue is taken, the scan having passed the rest over.
LEMMA TakeQueuedStep ==
  ASSUME MigIInv, TakeQueued
  PROVE  MigIInv'
<1>1. PICK m, e : /\ m = migrated + 1 /\ e = incQueue[m]
  OBVIOUS
<1>2. /\ mig = "begun" /\ getter = NoGet /\ Scan = {} /\ migrated < Len(incQueue)
      /\ next_migrate_docid_' = max_full_docid_ /\ migrated' = m
      /\ getter' = [pc |-> "took", id |-> e.id, del |-> e.del, ver |-> 0]
      /\ UNCHANGED <<source, mig, max_full_docid_, incQueue, copy, missed, changes, begins>>
  BY <1>1 DEF TakeQueued, Took, AfterTaking
<1>3. /\ Rows' = Rows /\ KeysLead' /\ WriterIsReal' /\ writer' = writer /\ hidden' = hidden
      /\ rowsOf' = rowsOf /\ maxDocid' = maxDocid /\ keyIds' = keyIds
      /\ \A i : (Leads(i)' <=> Leads(i)) /\ VerOf(i)' = VerOf(i) /\ KeyOf(i)' = KeyOf(i)
      /\ \A i : Shown(i)' <=> Shown(i)
  BY <1>2, SourceStays DEF source
<1>4. /\ next_migrate_docid_ \in Nat /\ max_full_docid_ \in Nat /\ maxDocid \in Nat
      /\ max_full_docid_ <= maxDocid /\ next_migrate_docid_ <= max_full_docid_
  BY <1>2 DEF MigIInv, MigTypes
<1>5. /\ m \in 1 .. Len(incQueue) /\ e \in [id : Rows, del : BOOLEAN] /\ migrated \in Nat
      /\ Len(incQueue) \in Nat
  BY <1>1, <1>2, EntriesAre DEF MigIInv
<1>6. e = [id |-> e.id, del |-> e.del] /\ e.id \in Rows /\ e.del \in BOOLEAN
  BY <1>5
<1>7. /\ \A p, i : ToAdd(p, i)' <=> ToAdd(p, i)
      /\ \A p, i : DeletesFrom(p, i)' <=> DeletesFrom(p, i)
  BY <1>2, <1>3, QueueStays
<1>8. \A i : ~BeingDeleted(i)
  BY <1>2 DEF BeingDeleted, NoGet
<1>9. \A i : BeingDeleted(i)' <=> e = [id |-> i, del |-> TRUE]
  <2> SUFFICES ASSUME NEW i PROVE BeingDeleted(i)' <=> (e.del /\ e.id = i)
    BY <1>6
  <2> QED
    BY <1>2 DEF BeingDeleted
<1>10. \A i : ToCome(i) => ToCome(i)' \/ e = [id |-> i, del |-> FALSE]
  <2> SUFFICES ASSUME NEW i, ToCome(i) PROVE ToCome(i)' \/ e = [id |-> i, del |-> FALSE]
    OBVIOUS
  <2>1. CASE writer.op # "delete" /\ i \in Elems(writer.todo)
    BY <1>3, <2>1 DEF ToCome, ToAdd
  <2>2. CASE ~(writer.op # "delete" /\ i \in Elems(writer.todo))
    <3>1. PICK q \in m .. Len(incQueue) : incQueue[q] = [id |-> i, del |-> FALSE]
      BY <1>1, <2>2 DEF ToCome, ToAdd, AddsFrom
    <3>2. q = m \/ q \in (m + 1) .. Len(incQueue)
      BY <1>5
    <3> QED
      BY <1>1, <1>2, <3>1, <3>2 DEF ToCome, ToAdd, AddsFrom
  <2> QED
    BY <2>1, <2>2
<1>11. \A i : Going(i) => Going(i)' \/ e = [id |-> i, del |-> TRUE]
  <2> SUFFICES ASSUME NEW i, Going(i) PROVE Going(i)' \/ e = [id |-> i, del |-> TRUE]
    OBVIOUS
  <2>1. CASE writer.op = "delete" /\ i \in Elems(writer.todo)
    BY <1>3, <2>1 DEF Going, ToDelete
  <2>2. CASE ~(writer.op = "delete" /\ i \in Elems(writer.todo))
    <3>1. PICK q \in m .. Len(incQueue) : incQueue[q] = [id |-> i, del |-> TRUE]
      BY <1>1, <2>2 DEF Going, ToDelete, DeletesFrom
    <3>2. q = m \/ q \in (m + 1) .. Len(incQueue)
      BY <1>5
    <3> QED
      BY <1>1, <1>2, <3>1, <3>2 DEF Going, ToDelete, DeletesFrom
  <2> QED
    BY <2>1, <2>2
<1>12. MigTypes'
  <2>1. /\ max_full_docid_' \in 0 .. maxDocid' /\ next_migrate_docid_' \in -1 .. max_full_docid_'
        /\ next_migrate_docid_' >= 0 /\ migrated' \in 0 .. Len(incQueue')
    BY <1>2, <1>3, <1>4, <1>5
  <2>2. /\ getter' \in [pc : {"idle", "took", "read"}, id : RowIds, del : BOOLEAN, ver : Nat]
        /\ getter'.id \in Rows
    BY <1>2, <1>6, RowsAre DEF MigIInv
  <2> QED
    BY <1>2, <1>3, <2>1, <2>2 DEF MigIInv, MigTypes
<1>13. QuietBefore'
  BY <1>2 DEF MigIInv, QuietBefore, Logs
<1>14. DeletesAreOld'
  <2> SUFFICES ASSUME NEW j \in Rows, DeletesFrom(1, j) \/ e = [id |-> j, del |-> TRUE]
               PROVE  ~Leads(j)
    BY <1>3, <1>7, <1>9 DEF DeletesAreOld
  <2>1. DeletesFrom(1, j)
    BY <1>1, <1>5 DEF DeletesFrom
  <2> QED
    BY <2>1 DEF MigIInv, DeletesAreOld
<1>15. NewFollowDeletes'
  <2> SUFFICES ASSUME NEW j \in Rows, NEW i \in Rows, KeyOf(i) = KeyOf(j), Leads(i)
               PROVE  /\ \A p \in (m + 1) .. Len(incQueue) :
                           incQueue[p] = [id |-> j, del |-> TRUE] => ToAdd(p + 1, i)
                      /\ e = [id |-> j, del |-> TRUE] => ToCome(i)'
    BY <1>2, <1>3, <1>7, <1>9 DEF NewFollowDeletes
  <2>1. \A p \in (migrated + 1) .. Len(incQueue) :
          incQueue[p] = [id |-> j, del |-> TRUE] => ToAdd(p + 1, i)
    BY DEF MigIInv, NewFollowDeletes
  <2>2. \A p \in (m + 1) .. Len(incQueue) : p \in (migrated + 1) .. Len(incQueue)
    BY <1>1, <1>5
  <2>3. m \in (migrated + 1) .. Len(incQueue)
    BY <1>1, <1>5
  <2>4. ToAdd(m + 1, i) => ToCome(i)'
    BY <1>2, <1>3 DEF ToCome, ToAdd, AddsFrom
  <2> QED
    BY <1>1, <2>1, <2>2, <2>3, <2>4
<1>16. UncountedAreQueued' /\ ReadsAreRepeated'
  BY <1>2 DEF UncountedAreQueued, ReadsAreRepeated
<1>17. OldCopiesGo'
  <2>1. \A j : Going(j) => Going(j)' \/ BeingDeleted(j)'
    BY <1>9, <1>11
  <2>2. getter'.pc = "took"
    BY <1>2
  <2> QED
    BY <1>2, <1>3, <1>8, <2>1, <2>2 DEF MigIInv, OldCopiesGo, Absent
<1>18. \A i : ToCome(i) =>
         (ToCome(i)' \/ (getter'.pc = "took" /\ ~getter'.del /\ getter'.id = i))
  <2> SUFFICES ASSUME NEW i, ToCome(i), ~ToCome(i)'
               PROVE  getter'.pc = "took" /\ ~getter'.del /\ getter'.id = i
    OBVIOUS
  <2>1. e = [id |-> i, del |-> FALSE]
    BY <1>10
  <2>2. e.id = i /\ e.del = FALSE
    BY <2>1
  <2> QED
    BY <1>2, <2>2
<1>19. RevivedAreQueued'
  BY <1>2, <1>3, <1>18 DEF MigIInv, RevivedAreQueued, NoGet
<1>20. WillBeCopied'
  <2> SUFFICES ASSUME NEW i \in Rows, Leads(i), Shown(i) PROVE OnItsWay(i)'
    BY <1>3 DEF WillBeCopied
  <2>1. OnItsWay(i) /\ i \in Nat
    BY <1>2, RowsAre DEF MigIInv, WillBeCopied
  <2>2. CASE i \in next_migrate_docid_ .. (max_full_docid_ - 1)
    <3>1. i \in hidden
      BY <1>2, <2>2 DEF Scan
    <3>2. writer.op = "revive" /\ i \in writer.ids
      BY <3>1 DEF Shown
    <3>3. ToCome(i) \/ i \in writer.unlogged \/ i \in missed
      BY <1>2, <3>1, <3>2 DEF MigIInv, RevivedAreQueued, NoGet
    <3>4. i < max_full_docid_
      BY <1>4, <2>1, <2>2
    <3> QED
      BY <1>2, <1>3, <1>18, <3>1, <3>2, <3>3, <3>4 DEF OnItsWay
  <2>3. CASE i \notin next_migrate_docid_ .. (max_full_docid_ - 1)
    <3>1. i < next_migrate_docid_ => i < max_full_docid_
      BY <1>4, <2>1
    <3> QED
      BY <1>2, <1>3, <1>18, <2>1, <2>3, <3>1 DEF OnItsWay, NoGet
  <2> QED
    BY <2>2, <2>3
<1> QED
  BY <1>3, <1>12, <1>13, <1>14, <1>15, <1>16, <1>17, <1>19, <1>20 DEF MigIInv

\* A document that can be read is read as it is now; another is passed over, and
\* noted unless a later entry is about it.
LEMMA ReadRowStep ==
  ASSUME MigIInv, ReadRow
  PROVE  MigIInv'
<1>1. PICK id : id = getter.id
  OBVIOUS
<1>2. /\ getter.pc = "took" /\ id = getter.id
      /\ UNCHANGED <<source, cursor, copy, changes, begins>>
      /\ \/ /\ getter.del \/ Exists(id)
            /\ getter' = [getter EXCEPT !.pc = "read", !.ver = VerOf(id)]
            /\ missed' = missed
         \/ /\ ~getter.del /\ ~Exists(id)
            /\ getter' = NoGet
            /\ missed' = IF \E q \in (migrated + 1) .. Len(incQueue) : incQueue[q].id = id
                         THEN missed ELSE missed \union {id}
  BY <1>1 DEF ReadRow, VerOf
<1>3. /\ Rows' = Rows /\ KeysLead' /\ WriterIsReal' /\ writer' = writer /\ hidden' = hidden
      /\ rowsOf' = rowsOf /\ maxDocid' = maxDocid /\ keyIds' = keyIds
      /\ \A i : (Leads(i)' <=> Leads(i)) /\ VerOf(i)' = VerOf(i) /\ KeyOf(i)' = KeyOf(i)
      /\ \A i : Shown(i)' <=> Shown(i)
  BY <1>2, SourceStays DEF source
<1>4. /\ mig' = mig /\ next_migrate_docid_' = next_migrate_docid_
      /\ max_full_docid_' = max_full_docid_ /\ incQueue' = incQueue /\ migrated' = migrated
      /\ copy' = copy
  BY <1>2 DEF cursor
<1>5. /\ mig = "begun" /\ id \in Rows
      /\ getter \in [pc : {"idle", "took", "read"}, id : RowIds, del : BOOLEAN, ver : Nat]
  BY <1>2 DEF MigIInv, MigTypes, QuietBefore, NoGet
<1>6. /\ \A p, i : (ToAdd(p, i)' <=> ToAdd(p, i)) /\ (ToDelete(p, i)' <=> ToDelete(p, i))
      /\ \A i : (ToCome(i)' <=> ToCome(i)) /\ (Going(i)' <=> Going(i))
      /\ \A i : DeletesFrom(1, i)' <=> DeletesFrom(1, i)
  BY <1>3, <1>4, QueueStays
<1>7. /\ VerOf(id) \in Nat /\ Rows \subseteq RowIds
  BY <1>5, RowsAre DEF MigIInv, VerOf
<1>8. /\ getter' \in [pc : {"idle", "took", "read"}, id : RowIds, del : BOOLEAN, ver : Nat]
      /\ (getter'.pc # "idle" => getter'.id \in Rows) /\ (getter'.pc = "idle" => getter' = NoGet)
      /\ \A i : BeingDeleted(i)' <=> BeingDeleted(i)
      /\ getter'.pc # "took"
  <2>1. NoGet \in [pc : {"idle", "took", "read"}, id : RowIds, del : BOOLEAN, ver : Nat]
    <3>1. 0 \in RowIds
      BY MigrationAssumption DEF RowIds
    <3> QED
      BY <3>1 DEF NoGet
  <2>2. CASE getter' = NoGet /\ ~getter.del
    BY <2>1, <2>2 DEF BeingDeleted, NoGet
  <2>3. CASE getter' = [getter EXCEPT !.pc = "read", !.ver = VerOf(id)]
    BY <1>2, <1>5, <1>7, <2>3 DEF BeingDeleted
  <2> QED
    BY <1>2, <2>2, <2>3
<1>9. missed' \subseteq Rows /\ missed \subseteq missed'
  <2>1. missed \subseteq Rows
    BY DEF MigIInv, MigTypes
  <2>2. missed' = missed \/ missed' = missed \union {id}
    BY <1>2
  <2> QED
    BY <1>5, <2>1, <2>2
<1>10. MigTypes'
  BY <1>3, <1>4, <1>8, <1>9 DEF MigIInv, MigTypes
<1>11. QuietBefore'
  BY <1>4, <1>5, <1>8 DEF MigIInv, QuietBefore, Logs
<1>12. DeletesAreOld' /\ NewFollowDeletes'
  BY <1>3, <1>4, <1>6, <1>8 DEF MigIInv, DeletesAreOld, NewFollowDeletes
<1>13. UncountedAreQueued'
  BY <1>4, <1>5 DEF UncountedAreQueued
<1>14. getter'.pc = "read" =>
         /\ getter' = [getter EXCEPT !.pc = "read", !.ver = VerOf(id)]
         /\ getter'.id = id /\ getter'.ver = VerOf(id) /\ getter'.del = getter.del
         /\ getter.del \/ (Exists(id) /\ Leads(id))
  <2>1. ASSUME getter'.pc = "read"
        PROVE  /\ getter' = [getter EXCEPT !.pc = "read", !.ver = VerOf(id)]
               /\ getter.del \/ Exists(id)
    BY <1>2, <2>1 DEF NoGet
  <2>2. Exists(id) => Leads(id)
    BY <1>5 DEF MigIInv, KeysLead, Exists
  <2> QED
    BY <1>2, <1>5, <2>1, <2>2
<1>15. OldCopiesGo'
  <2>1. \A j \in Rows : getter'.pc = "read" /\ ~getter'.del /\ getter'.id = j => Leads(j)
    BY <1>14
  <2> QED
    BY <1>3, <1>4, <1>5, <1>6, <1>8, <2>1 DEF MigIInv, OldCopiesGo
<1>16. ReadsAreRepeated'
  BY <1>3, <1>14 DEF ReadsAreRepeated
<1>17. ASSUME NEW i \in Rows, Leads(i), getter.pc = "took", ~getter.del, getter.id = i
       PROVE  \/ ToCome(i) \/ i \in missed'
              \/ i \notin hidden /\ getter'.pc = "read" /\ ~getter'.del /\ getter'.id = i
                 /\ getter'.ver = VerOf(i)
  <2>1. CASE Exists(id)
    <3>1. getter' = [getter EXCEPT !.pc = "read", !.ver = VerOf(id)] /\ id = i
      BY <1>2, <1>17, <2>1
    <3> QED
      BY <1>5, <1>17, <2>1, <3>1 DEF Exists
  <2>2. CASE ~Exists(id)
    <3>1. missed' = IF \E q \in (migrated + 1) .. Len(incQueue) : incQueue[q].id = id
                    THEN missed ELSE missed \union {id}
      BY <1>2, <1>17, <2>2
    <3>2. CASE \E q \in (migrated + 1) .. Len(incQueue) : incQueue[q].id = id
      BY <1>2, <1>17, <3>2, LaterEntryAdds
    <3> QED
      BY <1>2, <1>17, <3>1, <3>2
  <2> QED
    BY <2>1, <2>2
<1>18. RevivedAreQueued'
  <2> SUFFICES ASSUME writer.op = "revive", NEW i \in writer.ids \intersect hidden
               PROVE  ToCome(i) \/ i \in writer.unlogged \/ i \in missed'
    BY <1>3, <1>6 DEF RevivedAreQueued
  <2>1. i \in Rows /\ Leads(i)
    BY DEF MigIInv, MigTypes, WriterIsReal
  <2>2. \/ ToCome(i) \/ i \in writer.unlogged \/ i \in missed
        \/ getter.pc = "took" /\ ~getter.del /\ getter.id = i
    BY <1>5 DEF MigIInv, RevivedAreQueued
  <2> QED
    BY <1>9, <1>17, <2>1, <2>2
<1>19. WillBeCopied'
  <2> SUFFICES ASSUME NEW i \in Rows, Leads(i), Shown(i) PROVE OnItsWay(i)'
    BY <1>3 DEF WillBeCopied
  <2>1. OnItsWay(i)
    BY <1>5 DEF MigIInv, WillBeCopied
  <2>2. CASE getter.pc = "took" /\ ~getter.del /\ getter.id = i
    BY <1>3, <1>6, <1>17, <2>2 DEF OnItsWay
  <2>3. CASE ~(getter.pc = "took" /\ ~getter.del /\ getter.id = i)
    BY <1>2, <1>3, <1>4, <1>6, <1>9, <2>1, <2>3 DEF OnItsWay
  <2> QED
    BY <2>2, <2>3
<1> QED
  BY <1>3, <1>10, <1>11, <1>12, <1>13, <1>15, <1>16, <1>18, <1>19 DEF MigIInv

\* Applying what was read: a delete leaves the key to the document that replaced
\* its own, which comes; an old document is followed by its delete.
LEMMA ApplyStep ==
  ASSUME MigIInv, Apply
  PROVE  MigIInv'
<1>1. PICK id, del, ver, k : id = getter.id /\ del = getter.del /\ ver = getter.ver /\ k = KeyOf(id)
  OBVIOUS
<1>2. /\ getter.pc = "read" /\ getter' = NoGet
      /\ copy' = [copy EXCEPT ![k] = IF del THEN Absent ELSE [id |-> id, ver |-> ver]]
      /\ UNCHANGED <<source, cursor, missed, changes, begins>>
  BY <1>1 DEF Apply, KeyOf
<1>3. /\ Rows' = Rows /\ KeysLead' /\ WriterIsReal' /\ writer' = writer /\ hidden' = hidden
      /\ rowsOf' = rowsOf /\ maxDocid' = maxDocid /\ keyIds' = keyIds
      /\ \A i : (Leads(i)' <=> Leads(i)) /\ VerOf(i)' = VerOf(i) /\ KeyOf(i)' = KeyOf(i)
      /\ \A i : Shown(i)' <=> Shown(i)
  BY <1>2, SourceStays DEF source
<1>4. /\ mig' = mig /\ next_migrate_docid_' = next_migrate_docid_
      /\ max_full_docid_' = max_full_docid_ /\ incQueue' = incQueue /\ migrated' = migrated
      /\ missed' = missed
  BY <1>2 DEF cursor
<1>5. /\ mig = "begun" /\ id \in Rows /\ del \in BOOLEAN /\ ver \in Nat
      /\ copy \in [MigKeys -> [id : RowIds \union {NoId}, ver : Nat]]
  BY <1>1, <1>2 DEF MigIInv, MigTypes, QuietBefore, NoGet
<1>6. /\ \A p, i : (ToAdd(p, i)' <=> ToAdd(p, i)) /\ (ToDelete(p, i)' <=> ToDelete(p, i))
      /\ \A i : (ToCome(i)' <=> ToCome(i)) /\ (Going(i)' <=> Going(i))
      /\ \A i : DeletesFrom(1, i)' <=> DeletesFrom(1, i)
  BY <1>3, <1>4, QueueStays
<1>7. k \in MigKeys /\ Rows \subseteq RowIds /\ NoId \notin Rows
      /\ \A i \in Rows : KeyOf(i) \in MigKeys
  BY <1>1, <1>5, RowsAre DEF MigIInv
<1>8. /\ copy'[k] = IF del THEN Absent ELSE [id |-> id, ver |-> ver]
      /\ \A c \in MigKeys \ {k} : copy'[c] = copy[c]
      /\ copy' \in [MigKeys -> [id : RowIds \union {NoId}, ver : Nat]]
  <2>1. /\ Absent \in [id : RowIds \union {NoId}, ver : Nat]
        /\ [id |-> id, ver |-> ver] \in [id : RowIds \union {NoId}, ver : Nat]
    BY <1>5, <1>7 DEF Absent
  <2> QED
    BY <1>2, <1>5, <1>7, <2>1
<1>9. /\ getter' \in [pc : {"idle", "took", "read"}, id : RowIds, del : BOOLEAN, ver : Nat]
      /\ getter'.pc = "idle" /\ \A i : ~BeingDeleted(i)'
  <2>1. 0 \in RowIds
    BY MigrationAssumption DEF RowIds
  <2> QED
    BY <1>2, <2>1 DEF NoGet, BeingDeleted
<1>10. /\ \A i : BeingDeleted(i) <=> del /\ id = i
       /\ \A i : getter.pc = "read" /\ ~getter.del /\ getter.id = i <=> ~del /\ id = i
  BY <1>1, <1>2 DEF BeingDeleted
<1>11. MigTypes'
  BY <1>3, <1>4, <1>8, <1>9 DEF MigIInv, MigTypes
<1>12. QuietBefore'
  BY <1>2, <1>4, <1>5 DEF MigIInv, QuietBefore, Logs
<1>13. DeletesAreOld' /\ NewFollowDeletes'
  BY <1>3, <1>4, <1>6, <1>9 DEF MigIInv, DeletesAreOld, NewFollowDeletes
<1>14. UncountedAreQueued' /\ ReadsAreRepeated'
  BY <1>4, <1>5, <1>9 DEF UncountedAreQueued, ReadsAreRepeated
<1>15. RevivedAreQueued'
  BY <1>2, <1>3, <1>4, <1>6 DEF MigIInv, RevivedAreQueued
<1>16. OldCopiesGo'
  <2> SUFFICES ASSUME NEW c \in MigKeys, copy'[c] # Absent
               PROVE  \E j \in Rows : copy'[c].id = j /\ KeyOf(j) = c /\ (Leads(j) \/ Going(j))
    BY <1>3, <1>6, <1>9 DEF OldCopiesGo
  <2>1. CASE c = k
    <3>1. ~del /\ copy'[c].id = id
      BY <1>8, <2>1
    <3>2. Leads(id) \/ Going(id)
      BY <1>5, <1>10, <3>1 DEF MigIInv, OldCopiesGo
    <3> QED
      BY <1>1, <1>5, <2>1, <3>1, <3>2
  <2>2. CASE c # k
    <3>1. copy'[c] = copy[c]
      BY <1>8, <2>2
    <3>2. PICK j \in Rows : /\ copy[c].id = j /\ KeyOf(j) = c
                            /\ Leads(j) \/ Going(j) \/ BeingDeleted(j)
      BY <1>5, <3>1 DEF MigIInv, OldCopiesGo
    <3>3. ~BeingDeleted(j)
      BY <1>1, <1>10, <2>2, <3>2
    <3> QED
      BY <3>1, <3>2, <3>3
  <2> QED
    BY <2>1, <2>2
<1>17. ASSUME NEW i \in Rows, Leads(i), KeyOf(i) = k, i # id \/ del
       PROVE  ToCome(i)
  <2>1. KeyOf(i) = KeyOf(id)
    BY <1>1, <1>17
  <2>2. CASE del
    BY <1>5, <1>10, <1>17, <2>1, <2>2 DEF MigIInv, NewFollowDeletes
  <2>3. CASE ~del
    <3>1. keyIds[KeyOf(id)] = i /\ i # id
      BY <1>17, <2>1, <2>3 DEF Leads
    <3>2. Going(id)
      BY <1>5, <1>10, <2>3, <3>1 DEF MigIInv, OldCopiesGo, Leads
    <3>3. ~(writer.op = "delete" /\ id \in Elems(writer.todo))
      BY <1>7, <3>1 DEF MigIInv, WriterIsReal
    <3>4. PICK q \in (migrated + 1) .. Len(incQueue) : incQueue[q] = [id |-> id, del |-> TRUE]
      BY <3>2, <3>3 DEF Going, ToDelete, DeletesFrom
    <3>5. ToAdd(q + 1, i)
      BY <1>5, <1>17, <2>1, <3>4 DEF MigIInv, NewFollowDeletes
    <3>6. \A m \in (q + 1) .. Len(incQueue) : m \in (migrated + 1) .. Len(incQueue)
      BY EntriesAre DEF MigIInv
    <3> QED
      BY <3>5, <3>6 DEF ToCome, ToAdd, AddsFrom
  <2> QED
    BY <1>5, <2>2, <2>3
<1>18. WillBeCopied'
  <2> SUFFICES ASSUME NEW i \in Rows, Leads(i), Shown(i) PROVE OnItsWay(i)'
    BY <1>3 DEF WillBeCopied
  <2>1. OnItsWay(i) /\ KeyOf(i) \in MigKeys
    BY <1>5, <1>7 DEF MigIInv, WillBeCopied
  <2>2. CASE KeyOf(i) # k
    <3>1. i # id /\ copy'[KeyOf(i)] = copy[KeyOf(i)]
      BY <1>1, <1>8, <2>1, <2>2
    <3> QED
      BY <1>1, <1>2, <1>3, <1>4, <1>6, <2>1, <3>1 DEF OnItsWay
  <2>3. CASE KeyOf(i) = k /\ (i # id \/ del)
    BY <1>6, <1>17, <2>3 DEF OnItsWay
  <2>4. CASE i = id /\ ~del
    <3>1. ver = VerOf(i) \/ ToCome(i)
      BY <1>1, <1>10, <2>4 DEF MigIInv, ReadsAreRepeated
    <3>2. copy'[k] = [id |-> i, ver |-> ver] /\ KeyOf(i)' = k /\ VerOf(i)' = VerOf(i)
      BY <1>1, <1>3, <1>8, <2>4
    <3> QED
      BY <1>6, <3>1, <3>2 DEF OnItsWay
  <2> QED
    BY <1>1, <2>2, <2>3, <2>4
<1> QED
  BY <1>3, <1>11, <1>12, <1>13, <1>14, <1>15, <1>16, <1>18 DEF MigIInv

\* The empty engine.
LEMMA MigInitInv == MigrationInit => MigIInv
<1> SUFFICES ASSUME MigrationInit PROVE MigIInv
  OBVIOUS
<1>1. /\ rowsOf = << >> /\ maxDocid = 0 /\ hidden = {}
      /\ keyIds = [c \in MigKeys |-> NoId]
      /\ writer = [op |-> "none", ids |-> {}, todo |-> << >>, unlogged |-> {}] /\ mig = "none"
      /\ next_migrate_docid_ = -1 /\ max_full_docid_ = 0
      /\ incQueue = << >> /\ migrated = 0
      /\ getter = NoGet /\ copy = [c \in MigKeys |-> Absent] /\ missed = {}
  BY DEF MigrationInit, NoCall
<1>2. Rows = {} /\ Len(rowsOf) = 0 /\ Len(incQueue) = 0 /\ MaxRows \in Nat \ {0} /\ 0 \in RowIds
  BY <1>1, MigrationAssumption DEF Rows, RowIds
<1>3. getter.pc = "idle"
  BY <1>1 DEF NoGet
<1>4. MigTypes
  <2>1. /\ keyIds \in [MigKeys -> Rows \union {NoId}]
        /\ copy \in [MigKeys -> [id : RowIds \union {NoId}, ver : Nat]]
        /\ getter \in [pc : {"idle", "took", "read"}, id : RowIds, del : BOOLEAN, ver : Nat]
    BY <1>1, <1>2 DEF NoGet, Absent
  <2>2. /\ rowsOf \in Seq([key : MigKeys, ver : Nat]) /\ Len(rowsOf) <= MaxRows
        /\ maxDocid \in 0 .. Len(rowsOf)
        /\ incQueue \in Seq([id : Rows, del : BOOLEAN]) /\ migrated \in 0 .. Len(incQueue)
    BY <1>1, <1>2
  <2>3. writer \in [op : {"none", "add", "update", "revive", "delete"},
                    ids : SUBSET Rows, todo : Seq(Rows), unlogged : SUBSET Rows]
    BY <1>1
  <2> QED
    BY <1>1, <1>3, <2>1, <2>2, <2>3 DEF MigTypes
<1>5. KeysLead
  BY <1>2 DEF KeysLead
<1>6. WriterIsReal
  BY <1>1, <1>2, ElemsOfNone DEF WriterIsReal
<1>7. QuietBefore
  BY <1>1 DEF QuietBefore
<1> QED
  BY <1>1, <1>2, <1>4, <1>5, <1>6, <1>7
  DEF MigIInv, DeletesAreOld, NewFollowDeletes, UncountedAreQueued, OldCopiesGo, WillBeCopied,
      RevivedAreQueued, ReadsAreRepeated

\* Nothing happens.
LEMMA MigStutter ==
  ASSUME MigIInv, UNCHANGED migrationVars
  PROVE  MigIInv'
<1>1. /\ UNCHANGED source /\ UNCHANGED cursor /\ getter' = getter /\ copy' = copy
      /\ missed' = missed
  BY DEF migrationVars
<1>2. /\ Rows' = Rows /\ KeysLead' /\ WriterIsReal' /\ writer' = writer /\ hidden' = hidden
      /\ rowsOf' = rowsOf /\ maxDocid' = maxDocid /\ keyIds' = keyIds
      /\ \A i : (Leads(i)' <=> Leads(i)) /\ VerOf(i)' = VerOf(i) /\ KeyOf(i)' = KeyOf(i)
      /\ \A i : Shown(i)' <=> Shown(i)
  BY <1>1, SourceStays DEF source
<1>3. /\ mig' = mig /\ next_migrate_docid_' = next_migrate_docid_
      /\ max_full_docid_' = max_full_docid_ /\ incQueue' = incQueue /\ migrated' = migrated
  BY <1>1 DEF cursor
<1>4. /\ \A p, i : (ToAdd(p, i)' <=> ToAdd(p, i)) /\ (ToDelete(p, i)' <=> ToDelete(p, i))
      /\ \A i : (ToCome(i)' <=> ToCome(i)) /\ (Going(i)' <=> Going(i))
      /\ \A i : DeletesFrom(1, i)' <=> DeletesFrom(1, i)
      /\ \A i : BeingDeleted(i)' <=> BeingDeleted(i)
  BY <1>1, <1>2, <1>3, QueueStays DEF BeingDeleted
<1>5. MigTypes' /\ QuietBefore'
  BY <1>1, <1>2, <1>3 DEF MigIInv, MigTypes, QuietBefore, Logs, Absent, NoGet
<1>6. DeletesAreOld' /\ NewFollowDeletes' /\ UncountedAreQueued'
  BY <1>2, <1>3, <1>4 DEF MigIInv, DeletesAreOld, NewFollowDeletes, UncountedAreQueued
<1>7. OldCopiesGo'
  BY <1>1, <1>2, <1>3, <1>4 DEF MigIInv, OldCopiesGo, Absent
<1>8. \A i : OnItsWay(i)' <=> OnItsWay(i)
  BY <1>1, <1>2, <1>3, <1>4 DEF OnItsWay
<1>9. WillBeCopied'
  BY <1>2, <1>3, <1>8 DEF MigIInv, WillBeCopied
<1>10. RevivedAreQueued' /\ ReadsAreRepeated'
  BY <1>1, <1>2, <1>3, <1>4 DEF MigIInv, RevivedAreQueued, ReadsAreRepeated
<1> QED
  BY <1>2, <1>5, <1>6, <1>7, <1>9, <1>10 DEF MigIInv

\* Every step of the engine and of the migration keeps the invariant.
LEMMA MigStepInv == MigIInv /\ [MigrationNext]_migrationVars => MigIInv'
<1> SUFFICES ASSUME MigIInv, [MigrationNext]_migrationVars PROVE MigIInv'
  OBVIOUS
<1>1. CASE CallEngine
  BY <1>1, StoreDocsStep, UpdateDocStep, DeleteDocumentStep, HideByQueryStep DEF CallEngine
<1>2. CASE RunCall
  BY <1>2, LogStep, ReturnStep DEF RunCall
<1>3. CASE Migrate
  BY <1>3, OpenQueueStep, BeginMigrateStep, TakeScannedStep, TakeQueuedStep, ReadRowStep,
     ApplyStep
  DEF Migrate
<1>4. CASE NewMigrateData
  BY <1>4, NewMigrateDataStep
<1>5. CASE TerminateMigrate
  BY <1>5, TerminateMigrateStep
<1>6. CASE UNCHANGED migrationVars
  BY <1>6, MigStutter
<1> QED
  BY <1>1, <1>2, <1>3, <1>4, <1>5, <1>6 DEF MigrationNext

\* What is copied, on its way, missed or to be deleted, through every migration.
THEOREM MigrationInvariant == MigrationSpec => []MigIInv
  BY MigInitInv, MigStepInv, PTL DEF MigrationSpec

\* Once the migration has caught up nothing is on its way: a document a key leads to is
\* in the copy as it is, and a copy is of such a document.
LEMMA CaughtUpIsExact == MigIInv => CopyIsExact
<1> SUFFICES ASSUME MigIInv, CaughtUp, NEW k \in MigKeys, keyIds[k] \notin hidden \union missed
             PROVE  copy[k] = Current(k)
  BY DEF CopyIsExact
<1>1. /\ mig = "begun" /\ writer.op = "none" /\ getter = NoGet /\ Scan = {}
      /\ migrated = Len(incQueue) /\ getter.pc = "idle"
  BY DEF CaughtUp, NoGet
<1>2. /\ writer.ids = {} /\ Elems(writer.todo) = {} /\ writer.unlogged = {}
      /\ Len(incQueue) \in Nat
  BY <1>1, EntriesAre DEF MigIInv, WriterIsReal
<1>3. \A i : ~ToCome(i) /\ ~Going(i) /\ ~BeingDeleted(i)
  BY <1>1, <1>2 DEF ToCome, Going, ToAdd, ToDelete, AddsFrom, DeletesFrom, BeingDeleted
<1>4. copy[k] # Absent => keyIds[k] \in Rows /\ copy[k].id = keyIds[k]
  <2> SUFFICES ASSUME copy[k] # Absent PROVE keyIds[k] \in Rows /\ copy[k].id = keyIds[k]
    OBVIOUS
  <2>1. PICK j \in Rows : copy[k].id = j /\ KeyOf(j) = k /\ Leads(j)
    BY <1>1, <1>3 DEF MigIInv, OldCopiesGo
  <2> QED
    BY <2>1 DEF Leads
<1>5. CASE keyIds[k] = NoId
  BY <1>4, <1>5, RowsAre DEF MigIInv, Current
<1>6. CASE keyIds[k] # NoId
  <2>1. PICK i \in Rows : i = keyIds[k]
    BY <1>6 DEF MigIInv, MigTypes
  <2>2. KeyOf(i) = k /\ Leads(i)
    BY <2>1 DEF MigIInv, KeysLead, Leads
  <2>3. OnItsWay(i)
    BY <1>1, <2>1, <2>2 DEF MigIInv, WillBeCopied, Shown
  <2>4. i \notin next_migrate_docid_ .. (max_full_docid_ - 1)
    BY <1>1, <2>1 DEF Scan
  <2>5. copy[k] = [id |-> i, ver |-> VerOf(i)]
    BY <1>1, <1>2, <1>3, <2>1, <2>2, <2>3, <2>4 DEF OnItsWay
  <2> QED
    BY <1>6, <2>1, <2>5 DEF Current, VerOf
<1> QED
  BY <1>5, <1>6

\* The types the runs check.
LEMMA MigTypesImply == MigIInv => MigrationTypeOK
<1> SUFFICES ASSUME MigIInv PROVE MigrationTypeOK
  OBVIOUS
<1>1. Rows \subseteq RowIds
  BY RowsAre DEF MigIInv
<1>2. incQueue \in Seq(Entries)
  <2>1. [id : Rows, del : BOOLEAN] \subseteq Entries
    BY <1>1 DEF Entries
  <2>2. incQueue \in Seq([id : Rows, del : BOOLEAN])
    BY DEF MigIInv, MigTypes
  <2>3. /\ Len(incQueue) \in Nat /\ DOMAIN incQueue = 1 .. Len(incQueue)
        /\ \A p \in 1 .. Len(incQueue) : incQueue[p] \in Entries
    BY <2>1, EntriesAre DEF MigIInv
  <2>4. incQueue = [p \in 1 .. Len(incQueue) |-> incQueue[p]]
    BY <2>2, <2>3
  <2> HIDE DEF Entries
  <2>5. incQueue \in [1 .. Len(incQueue) -> Entries]
    BY <2>3, <2>4
  <2> QED
    BY <2>3, <2>5
<1>3. keyIds \in [MigKeys -> RowIds \union {NoId}] /\ missed \subseteq RowIds
  BY <1>1 DEF MigIInv, MigTypes
<1> QED
  BY <1>2, <1>3 DEF MigIInv, MigTypes, MigrationTypeOK, Rows

\* Only a document passed over while its call runs or its bit is set is noted, and what
\* a call notes at its end is its own.
LEMMA MissesAreRaces ==
  MigIInv /\ [MigrationNext]_migrationVars
    => [\A id \in missed' \ missed : id \in writer.ids \/ id \in hidden]_migrationVars
<1> SUFFICES ASSUME MigIInv, MigrationNext, NEW id \in missed', id \notin missed
             PROVE  id \in writer.ids \/ id \in hidden
  OBVIOUS
<1>1. CASE CallEngine
  BY <1>1 DEF CallEngine, StoreDocs, UpdateDoc, DeleteDocument, HideByQuery
<1>2. CASE Log
  BY <1>2 DEF Log
<1>3. CASE Return
  BY <1>3 DEF Return, MigIInv, WriterIsReal
<1>4. CASE ReadRow
  <2>1. id = getter.id /\ getter.pc = "took" /\ ~Exists(id)
    BY <1>4 DEF ReadRow
  <2>2. id \in Rows /\ id \in Nat /\ maxDocid \in Nat
    BY <2>1, RowsAre DEF MigIInv, MigTypes
  <2>3. ~(id < maxDocid) \/ id \in hidden
    BY <2>1 DEF Exists
  <2> QED
    BY <2>2, <2>3 DEF MigIInv, WriterIsReal
<1>5. CASE OpenQueue \/ BeginMigrate \/ TakeScanned \/ TakeQueued \/ Apply
  BY <1>5 DEF OpenQueue, BeginMigrate, TakeScanned, TakeQueued, Apply
<1>6. CASE NewMigrateData \/ TerminateMigrate
  BY <1>6 DEF NewMigrateData, TerminateMigrate
<1> QED
  BY <1>1, <1>2, <1>3, <1>4, <1>5, <1>6 DEF MigrationNext, RunCall, Migrate

\* Once caught up the copy has each document in its last version and no deleted one, but
\* for those missed, and documents are missed only in a race with the call that logs them
\* (migrate_data.cc:94, gamma_engine.cc:887, 943, 976).
THEOREM MigrationCopies == MigrationSpec => MigrationIsExact
<1>1. MigIInv => MigrationTypeOK /\ CopyIsExact
  BY MigTypesImply, CaughtUpIsExact
<1> QED
  BY <1>1, MissesAreRaces, MigStepInv, MigrationInvariant, PTL
  DEF MigrationSpec, MigrationIsExact, MissedOnlyInRaces
=============================================================================
