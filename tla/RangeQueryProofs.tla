-------------------------- MODULE RangeQueryProofs --------------------------
(***************************************************************************)
(* What is proved about the range index: a node holds the documents of its *)
(* key through every conversion (RangeNode, RangePostings), and the answer *)
(* to a list of filters, through splitting, intersection and negation, is  *)
(* what each of its three uses takes it for (RangeQuery).  MCStores lends  *)
(* the property of the run that checks the same on a small instance.       *)
(***************************************************************************)
EXTENDS MCStores, FiniteSetTheorems, SequenceTheorems, WellFoundedInduction,
        TLAPS

\* The word of bit v starts and ends around v, at multiples of Word
\* (Node::AddDense and AddSparse compute both by integer division).
LEMMA WordBounds ==
  ASSUME NEW v \in Nat
  PROVE  /\ WordStart(v) \in Nat /\ WordStart(v) <= v /\ Aligned(WordStart(v))
         /\ WordEnd(v) \in Nat /\ v <= WordEnd(v) /\ Aligned(WordEnd(v) + 1)
<1> DEFINE q == v \div Word
           r == v % Word
<1>1. Word \in Nat /\ Word > 0
  BY NodeAssumption
<1>2. q \in Nat /\ r \in 0..(Word - 1) /\ v = Word * q + r
  BY <1>1
<1> HIDE DEF q, r
<1>3. q * Word \in Nat /\ q <= q * Word /\ q * Word <= v
  BY <1>1, <1>2
<1>4. (q + 1) * Word = q * Word + Word
  BY <1>1, <1>2
<1>5. q + 1 <= (q + 1) * Word
  BY <1>1, <1>2, <1>3, <1>4
<1>6. WordStart(v) = q * Word /\ WordEnd(v) = (q + 1) * Word - 1
  BY DEF WordStart, WordEnd, q
<1>7. WordEnd(v) \in Nat /\ v <= WordEnd(v)
  BY <1>1, <1>2, <1>3, <1>4, <1>6
<1>8. Aligned(WordStart(v))
  <2>1. q \in 0..(q * Word)
    BY <1>1, <1>2, <1>3
  <2>2. \E j \in 0..(q * Word) : q * Word = j * Word
    BY <2>1, Zenon
  <2> QED
    BY <2>2, <1>6 DEF Aligned
<1>9. Aligned(WordEnd(v) + 1)
  <2>1. (q + 1) \in 0..((q + 1) * Word) /\ (q + 1) * Word \in Nat
    BY <1>1, <1>2, <1>3, <1>4, <1>5
  <2>2. \E j \in 0..((q + 1) * Word) : (q + 1) * Word = j * Word
    BY <2>1, Zenon
  <2>3. WordEnd(v) + 1 = (q + 1) * Word
    <3> DEFINE x == (q + 1) * Word
    <3>1. x \in Nat /\ WordEnd(v) = x - 1
      BY <2>1, <1>6
    <3> HIDE DEF x
    <3>2. WordEnd(v) + 1 = x
      BY <3>1
    <3> QED
      BY <3>2 DEF x
  <2> QED
    BY <2>2, <2>3 DEF Aligned
<1> QED
  BY <1>3, <1>6, <1>7, <1>8, <1>9

\* Doubling the words that an id needs keeps the range a number of whole
\* words that covers the id (the spare space of Node::AddDense).
LEMMA SpareWords ==
  ASSUME NEW v \in Nat
  PROVE  LET hi == (v \div Word + 1) * Word * 2 - 1
         IN  hi \in Nat /\ WordEnd(v) <= hi /\ Aligned(hi + 1)
<1> DEFINE e == (v \div Word + 1) * Word
<1>1. e \in Nat /\ WordEnd(v) = e - 1 /\ WordEnd(v) \in Nat /\ e = WordEnd(v) + 1
  <2>1. Word \in Nat /\ v \div Word \in Nat
    BY NodeAssumption
  <2>2. e \in Nat
    BY <2>1
  <2> QED
    BY <2>2, WordBounds DEF WordEnd
<1>2. Aligned(e)
  BY <1>1, WordBounds
<1>3. PICK j \in 0..e : e = j * Word
  BY <1>2 DEF Aligned
<1>4. Word \in Nat
  BY NodeAssumption
<1> HIDE DEF e
<1>5. j * 2 \in 0..(e * 2) /\ e * 2 = (j * 2) * Word
  BY <1>1, <1>3, <1>4
<1>6. \E i \in 0..(e * 2) : e * 2 = i * Word
  BY <1>5, Zenon
<1>7. Aligned(e * 2)
  BY <1>6 DEF Aligned
<1>8. e * 2 - 1 \in Nat /\ WordEnd(v) <= e * 2 - 1 /\ e * 2 - 1 + 1 = e * 2
  BY <1>1
<1> QED
  BY <1>7, <1>8 DEF e

\* What the type of a node says of its parts.
LEMMA NodeParts ==
  ASSUME NEW n, n \in NodeType
  PROVE  /\ n.dense \in BOOLEAN /\ n.list \in Seq(Nat) /\ n.bits \in SUBSET Nat
         /\ n.size \in Nat /\ n.min \in Nat /\ n.max \in Nat \cup {-1}
         /\ n.lo \in Nat /\ n.hi \in Nat \cup {-1}
         /\ Len(n.list) \in Nat
         /\ \A i \in 1..Len(n.list) : n.list[i] \in Nat
  BY DEF NodeType

\* The bounds AddDense and AddSparse compute are ids and words again.
LEMMA BoundsTyped ==
  ASSUME NEW n, n \in NodeType, NEW v \in Nat
  PROVE  /\ Lesser(n.min, v) \in Nat /\ Greater(n.max, v) \in Nat \cup {-1}
         /\ (IF v < n.lo THEN WordStart(v) ELSE n.lo) \in Nat
         /\ (IF v > n.hi THEN WordEnd(v) ELSE n.hi) \in Nat \cup {-1}
<1>1. WordStart(v) \in Nat /\ WordEnd(v) \in Nat
  BY WordBounds
<1>2. n.min \in Nat /\ n.max \in Nat \cup {-1} /\ n.lo \in Nat /\ n.hi \in Nat \cup {-1}
  BY NodeParts
<1>3. Lesser(n.min, v) \in Nat /\ Greater(n.max, v) \in Nat \cup {-1}
  BY <1>2 DEF Lesser, Greater
<1> QED
  BY <1>1, <1>2, <1>3

\* A node that has just been made is empty and well formed (Node::Node).
LEMMA NewNodeFits == NodeInv(NewNode) /\ Members(NewNode) = {}
<1>1. NewNode \in NodeType
  BY NodeAssumption DEF NewNode, NodeType
<1>2. Members(NewNode) = {}
  BY DEF NewNode, Members
<1>3. OneForm(NewNode) /\ ListedOnce(NewNode) /\ CountIsExact(NewNode)
  BY DEF NewNode, OneForm, ListedOnce, CountIsExact
<1>4. RangesCover(NewNode)
  <2>1. /\ NewNode.hi = -1 /\ NewNode.size = 0 /\ NewNode.lo = IntMax
        /\ NewNode.min = IntMax /\ NewNode.max = -1
    BY DEF NewNode
  <2> QED
    BY <1>2, <2>1 DEF RangesCover
<1> QED
  BY <1>1, <1>2, <1>3, <1>4 DEF NodeInv

(***************************************************************************)
(* The ranges after an id was added in either form.                        *)
(***************************************************************************)
LEMMA RangesWiden ==
  ASSUME NEW n, n \in NodeType, RangesCover(n), n.hi # -1,
         NEW v \in 0..(IntMax - 1), NEW m, m \in NodeType,
         Members(m) = Members(n) \cup {v},
         m.min = Lesser(n.min, v), m.max = Greater(n.max, v),
         m.lo = IF v < n.lo THEN WordStart(v) ELSE n.lo,
         m.hi >= v /\ m.hi >= n.hi /\ Aligned(m.hi + 1)
  PROVE  RangesCover(m)
<1>1. \A x \in Members(m) : m.min <= x /\ x <= m.max
  <2> SUFFICES ASSUME NEW x \in Members(m)
               PROVE  m.min <= x /\ x <= m.max
    OBVIOUS
  <2>1. x \in Int
    BY NodeParts DEF Members
  <2>2. x = v \/ (n.min <= x /\ x <= n.max)
    BY DEF RangesCover
  <2> QED
    <3>1. n.min \in Int /\ n.max \in Int /\ v \in Int
      BY NodeParts
    <3>2. /\ m.min <= n.min /\ m.min <= v /\ n.max <= m.max /\ v <= m.max
          /\ m.min \in Int /\ m.max \in Int
      BY <3>1 DEF Lesser, Greater
    <3> QED
      BY <2>1, <2>2, <3>1, <3>2
<1>2. v \in Nat /\ n.lo \in Nat /\ n.min \in Nat /\ n.max \in Int /\ n.hi \in Int
      /\ m.hi \in Int
  <2>1. n.lo \in Nat /\ n.min \in Nat /\ n.max \in Int /\ n.hi \in Int
    BY NodeParts
  <2>2. m.hi \in Int
    BY NodeParts
  <2>3. v \in Nat
    BY NodeAssumption
  <2> QED
    BY <2>1, <2>2, <2>3
<1>3. /\ WordStart(v) \in Nat /\ WordStart(v) <= v /\ Aligned(WordStart(v))
  BY <1>2, WordBounds
<1>4. Aligned(n.lo) /\ n.lo <= n.min /\ n.min <= n.max /\ n.max <= n.hi
  BY DEF RangesCover
<1>5. m.hi # -1 /\ Aligned(m.lo)
  BY <1>2, <1>3, <1>4
<1>6. m.lo <= n.lo /\ m.lo <= v
  BY <1>2, <1>3
<1>7. m.lo <= m.min /\ m.min <= m.max /\ m.max <= m.hi
  BY <1>2, <1>3, <1>4, <1>6 DEF Lesser, Greater
<1> QED
  BY <1>1, <1>5, <1>7 DEF RangesCover

\* The ranges of a node that holds one id, in one word.
LEMMA RangesFresh ==
  ASSUME NEW v \in Nat, NEW m, Members(m) = {v}, m.min = v, m.max = v,
         m.lo = WordStart(v), m.hi = WordEnd(v)
  PROVE  RangesCover(m)
  BY WordBounds DEF RangesCover

(***************************************************************************)
(* AddSparse adds an absent id to a well-formed array.                     *)
(***************************************************************************)
LEMMA AddSparseAdds ==
  ASSUME NEW n, NodeInv(n), ~n.dense, NEW v \in 0..(IntMax - 1),
         v \notin Members(n)
  PROVE  NodeInv(AddSparse(n, v)) /\ Members(AddSparse(n, v)) = Members(n) \cup {v}
<1> DEFINE m == AddSparse(n, v)
           L == n.list
<1>1. n \in NodeType /\ n.bits = {} /\ n.dense = FALSE
  BY NodeParts DEF NodeInv, OneForm
<1>2. v \in Nat /\ L \in Seq(Nat) /\ Len(L) \in Nat /\ n.size \in Nat /\ n.size = Len(L)
  BY <1>1, NodeAssumption, NodeParts DEF NodeInv, CountIsExact
<1>3. /\ m.dense = FALSE /\ m.bits = {} /\ m.list = Append(L, v) /\ m.size = n.size + 1
      /\ m.min = Lesser(n.min, v) /\ m.max = Greater(n.max, v)
      /\ m.lo = (IF v < n.lo THEN WordStart(v) ELSE n.lo)
      /\ m.hi = (IF v > n.hi THEN WordEnd(v) ELSE n.hi)
  BY <1>1 DEF AddSparse, NodeType
<1>4. /\ Len(m.list) = Len(L) + 1
      /\ m.list[Len(L) + 1] = v
      /\ \A i \in 1..Len(L) : m.list[i] = L[i]
  BY <1>2, <1>3
<1>5. Members(m) = Members(n) \cup {v}
  <2>1. Members(n) = {L[i] : i \in 1..Len(L)}
    BY <1>1 DEF Members
  <2>2. Members(m) = {m.list[i] : i \in 1..(Len(L) + 1)}
    BY <1>3, <1>4 DEF Members
  <2>3. 1..(Len(L) + 1) = 1..Len(L) \cup {Len(L) + 1}
    BY <1>2
  <2> HIDE DEF m, L
  <2> QED
    BY <2>1, <2>2, <2>3, <1>4
<1>6. m \in NodeType
  <2>1. /\ Append(L, v) \in Seq(Nat) /\ n.size + 1 \in Nat
        /\ Lesser(n.min, v) \in Nat /\ Greater(n.max, v) \in Nat \cup {-1}
        /\ (IF v < n.lo THEN WordStart(v) ELSE n.lo) \in Nat
        /\ (IF v > n.hi THEN WordEnd(v) ELSE n.hi) \in Nat \cup {-1}
    <3>1. Append(L, v) \in Seq(Nat) /\ n.size + 1 \in Nat
      BY <1>2
    <3> QED
      BY <3>1, <1>1, <1>2, BoundsTyped
  <2> QED
    <3>1. PICK size, min, max, lo, hi :
            /\ size = n.size + 1 /\ min = Lesser(n.min, v) /\ max = Greater(n.max, v)
            /\ lo = (IF v < n.lo THEN WordStart(v) ELSE n.lo)
            /\ hi = (IF v > n.hi THEN WordEnd(v) ELSE n.hi)
      OBVIOUS
    <3>2. m = [n EXCEPT !.list = Append(L, v), !.size = size, !.min = min, !.max = max,
                        !.lo = lo, !.hi = hi]
      BY <3>1, <1>1 DEF AddSparse, NodeType
    <3>3. /\ Append(L, v) \in Seq(Nat) /\ size \in Nat /\ hi \in Nat \cup {-1}
          /\ min \in Nat /\ max \in Nat \cup {-1} /\ lo \in Nat
      BY <2>1, <3>1
    <3> HIDE DEF m, L
    <3> QED
      BY <1>1, <3>2, <3>3 DEF NodeType
<1>7. OneForm(m) /\ CountIsExact(m)
  BY <1>2, <1>3, <1>4 DEF OneForm, CountIsExact
<1>8. ListedOnce(m)
  <2>1. \A i \in 1..Len(L) : L[i] # v
    BY <1>1 DEF Members
  <2>2. \A i, j \in 1..Len(L) : L[i] = L[j] => i = j
    BY DEF NodeInv, ListedOnce
  <2> HIDE DEF m, L
  <2> QED
    <3>1. Len(m.list) = Len(L) + 1 /\ Len(L) \in Nat
      BY <1>2, <1>4
    <3>2. ASSUME NEW i \in 1..(Len(L) + 1), NEW j \in 1..(Len(L) + 1), m.list[i] = m.list[j]
          PROVE  i = j
      <4>1. CASE i \in 1..Len(L) /\ j \in 1..Len(L)
        <5>1. L[i] = L[j]
          BY <1>4, <3>2, <4>1
        <5> QED
          BY <2>2, <4>1, <5>1
      <4>2. CASE i \in 1..Len(L) /\ j = Len(L) + 1
        BY <1>4, <2>1, <3>2, <4>2
      <4>3. CASE i = Len(L) + 1 /\ j \in 1..Len(L)
        BY <1>4, <2>1, <3>2, <4>3
      <4>4. CASE i = Len(L) + 1 /\ j = Len(L) + 1
        BY <4>4
      <4> QED
        BY <3>1, <4>1, <4>2, <4>3, <4>4
    <3> QED
      BY <3>1, <3>2 DEF ListedOnce
<1>9. RangesCover(m)
  <2>1. CASE n.hi = -1
    <3>1. Members(n) = {}
      BY <2>1, <1>1, <1>2 DEF Members, NodeInv, RangesCover
    <3>2. m.min = v /\ m.max = v /\ m.lo = WordStart(v) /\ m.hi = WordEnd(v)
      BY <2>1, <1>2, <1>3, NodeAssumption DEF NodeInv, RangesCover, Lesser, Greater
    <3> QED
      BY <3>1, <3>2, <1>2, <1>5, RangesFresh
  <2>2. CASE n.hi # -1
    <3>1. n.hi \in Nat /\ Aligned(n.hi + 1) /\ RangesCover(n)
      BY <2>2, <1>1, NodeParts DEF NodeInv, RangesCover
    <3>2. WordEnd(v) \in Nat /\ v <= WordEnd(v) /\ Aligned(WordEnd(v) + 1)
      BY <1>2, WordBounds
    <3>3. m.hi = (IF v > n.hi THEN WordEnd(v) ELSE n.hi)
      BY <1>3
    <3>4. m.hi >= v /\ m.hi >= n.hi
      BY <3>1, <3>2, <3>3, <1>2
    <3>5. Aligned(m.hi + 1)
      BY <3>1, <3>2, <3>3
    <3> HIDE DEF m
    <3> QED
      BY <3>1, <3>4, <3>5, <2>2, <1>1, <1>3, <1>5, <1>6, RangesWiden
  <2> QED
    BY <2>1, <2>2
<1> QED
  BY <1>5, <1>6, <1>7, <1>8, <1>9 DEF NodeInv

(***************************************************************************)
(* AddDense adds an absent id to a well-formed bitmap: an emptied one is   *)
(* replaced, and one that is too small moves to a larger range.            *)
(***************************************************************************)
LEMMA AddDenseAdds ==
  ASSUME NEW n, NodeInv(n), n.dense, NEW v \in 0..(IntMax - 1),
         v \notin Members(n)
  PROVE  NodeInv(AddDense(n, v)) /\ Members(AddDense(n, v)) = Members(n) \cup {v}
<1> DEFINE m == AddDense(n, v)
           spare == (v \div Word + 1) * Word * 2 - 1
<1>1. /\ n \in NodeType /\ n.dense = TRUE /\ n.list = << >> /\ IsFiniteSet(n.bits)
      /\ n.hi # -1 /\ n.size = Cardinality(n.bits) /\ RangesCover(n)
  BY NodeParts DEF NodeInv, OneForm, CountIsExact
<1>2. v \in Nat /\ n.bits \in SUBSET Nat /\ n.size \in Nat /\ v \notin n.bits
  BY <1>1, NodeAssumption, NodeParts DEF Members
<1>3. /\ WordStart(v) \in Nat /\ WordEnd(v) \in Nat /\ v <= WordEnd(v)
      /\ Aligned(WordEnd(v) + 1)
      /\ spare \in Nat /\ WordEnd(v) <= spare /\ Aligned(spare + 1)
  BY <1>2, WordBounds, SpareWords
<1> HIDE DEF spare
<1>4. IsFiniteSet(n.bits \cup {v}) /\ Cardinality(n.bits \cup {v}) = n.size + 1
  <2> DEFINE B == n.bits
  <2>1. IsFiniteSet(B) /\ v \notin B /\ Cardinality(B) = n.size
    BY <1>1, <1>2
  <2> HIDE DEF B
  <2>2. IsFiniteSet(B \cup {v}) /\ Cardinality(B \cup {v}) = n.size + 1
    BY <2>1, FS_AddElement
  <2> QED
    BY <2>2 DEF B
<1>5. CASE n.size = 0
  <2>1. n.bits = {}
    BY <1>1, <1>5, FS_EmptySet
  <2>2. /\ m.dense = TRUE /\ m.list = << >> /\ m.bits = {v} /\ m.size = 1
        /\ m.min = v /\ m.max = v /\ m.lo = WordStart(v) /\ m.hi = WordEnd(v)
    BY <1>1, <1>5 DEF AddDense, NodeType
  <2>3. m \in NodeType
    BY <1>1, <1>2, <1>3, <1>5 DEF AddDense, NodeType
  <2> HIDE DEF m
  <2>4. Members(m) = {v} /\ Members(m) = Members(n) \cup {v}
    BY <2>1, <2>2, <1>1 DEF Members
  <2>5. RangesCover(m)
    BY <2>2, <2>4, <1>2, RangesFresh
  <2>6. OneForm(m) /\ ListedOnce(m) /\ CountIsExact(m)
    <3>1. IsFiniteSet({v}) /\ Cardinality({v}) = 1
      BY FS_Singleton
    <3>2. WordEnd(v) # -1
      BY <1>3
    <3> QED
      BY <2>2, <3>1, <3>2 DEF OneForm, ListedOnce, CountIsExact
  <2> QED
    BY <2>3, <2>4, <2>5, <2>6 DEF NodeInv, m
<1>6. CASE n.size # 0
  <2>1. /\ m.dense = TRUE /\ m.list = << >> /\ m.bits = n.bits \cup {v}
        /\ m.size = n.size + 1
        /\ m.min = Lesser(n.min, v) /\ m.max = Greater(n.max, v)
        /\ m.lo = (IF v < n.lo THEN WordStart(v) ELSE n.lo)
        /\ m.hi = (IF v > n.hi THEN spare ELSE n.hi)
    BY <1>1, <1>6 DEF AddDense, NodeType, spare
  <2>2. m \in NodeType
    <3>1. /\ n.bits \cup {v} \in SUBSET Nat /\ n.size + 1 \in Nat
          /\ (IF v > n.hi THEN spare ELSE n.hi) \in Nat \cup {-1}
      BY <1>1, <1>2, <1>3, NodeParts
    <3>2. /\ Lesser(n.min, v) \in Nat /\ Greater(n.max, v) \in Nat \cup {-1}
          /\ (IF v < n.lo THEN WordStart(v) ELSE n.lo) \in Nat
      BY <1>1, <1>2, BoundsTyped
    <3> QED
      <4>1. PICK bits, size, min, max, lo, hi :
              /\ bits = n.bits \cup {v} /\ size = n.size + 1
              /\ min = Lesser(n.min, v) /\ max = Greater(n.max, v)
              /\ lo = (IF v < n.lo THEN WordStart(v) ELSE n.lo)
              /\ hi = (IF v > n.hi THEN spare ELSE n.hi)
        OBVIOUS
      <4>2. m = [n EXCEPT !.bits = bits, !.size = size, !.min = min, !.max = max,
                          !.lo = lo, !.hi = hi]
        BY <1>1, <1>6, <4>1 DEF AddDense, NodeType, spare
      <4>3. /\ bits \in SUBSET Nat /\ size \in Nat /\ hi \in Nat \cup {-1}
            /\ min \in Nat /\ max \in Nat \cup {-1} /\ lo \in Nat
        BY <3>1, <3>2, <4>1
      <4> HIDE DEF m
      <4> QED
        BY <1>1, <4>2, <4>3 DEF NodeType
  <2> HIDE DEF m
  <2>3. Members(m) = Members(n) \cup {v}
    BY <2>1, <1>1 DEF Members
  <2>4. RangesCover(m)
    <3>1. n.hi \in Nat /\ Aligned(n.hi + 1)
      BY <1>1, NodeParts DEF RangesCover
    <3>2. m.hi >= v /\ m.hi >= n.hi
      BY <3>1, <2>1, <1>2, <1>3
    <3>3. Aligned(m.hi + 1)
      BY <3>1, <2>1, <1>3
    <3> QED
      BY <3>2, <3>3, <2>1, <2>2, <2>3, <1>1, RangesWiden
  <2>5. OneForm(m) /\ ListedOnce(m) /\ CountIsExact(m)
    <3>1. m.hi # -1
      BY <2>1, <1>1, <1>3
    <3> QED
      BY <2>1, <3>1, <1>4 DEF OneForm, ListedOnce, CountIsExact
  <2> QED
    BY <2>2, <2>3, <2>4, <2>5 DEF NodeInv, m
<1> QED
  BY <1>5, <1>6

(***************************************************************************)
(* ConvertToDense keeps the ids and their number.                          *)
(***************************************************************************)
LEMMA ConvertToDenseKeeps ==
  ASSUME NEW n, NodeInv(n), ~n.dense, n.size # 0
  PROVE  LET m == ConvertToDense(n)
         IN  NodeInv(m) /\ m.dense /\ Members(m) = Members(n)
<1> DEFINE m == ConvertToDense(n)
           L == n.list
           M == {L[i] : i \in 1..Len(L)}
<1>1. /\ n \in NodeType /\ n.dense = FALSE /\ n.bits = {} /\ n.size = Len(L)
      /\ RangesCover(n) /\ L \in Seq(Nat) /\ Len(L) \in Nat /\ Members(n) = M
  BY NodeParts DEF NodeInv, OneForm, CountIsExact, Members
<1>2. /\ n.hi # -1 /\ n.lo \in Nat /\ n.hi \in Nat /\ n.min \in Nat /\ n.max \in Int
      /\ n.lo <= n.min /\ n.max <= n.hi
  BY <1>1, NodeParts DEF RangesCover
<1>3. M \subseteq Nat
  BY <1>1
<1>4. \A v \in M : v >= n.lo /\ v <= n.hi
  <2> SUFFICES ASSUME NEW v \in M
               PROVE  v >= n.lo /\ v <= n.hi
    OBVIOUS
  <2>1. v \in Nat /\ v \in Members(n)
    BY <1>1, <1>3
  <2>2. n.min <= v /\ v <= n.max
    BY <2>1, <1>1 DEF RangesCover
  <2> HIDE DEF M
  <2> QED
    BY <2>1, <2>2, <1>2
<1>5. {v \in Members(n) : v >= n.lo /\ v <= n.hi} = M
  BY <1>1, <1>4
<1>6. /\ m.dense = TRUE /\ m.list = << >> /\ m.bits = M /\ m.size = n.size
      /\ m.min = n.min /\ m.max = n.max /\ m.lo = n.lo /\ m.hi = n.hi
  BY <1>1, <1>5 DEF ConvertToDense, NodeType
<1>7. IsFiniteSet(M) /\ Cardinality(M) = Len(L)
  <2> DEFINE f == [i \in 1..Len(L) |-> L[i]]
  <2>1. \A i, j \in 1..Len(L) : L[i] = L[j] => i = j
    BY DEF NodeInv, ListedOnce
  <2>2. f \in Bijection(1..Len(L), M)
    BY <2>1 DEF Bijection, Injection, Surjection, IsInjective
  <2>3. ExistsBijection(1..Len(L), M)
    BY <2>2 DEF ExistsBijection
  <2> DEFINE k == Len(L)
  <2>4. k \in Nat
    BY <1>1
  <2> HIDE DEF f, M, k
  <2>5. IsFiniteSet(1..k) /\ Cardinality(1..k) = k
    BY <2>4, FS_Interval
  <2>6. ExistsBijection(1..k, M)
    BY <2>3 DEF k
  <2>7. IsFiniteSet(M) /\ Cardinality(M) = k
    BY <2>5, <2>6, FS_Bijection
  <2> QED
    BY <2>7 DEF k
<1>8. m \in NodeType
  <2>1. /\ {v \in Members(n) : v >= n.lo /\ v <= n.hi} \in SUBSET Nat
        /\ << >> \in Seq(Nat) /\ TRUE \in BOOLEAN
    BY <1>3, <1>5
  <2> QED
    BY <2>1, <1>1 DEF ConvertToDense, NodeType
<1> HIDE DEF m, M
<1>9. Members(m) = M /\ Members(m) = Members(n)
  BY <1>1, <1>6 DEF Members
<1>10. RangesCover(m)
  BY <1>1, <1>6, <1>9 DEF RangesCover
<1>11. OneForm(m) /\ ListedOnce(m) /\ CountIsExact(m)
  BY <1>1, <1>2, <1>6, <1>7 DEF OneForm, ListedOnce, CountIsExact
<1> QED
  BY <1>6, <1>8, <1>9, <1>10, <1>11 DEF NodeInv, m

\* The ids of a finite bitmap can be listed, each once.
LEMMA ListingLists ==
  ASSUME NEW S, IsFiniteSet(S), S \subseteq Nat
  PROVE  LET k == Cardinality(S)
         IN  /\ k \in Nat
             /\ Listing(S) \in [1..k -> S]
             /\ \A i, j \in 1..k : Listing(S)[i] = Listing(S)[j] => i = j
             /\ \A v \in S : \E i \in 1..k : Listing(S)[i] = v
<1> DEFINE k == Cardinality(S)
           Enumerates(s) == /\ \A i, j \in 1..k : s[i] = s[j] => i = j
                       /\ \A v \in S : \E i \in 1..k : s[i] = v
<1>1. k \in Nat /\ ExistsBijection(1..k, S)
  BY FS_CardinalityType
<1>2. PICK f \in Bijection(1..k, S) : TRUE
  BY <1>1 DEF ExistsBijection
<1>3. f \in [1..k -> S] /\ Enumerates(f)
  BY <1>2 DEF Bijection, Injection, Surjection, IsInjective
<1>4. Listing(S) = CHOOSE s \in [1..k -> S] : Enumerates(s)
  BY DEF Listing
<1> HIDE DEF k, Enumerates
<1>5. Listing(S) \in [1..k -> S] /\ Enumerates(Listing(S))
  BY <1>3, <1>4, Zenon
<1> QED
  BY <1>1, <1>5 DEF k, Enumerates

(***************************************************************************)
(* ConvertToSparse keeps the ids, lists each once and keeps their number.  *)
(***************************************************************************)
LEMMA ConvertToSparseKeeps ==
  ASSUME NEW n, NodeInv(n), n.dense
  PROVE  LET m == ConvertToSparse(n)
         IN  NodeInv(m) /\ ~m.dense /\ Members(m) = Members(n)
<1> DEFINE m == ConvertToSparse(n)
           B == n.bits
           k == Cardinality(B)
           s == Listing(B)
           L == SubSeq(s, 1, Lesser(n.size, k))
<1>1. /\ n \in NodeType /\ IsFiniteSet(B) /\ n.size = k /\ RangesCover(n)
      /\ B \subseteq Nat /\ Members(n) = B /\ n.hi # -1
  BY NodeParts DEF NodeInv, OneForm, CountIsExact, Members
<1>2. /\ k \in Nat /\ s \in [1..k -> B]
      /\ \A i, j \in 1..k : s[i] = s[j] => i = j
      /\ \A v \in B : \E i \in 1..k : s[i] = v
  BY <1>1, ListingLists
<1>3. /\ m.dense = FALSE /\ m.list = L /\ m.bits = {} /\ m.size = n.size
      /\ m.min = n.min /\ m.max = n.max /\ m.lo = n.lo /\ m.hi = n.hi
  BY <1>1 DEF ConvertToSparse, NodeType
<1>4. L = SubSeq(s, 1, k)
  BY <1>1, <1>2 DEF Lesser
<1> HIDE DEF m, k, s, B, L
<1>5. s \in Seq(Nat) /\ Len(s) = k
  <2>1. k \in Nat /\ s \in [1..k -> Nat]
    BY <1>1, <1>2
  <2> QED
    BY <2>1
<1>6. L \in Seq(Nat) /\ Len(L) = k /\ \A i \in 1..k : L[i] = s[i]
  BY <1>2, <1>4, <1>5
<1>7. m \in NodeType
  <2>1. SubSeq(Listing(n.bits), 1, Lesser(n.size, Cardinality(n.bits))) \in Seq(Nat)
        /\ {} \in SUBSET Nat /\ FALSE \in BOOLEAN
    BY <1>6 DEF L, k, s, B
  <2> QED
    BY <2>1, <1>1 DEF m, ConvertToSparse, NodeType
<1>8. Members(m) = {L[i] : i \in 1..k}
  BY <1>3, <1>6 DEF Members
<1>9. Members(m) = B
  BY <1>2, <1>6, <1>8
<1>10. RangesCover(m)
  BY <1>1, <1>3, <1>9 DEF RangesCover
<1>11. OneForm(m) /\ CountIsExact(m)
  BY <1>1, <1>3, <1>6 DEF OneForm, CountIsExact
<1>12. ListedOnce(m)
  BY <1>2, <1>3, <1>6 DEF ListedOnce
<1> QED
  BY <1>1, <1>3, <1>7, <1>9, <1>10, <1>11, <1>12 DEF NodeInv, m

(***************************************************************************)
(* Node::Add adds an absent id, through whichever conversion.              *)
(***************************************************************************)
LEMMA AddNodeAdds ==
  ASSUME NEW n, NodeInv(n), NEW v \in 0..(IntMax - 1), v \notin Members(n)
  PROVE  NodeInv(AddNode(n, v)) /\ Members(AddNode(n, v)) = Members(n) \cup {v}
<1>1. CASE n.dense /\ Wide(n) /\ Below(n, Fall)
  <2> DEFINE c == ConvertToSparse(n)
  <2>1. NodeInv(c) /\ ~c.dense /\ Members(c) = Members(n)
    BY <1>1, ConvertToSparseKeeps
  <2>2. AddNode(n, v) = AddSparse(c, v)
    BY <1>1 DEF AddNode
  <2> HIDE DEF c
  <2> QED
    BY <2>1, <2>2, AddSparseAdds
<1>2. CASE n.dense /\ ~(Wide(n) /\ Below(n, Fall))
  <2>1. AddNode(n, v) = AddDense(n, v)
    BY <1>2 DEF AddNode
  <2> QED
    BY <2>1, <1>2, AddDenseAdds
<1>3. CASE ~n.dense /\ Wide(n) /\ Above(n, Rise)
  <2> DEFINE c == ConvertToDense(n)
  <2>1. n.size # 0
    <3>1. n.hi # -1
      BY <1>3, NodeAssumption DEF Wide, NodeInv, RangesCover
    <3>2. n \in NodeType /\ RangesCover(n)
      BY DEF NodeInv
    <3>3. /\ n.size \in Nat /\ n.min \in Nat /\ n.max \in Int
          /\ n.max - n.min > Spread /\ Spread \in Nat
          /\ n.size * Rise[2] > Rise[1] * (n.max - n.min)
          /\ Rise[1] \in Nat /\ Rise[2] \in Nat
      <4>1. /\ n.size \in Nat /\ n.min \in Nat /\ n.max \in Int
        BY <3>2, NodeParts
      <4>2. Spread \in Nat /\ Rise[1] \in Nat /\ Rise[2] \in Nat
        BY NodeAssumption
      <4>3. n.max - n.min > Spread
        BY <1>3 DEF Wide
      <4>4. n.size * Rise[2] > Rise[1] * (n.max - n.min)
        BY <1>3 DEF Above
      <4> QED
        BY <4>1, <4>2, <4>3, <4>4
    <3>4. Rise[1] * (n.max - n.min) >= 0
      BY <3>3
    <3> SUFFICES ASSUME n.size = 0 PROVE FALSE
      OBVIOUS
    <3>5. n.size * Rise[2] = 0
      BY <3>3
    <3> QED
      BY <3>3, <3>4, <3>5
  <2>2. NodeInv(c) /\ c.dense /\ Members(c) = Members(n)
    BY <1>3, <2>1, ConvertToDenseKeeps
  <2>3. AddNode(n, v) = AddDense(c, v)
    BY <1>3 DEF AddNode
  <2> HIDE DEF c
  <2> QED
    BY <2>2, <2>3, AddDenseAdds
<1>4. CASE ~n.dense /\ ~(Wide(n) /\ Above(n, Rise))
  <2>1. AddNode(n, v) = AddSparse(n, v)
    BY <1>4 DEF AddNode
  <2> QED
    BY <2>1, <1>4, AddSparseAdds
<1> QED
  BY <1>1, <1>2, <1>3, <1>4

(***************************************************************************)
(* DeleteDense and DeleteSparse remove an id that is present, and count it *)
(* once.                                                                   *)
(***************************************************************************)
LEMMA DeleteDenseDeletes ==
  ASSUME NEW n, NodeInv(n), n.dense, NEW v \in Members(n)
  PROVE  NodeInv(DeleteDense(n, v)) /\ Members(DeleteDense(n, v)) = Members(n) \ {v}
<1> DEFINE m == DeleteDense(n, v)
           B == n.bits
<1>1. /\ n \in NodeType /\ n.dense = TRUE /\ n.list = << >> /\ IsFiniteSet(B)
      /\ n.size = Cardinality(B) /\ RangesCover(n) /\ n.hi # -1
      /\ Members(n) = B /\ B \subseteq Nat /\ v \in B /\ v \in Nat
  BY NodeParts DEF NodeInv, OneForm, CountIsExact, Members
<1>2. n.min <= v /\ v <= n.max /\ n.lo <= n.min /\ n.max <= n.hi
  BY <1>1 DEF RangesCover
<1>3. ~(v < n.lo \/ v > n.hi)
  BY <1>1, <1>2, NodeParts
<1>4. /\ m.dense = TRUE /\ m.list = << >> /\ m.bits = B \ {v} /\ m.size = n.size - 1
      /\ m.min = n.min /\ m.max = n.max /\ m.lo = n.lo /\ m.hi = n.hi
  BY <1>1, <1>3 DEF DeleteDense, NodeType
<1>5. /\ IsFiniteSet(B \ {v}) /\ Cardinality(B \ {v}) = n.size - 1
      /\ n.size - 1 \in Nat
  <2> HIDE DEF B
  <2>1. IsFiniteSet(B) /\ v \in B
    BY <1>1
  <2>2. IsFiniteSet(B \ {v}) /\ Cardinality(B \ {v}) = Cardinality(B) - 1
    BY <2>1, FS_RemoveElement
  <2>3. Cardinality(B \ {v}) \in Nat
    BY <2>2, FS_CardinalityType
  <2> QED
    BY <2>2, <2>3, <1>1
<1>6. m \in NodeType
  <2>1. n.bits \ {v} \in SUBSET Nat /\ n.size - 1 \in Nat
    BY <1>1, <1>5
  <2> QED
    BY <2>1, <1>1, <1>3 DEF DeleteDense, NodeType
<1> HIDE DEF m, B
<1>7. Members(m) = Members(n) \ {v}
  BY <1>1, <1>4 DEF Members
<1>8. RangesCover(m)
  <2>1. \A x \in Members(m) : m.min <= x /\ x <= m.max
    BY <1>1, <1>4, <1>7 DEF RangesCover
  <2> QED
    BY <2>1, <1>1, <1>4 DEF RangesCover
<1>9. OneForm(m) /\ ListedOnce(m) /\ CountIsExact(m)
  BY <1>1, <1>4, <1>5 DEF OneForm, ListedOnce, CountIsExact
<1> QED
  BY <1>6, <1>7, <1>8, <1>9 DEF NodeInv, m

\* Deleting from an array takes the document away.
LEMMA DeleteSparseDeletes ==
  ASSUME NEW n, NodeInv(n), ~n.dense, NEW v \in Members(n)
  PROVE  NodeInv(DeleteSparse(n, v)) /\ Members(DeleteSparse(n, v)) = Members(n) \ {v}
<1> DEFINE m == DeleteSparse(n, v)
           L == n.list
           k == Len(L)
           i == FirstAt(L, v)
           R == [j \in 1..(k - 1) |-> IF j < i THEN L[j] ELSE L[j + 1]]
<1>1. /\ n \in NodeType /\ n.dense = FALSE /\ n.bits = {} /\ n.size = k
      /\ RangesCover(n) /\ L \in Seq(Nat) /\ k \in Nat
      /\ Members(n) = {L[j] : j \in 1..k}
  BY NodeParts DEF NodeInv, OneForm, CountIsExact, Members
<1>2. \A j, h \in 1..k : L[j] = L[h] => j = h
  BY DEF NodeInv, ListedOnce
<1>3. i \in 1..k /\ L[i] = v
  <2> HIDE DEF L, k, i
  <2>1. PICK j \in 1..k : L[j] = v
    BY <1>1
  <2>2. \A h \in 1..(j - 1) : h \in 1..k /\ h # j
    BY <1>1
  <2>3. \A h \in 1..(j - 1) : L[h] # v
    BY <2>1, <2>2, <1>2
  <2>4. i = CHOOSE x \in 1..k : L[x] = v /\ \A h \in 1..(x - 1) : L[h] # v
    BY DEF i, FirstAt, k
  <2>5. \E x \in 1..k : L[x] = v /\ \A h \in 1..(x - 1) : L[h] # v
    BY <2>1, <2>3, Zenon
  <2> QED
    BY <2>4, <2>5, Zenon
<1>4. /\ m.dense = FALSE /\ m.list = R /\ m.bits = {} /\ m.size = n.size - 1
      /\ m.min = n.min /\ m.max = n.max /\ m.lo = n.lo /\ m.hi = n.hi
  BY <1>1 DEF DeleteSparse, NodeType
<1> HIDE DEF i
<1>5. k >= 1 /\ k - 1 \in Nat
  BY <1>1, <1>3
<1>6. R \in Seq(Nat) /\ Len(R) = k - 1
  <2> HIDE DEF L, k
  <2>1. \A j \in 1..(k - 1) : j \in 1..k /\ j + 1 \in 1..k
    BY <1>1
  <2>2. \A j \in 1..k : L[j] \in Nat
    BY <1>1 DEF k
  <2>3. R \in [1..(k - 1) -> Nat]
    BY <2>1, <2>2
  <2> HIDE DEF R
  <2> QED
    BY <2>3, <1>5
<1>7. m \in NodeType
  <2>1. R \in Seq(Nat) /\ n.size - 1 \in Nat
    BY <1>1, <1>5, <1>6
  <2> QED
    BY <2>1, <1>1 DEF DeleteSparse, NodeType, i
<1>8. {R[j] : j \in 1..(k - 1)} = {L[j] : j \in 1..k} \ {v}
  <2> HIDE DEF L, k
  <2>1. ASSUME NEW j \in 1..(k - 1)
        PROVE  R[j] \in {L[h] : h \in 1..k} \ {v}
    <3>1. j \in 1..k /\ j + 1 \in 1..k /\ i \in Int
      BY <1>1, <1>3
    <3>2. CASE j < i
      BY <3>1, <3>2, <1>2, <1>3
    <3>3. CASE ~(j < i)
      <4>1. R[j] = L[j + 1] /\ j + 1 # i
        BY <3>1, <3>3
      <4> QED
        BY <4>1, <3>1, <1>2, <1>3
    <3> QED
      BY <3>2, <3>3
  <2>2. ASSUME NEW h \in 1..k, L[h] # v
        PROVE  \E j \in 1..(k - 1) : R[j] = L[h]
    <3>1. h \in Int /\ i \in Int /\ h # i
      BY <1>3, <2>2
    <3>2. CASE h < i
      <4>1. h \in 1..(k - 1) /\ R[h] = L[h]
        BY <3>1, <3>2, <1>1, <1>3
      <4> QED
        BY <4>1, Zenon
    <3>3. CASE h > i
      <4>1. h - 1 \in 1..(k - 1) /\ ~(h - 1 < i) /\ h - 1 + 1 = h
        BY <3>1, <3>3, <1>1, <1>3
      <4>2. R[h - 1] = L[h]
        BY <4>1
      <4> QED
        BY <4>1, <4>2, Zenon
    <3> QED
      BY <3>1, <3>2, <3>3
  <2> HIDE DEF R
  <2> QED
    BY <2>1, <2>2
<1>9. Members(m) = Members(n) \ {v}
  <2> HIDE DEF m, L, k, R
  <2>1. Members(m) = {m.list[j] : j \in 1..Len(m.list)}
    BY <1>4 DEF Members
  <2>2. Members(m) = {R[j] : j \in 1..(k - 1)}
    BY <2>1, <1>4, <1>6
  <2> QED
    BY <2>2, <1>1, <1>8
<1>10. ListedOnce(m)
  <2> HIDE DEF L, k
  <2>1. ASSUME NEW j \in 1..(k - 1), NEW h \in 1..(k - 1), R[j] = R[h]
        PROVE  j = h
    <3> DEFINE up(x) == IF x < i THEN x ELSE x + 1
    <3>1. up(j) \in 1..k /\ up(h) \in 1..k /\ i \in Int
      <4>1. i \in Int /\ k \in Int
        BY <1>1, <1>3
      <4>2. ASSUME NEW x \in 1..(k - 1) PROVE up(x) \in 1..k
        BY <1>1, <1>3, <4>2
      <4> QED
        BY <4>1, <4>2
    <3>2. R[j] = L[up(j)] /\ R[h] = L[up(h)]
      OBVIOUS
    <3>3. up(j) = up(h)
      BY <2>1, <3>1, <3>2, <1>2
    <3> QED
      BY <3>1, <3>3
  <2> HIDE DEF R
  <2> QED
    BY <2>1, <1>4, <1>6 DEF ListedOnce
<1> HIDE DEF m, L, R, k
<1>11. RangesCover(m)
  <2>1. \A x \in Members(m) : m.min <= x /\ x <= m.max
    BY <1>1, <1>4, <1>9 DEF RangesCover
  <2>2. n.hi # -1
    BY <1>1, <1>5 DEF RangesCover
  <2> QED
    BY <2>1, <2>2, <1>1, <1>4 DEF RangesCover
<1>12. OneForm(m) /\ CountIsExact(m)
  BY <1>1, <1>4, <1>6 DEF OneForm, CountIsExact
<1> QED
  BY <1>7, <1>9, <1>10, <1>11, <1>12 DEF NodeInv, m

\* So does deleting from a node of either kind.
LEMMA DeleteNodeDeletes ==
  ASSUME NEW n, NodeInv(n), NEW v \in Members(n)
  PROVE  NodeInv(DeleteNode(n, v)) /\ Members(DeleteNode(n, v)) = Members(n) \ {v}
  BY DeleteDenseDeletes, DeleteSparseDeletes DEF DeleteNode

----------------------------------------------------------------------------
\* Every node is well formed and holds the documents that carry its key.
PostingsInv == QTypeOK /\ NodesHoldTheirDocs

\* A field without documents satisfies the invariant.
LEMMA InitPostings == QInit => PostingsInv
<1> SUFFICES ASSUME QInit PROVE PostingsInv
  OBVIOUS
<1>1. node = << >> /\ DOMAIN node = {} /\ docs = [k \in Keys |-> {}]
  BY DEF QInit
<1> QED
  BY <1>1 DEF PostingsInv, QTypeOK, NodesHoldTheirDocs

\* FieldRangeIndex::Add under a key, whose node is made at need.
LEMMA IndexDocKeeps ==
  ASSUME PostingsInv, NEW k \in Keys, NEW d \in Docs, IndexDoc(k, d)
  PROVE  PostingsInv'
<1> DEFINE n == NodeOf(k)
<1>1. NodeInv(n) /\ Members(n) = docs[k]
  BY NewNodeFits DEF PostingsInv, QTypeOK, NodesHoldTheirDocs, NodeOf
<1>2. d \in 0..(IntMax - 1) /\ d \notin Members(n)
  BY <1>1, PostingsAssumption DEF IndexDoc
<1> HIDE DEF n
<1>3. NodeInv(AddNode(n, d)) /\ Members(AddNode(n, d)) = Members(n) \cup {d}
  BY <1>1, <1>2, AddNodeAdds
<1>4. /\ DOMAIN node' = DOMAIN node \cup {k}
      /\ node'[k] = AddNode(n, d)
      /\ \A x \in DOMAIN node : x # k => node'[x] = node[x]
  BY DEF IndexDoc, n
<1>5. docs \in [Keys -> SUBSET Docs] /\ docs' = [docs EXCEPT ![k] = @ \cup {d}]
  BY DEF PostingsInv, QTypeOK, IndexDoc
<1>6. QTypeOK'
  <2>1. \A x \in DOMAIN node : NodeInv(node[x])
    BY DEF PostingsInv, QTypeOK
  <2>2. \A x \in DOMAIN node' : NodeInv(node'[x])
    BY <2>1, <1>3, <1>4
  <2>3. docs' \in [Keys -> SUBSET Docs]
    BY <1>5
  <2>4. DOMAIN node' \subseteq Keys
    BY <1>4 DEF PostingsInv, QTypeOK
  <2> QED
    BY <2>2, <2>3, <2>4 DEF QTypeOK
<1>7. NodesHoldTheirDocs'
  <2> SUFFICES ASSUME NEW x \in Keys
               PROVE  docs'[x] = IF x \in DOMAIN node' THEN Members(node'[x]) ELSE {}
    BY DEF NodesHoldTheirDocs
  <2>1. docs[x] = IF x \in DOMAIN node THEN Members(node[x]) ELSE {}
    BY DEF PostingsInv, NodesHoldTheirDocs
  <2>2. CASE x = k
    BY <2>2, <1>1, <1>3, <1>4, <1>5
  <2>3. CASE x # k
    BY <2>1, <2>3, <1>4, <1>5
  <2> QED
    BY <2>2, <2>3
<1> QED
  BY <1>6, <1>7 DEF PostingsInv

\* FieldRangeIndex::Delete of a document that carries the key.
LEMMA UnindexDocKeeps ==
  ASSUME PostingsInv, NEW k \in Keys, NEW d \in Docs, UnindexDoc(k, d)
  PROVE  PostingsInv'
<1> DEFINE n == node[k]
<1>1. k \in DOMAIN node /\ NodeInv(n) /\ Members(n) = docs[k] /\ d \in Members(n)
  <2>1. d \in docs[k] /\ docs[k] = IF k \in DOMAIN node THEN Members(node[k]) ELSE {}
    BY DEF PostingsInv, NodesHoldTheirDocs, UnindexDoc
  <2> QED
    BY <2>1 DEF PostingsInv, QTypeOK
<1> HIDE DEF n
<1>2. NodeInv(DeleteNode(n, d)) /\ Members(DeleteNode(n, d)) = Members(n) \ {d}
  BY <1>1, DeleteNodeDeletes
<1>3. node' = [node EXCEPT ![k] = DeleteNode(n, d)]
  BY DEF UnindexDoc, n
<1>4. /\ DOMAIN node' = DOMAIN node
      /\ node'[k] = DeleteNode(n, d)
      /\ \A x \in DOMAIN node : x # k => node'[x] = node[x]
  BY <1>1, <1>3
<1>5. docs \in [Keys -> SUBSET Docs] /\ docs' = [docs EXCEPT ![k] = @ \ {d}]
  BY DEF PostingsInv, QTypeOK, UnindexDoc
<1>6. QTypeOK'
  <2>1. \A x \in DOMAIN node : NodeInv(node[x])
    BY DEF PostingsInv, QTypeOK
  <2>2. \A x \in DOMAIN node' : NodeInv(node'[x])
    BY <2>1, <1>2, <1>4
  <2>3. docs' \in [Keys -> SUBSET Docs]
    BY <1>5
  <2>4. DOMAIN node' \subseteq Keys
    BY <1>4 DEF PostingsInv, QTypeOK
  <2> QED
    BY <2>2, <2>3, <2>4 DEF QTypeOK
<1>7. NodesHoldTheirDocs'
  <2> SUFFICES ASSUME NEW x \in Keys
               PROVE  docs'[x] = IF x \in DOMAIN node' THEN Members(node'[x]) ELSE {}
    BY DEF NodesHoldTheirDocs
  <2>1. docs[x] = IF x \in DOMAIN node THEN Members(node[x]) ELSE {}
    BY DEF PostingsInv, NodesHoldTheirDocs
  <2>2. CASE x = k
    BY <2>2, <1>1, <1>2, <1>4, <1>5
  <2>3. CASE x # k
    BY <2>1, <2>3, <1>4, <1>5
  <2> QED
    BY <2>2, <2>3
<1> QED
  BY <1>6, <1>7 DEF PostingsInv

\* The two facts hold in every state, for every word size, threshold and
\* set of documents and keys.
THEOREM PostingsHold == QSpec => []PostingsInv
<1>1. QInit => PostingsInv
  BY InitPostings
<1>2. PostingsInv /\ [QNext]_qvars => PostingsInv'
  <2> SUFFICES ASSUME PostingsInv, [QNext]_qvars PROVE PostingsInv'
    OBVIOUS
  <2>1. ASSUME NEW k \in Keys, NEW d \in Docs, IndexDoc(k, d)
        PROVE  PostingsInv'
    BY <2>1, IndexDocKeeps
  <2>2. ASSUME NEW k \in Keys, NEW d \in Docs, UnindexDoc(k, d)
        PROVE  PostingsInv'
    BY <2>2, UnindexDocKeeps
  <2>3. CASE UNCHANGED qvars
    BY <2>3 DEF qvars, PostingsInv, QTypeOK, NodesHoldTheirDocs
  <2> QED
    BY <2>1, <2>2, <2>3 DEF QNext
<1> QED
  BY <1>1, <1>2, PTL DEF QSpec

\* Node::Add and Node::Delete keep each node's count exact, its ids listed
\* once, and its ranges covering them, whatever it was converted from.
THEOREM NodesStayWellFormed == QSpec => []QTypeOK
<1>1. PostingsInv => QTypeOK
  BY DEF PostingsInv
<1> QED
  BY <1>1, PostingsHold, PTL

\* A node holds exactly the documents added under its key and not deleted
\* since: conversions lose and invent nothing.
THEOREM NodesAreExact == QSpec => []NodesHoldTheirDocs
<1>1. PostingsInv => NodesHoldTheirDocs
  BY DEF PostingsInv
<1> QED
  BY <1>1, PostingsHold, PTL

----------------------------------------------------------------------------
(* The operators the filters are built from.                               *)

\* A set of numbers that is not empty has a lowest one.
LEMMA LowestNumber ==
  ASSUME NEW S, S \subseteq Nat, S # {}
  PROVE  \E m \in S : \A k \in S : m <= k
<1> DEFINE R == StrictSubsetOrdering(Nat)
           F == FiniteSubsetsOf(Nat)
           T == {0 .. n : n \in S}
<1>1. IsWellFoundedOn(R, F)
  BY FS_StrictSubsetOrderingWellFounded
<1>2. T \subseteq F
  <2>1. ASSUME NEW n \in S PROVE 0 .. n \in F
    <3>1. n \in Nat /\ 0 .. n \subseteq Nat
      OBVIOUS
    <3>2. IsFiniteSet(0 .. n)
      BY <3>1, FS_Interval
    <3> QED
      BY <3>1, <3>2 DEF FiniteSubsetsOf
  <2> HIDE DEF F
  <2> QED
    BY <2>1
<1>3. T # {}
  OBVIOUS
<1>4. PICK x \in T : \A y \in T : ~(<<y, x>> \in R)
  <2> HIDE DEF R, F, T
  <2> QED
    BY <1>1, <1>2, <1>3, WFMin
<1>5. PICK m \in S : x = 0 .. m
  OBVIOUS
<1>6. ASSUME NEW k \in S, k < m PROVE FALSE
  <2>1. m \in Nat /\ k \in Nat
    OBVIOUS
  <2>2. 0 .. k \subseteq 0 .. m /\ m \in 0 .. m /\ m \notin 0 .. k
    BY <1>6, <2>1
  <2>3. 0 .. k \in T /\ 0 .. k \subseteq Nat /\ 0 .. m \subseteq Nat
    BY <2>1
  <2>4. <<0 .. k, 0 .. m>> \in R
    BY <2>2, <2>3 DEF StrictSubsetOrdering
  <2> QED
    BY <2>3, <2>4, <1>4, <1>5
<1> QED
  BY <1>6

\* Min of numbers that are at least -1.
LEMMA MinIs ==
  ASSUME NEW S, S \subseteq Nat \cup {-1}, S # {}
  PROVE  Min(S) \in S /\ \A y \in S : Min(S) <= y
<1>1. \E x \in S : \A y \in S : x <= y
  <2>1. CASE -1 \in S
    <3>1. \A y \in S : -1 <= y
      OBVIOUS
    <3> QED
      BY <2>1, <3>1
  <2>2. CASE -1 \notin S
    <3>1. S \subseteq Nat
      BY <2>2
    <3> QED
      BY <3>1, LowestNumber
  <2> QED
    BY <2>1, <2>2
<1> QED
  BY <1>1 DEF Min

\* Max of finitely many integers.
LEMMA MaxIs ==
  ASSUME NEW S, S \subseteq Int, IsFiniteSet(S), S # {}
  PROVE  Max(S) \in S /\ \A y \in S : y <= Max(S)
<1> DEFINE Topped(T) == \E x \in T : \A y \in T : x >= y
           Bad == {n \in Nat : \E T \in SUBSET S :
                                 T # {} /\ Cardinality(T) = n /\ ~Topped(T)}
<1>1. ASSUME NEW T \in SUBSET S, T # {}, ~Topped(T) PROVE FALSE
  <2>1. IsFiniteSet(T) /\ Cardinality(T) \in Nat
    BY FS_Subset, FS_CardinalityType
  <2>2. Cardinality(T) \in Bad
    BY <1>1, <2>1
  <2>3. Bad \subseteq Nat
    OBVIOUS
  <2>4. PICK n \in Bad : \A m \in Bad : n <= m
    <3> HIDE DEF Bad
    <3> QED
      BY <2>2, <2>3, LowestNumber
  <2>5. PICK U \in SUBSET S : U # {} /\ Cardinality(U) = n /\ ~Topped(U)
    BY <2>4
  <2>6. PICK u \in U : TRUE
    BY <2>5
  <2> DEFINE V == U \ {u}
  <2>7. n \in Nat /\ Cardinality(V) = n - 1 /\ n - 1 \in Nat
    <3>1. IsFiniteSet(U)
      BY FS_Subset
    <3>2. IsFiniteSet(V) /\ Cardinality(V) = Cardinality(U) - 1
      BY <3>1, FS_RemoveElement
    <3>3. Cardinality(V) \in Nat
      BY <3>2, FS_CardinalityType
    <3> HIDE DEF V
    <3> QED
      BY <2>4, <2>5, <3>2, <3>3
  <2>8. n - 1 \notin Bad
    BY <2>4, <2>7
  <2>9. V = {} \/ Topped(V)
    BY <2>7, <2>8
  <2>10. Topped(U)
    <3>1. CASE V = {}
      <4>1. U = {u}
        BY <3>1
      <4>2. u >= u
        OBVIOUS
      <4> QED
        BY <4>1, <4>2
    <3>2. CASE Topped(V)
      <4>1. PICK v \in V : \A y \in V : v >= y
        BY <3>2
      <4>2. CASE u >= v
        <5>1. \A y \in U : u >= y
          BY <4>1, <4>2
        <5> QED
          BY <5>1
      <4>3. CASE ~(u >= v)
        <5>1. \A y \in U : v >= y
          BY <4>1, <4>3
        <5> QED
          BY <4>1, <5>1
      <4> QED
        BY <4>2, <4>3
    <3> QED
      BY <2>9, <3>1, <3>2
  <2> QED
    BY <2>5, <2>10
<1>2. Topped(S)
  BY <1>1
<1>3. \A x \in S : \A y \in S : x >= y <=> y <= x
  OBVIOUS
<1> QED
  BY <1>2, <1>3 DEF Max

\* A function on a finite set takes finitely many values.
LEMMA FinitelyMany ==
  ASSUME NEW K, IsFiniteSet(K), NEW g, DOMAIN g = K, g = [k \in K |-> g[k]]
  PROVE  IsFiniteSet({g[k] : k \in K})
<1> DEFINE T == {g[k] : k \in K}
<1>1. g \in Surjection(K, T)
  BY DEF Surjection
<1> HIDE DEF T
<1>2. IsFiniteSet(T)
  BY <1>1, FS_Surjection
<1> QED
  BY <1>2 DEF T

\* The flattening that FlattenSeq makes, step by step.
Flattened(ss, g) == [i \in 1 .. Len(ss) |-> IF i = 1 THEN ss[i] ELSE g[i - 1] \o ss[i]]

\* There is a function that makes every step.
LEMMA FlatExists ==
  ASSUME NEW ss, Len(ss) \in Nat
  PROVE  \E g : g = Flattened(ss, g)
<1> DEFINE n == Len(ss)
           Steps(g, k) == \A i \in 1 .. n : i <= k => g[i] = Flattened(ss, g)[i]
           Far(k) == \E g : DOMAIN g = 1 .. n /\ Steps(g, k)
           Short == {k \in Nat : ~Far(k)}
<1>1. \A g : /\ DOMAIN Flattened(ss, g) = 1 .. n
             /\ \A i \in 1 .. n : Flattened(ss, g)[i] =
                                    IF i = 1 THEN ss[i] ELSE g[i - 1] \o ss[i]
  BY DEF Flattened
<1>2. Far(0)
  <2> DEFINE g == Flattened(ss, << >>)
  <2>1. DOMAIN g = 1 .. n
    BY <1>1
  <2>2. \A i \in 1 .. n : ~(i <= 0)
    OBVIOUS
  <2>3. Steps(g, 0)
    BY <2>2
  <2> QED
    BY <2>1, <2>3
<1>3. ASSUME NEW k \in Nat, Far(k) PROVE Far(k + 1)
  <2>1. PICK g : DOMAIN g = 1 .. n /\ Steps(g, k)
    BY <1>3
  <2> DEFINE h == Flattened(ss, g)
  <2>2. DOMAIN h = 1 .. n
        /\ \A i \in 1 .. n : h[i] = IF i = 1 THEN ss[i] ELSE g[i - 1] \o ss[i]
    BY <1>1
  <2> HIDE DEF h
  <2>3. ASSUME NEW i \in 1 .. n, i <= k + 1 PROVE h[i] = Flattened(ss, h)[i]
    <3>1. CASE i = 1
      BY <1>1, <2>2, <3>1
    <3>2. CASE i # 1
      <4>1. i - 1 \in 1 .. n /\ i - 1 <= k
        BY <2>3, <3>2
      <4>2. g[i - 1] = Flattened(ss, g)[i - 1]
        BY <2>1, <4>1
      <4>3. g[i - 1] = h[i - 1]
        BY <1>1, <2>2, <4>1, <4>2
      <4>4. Flattened(ss, h)[i] = h[i - 1] \o ss[i]
        BY <3>2 DEF Flattened
      <4>5. h[i] = g[i - 1] \o ss[i]
        BY <2>2, <3>2
      <4> QED
        BY <4>3, <4>4, <4>5
    <3> QED
      BY <3>1, <3>2
  <2>4. Steps(h, k + 1)
    BY <2>3
  <2> QED
    BY <2>2, <2>4
<1>4. Far(n)
  <2> SUFFICES ASSUME ~Far(n) PROVE FALSE
    OBVIOUS
  <2> HIDE DEF Far
  <2>1. n \in Short
    OBVIOUS
  <2>2. Short \subseteq Nat
    OBVIOUS
  <2>3. PICK k \in Short : \A j \in Short : k <= j
    <3> HIDE DEF Short
    <3> QED
      BY <2>1, <2>2, LowestNumber
  <2>4. k \in Nat /\ ~Far(k) /\ k # 0
    BY <1>2, <2>3
  <2>5. k - 1 \in Nat /\ ~(k - 1 \in Short)
    BY <2>3, <2>4
  <2>6. Far(k - 1)
    BY <2>5
  <2>7. Far((k - 1) + 1)
    BY <1>3, <2>5, <2>6
  <2>8. (k - 1) + 1 = k
    BY <2>4
  <2> QED
    BY <2>4, <2>7, <2>8
<1>5. PICK g : DOMAIN g = 1 .. n /\ Steps(g, n)
  BY <1>4
<1> DEFINE h == Flattened(ss, g)
<1>6. DOMAIN h = 1 .. n /\ \A i \in 1 .. n : h[i] = g[i]
  BY <1>1, <1>5
<1>7. \A i \in 1 .. n : i # 1 => i - 1 \in 1 .. n
  OBVIOUS
<1>8. h = Flattened(ss, h)
  BY <1>6, <1>7 DEF Flattened
<1> QED
  BY <1>8

\* FlattenSeq is a sequence of what its parts hold.
LEMMA FlattenIs ==
  ASSUME NEW S, NEW ss \in Seq(Seq(S))
  PROVE  /\ FlattenSeq(ss) \in Seq(S)
         /\ \A x : x \in ToSet(FlattenSeq(ss)) <=>
                     \E i \in DOMAIN ss : x \in ToSet(ss[i])
<1> DEFINE n == Len(ss)
           flat == CHOOSE g : g = Flattened(ss, g)
           Right(i) == /\ flat[i] \in Seq(S)
                       /\ \A x : x \in ToSet(flat[i]) <=>
                                   \E j \in 1 .. i : x \in ToSet(ss[j])
           Bad == {i \in 1 .. n : ~Right(i)}
<1>1. n \in Nat /\ DOMAIN ss = 1 .. n /\ \A i \in 1 .. n : ss[i] \in Seq(S)
  OBVIOUS
<1>2. FlattenSeq(ss) = IF n = 0 THEN ss ELSE flat[n]
  BY Zenon DEF FlattenSeq, Flattened
<1>3. flat = Flattened(ss, flat)
  BY <1>1, FlatExists, Zenon
<1> HIDE DEF flat
<1>4. \A i \in 1 .. n : flat[i] = IF i = 1 THEN ss[i] ELSE flat[i - 1] \o ss[i]
  <2>1. \A i \in 1 .. n : Flattened(ss, flat)[i] =
                            IF i = 1 THEN ss[i] ELSE flat[i - 1] \o ss[i]
    BY DEF Flattened
  <2> QED
    BY <1>3, <2>1
<1>5. ASSUME NEW i \in 1 .. n, i # 1, Right(i - 1) PROVE Right(i)
  <2>1. flat[i - 1] \in Seq(S) /\ ss[i] \in Seq(S) /\ flat[i] = flat[i - 1] \o ss[i]
    BY <1>1, <1>4, <1>5
  <2>2. flat[i] \in Seq(S)
    BY <2>1
  <2>3. \A x : x \in ToSet(flat[i]) <=> x \in ToSet(flat[i - 1]) \/ x \in ToSet(ss[i])
    <3> DEFINE a == flat[i - 1]
               b == ss[i]
    <3>1. a \in Seq(S) /\ b \in Seq(S) /\ flat[i] = a \o b
      BY <2>1
    <3> HIDE DEF a, b
    <3>2. Len(a \o b) = Len(a) + Len(b) /\ Len(a) \in Nat /\ Len(b) \in Nat
          /\ DOMAIN (a \o b) = 1 .. Len(a) + Len(b)
          /\ DOMAIN a = 1 .. Len(a) /\ DOMAIN b = 1 .. Len(b)
      BY <3>1
    <3>3. \A j \in 1 .. Len(a) + Len(b) :
            (a \o b)[j] = IF j <= Len(a) THEN a[j] ELSE b[j - Len(a)]
      BY <3>1
    <3>4. ASSUME NEW x, x \in ToSet(a \o b) PROVE x \in ToSet(a) \/ x \in ToSet(b)
      <4>1. PICK j \in 1 .. Len(a) + Len(b) : x = (a \o b)[j]
        BY <3>2, <3>4 DEF ToSet
      <4>2. CASE j <= Len(a)
        <5>1. j \in 1 .. Len(a) /\ x = a[j]
          BY <3>2, <3>3, <4>1, <4>2
        <5> QED
          BY <3>2, <5>1 DEF ToSet
      <4>3. CASE ~(j <= Len(a))
        <5>1. j - Len(a) \in 1 .. Len(b) /\ x = b[j - Len(a)]
          BY <3>2, <3>3, <4>1, <4>3
        <5> QED
          BY <3>2, <5>1 DEF ToSet
      <4> QED
        BY <4>2, <4>3
    <3>5. ASSUME NEW x, x \in ToSet(a) PROVE x \in ToSet(a \o b)
      <4>1. PICK j \in 1 .. Len(a) : x = a[j]
        BY <3>2, <3>5 DEF ToSet
      <4>2. j \in 1 .. Len(a) + Len(b) /\ (a \o b)[j] = x
        BY <3>2, <3>3, <4>1
      <4> QED
        BY <3>2, <4>2 DEF ToSet
    <3>6. ASSUME NEW x, x \in ToSet(b) PROVE x \in ToSet(a \o b)
      <4>1. PICK j \in 1 .. Len(b) : x = b[j]
        BY <3>2, <3>6 DEF ToSet
      <4>2. Len(a) + j \in 1 .. Len(a) + Len(b) /\ ~(Len(a) + j <= Len(a))
            /\ Len(a) + j - Len(a) = j
        BY <3>2, <4>1
      <4>3. (a \o b)[Len(a) + j] = x
        BY <3>3, <4>1, <4>2
      <4> QED
        BY <3>2, <4>2, <4>3 DEF ToSet
    <3> QED
      BY <3>1, <3>4, <3>5, <3>6 DEF a, b
  <2>4. \A j \in 1 .. i : j = i \/ j \in 1 .. i - 1
    OBVIOUS
  <2>5. i \in 1 .. i /\ \A j \in 1 .. i - 1 : j \in 1 .. i
    OBVIOUS
  <2>6. \A x : x \in ToSet(flat[i - 1]) <=> \E j \in 1 .. i - 1 : x \in ToSet(ss[j])
    BY <1>5
  <2>7. \A x : x \in ToSet(flat[i]) <=> \E j \in 1 .. i : x \in ToSet(ss[j])
    BY <2>3, <2>4, <2>5, <2>6, Zenon
  <2> QED
    BY <2>2, <2>7
<1>6. ASSUME 1 \in 1 .. n PROVE Right(1)
  <2>1. flat[1] = ss[1] /\ ss[1] \in Seq(S)
    BY <1>1, <1>4, <1>6
  <2>2. \A j \in 1 .. 1 : j = 1
    OBVIOUS
  <2>3. 1 \in 1 .. 1
    OBVIOUS
  <2>4. \A x : x \in ToSet(flat[1]) <=> \E j \in 1 .. 1 : x \in ToSet(ss[j])
    BY <2>1, <2>2, <2>3, Zenon
  <2> QED
    BY <2>1, <2>4
<1> HIDE DEF Right
<1>7. \A i \in 1 .. n : Right(i)
  <2> SUFFICES ASSUME Bad # {} PROVE FALSE
    OBVIOUS
  <2>1. Bad \subseteq Nat
    OBVIOUS
  <2>2. PICK k \in Bad : \A j \in Bad : k <= j
    <3> HIDE DEF Bad
    <3> QED
      BY <2>1, LowestNumber
  <2>3. k \in 1 .. n /\ ~Right(k)
    BY <2>2
  <2>4. k # 1
    BY <1>6, <2>3
  <2>5. k - 1 \in 1 .. n /\ ~(k - 1 \in Bad)
    BY <2>2, <2>3, <2>4
  <2>6. Right(k - 1)
    BY <2>5
  <2> QED
    BY <1>5, <2>3, <2>4, <2>6
<1>8. CASE n = 0
  <2>1. ss = << >> /\ FlattenSeq(ss) = << >> /\ DOMAIN ss = {}
    BY <1>1, <1>2, <1>8
  <2>2. ToSet(<< >>) = {}
    BY DEF ToSet
  <2>3. << >> \in Seq(S)
    OBVIOUS
  <2> QED
    BY <2>1, <2>2, <2>3
<1>9. CASE n # 0
  <2>1. n \in 1 .. n
    BY <1>1, <1>9
  <2>2. Right(n)
    BY <1>7, <2>1
  <2> QED
    BY <1>1, <1>2, <1>9, <2>2 DEF Right
<1> QED
  BY <1>8, <1>9

\* The addition that Sizes makes, key by key.
OneOf(s) == CHOOSE k \in s : TRUE
Added(K, g) == [s \in SUBSET K |-> IF s = {} THEN 0
                                   ELSE node[OneOf(s)].size + g[s \ {OneOf(s)}]]

\* There is a function that makes every step.
LEMMA AddedExists ==
  ASSUME NEW K, IsFiniteSet(K)
  PROVE  \E g : g = Added(K, g)
<1> DEFINE n == Cardinality(K)
           Steps(g, c) == \A s \in SUBSET K :
                            Cardinality(s) <= c => g[s] = Added(K, g)[s]
           Far(c) == \E g : DOMAIN g = SUBSET K /\ Steps(g, c)
           Short == {c \in Nat : ~Far(c)}
<1>1. \A g : /\ DOMAIN Added(K, g) = SUBSET K
             /\ \A s \in SUBSET K :
                  Added(K, g)[s] = IF s = {} THEN 0
                                   ELSE node[OneOf(s)].size + g[s \ {OneOf(s)}]
  BY DEF Added
<1>2. \A s \in SUBSET K : s # {} =>
        /\ s \ {OneOf(s)} \in SUBSET K
        /\ Cardinality(s) \in Nat
        /\ Cardinality(s \ {OneOf(s)}) = Cardinality(s) - 1
        /\ Cardinality(s \ {OneOf(s)}) \in Nat
  <2> SUFFICES ASSUME NEW s \in SUBSET K, s # {}
               PROVE  /\ s \ {OneOf(s)} \in SUBSET K
                      /\ Cardinality(s) \in Nat
                      /\ Cardinality(s \ {OneOf(s)}) = Cardinality(s) - 1
                      /\ Cardinality(s \ {OneOf(s)}) \in Nat
    OBVIOUS
  <2>1. OneOf(s) \in s
    BY DEF OneOf
  <2>2. IsFiniteSet(s) /\ Cardinality(s) \in Nat
    BY FS_Subset, FS_CardinalityType
  <2> DEFINE k == OneOf(s)
             t == s \ {k}
  <2> HIDE DEF k
  <2>3. k \in s
    BY <2>1 DEF k
  <2>4. IsFiniteSet(t) /\ Cardinality(t) = Cardinality(s) - 1
    BY <2>2, <2>3, FS_RemoveElement
  <2> HIDE DEF t
  <2>5. Cardinality(t) \in Nat
    BY <2>4, FS_CardinalityType
  <2> QED
    BY <2>2, <2>4, <2>5 DEF t, k
<1>3. Far(0)
  <2> DEFINE g == Added(K, << >>)
  <2>1. DOMAIN g = SUBSET K
    BY <1>1
  <2>2. ASSUME NEW s \in SUBSET K, Cardinality(s) <= 0 PROVE g[s] = Added(K, g)[s]
    <3>1. s = {}
      <4> SUFFICES ASSUME s # {} PROVE FALSE
        OBVIOUS
      <4>1. Cardinality(s) \in Nat /\ Cardinality(s) - 1 \in Nat
        BY <1>2
      <4> QED
        BY <2>2, <4>1
    <3> QED
      BY <1>1, <3>1
  <2>3. Steps(g, 0)
    BY <2>2
  <2> QED
    BY <2>1, <2>3
<1>4. ASSUME NEW c \in Nat, Far(c) PROVE Far(c + 1)
  <2>1. PICK g : DOMAIN g = SUBSET K /\ Steps(g, c)
    BY <1>4
  <2> DEFINE h == Added(K, g)
  <2>2. DOMAIN h = SUBSET K
        /\ \A s \in SUBSET K : h[s] = IF s = {} THEN 0
                                      ELSE node[OneOf(s)].size + g[s \ {OneOf(s)}]
    BY <1>1
  <2> HIDE DEF h
  <2>3. ASSUME NEW s \in SUBSET K, Cardinality(s) <= c + 1
        PROVE  h[s] = Added(K, h)[s]
    <3>1. CASE s = {}
      BY <1>1, <2>2, <3>1
    <3>2. CASE s # {}
      <4> DEFINE t == s \ {OneOf(s)}
      <4>1. t \in SUBSET K /\ Cardinality(t) <= c
        BY <1>2, <2>3, <3>2
      <4>2. h[s] = node[OneOf(s)].size + g[t]
        BY <2>2, <3>2
      <4>3. Added(K, h)[s] = node[OneOf(s)].size + h[t]
        BY <1>1, <3>2
      <4>4. Added(K, g)[t] = h[t]
        BY <1>1, <2>2, <4>1
      <4> HIDE DEF t
      <4>5. g[t] = Added(K, g)[t]
        BY <2>1, <4>1
      <4> QED
        BY <4>2, <4>3, <4>4, <4>5
    <3> QED
      BY <3>1, <3>2
  <2>4. Steps(h, c + 1)
    BY <2>3
  <2> QED
    BY <2>2, <2>4
<1>5. n \in Nat /\ \A s \in SUBSET K : Cardinality(s) <= n
  BY FS_CardinalityType, FS_Subset
<1>6. Far(n)
  <2> SUFFICES ASSUME ~Far(n) PROVE FALSE
    OBVIOUS
  <2> HIDE DEF Far
  <2>1. n \in Short
    BY <1>5
  <2>2. Short \subseteq Nat
    OBVIOUS
  <2>3. PICK c \in Short : \A j \in Short : c <= j
    <3> HIDE DEF Short
    <3> QED
      BY <2>1, <2>2, LowestNumber
  <2>4. c \in Nat /\ ~Far(c) /\ c # 0
    BY <1>3, <2>3
  <2>5. c - 1 \in Nat /\ ~(c - 1 \in Short)
    BY <2>3, <2>4
  <2>6. Far(c - 1)
    BY <2>5
  <2>7. Far((c - 1) + 1)
    BY <1>4, <2>5, <2>6
  <2>8. (c - 1) + 1 = c
    BY <2>4
  <2> QED
    BY <2>4, <2>7, <2>8
<1>7. PICK g : DOMAIN g = SUBSET K /\ Steps(g, n)
  BY <1>6
<1> DEFINE h == Added(K, g)
<1>8. DOMAIN h = SUBSET K /\ \A s \in SUBSET K : h[s] = g[s]
  BY <1>1, <1>5, <1>7
<1>9. \A s \in SUBSET K : s # {} => s \ {OneOf(s)} \in SUBSET K
  OBVIOUS
<1> HIDE DEF h
<1>10. Added(K, g) = Added(K, h)
  BY <1>8, <1>9 DEF Added
<1> QED
  BY <1>10 DEF h

\* Sizes counts from nothing, and only nodes that are all empty sum to 0.
LEMMA SizesIs ==
  ASSUME NEW K, IsFiniteSet(K), \A k \in K : node[k].size \in Nat
  PROVE  /\ Sizes(K) \in Nat
         /\ Sizes(K) = 0 <=> \A k \in K : node[k].size = 0
<1> DEFINE sum == CHOOSE g : g = Added(K, g)
           Right(s) == /\ sum[s] \in Nat
                       /\ sum[s] = 0 <=> \A k \in s : node[k].size = 0
           Bad == {c \in Nat : \E s \in SUBSET K : Cardinality(s) = c /\ ~Right(s)}
<1>1. Sizes(K) = sum[K]
  BY Zenon DEF Sizes, MapThenSumSet, MapThenFoldSet, Added, OneOf
<1>2. sum = Added(K, sum)
  BY AddedExists, Zenon
<1> HIDE DEF sum
<1>3. \A s \in SUBSET K : sum[s] = IF s = {} THEN 0
                                   ELSE node[OneOf(s)].size + sum[s \ {OneOf(s)}]
  <2>1. \A s \in SUBSET K :
          Added(K, sum)[s] = IF s = {} THEN 0
                             ELSE node[OneOf(s)].size + sum[s \ {OneOf(s)}]
    BY DEF Added
  <2> QED
    BY <1>2, <2>1
<1>4. ASSUME NEW s \in SUBSET K, ~Right(s) PROVE FALSE
  <2>1. \A t \in SUBSET K : IsFiniteSet(t) /\ Cardinality(t) \in Nat
    BY FS_Subset, FS_CardinalityType
  <2>2. Cardinality(s) \in Bad
    BY <1>4, <2>1
  <2>3. Bad \subseteq Nat
    OBVIOUS
  <2>4. PICK c \in Bad : \A j \in Bad : c <= j
    <3> HIDE DEF Bad
    <3> QED
      BY <2>2, <2>3, LowestNumber
  <2>5. PICK t \in SUBSET K : Cardinality(t) = c /\ ~Right(t)
    BY <2>4
  <2>6. t # {}
    <3> SUFFICES ASSUME t = {} PROVE FALSE
      OBVIOUS
    <3>1. sum[t] = 0 /\ \A x \in t : node[x].size = 0
      BY <1>3
    <3>2. Right(t)
      BY <3>1
    <3> QED
      BY <2>5, <3>2
  <2> DEFINE k == OneOf(t)
             u == t \ {k}
  <2>7. k \in t /\ node[k].size \in Nat
    BY <2>6 DEF OneOf
  <2>8. sum[t] = node[k].size + sum[u]
    BY <1>3, <2>6
  <2> HIDE DEF k
  <2>9. u \in SUBSET K /\ Cardinality(u) = Cardinality(t) - 1
    BY <2>1, <2>7, FS_RemoveElement
  <2>10. \A x \in t : x = k \/ x \in u
    OBVIOUS
  <2>11. u \subseteq t
    OBVIOUS
  <2> HIDE DEF u, Right
  <2>12. c \in Nat /\ c - 1 = Cardinality(u) /\ c - 1 \in Nat
    BY <2>1, <2>4, <2>5, <2>9
  <2>13. ~(c - 1 \in Bad)
    BY <2>4, <2>12
  <2>14. Right(u)
    BY <2>9, <2>12, <2>13
  <2>15. sum[u] \in Nat /\ (sum[u] = 0 <=> \A x \in u : node[x].size = 0)
    BY <2>14 DEF Right
  <2>16. sum[t] \in Nat /\ (sum[t] = 0 <=> node[k].size = 0 /\ sum[u] = 0)
    BY <2>7, <2>8, <2>15
  <2>17. sum[t] = 0 <=> \A x \in t : node[x].size = 0
    BY <2>7, <2>10, <2>11, <2>15, <2>16
  <2>18. Right(t)
    BY <2>16, <2>17 DEF Right
  <2> QED
    BY <2>5, <2>18
<1>5. Right(K)
  BY <1>4
<1> QED
  BY <1>1, <1>5

----------------------------------------------------------------------------
(* One filter.                                                             *)

\* What its invariant says of a node.
LEMMA NodeIs ==
  ASSUME NEW n, NodeInv(n)
  PROVE  /\ n.size \in Nat /\ n.min \in Nat /\ n.max \in Nat \cup {-1}
         /\ n.lo \in Nat /\ n.hi \in Nat \cup {-1}
         /\ n.size = 0 <=> Members(n) = {}
         /\ \A v \in Members(n) : /\ v \in Nat /\ n.min <= v /\ v <= n.max
                                  /\ n.lo <= v /\ v <= n.hi
<1>1. n \in NodeType /\ OneForm(n) /\ CountIsExact(n) /\ RangesCover(n)
  BY DEF NodeInv
<1>2. /\ n.size \in Nat /\ n.min \in Nat /\ n.max \in Nat \cup {-1}
      /\ n.lo \in Nat /\ n.hi \in Nat \cup {-1}
      /\ n.bits \in SUBSET Nat /\ Len(n.list) \in Nat
      /\ \A i \in 1..Len(n.list) : n.list[i] \in Nat
  BY <1>1, NodeParts
<1>3. n.size = 0 <=> Members(n) = {}
  <2>1. CASE n.dense
    <3>1. n.size = Cardinality(n.bits) /\ IsFiniteSet(n.bits) /\ Members(n) = n.bits
      BY <1>1, <2>1 DEF CountIsExact, OneForm, Members
    <3> QED
      BY <3>1, FS_EmptySet
  <2>2. CASE ~n.dense
    <3>1. n.size = Len(n.list) /\ Members(n) = {n.list[i] : i \in 1..Len(n.list)}
      BY <1>1, <2>2 DEF CountIsExact, Members
    <3>2. Len(n.list) = 0 => 1..Len(n.list) = {}
      OBVIOUS
    <3>3. Len(n.list) # 0 => 1 \in 1..Len(n.list)
      BY <1>2
    <3>4. n.size = 0 => Members(n) = {}
      BY <3>1, <3>2
    <3>5. n.size # 0 => Members(n) # {}
      BY <3>1, <3>3
    <3> QED
      BY <3>4, <3>5
  <2> QED
    BY <2>1, <2>2
<1>4. \A v \in Members(n) : v \in Nat
  BY <1>2 DEF Members
<1>5. \A v \in Members(n) : n.min <= v /\ v <= n.max
  BY <1>1 DEF RangesCover
<1>6. \A v \in Members(n) : n.hi # -1
  BY <1>1, <1>3 DEF RangesCover
<1>7. n.hi # -1 => n.lo <= n.min /\ n.max <= n.hi
  BY <1>1 DEF RangesCover
<1>8. \A v \in Members(n) : n.lo <= v /\ v <= n.hi
  BY <1>2, <1>4, <1>5, <1>6, <1>7
<1> QED
  BY <1>2, <1>3, <1>4, <1>5, <1>8

\* The documents that carry a value a filter names.
Bearers(f) == {d \in Docs : \E i \in DOMAIN f.items : Carries(d, f.field, f.items[i])}

\* The nodes a filter reaches hold them.
LEMMA ReachedHold ==
  ASSUME PostingsInv, NEW f
  PROVE  /\ IsFiniteSet(Reached(f)) /\ Reached(f) \subseteq DOMAIN node
         /\ \A k \in Reached(f) : NodeInv(node[k])
         /\ Bits(Reached(f)) = Bearers(f)
<1>1. /\ Reached(f) \subseteq DOMAIN node /\ DOMAIN node \subseteq Keys
      /\ \A k \in DOMAIN node : NodeInv(node[k])
  BY DEF PostingsInv, QTypeOK, Reached
<1>2. IsFiniteSet(Reached(f))
  <2>1. Reached(f) \in SUBSET Keys
    BY <1>1
  <2> QED
    BY <2>1, FilterAssumption, FS_Subset
<1>3. docs \in [Keys -> SUBSET Docs]
      /\ \A k \in Keys : docs[k] = IF k \in DOMAIN node THEN Members(node[k]) ELSE {}
  BY DEF PostingsInv, QTypeOK, NodesHoldTheirDocs
<1>4. ASSUME NEW d \in Bits(Reached(f)) PROVE d \in Bearers(f)
  <2>1. PICK k \in Reached(f) : d \in Members(node[k])
    BY DEF Bits
  <2>2. k \in Keys /\ k = <<k[1], k[2]>> /\ k[1] = f.field
    BY <1>1, FilterAssumption DEF Reached
  <2>3. PICK i \in DOMAIN f.items : f.items[i] = k[2]
    BY DEF Reached, ToSet
  <2>4. d \in docs[k] /\ d \in Docs
    BY <1>1, <1>3, <2>1, <2>2
  <2>5. <<f.field, f.items[i]>> = k
    BY <2>2, <2>3
  <2>6. Carries(d, f.field, f.items[i])
    BY <2>2, <2>4, <2>5 DEF Carries
  <2> QED
    BY <2>4, <2>6 DEF Bearers
<1>5. ASSUME NEW d \in Bearers(f) PROVE d \in Bits(Reached(f))
  <2>1. PICK i \in DOMAIN f.items : Carries(d, f.field, f.items[i])
    BY DEF Bearers
  <2> DEFINE k == <<f.field, f.items[i]>>
  <2>2. k \in Keys /\ d \in docs[k] /\ k[1] = f.field /\ k[2] = f.items[i]
    BY <2>1 DEF Carries
  <2> HIDE DEF k
  <2>3. k \in DOMAIN node /\ d \in Members(node[k])
    BY <1>3, <2>2
  <2>4. k[2] \in ToSet(f.items)
    BY <2>2 DEF ToSet
  <2>5. k \in Reached(f)
    BY <2>2, <2>3, <2>4 DEF Reached
  <2> QED
    BY <2>3, <2>5 DEF Bits
<1>6. Bits(Reached(f)) = Bearers(f)
  BY <1>4, <1>5
<1> QED
  BY <1>1, <1>2, <1>6

\* Results, and what makes one sound: the range covers its documents and
\* a count of 0 says that there are none.
Results == [ret : Nat, lo : Nat, hi : Nat \cup {-1}, num : Nat,
            bits : SUBSET Docs, notIn : BOOLEAN]

Sound(r) == /\ r \in Results /\ r.notIn = FALSE
            /\ \A d \in r.bits : r.lo <= d /\ d <= r.hi
            /\ r.num = 0 => r.bits = {}
            /\ r.ret = 0 => r.bits = {}

\* The result that was cleared is sound.
LEMMA NothingIsSound == Sound(Nothing) /\ Nothing.bits = {} /\ Nothing.ret = 0
  BY DEF Nothing, Sound, Results

\* How many documents the reached nodes count, none only if none has any.
LEMMA SizesOfReached ==
  ASSUME PostingsInv, NEW f
  PROVE  /\ Sizes(Reached(f)) \in Nat
         /\ Sizes(Reached(f)) = 0 <=> \A k \in Reached(f) : node[k].size = 0
         /\ Sizes(Reached(f)) = 0 => Bearers(f) = {}
<1>1. /\ IsFiniteSet(Reached(f)) /\ Bits(Reached(f)) = Bearers(f)
      /\ \A k \in Reached(f) : NodeInv(node[k])
  BY ReachedHold
<1>2. \A k \in Reached(f) :
        node[k].size \in Nat /\ (node[k].size = 0 <=> Members(node[k]) = {})
  BY <1>1, NodeIs
<1>3. /\ Sizes(Reached(f)) \in Nat
      /\ Sizes(Reached(f)) = 0 <=> \A k \in Reached(f) : node[k].size = 0
  BY <1>1, <1>2, SizesIs
<1>4. (\A k \in Reached(f) : node[k].size = 0) => Bearers(f) = {}
  BY <1>1, <1>2 DEF Bits
<1> QED
  BY <1>3, <1>4

\* Search over a range of values.
LEMMA RangeSearchIs ==
  ASSUME PostingsInv, NEW f
  PROVE  Sound(RangeSearch(f)) /\ RangeSearch(f).bits = Bearers(f)
<1> DEFINE K == Reached(f)
           mins == {IntMax} \cup {node[k].min : k \in K}
           maxs == {0} \cup {node[k].max : k \in K}
           los == {node[k].lo : k \in K}
           his == {node[k].hi : k \in K}
           mn == Min(mins)
           mx == Max(maxs)
           lo == Min(los)
           hi == Max(his)
           r == [ret |-> mx - mn + 1, num |-> Sizes(K), bits |-> Bits(K),
                 lo |-> lo, hi |-> hi, notIn |-> FALSE]
<1>1. /\ IsFiniteSet(K) /\ Bits(K) = Bearers(f)
      /\ \A k \in K : NodeInv(node[k])
  BY ReachedHold
<1>2. \A k \in K : /\ node[k].min \in Nat /\ node[k].max \in Nat \cup {-1}
                   /\ node[k].lo \in Nat /\ node[k].hi \in Nat \cup {-1}
  BY <1>1, NodeIs
<1>3. \A k \in K : \A v \in Members(node[k]) :
        /\ v \in Nat /\ node[k].min <= v /\ v <= node[k].max
        /\ node[k].lo <= v /\ v <= node[k].hi
  BY <1>1, NodeIs
<1>4. IntMax \in Nat /\ IntMax > 0
  BY NodeAssumption, FilterAssumption
<1>5. mn \in Nat /\ \A k \in K : mn <= node[k].min
  <2>1. mins \subseteq Nat \cup {-1} /\ mins \subseteq Nat /\ mins # {}
    BY <1>2, <1>4
  <2>2. \A k \in K : node[k].min \in mins
    OBVIOUS
  <2> HIDE DEF mins
  <2> QED
    BY <2>1, <2>2, MinIs
<1>6. mx \in Int /\ (\A k \in K : node[k].max <= mx) /\ (K = {} => mx = 0 /\ mn = IntMax)
  <2>1. IsFiniteSet(maxs)
    <3> DEFINE g == [k \in K |-> node[k].max]
    <3>1. DOMAIN g = K /\ g = [k \in K |-> g[k]]
      OBVIOUS
    <3>2. {g[k] : k \in K} = {node[k].max : k \in K}
      OBVIOUS
    <3> HIDE DEF g
    <3>3. IsFiniteSet({g[k] : k \in K})
      BY <1>1, <3>1, FinitelyMany
    <3>4. IsFiniteSet({node[k].max : k \in K} \cup {0})
      BY <3>2, <3>3, FS_AddElement
    <3>5. maxs = {node[k].max : k \in K} \cup {0}
      OBVIOUS
    <3> QED
      BY <3>4, <3>5
  <2>2. maxs \subseteq Int /\ maxs # {}
    BY <1>2
  <2>3. (\A k \in K : node[k].max \in maxs) /\ (K = {} => maxs = {0} /\ mins = {IntMax})
    OBVIOUS
  <2>4. mins \subseteq Nat \cup {-1} /\ mins # {}
    BY <1>2, <1>4
  <2> HIDE DEF maxs, mins
  <2>5. mx \in maxs /\ \A y \in maxs : y <= mx
    BY <2>1, <2>2, MaxIs
  <2>6. mn \in mins
    BY <2>4, MinIs
  <2> HIDE DEF mx, mn, K
  <2>7. K = {} => mx = 0 /\ mn = IntMax
    <3> SUFFICES ASSUME K = {} PROVE mx = 0 /\ mn = IntMax
      OBVIOUS
    <3>1. maxs = {0} /\ mins = {IntMax}
      BY <2>3
    <3> QED
      BY <2>5, <2>6, <3>1
  <2>8. mx \in Int /\ \A k \in K : node[k].max <= mx
    BY <2>2, <2>3, <2>5
  <2> QED
    BY <2>7, <2>8
<1>7. RangeSearch(f) = IF mx - mn + 1 <= 0 THEN Nothing ELSE r
  BY DEF RangeSearch
<1>8. CASE mx - mn + 1 <= 0
  <2>1. \A k \in K : Members(node[k]) = {}
    <3> SUFFICES ASSUME NEW k \in K, NEW v \in Members(node[k]) PROVE FALSE
      OBVIOUS
    <3> HIDE DEF mx, mn, K
    <3>1. mn <= node[k].min /\ node[k].max <= mx
      BY <1>5, <1>6
    <3> QED
      BY <1>2, <1>3, <1>5, <1>6, <1>8, <3>1
  <2>2. Bearers(f) = {}
    BY <1>1, <2>1 DEF Bits
  <2>3. RangeSearch(f) = Nothing
    BY <1>7, <1>8
  <2> QED
    BY <2>2, <2>3, NothingIsSound
<1>9. CASE ~(mx - mn + 1 <= 0)
  <2>1. K # {}
    <3> HIDE DEF mx, mn, K
    <3> QED
      BY <1>4, <1>6, <1>9
  <2>2. lo \in Nat /\ \A k \in K : lo <= node[k].lo
    <3>1. los \subseteq Nat \cup {-1} /\ los \subseteq Nat /\ los # {}
      BY <1>2, <2>1
    <3>2. \A k \in K : node[k].lo \in los
      OBVIOUS
    <3> HIDE DEF los
    <3> QED
      BY <3>1, <3>2, MinIs
  <2>3. hi \in Nat \cup {-1} /\ \A k \in K : node[k].hi <= hi
    <3>1. IsFiniteSet(his)
      <4> DEFINE g == [k \in K |-> node[k].hi]
      <4>1. DOMAIN g = K /\ g = [k \in K |-> g[k]]
        OBVIOUS
      <4>2. {g[k] : k \in K} = his
        OBVIOUS
      <4> HIDE DEF g
      <4>3. IsFiniteSet({g[k] : k \in K})
        BY <1>1, <4>1, FinitelyMany
      <4> QED
        BY <4>2, <4>3
    <3>2. his \subseteq Int /\ his \subseteq Nat \cup {-1} /\ his # {}
      BY <1>2, <2>1
    <3>3. \A k \in K : node[k].hi \in his
      OBVIOUS
    <3> HIDE DEF his
    <3> QED
      BY <3>1, <3>2, <3>3, MaxIs
  <2>4. mx - mn + 1 \in Nat /\ mx - mn + 1 # 0
    <3> HIDE DEF mx, mn, K
    <3> QED
      BY <1>5, <1>6, <1>9
  <2>5. \A d \in Bearers(f) : lo <= d /\ d <= hi /\ d \in Docs
    <3> SUFFICES ASSUME NEW d \in Bearers(f) PROVE lo <= d /\ d <= hi /\ d \in Docs
      OBVIOUS
    <3>1. d \in Docs
      BY DEF Bearers
    <3>2. PICK k \in K : d \in Members(node[k])
      BY <1>1 DEF Bits
    <3> HIDE DEF lo, hi, K
    <3>3. lo <= node[k].lo /\ node[k].hi <= hi /\ node[k].lo <= d /\ d <= node[k].hi
          /\ d \in Nat /\ node[k].lo \in Nat /\ node[k].hi \in Nat \cup {-1}
      BY <1>2, <1>3, <2>2, <2>3, <3>2
    <3> QED
      BY <2>2, <2>3, <3>1, <3>3
  <2>6. Sizes(K) \in Nat /\ (Sizes(K) = 0 => Bearers(f) = {})
    BY SizesOfReached
  <2>7. RangeSearch(f) = r
    BY <1>7, <1>9
  <2>8. /\ r.ret = mx - mn + 1 /\ r.num = Sizes(K) /\ r.bits = Bearers(f)
        /\ r.lo = lo /\ r.hi = hi /\ r.notIn = FALSE
    BY <1>1
  <2>9. r \in Results
    <3>1. Bearers(f) \in SUBSET Docs
      BY DEF Bearers
    <3> HIDE DEF mx, mn, lo, hi, K
    <3> QED
      BY <1>1, <2>2, <2>3, <2>4, <2>6, <3>1 DEF Results
  <2> HIDE DEF r, mx, mn, lo, hi, K
  <2>10. Sound(r)
    BY <2>4, <2>5, <2>6, <2>8, <2>9 DEF Sound
  <2> QED
    BY <2>7, <2>8, <2>10
<1> QED
  BY <1>8, <1>9

\* Search over the tags of a value.
LEMMA TagSearchIs ==
  ASSUME PostingsInv, NEW f
  PROVE  Sound(TagSearch(f)) /\ TagSearch(f).bits = Bearers(f)
<1> DEFINE K == Reached(f)
           H == Held(f)
           los == {IntMax} \cup {node[k].lo : k \in H}
           his == {0} \cup {node[k].hi : k \in H}
           lo == Min(los)
           hi == Max(his)
           r == [ret |-> Sizes(K), num |-> Sizes(K), bits |-> Bits(K),
                 lo |-> lo, hi |-> hi, notIn |-> FALSE]
<1>1. /\ IsFiniteSet(K) /\ Bits(K) = Bearers(f)
      /\ \A k \in K : NodeInv(node[k])
  BY ReachedHold
<1>2. \A k \in K : /\ node[k].size \in Nat
                   /\ node[k].lo \in Nat /\ node[k].hi \in Nat \cup {-1}
                   /\ node[k].size = 0 <=> Members(node[k]) = {}
  BY <1>1, NodeIs
<1>3. \A k \in K : \A v \in Members(node[k]) :
        v \in Nat /\ node[k].lo <= v /\ v <= node[k].hi
  BY <1>1, NodeIs
<1>4. H \in SUBSET K /\ \A k \in K : Members(node[k]) # {} => k \in H
  BY <1>2 DEF Held
<1>5. IsFiniteSet(H)
  BY <1>1, <1>4, FS_Subset
<1>6. IntMax \in Nat
  BY NodeAssumption
<1>7. lo \in Nat /\ \A k \in H : lo <= node[k].lo
  <2>1. los \subseteq Nat \cup {-1} /\ los \subseteq Nat /\ los # {}
    BY <1>2, <1>4, <1>6
  <2>2. \A k \in H : node[k].lo \in los
    OBVIOUS
  <2> HIDE DEF los
  <2> QED
    BY <2>1, <2>2, MinIs
<1>8. hi \in Nat /\ \A k \in H : node[k].hi <= hi
  <2>1. IsFiniteSet(his)
    <3> DEFINE g == [k \in H |-> node[k].hi]
    <3>1. DOMAIN g = H /\ g = [k \in H |-> g[k]]
      OBVIOUS
    <3>2. {g[k] : k \in H} = {node[k].hi : k \in H}
      OBVIOUS
    <3> HIDE DEF g
    <3>3. IsFiniteSet({g[k] : k \in H})
      BY <1>5, <3>1, FinitelyMany
    <3>4. IsFiniteSet({node[k].hi : k \in H} \cup {0})
      BY <3>2, <3>3, FS_AddElement
    <3>5. his = {node[k].hi : k \in H} \cup {0}
      OBVIOUS
    <3> QED
      BY <3>4, <3>5
  <2>2. his \subseteq Int /\ his \subseteq Nat \cup {-1} /\ his # {} /\ 0 \in his
    BY <1>2, <1>4
  <2>3. \A k \in H : node[k].hi \in his
    OBVIOUS
  <2> HIDE DEF his
  <2>4. hi \in his /\ \A y \in his : y <= hi
    BY <2>1, <2>2, MaxIs
  <2> HIDE DEF hi, H, K
  <2>5. hi \in Nat
    BY <2>2, <2>4
  <2> QED
    BY <2>3, <2>4, <2>5
<1>9. TagSearch(f) = IF hi - lo + 1 <= 0 THEN Nothing ELSE r
  BY DEF TagSearch
<1>10. \A d \in Bearers(f) : lo <= d /\ d <= hi /\ d \in Docs
  <2> SUFFICES ASSUME NEW d \in Bearers(f) PROVE lo <= d /\ d <= hi /\ d \in Docs
    OBVIOUS
  <2>1. d \in Docs
    BY DEF Bearers
  <2>2. PICK k \in K : d \in Members(node[k])
    BY <1>1 DEF Bits
  <2>3. k \in H
    BY <1>4, <2>2
  <2> HIDE DEF lo, hi, K, H
  <2>4. lo <= node[k].lo /\ node[k].hi <= hi /\ node[k].lo <= d /\ d <= node[k].hi
        /\ d \in Nat /\ node[k].lo \in Nat /\ node[k].hi \in Nat \cup {-1}
    BY <1>2, <1>3, <1>7, <1>8, <2>2, <2>3
  <2> QED
    BY <1>7, <1>8, <2>1, <2>4
<1>11. Sizes(K) \in Nat /\ (Sizes(K) = 0 => Bearers(f) = {})
  BY SizesOfReached
<1>12. CASE hi - lo + 1 <= 0
  <2>1. Bearers(f) = {}
    <3> SUFFICES ASSUME NEW d \in Bearers(f) PROVE FALSE
      OBVIOUS
    <3> HIDE DEF lo, hi, H, K
    <3>1. d \in Nat
      <4>1. d \in Docs
        BY DEF Bearers
      <4> QED
        BY <4>1, PostingsAssumption, NodeAssumption
    <3> QED
      BY <1>7, <1>8, <1>10, <1>12, <3>1
  <2>2. TagSearch(f) = Nothing
    BY <1>9, <1>12
  <2> QED
    BY <2>1, <2>2, NothingIsSound
<1>13. CASE ~(hi - lo + 1 <= 0)
  <2>1. TagSearch(f) = r
    BY <1>9, <1>13
  <2>2. /\ r.ret = Sizes(K) /\ r.num = Sizes(K) /\ r.bits = Bearers(f)
        /\ r.lo = lo /\ r.hi = hi /\ r.notIn = FALSE
    BY <1>1
  <2>3. r \in Results
    <3>1. Bearers(f) \in SUBSET Docs
      BY DEF Bearers
    <3> HIDE DEF lo, hi, K, H
    <3> QED
      BY <1>1, <1>7, <1>8, <1>11, <3>1 DEF Results
  <2> HIDE DEF r, lo, hi, K, H
  <2>4. Sound(r)
    BY <1>10, <1>11, <2>2, <2>3 DEF Sound
  <2> QED
    BY <2>1, <2>2, <2>4
<1> QED
  BY <1>12, <1>13

\* A filter's answer, positive or negated, tells its documents from the others.
LEMMA SearchIs ==
  ASSUME PostingsInv, NEW f
  PROVE  Sound(Search(f)) /\ Search(f).bits = Bearers(f)
  BY RangeSearchIs, TagSearchIs DEF Search

\* RangeQueryResult::Has of a sound answer and of its negation.
LEMMA HasIs ==
  ASSUME NEW r, Sound(r), NEW d \in Nat
  PROVE  /\ Has(r, d) <=> d \in r.bits
         /\ Has(AsNot(r), d) <=> d \notin r.bits
         /\ AsNot(r) \in Results
<1>1. r \in Results /\ r.notIn = FALSE /\ r.lo \in Nat /\ r.hi \in Nat \cup {-1}
      /\ \A x \in r.bits : r.lo <= x /\ x <= r.hi
  BY DEF Sound, Results
<1>2. /\ AsNot(r) \in Results /\ AsNot(r).notIn = TRUE /\ AsNot(r).bits = r.bits
      /\ AsNot(r).lo = r.lo /\ AsNot(r).hi = r.hi
  BY <1>1 DEF AsNot, Results
<1>3. d < r.lo \/ d > r.hi => d \notin r.bits
  BY <1>1
<1>4. Has(r, d) <=> d \in r.bits
  <2>1. ((d \in r.bits) # FALSE) <=> d \in r.bits
    <3> DEFINE b == d \in r.bits
    <3>1. b \in BOOLEAN
      OBVIOUS
    <3> HIDE DEF b
    <3>2. (b # FALSE) <=> b
      BY <3>1
    <3> QED
      BY <3>2 DEF b
  <2>2. Has(r, d) = IF d < r.lo \/ d > r.hi THEN FALSE
                                             ELSE (d \in r.bits) # FALSE
    BY <1>1, Zenon DEF Has
  <2> QED
    BY <1>3, <2>1, <2>2
<1>5. Has(AsNot(r), d) <=> d \notin r.bits
  <2>1. ((d \in r.bits) # TRUE) <=> d \notin r.bits
    OBVIOUS
  <2>2. Has(AsNot(r), d) = IF d < r.lo \/ d > r.hi THEN TRUE
                                                   ELSE (d \in r.bits) # TRUE
    BY <1>2, Zenon DEF Has
  <2> QED
    BY <1>3, <2>1, <2>2
<1> QED
  BY <1>2, <1>4, <1>5

----------------------------------------------------------------------------
(* Several filters.                                                        *)

\* The documents that every one of some results holds.
Common(rs) == {d \in Docs : \A i \in DOMAIN rs : d \in rs[i].bits}

\* Intersect of sound results, of which there is one at least.
LEMMA IntersectIs ==
  ASSUME NEW rs \in Seq(Results), rs # << >>, \A i \in DOMAIN rs : Sound(rs[i])
  PROVE  Sound(Intersect(rs)) /\ Intersect(rs).bits = Common(rs)
<1> DEFINE los == {rs[i].lo : i \in DOMAIN rs}
           his == {rs[i].hi : i \in DOMAIN rs}
           lo == Max(los)
           hi == Min(his)
           r == [ret |-> rs[1].num, num |-> rs[1].num, lo |-> lo, hi |-> hi,
                 bits |-> {d \in lo..hi : \A i \in DOMAIN rs : d \in rs[i].bits},
                 notIn |-> FALSE]
<1>1. 1 \in DOMAIN rs /\ IsFiniteSet(DOMAIN rs) /\ \A i \in DOMAIN rs : rs[i] \in Results
  <2>1. Len(rs) \in Nat /\ DOMAIN rs = 1..Len(rs) /\ Len(rs) # 0
    BY EmptySeq
  <2>2. IsFiniteSet(1..Len(rs)) /\ 1 \in 1..Len(rs)
    BY <2>1, FS_Interval
  <2> QED
    BY <2>1, <2>2
<1>2. \A i \in DOMAIN rs : /\ rs[i].lo \in Nat /\ rs[i].hi \in Nat \cup {-1}
                           /\ rs[i].num \in Nat /\ rs[i].bits \in SUBSET Docs
  BY <1>1 DEF Results
<1>3. \A i \in DOMAIN rs : \A d \in rs[i].bits : rs[i].lo <= d /\ d <= rs[i].hi
  BY DEF Sound
<1>4. \A d \in Docs : d \in Nat
  BY PostingsAssumption, NodeAssumption
<1>5. lo \in Nat /\ lo \in los /\ \A i \in DOMAIN rs : rs[i].lo <= lo
  <2>1. IsFiniteSet(los)
    <3> DEFINE g == [i \in DOMAIN rs |-> rs[i].lo]
    <3>1. DOMAIN g = DOMAIN rs /\ g = [i \in DOMAIN rs |-> g[i]]
      OBVIOUS
    <3>2. {g[i] : i \in DOMAIN rs} = los
      OBVIOUS
    <3> HIDE DEF g, los
    <3>3. IsFiniteSet({g[i] : i \in DOMAIN rs})
      BY <1>1, <3>1, FinitelyMany
    <3> QED
      BY <3>2, <3>3
  <2>2. los \subseteq Int /\ los \subseteq Nat /\ los # {}
    BY <1>1, <1>2
  <2>3. \A i \in DOMAIN rs : rs[i].lo \in los
    OBVIOUS
  <2> HIDE DEF los
  <2> QED
    BY <2>1, <2>2, <2>3, MaxIs
<1>6. hi \in Nat \cup {-1} /\ hi \in his /\ \A i \in DOMAIN rs : hi <= rs[i].hi
  <2>1. his \subseteq Nat \cup {-1} /\ his # {}
    BY <1>1, <1>2
  <2>2. \A i \in DOMAIN rs : rs[i].hi \in his
    OBVIOUS
  <2> HIDE DEF his
  <2> QED
    BY <2>1, <2>2, MinIs
<1>7. PICK a \in DOMAIN rs : lo = rs[a].lo
  BY <1>5
<1>8. PICK b \in DOMAIN rs : hi = rs[b].hi
  BY <1>6
<1>9. Intersect(rs) = IF hi - lo + 1 <= 0 THEN Nothing ELSE r
  BY DEF Intersect
<1> DEFINE bits == {d \in lo..hi : \A i \in DOMAIN rs : d \in rs[i].bits}
<1>10. /\ r.bits = bits /\ r.lo = lo /\ r.hi = hi /\ r.notIn = FALSE
       /\ r.ret = rs[1].num /\ r.num = rs[1].num
  OBVIOUS
<1> HIDE DEF lo, hi
<1>11. \A d \in Common(rs) : d \in lo..hi
  <2> SUFFICES ASSUME NEW d \in Common(rs) PROVE d \in lo..hi
    OBVIOUS
  <2>1. d \in Nat /\ d \in rs[a].bits /\ d \in rs[b].bits
    BY <1>4 DEF Common
  <2>2. lo <= d /\ d <= hi
    BY <1>3, <1>7, <1>8, <2>1
  <2> QED
    BY <1>5, <1>6, <2>1, <2>2
<1>12. CASE hi - lo + 1 <= 0
  <2>1. lo..hi = {}
    BY <1>5, <1>6, <1>12
  <2>2. Common(rs) = {}
    BY <1>11, <2>1
  <2>3. Intersect(rs) = Nothing
    BY <1>9, <1>12
  <2> QED
    BY <2>2, <2>3, NothingIsSound
<1>13. CASE ~(hi - lo + 1 <= 0)
  <2>1. bits = Common(rs)
    <3>1. \A d \in bits : d \in Docs
      BY <1>1, <1>2
    <3> QED
      BY <1>11, <3>1 DEF Common
  <2>2. Common(rs) \in SUBSET Docs
    BY DEF Common
  <2>3. r \in Results
    BY <1>1, <1>2, <1>5, <1>6, <2>1, <2>2 DEF Results
  <2>4. \A d \in bits : lo <= d /\ d <= hi
    BY <1>5, <1>6
  <2>5. rs[1].num = 0 => bits = {}
    <3>1. rs[1].num = 0 => rs[1].bits = {}
      BY <1>1 DEF Sound
    <3> QED
      BY <1>1, <3>1
  <2>6. Intersect(rs) = r
    BY <1>9, <1>13
  <2> HIDE DEF r, bits
  <2>7. Sound(r)
    BY <1>10, <2>3, <2>4, <2>5 DEF Sound
  <2> QED
    BY <1>10, <2>1, <2>6, <2>7
<1> QED
  BY <1>12, <1>13

\* What a filter asks for once string filters are split.
Meets(d, f) == IF f.op = "Not" THEN d \notin Bearers(f) ELSE d \in Bearers(f)

\* Splitting keeps what a filter asks for.
LEMMA SplitIs ==
  ASSUME NEW f, IsFilter(f)
  PROVE  /\ Split(f) \in Seq(ToSet(Split(f)))
         /\ \A d \in Docs : Satisfies(d, f) <=> \A g \in ToSet(Split(f)) : Meets(d, g)
<1>1. f.items \in Seq(ToSet(f.items)) /\ DOMAIN f.items = 1..Len(f.items)
      /\ Len(f.items) \in Nat
  BY DEF IsFilter
<1>2. \A d \in Docs : d \in Bearers(f) <=>
        \E i \in DOMAIN f.items : Carries(d, f.field, f.items[i])
  BY DEF Bearers
<1>3. CASE f.field \notin Numeric /\ f.op = "And"
  <2> DEFINE piece(i) == [f EXCEPT !.items = <<f.items[i]>>]
  <2>1. Split(f) = [i \in DOMAIN f.items |-> piece(i)]
    BY <1>3 DEF Split
  <2>2. \A i : /\ piece(i).field = f.field /\ piece(i).op = f.op
               /\ piece(i).items = <<f.items[i]>>
    BY DEF IsFilter
  <2>3. \A i : \A d \in Docs : Meets(d, piece(i)) <=> Carries(d, f.field, f.items[i])
    <3> SUFFICES ASSUME NEW i, NEW d \in Docs
                 PROVE  Meets(d, piece(i)) <=> Carries(d, f.field, f.items[i])
      OBVIOUS
    <3> DEFINE p == piece(i)
    <3>1. p.field = f.field /\ p.op = "And" /\ p.items = <<f.items[i]>>
      BY <1>3, <2>2
    <3> HIDE DEF p
    <3>2. DOMAIN p.items = {1} /\ p.items[1] = f.items[i]
      BY <3>1
    <3>3. d \in Bearers(p) <=> Carries(d, f.field, f.items[i])
      BY <3>1, <3>2 DEF Bearers
    <3>4. Meets(d, p) <=> d \in Bearers(p)
      BY <3>1 DEF Meets
    <3> QED
      BY <3>3, <3>4 DEF p
  <2> HIDE DEF piece
  <2>4. /\ DOMAIN Split(f) = 1..Len(f.items)
        /\ \A i \in 1..Len(f.items) : Split(f)[i] = piece(i)
    BY <1>1, <2>1
  <2>5. Split(f) \in Seq(ToSet(Split(f)))
    <3>1. \A i \in 1..Len(f.items) : piece(i) \in ToSet(Split(f))
      BY <2>4 DEF ToSet
    <3>2. Split(f) = [i \in 1..Len(f.items) |-> piece(i)]
      BY <1>1, <2>1
    <3> HIDE <2>1, <2>4
    <3> QED
      BY <1>1, <3>1, <3>2
  <2>6. \A d \in Docs : (\A g \in ToSet(Split(f)) : Meets(d, g)) <=>
                          \A i \in DOMAIN f.items : Meets(d, piece(i))
    BY <1>1, <2>4 DEF ToSet
  <2>7. \A d \in Docs : Satisfies(d, f) <=>
          \A i \in DOMAIN f.items : Carries(d, f.field, f.items[i])
    BY <1>3 DEF Satisfies
  <2> QED
    BY <2>3, <2>5, <2>6, <2>7
<1>4. CASE ~(f.field \notin Numeric /\ f.op = "And")
  <2>1. Split(f) = <<f>>
    BY <1>4 DEF Split
  <2>2. ToSet(<<f>>) = {f}
    BY DEF ToSet
  <2>3. <<f>> \in Seq({f})
    OBVIOUS
  <2>4. \A d \in Docs : Satisfies(d, f) <=> Meets(d, f)
    BY <1>2, <1>4 DEF Satisfies, Meets
  <2> QED
    BY <2>1, <2>2, <2>3, <2>4
<1> QED
  BY <1>3, <1>4

\* An answer says which documents are wanted: none, every one, or those
\* that all of its results have.
Exact(out, W) ==
  /\ out.ret \in Int
  /\ out.ret = 0 => W = {}
  /\ out.ret < 0 => W = Docs
  /\ out.ret > 0 => out.all # << >> /\ \A d \in Docs : d \in W <=> AllHave(out, d)

\* Search for a single filter.
LEMMA OneIsExact ==
  ASSUME PostingsInv, NEW f
  PROVE  Exact(One(f), {d \in Docs : Meets(d, f)})
<1> DEFINE r == Search(f)
           out == One(f)
           W == {d \in Docs : Meets(d, f)}
<1>1. Sound(r) /\ r.bits = Bearers(f)
  BY SearchIs
<1>2. r.ret \in Nat /\ Bearers(f) \subseteq Docs
  BY <1>1 DEF Sound, Results
<1>3. \A d \in Docs : d \in Nat
  BY PostingsAssumption, NodeAssumption
<1>4. out = IF r.ret > 0
            THEN [ret |-> r.ret, all |-> <<IF f.op = "Not" THEN AsNot(r) ELSE r>>]
            ELSE [ret |-> IF f.op = "Not" THEN -1 ELSE r.ret, all |-> << >>]
  BY DEF One
<1> HIDE DEF r, out
<1>5. CASE r.ret > 0
  <2> DEFINE x == IF f.op = "Not" THEN AsNot(r) ELSE r
  <2>1. out.ret = r.ret /\ out.all = <<x>>
    BY <1>4, <1>5
  <2>2. \A d \in Docs : Has(x, d) <=> Meets(d, f)
    BY <1>1, <1>3, HasIs DEF Meets
  <2> HIDE DEF x
  <2>3. DOMAIN out.all = {1} /\ out.all[1] = x /\ out.all # << >>
    BY <2>1
  <2>4. \A d \in Docs : AllHave(out, d) <=> Has(x, d)
    BY <2>3 DEF AllHave
  <2>5. \A d \in Docs : d \in W <=> AllHave(out, d)
    BY <2>2, <2>4
  <2> HIDE DEF W
  <2>6. Exact(out, W)
    BY <1>2, <1>5, <2>1, <2>3, <2>5 DEF Exact
  <2> QED
    BY <2>6 DEF W, out
<1>6. CASE ~(r.ret > 0)
  <2>1. r.ret = 0 /\ Bearers(f) = {}
    BY <1>1, <1>2, <1>6 DEF Sound
  <2>2. out.ret = IF f.op = "Not" THEN -1 ELSE 0
    BY <1>4, <1>6, <2>1
  <2>3. f.op = "Not" => W = Docs
    BY <2>1 DEF Meets
  <2>4. f.op # "Not" => W = {}
    BY <2>1 DEF Meets
  <2> HIDE DEF W
  <2>5. Exact(out, W)
    BY <2>2, <2>3, <2>4 DEF Exact
  <2> QED
    BY <2>5 DEF W, out
<1> QED
  BY <1>5, <1>6

\* The negated results.
LEMMA NotsAre ==
  ASSUME PostingsInv, NEW S, NEW fs \in Seq(S)
  PROVE  /\ Nots(fs) \in Seq(Results)
         /\ \A x : x \in ToSet(Nots(fs)) <=>
                     \E i \in DOMAIN fs : /\ Finds(fs[i]) /\ fs[i].op = "Not"
                                          /\ x = AsNot(Search(fs[i]))
<1> DEFINE n == Len(fs)
           piece(i) == IF Finds(fs[i]) /\ fs[i].op = "Not"
                      THEN <<AsNot(Search(fs[i]))>> ELSE << >>
           ss == [i \in 1..n |-> piece(i)]
<1>1. n \in Nat /\ DOMAIN fs = 1..n
  OBVIOUS
<1>2. \A i : AsNot(Search(fs[i])) \in Results
  BY SearchIs, HasIs
<1>3. \A i : /\ piece(i) \in Seq(Results)
             /\ \A x : x \in ToSet(piece(i)) <=>
                         /\ Finds(fs[i]) /\ fs[i].op = "Not"
                         /\ x = AsNot(Search(fs[i]))
  <2> SUFFICES ASSUME NEW i
               PROVE  /\ piece(i) \in Seq(Results)
                      /\ \A x : x \in ToSet(piece(i)) <=>
                                  /\ Finds(fs[i]) /\ fs[i].op = "Not"
                                  /\ x = AsNot(Search(fs[i]))
    OBVIOUS
  <2> DEFINE y == AsNot(Search(fs[i]))
  <2>1. y \in Results
    BY <1>2
  <2> HIDE DEF y
  <2>2. <<y>> \in Seq(Results) /\ ToSet(<<y>>) = {y}
    BY <2>1 DEF ToSet
  <2>3. << >> \in Seq(Results) /\ ToSet(<< >>) = {}
    BY DEF ToSet
  <2> QED
    BY <2>2, <2>3 DEF y
<1>4. Nots(fs) = FlattenSeq(ss)
  BY <1>1, Zenon DEF Nots
<1> HIDE DEF piece
<1>5. ss \in Seq(Seq(Results)) /\ DOMAIN ss = 1..n /\ \A i \in 1..n : ss[i] = piece(i)
  BY <1>1, <1>3
<1> HIDE DEF ss
<1>6. /\ FlattenSeq(ss) \in Seq(Results)
      /\ \A x : x \in ToSet(FlattenSeq(ss)) <=> \E i \in DOMAIN ss : x \in ToSet(ss[i])
  BY <1>5, FlattenIs
<1>7. \A x : x \in ToSet(FlattenSeq(ss)) <=>
               \E i \in DOMAIN fs : /\ Finds(fs[i]) /\ fs[i].op = "Not"
                                    /\ x = AsNot(Search(fs[i]))
  BY <1>1, <1>3, <1>5, <1>6
<1> QED
  BY <1>4, <1>6, <1>7

\* The other results.
LEMMA AndsAre ==
  ASSUME PostingsInv, NEW S, NEW fs \in Seq(S)
  PROVE  /\ Ands(fs) \in Seq(Results)
         /\ \A x : x \in ToSet(Ands(fs)) <=>
                     \E i \in DOMAIN fs : /\ Finds(fs[i]) /\ fs[i].op # "Not"
                                          /\ x = Search(fs[i])
<1> DEFINE n == Len(fs)
           piece(i) == IF Finds(fs[i]) /\ fs[i].op # "Not"
                      THEN <<Search(fs[i])>> ELSE << >>
           ss == [i \in 1..n |-> piece(i)]
<1>1. n \in Nat /\ DOMAIN fs = 1..n
  OBVIOUS
<1>2. \A i : Search(fs[i]) \in Results
  BY SearchIs DEF Sound
<1>3. \A i : /\ piece(i) \in Seq(Results)
             /\ \A x : x \in ToSet(piece(i)) <=>
                         Finds(fs[i]) /\ fs[i].op # "Not" /\ x = Search(fs[i])
  <2> SUFFICES ASSUME NEW i
               PROVE  /\ piece(i) \in Seq(Results)
                      /\ \A x : x \in ToSet(piece(i)) <=>
                                  Finds(fs[i]) /\ fs[i].op # "Not" /\ x = Search(fs[i])
    OBVIOUS
  <2> DEFINE y == Search(fs[i])
  <2>1. y \in Results
    BY <1>2
  <2> HIDE DEF y
  <2>2. <<y>> \in Seq(Results) /\ ToSet(<<y>>) = {y}
    BY <2>1 DEF ToSet
  <2>3. << >> \in Seq(Results) /\ ToSet(<< >>) = {}
    BY DEF ToSet
  <2> QED
    BY <2>2, <2>3 DEF y
<1>4. Ands(fs) = FlattenSeq(ss)
  BY <1>1, Zenon DEF Ands
<1> HIDE DEF piece
<1>5. ss \in Seq(Seq(Results)) /\ DOMAIN ss = 1..n /\ \A i \in 1..n : ss[i] = piece(i)
  BY <1>1, <1>3
<1> HIDE DEF ss
<1>6. /\ FlattenSeq(ss) \in Seq(Results)
      /\ \A x : x \in ToSet(FlattenSeq(ss)) <=> \E i \in DOMAIN ss : x \in ToSet(ss[i])
  BY <1>5, FlattenIs
<1>7. \A x : x \in ToSet(FlattenSeq(ss)) <=>
               \E i \in DOMAIN fs : /\ Finds(fs[i]) /\ fs[i].op # "Not"
                                    /\ x = Search(fs[i])
  BY <1>1, <1>3, <1>5, <1>6
<1> QED
  BY <1>4, <1>6, <1>7

\* Search for several filters, or for none.
LEMMA ManyIsExact ==
  ASSUME PostingsInv, NEW S, NEW fs \in Seq(S)
  PROVE  Exact(Many(fs), {d \in Docs : \A i \in DOMAIN fs : Meets(d, fs[i])})
<1> DEFINE W == {d \in Docs : \A i \in DOMAIN fs : Meets(d, fs[i])}
           nots == Nots(fs)
           ands == Ands(fs)
           meet == Intersect(ands)
<1>1. \A f : /\ Sound(Search(f)) /\ Search(f).bits = Bearers(f)
             /\ Search(f).ret \in Nat
             /\ ~Finds(f) => Bearers(f) = {}
  <2> SUFFICES ASSUME NEW f
               PROVE  /\ Sound(Search(f)) /\ Search(f).bits = Bearers(f)
                      /\ Search(f).ret \in Nat
                      /\ ~Finds(f) => Bearers(f) = {}
    OBVIOUS
  <2>1. Sound(Search(f)) /\ Search(f).bits = Bearers(f)
    BY SearchIs
  <2>2. Search(f).ret \in Nat
    BY <2>1 DEF Sound, Results
  <2>3. ~Finds(f) => Search(f).ret = 0
    BY <2>2 DEF Finds
  <2> QED
    BY <2>1, <2>2, <2>3 DEF Sound
<1>2. \A d \in Docs : d \in Nat
  BY PostingsAssumption, NodeAssumption
<1>3. /\ nots \in Seq(Results)
      /\ \A x : x \in ToSet(nots) <=>
                  \E i \in DOMAIN fs : /\ Finds(fs[i]) /\ fs[i].op = "Not"
                                       /\ x = AsNot(Search(fs[i]))
  BY NotsAre
<1>4. /\ ands \in Seq(Results)
      /\ \A x : x \in ToSet(ands) <=>
                  \E i \in DOMAIN fs : /\ Finds(fs[i]) /\ fs[i].op # "Not"
                                       /\ x = Search(fs[i])
  BY AndsAre
<1>5. Many(fs) =
        IF \E i \in DOMAIN fs : ~Finds(fs[i]) /\ fs[i].op # "Not"
        THEN [ret |-> 0, all |-> << >>]
        ELSE IF ands = << >>
        THEN [ret |-> IF nots # << >> THEN 1 ELSE -1, all |-> nots]
        ELSE [ret |-> meet.ret, all |-> IF meet.ret > 0 THEN Append(nots, meet)
                                                        ELSE nots]
  BY Zenon DEF Many
<1> HIDE DEF nots, ands, meet
<1> DEFINE Unwanted(d) == \E i \in DOMAIN fs : fs[i].op = "Not" /\ d \in Bearers(fs[i])
           Asked(d) == \A i \in DOMAIN fs : fs[i].op # "Not" => d \in Bearers(fs[i])
<1>6. \A d \in Docs : d \in W <=> ~Unwanted(d) /\ Asked(d)
  BY DEF Meets
<1>7. \A d \in Docs : (\A i \in DOMAIN nots : Has(nots[i], d)) <=> ~Unwanted(d)
  <2> SUFFICES ASSUME NEW d \in Docs
               PROVE  (\A i \in DOMAIN nots : Has(nots[i], d)) <=> ~Unwanted(d)
    OBVIOUS
  <2>1. (\A i \in DOMAIN nots : Has(nots[i], d)) <=> \A x \in ToSet(nots) : Has(x, d)
    BY DEF ToSet
  <2>2. (\A x \in ToSet(nots) : Has(x, d)) <=>
          \A i \in DOMAIN fs : Finds(fs[i]) /\ fs[i].op = "Not"
                                 => Has(AsNot(Search(fs[i])), d)
    BY <1>3
  <2>3. \A f : Has(AsNot(Search(f)), d) <=> d \notin Bearers(f)
    BY <1>1, <1>2, HasIs
  <2>4. \A f : d \in Bearers(f) => Finds(f)
    BY <1>1
  <2> QED
    BY <2>1, <2>2, <2>3, <2>4
<1>8. CASE \E i \in DOMAIN fs : ~Finds(fs[i]) /\ fs[i].op # "Not"
  <2>1. W = {}
    BY <1>1, <1>8 DEF Meets
  <2> DEFINE out == [ret |-> 0, all |-> << >>]
  <2>2. Many(fs) = out
    BY <1>5, <1>8
  <2>3. out.ret = 0
    OBVIOUS
  <2> HIDE DEF out, W
  <2>4. Exact(out, W)
    BY <2>1, <2>3 DEF Exact
  <2> QED
    BY <2>2, <2>4 DEF W
<1>9. CASE /\ ~\E i \in DOMAIN fs : ~Finds(fs[i]) /\ fs[i].op # "Not"
           /\ ands = << >>
  <2> DEFINE out == [ret |-> IF nots # << >> THEN 1 ELSE -1, all |-> nots]
  <2>1. Many(fs) = out
    BY <1>5, <1>9
  <2>2. ToSet(ands) = {}
    BY <1>9 DEF ToSet
  <2>3. \A i \in DOMAIN fs : fs[i].op = "Not"
    BY <1>4, <1>9, <2>2
  <2>4. \A d \in Docs : d \in W <=> \A i \in DOMAIN nots : Has(nots[i], d)
    <3> HIDE DEF W
    <3> QED
      BY <1>6, <1>7, <2>3
  <2>5. out.all = nots /\ out.ret = IF nots # << >> THEN 1 ELSE -1
    OBVIOUS
  <2>6. nots = << >> => DOMAIN nots = {}
    OBVIOUS
  <2> HIDE DEF out
  <2>7. \A d \in Docs : d \in W <=> AllHave(out, d)
    <3> HIDE DEF W
    <3> QED
      BY <2>4, <2>5 DEF AllHave
  <2>8. nots = << >> => W = Docs
    BY <2>4, <2>6
  <2> HIDE DEF W
  <2>9. Exact(out, W)
    BY <2>5, <2>7, <2>8 DEF Exact
  <2> QED
    BY <2>1, <2>9 DEF W
<1>10. CASE /\ ~\E i \in DOMAIN fs : ~Finds(fs[i]) /\ fs[i].op # "Not"
            /\ ands # << >>
  <2> DEFINE out == [ret |-> meet.ret,
                     all |-> IF meet.ret > 0 THEN Append(nots, meet) ELSE nots]
  <2>1. Many(fs) = out
    BY <1>5, <1>10
  <2>2. \A i \in DOMAIN ands : Sound(ands[i])
    <3>1. \A i \in DOMAIN ands : ands[i] \in ToSet(ands)
      BY DEF ToSet
    <3> QED
      BY <1>1, <1>4, <3>1
  <2>3. Sound(meet) /\ meet.bits = Common(ands)
    BY <1>4, <1>10, <2>2, IntersectIs DEF meet
  <2>4. meet.ret \in Nat /\ meet \in Results
    BY <2>3 DEF Sound, Results
  <2>5. \A d \in Docs : d \in meet.bits <=> Asked(d)
    <3> SUFFICES ASSUME NEW d \in Docs PROVE d \in meet.bits <=> Asked(d)
      OBVIOUS
    <3>1. d \in meet.bits <=> \A i \in DOMAIN ands : d \in ands[i].bits
      BY <2>3 DEF Common
    <3>2. (\A i \in DOMAIN ands : d \in ands[i].bits) <=>
            \A x \in ToSet(ands) : d \in x.bits
      BY DEF ToSet
    <3>3. (\A x \in ToSet(ands) : d \in x.bits) <=>
            \A i \in DOMAIN fs : Finds(fs[i]) /\ fs[i].op # "Not"
                                   => d \in Search(fs[i]).bits
      BY <1>4
    <3>4. \A f : Search(f).bits = Bearers(f)
      BY <1>1
    <3>5. \A i \in DOMAIN fs : fs[i].op # "Not" => Finds(fs[i])
      BY <1>10
    <3> QED
      BY <3>1, <3>2, <3>3, <3>4, <3>5
  <2>6. \A d \in Docs : d \in W <=>
          (\A i \in DOMAIN nots : Has(nots[i], d)) /\ Has(meet, d)
    <3>1. \A d \in Docs : Has(meet, d) <=> d \in meet.bits
      BY <1>2, <2>3, HasIs
    <3> HIDE DEF W, Asked, Unwanted
    <3> QED
      BY <1>6, <1>7, <2>5, <3>1
  <2>7. CASE meet.ret > 0
    <3>1. out.ret = meet.ret /\ out.all = Append(nots, meet)
      BY <2>7
    <3> DEFINE all == Append(nots, meet)
               n == Len(nots)
    <3>2. /\ DOMAIN all = 1..(n + 1) /\ all[n + 1] = meet
          /\ DOMAIN nots = 1..n /\ n \in Nat /\ \A i \in 1..n : all[i] = nots[i]
      BY <1>3, <2>4
    <3> HIDE DEF all
    <3>3. all # << >>
      BY <3>2
    <3>4. \A i \in 1..(n + 1) : i \in 1..n \/ i = n + 1
      BY <3>2
    <3>5. (n + 1) \in 1..(n + 1) /\ \A i \in 1..n : i \in 1..(n + 1)
      BY <3>2
    <3>6. \A d : (\A i \in DOMAIN all : Has(all[i], d)) <=>
                   (\A i \in DOMAIN nots : Has(nots[i], d)) /\ Has(meet, d)
      BY <3>2, <3>4, <3>5
    <3>7. out.all = all
      BY <3>1 DEF all
    <3> HIDE DEF out, W
    <3>8. \A d \in Docs : d \in W <=> AllHave(out, d)
      BY <2>6, <3>6, <3>7 DEF AllHave
    <3>9. Exact(out, W)
      BY <2>4, <2>7, <3>1, <3>3, <3>7, <3>8 DEF Exact
    <3> QED
      BY <2>1, <3>9 DEF W
  <2>8. CASE ~(meet.ret > 0)
    <3>1. meet.ret = 0 /\ meet.bits = {} /\ out.ret = meet.ret
      BY <2>3, <2>4, <2>8 DEF Sound
    <3>2. W = {}
      <4> HIDE DEF Asked, Unwanted
      <4>1. W \subseteq Docs
        OBVIOUS
      <4> HIDE DEF W
      <4> QED
        BY <1>6, <2>5, <3>1, <4>1
    <3> HIDE DEF out, W
    <3>3. Exact(out, W)
      BY <3>1, <3>2 DEF Exact
    <3> QED
      BY <2>1, <3>3 DEF W
  <2> QED
    BY <2>7, <2>8
<1> QED
  BY <1>8, <1>9, <1>10

\* MultiFieldsRangeIndex::Search of a list of filters.
LEMMA MultiSearchIsExact ==
  ASSUME PostingsInv, NEW fs \in FilterLists
  PROVE  Exact(MultiSearch(fs), Wanted(fs))
<1> DEFINE n == Len(fs)
           pieces == [i \in 1..n |-> Split(fs[i])]
           S == UNION {ToSet(Split(fs[i])) : i \in 1..n}
           split == FlattenSeq(pieces)
           W == {d \in Docs : \A j \in DOMAIN split : Meets(d, split[j])}
<1>1. n \in Nat /\ DOMAIN fs = 1..n /\ \A i \in 1..n : IsFilter(fs[i])
  <2>1. fs \in Seq(ToSet(fs)) /\ \A i \in DOMAIN fs : IsFilter(fs[i])
    BY FilterAssumption
  <2> QED
    BY <2>1
<1>2. \A i \in 1..n :
        /\ Split(fs[i]) \in Seq(ToSet(Split(fs[i])))
        /\ \A d \in Docs : Satisfies(d, fs[i]) <=>
                             \A g \in ToSet(Split(fs[i])) : Meets(d, g)
  BY <1>1, SplitIs
<1>3. \A i \in 1..n : Split(fs[i]) \in Seq(S)
  <2> SUFFICES ASSUME NEW i \in 1..n PROVE Split(fs[i]) \in Seq(S)
    OBVIOUS
  <2> DEFINE s == Split(fs[i])
             T == ToSet(s)
  <2>1. s \in Seq(T) /\ T \subseteq S
    BY <1>2
  <2> HIDE DEF s, T, S
  <2>2. s \in Seq(S)
    BY <2>1
  <2> QED
    BY <2>2 DEF s
<1>4. pieces \in Seq(Seq(S)) /\ DOMAIN pieces = 1..n
      /\ \A i \in 1..n : pieces[i] = Split(fs[i])
  <2> HIDE DEF S
  <2> QED
    BY <1>1, <1>3
<1>5. MultiSearch(fs) = IF Len(split) = 1 THEN One(split[1]) ELSE Many(split)
  BY <1>1, Zenon DEF MultiSearch
<1> HIDE DEF pieces, S
<1>6. /\ split \in Seq(S)
      /\ \A x : x \in ToSet(split) <=> \E i \in DOMAIN pieces : x \in ToSet(pieces[i])
  BY <1>4, FlattenIs
<1> HIDE DEF split
<1>7. Wanted(fs) = W
  <2>1. \A d \in Docs : (\A j \in DOMAIN split : Meets(d, split[j])) <=>
                          \A x \in ToSet(split) : Meets(d, x)
    BY DEF ToSet
  <2>2. \A d \in Docs : (\A x \in ToSet(split) : Meets(d, x)) <=>
                          \A i \in 1..n : \A x \in ToSet(Split(fs[i])) : Meets(d, x)
    BY <1>4, <1>6
  <2>3. \A d \in Docs : (\A j \in DOMAIN split : Meets(d, split[j])) <=>
                          \A i \in 1..n : Satisfies(d, fs[i])
    BY <1>2, <2>1, <2>2
  <2> QED
    BY <1>1, <2>3 DEF Wanted
<1>8. CASE Len(split) = 1
  <2>1. DOMAIN split = {1}
    BY <1>6, <1>8
  <2>2. W = {d \in Docs : Meets(d, split[1])}
    BY <2>1
  <2>3. Exact(One(split[1]), {d \in Docs : Meets(d, split[1])})
    BY OneIsExact
  <2> QED
    BY <1>5, <1>7, <1>8, <2>2, <2>3
<1>9. CASE Len(split) # 1
  <2>1. Exact(Many(split), W)
    BY <1>6, ManyIsExact
  <2> HIDE DEF W
  <2> QED
    BY <1>5, <1>7, <1>9, <2>1
<1> QED
  BY <1>8, <1>9

\* What a vector search, a scan and a deletion make of an answer.
LEMMA FiltersKeep ==
  ASSUME PostingsInv
  PROVE  VectorFilterIsExact /\ ScanIsExactOrUniversal
         /\ DelDocByFilterTakesOnlyMatches
<1>1. ASSUME NEW fs \in FilterLists
      PROVE  LET out == MultiSearch(fs)
             IN  /\ VectorSearchAllows(out) = Wanted(fs)
                 /\ IF out.ret < 0 THEN Wanted(fs) = Docs
                                   ELSE ScanAllows(out) = Wanted(fs)
                 /\ DelDocByFilterTakes(out) \subseteq Wanted(fs)
  <2> DEFINE out == MultiSearch(fs)
             W == Wanted(fs)
  <2>1. Exact(out, W)
    BY MultiSearchIsExact
  <2>2. W \subseteq Docs
    BY DEF Wanted
  <2> HIDE DEF out, W
  <2>3. out.ret > 0 => W = {d \in Docs : out.all # << >> /\ AllHave(out, d)}
    BY <2>1, <2>2 DEF Exact
  <2>4. out.ret \in Int /\ (out.ret = 0 => W = {}) /\ (out.ret < 0 => W = Docs)
    BY <2>1 DEF Exact
  <2>5. VectorSearchAllows(out) = W
    BY <2>3, <2>4 DEF VectorSearchAllows
  <2>6. IF out.ret < 0 THEN W = Docs ELSE ScanAllows(out) = W
    BY <2>3, <2>4 DEF ScanAllows
  <2>7. DelDocByFilterTakes(out) \subseteq W
    BY <2>3, <2>4 DEF DelDocByFilterTakes
  <2> QED
    BY <2>5, <2>6, <2>7 DEF out, W
<1> QED
  BY <1>1, Zenon DEF VectorFilterIsExact, ScanIsExactOrUniversal,
                     DelDocByFilterTakesOnlyMatches

\* Filters keep their meaning in the three uses of an answer: a vector search
\* accepts exactly the documents asked for, a scan too unless all of them are,
\* and a deletion takes no other, for every set of documents and values, every
\* list of filters, and nodes of either form.
THEOREM FiltersAreExact ==
  QSpec => [](VectorFilterIsExact /\ ScanIsExactOrUniversal
              /\ DelDocByFilterTakesOnlyMatches)
  BY FiltersKeep, PostingsHold, PTL

\* So they do beside the columns and the cache, as the run checks them.
THEOREM FiltersKeepMeaning == StoresSpec => []FiltersKeepTheirMeaning
<1>1. StoresInit => PostingsInv
  BY InitPostings DEF StoresInit
<1>2. PostingsInv /\ [StoresNext]_<<part, columnVars, cacheVars, qvars>> => PostingsInv'
  <2> SUFFICES ASSUME PostingsInv,
                      [StoresNext]_<<part, columnVars, cacheVars, qvars>>
               PROVE  PostingsInv'
    OBVIOUS
  <2>1. ASSUME NEW k \in Keys, NEW d \in Docs, IndexDoc(k, d) \/ UnindexDoc(k, d)
        PROVE  PostingsInv'
    BY <2>1, IndexDocKeeps, UnindexDocKeeps
  <2>2. CASE UNCHANGED qvars
    BY <2>2 DEF qvars, PostingsInv, QTypeOK, NodesHoldTheirDocs
  <2>3. StoresNext => QNext \/ UNCHANGED qvars
    BY DEF StoresNext, OnlyColumns, OnlyBlocks, OnlyFilters
  <2> QED
    BY <2>1, <2>2, <2>3 DEF QNext
<1>3. PostingsInv => FiltersKeepTheirMeaning
  BY FiltersKeep DEF FiltersKeepTheirMeaning, SearchesKeepFilters, ScansKeepFilters,
                     DeletesKeepFilters, PostingsInv
<1> QED
  BY <1>1, <1>2, <1>3, PTL DEF StoresSpec
=============================================================================
