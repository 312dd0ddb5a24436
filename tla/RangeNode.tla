----------------------------- MODULE RangeNode -----------------------------
(***************************************************************************)
(* The posting node of the range index (class Node in                      *)
(* table/field_range_index.cc): the ids of the documents that carry one    *)
(* value of one indexed field.  A node is sparse (an array of ids in the   *)
(* order they were added) or dense (a bitmap over a word-aligned range),   *)
(* and Add converts it when the ids it holds are spread wide and their     *)
(* density crosses a threshold.                                            *)
(*                                                                         *)
(* Only operators on node values are here; RangeQuery builds searches from *)
(* them and RangeIndex the queue of operations that maintains them.        *)
(***************************************************************************)
EXTENDS Integers, Sequences, FiniteSets

CONSTANTS
  Word,       \* bits of a bitmap word, sizeof(BM_OPERATE_TYPE) * 8 in the code
  IntMax,     \* std::numeric_limits<int>::max(), above every document id
  Spread,     \* a node is converted only when max - min exceeds this (100000)
  Rise,       \* <<n, d>>: sparse becomes dense above density n/d (1/10)
  Fall        \* <<n, d>>: dense becomes sparse below density n/d (8/100)

ASSUME NodeAssumption ==
  /\ Word \in Nat \ {0}
  /\ IntMax \in Nat
  /\ Spread \in Nat
  /\ Rise \in Nat \X (Nat \ {0})
  /\ Fall \in Nat \X (Nat \ {0})

Lesser(a, b)  == IF a < b THEN a ELSE b
Greater(a, b) == IF a > b THEN a ELSE b

\* First and last bit of the bitmap word that holds bit v.
WordStart(v) == (v \div Word) * Word
WordEnd(v)   == (v \div Word + 1) * Word - 1

NewNode == [dense |-> FALSE, list |-> << >>, bits |-> {}, size |-> 0,
            min |-> IntMax, max |-> -1, lo |-> IntMax, hi |-> -1]

\* The ids a reader of the node finds.
Members(n) == IF n.dense THEN n.bits ELSE {n.list[i] : i \in 1..Len(n.list)}

\* Mutant: a bitmap enlarged upwards starts without the old bits.
AddDenseNoCopy(n, v) ==
  IF n.size = 0
  THEN [n EXCEPT !.bits = {v}, !.size = 1, !.min = v, !.max = v,
                 !.lo = WordStart(v), !.hi = WordEnd(v)]
  ELSE [n EXCEPT !.bits = IF v > n.hi THEN {v} ELSE @ \cup {v},
                 !.size = @ + 1, !.min = Lesser(@, v), !.max = Greater(@, v),
                 !.lo = IF v < @ THEN WordStart(v) ELSE @,
                 !.hi = IF v > @ THEN (v \div Word + 1) * Word * 2 - 1
                                 ELSE @]

(***************************************************************************)
(* AddDense: an empty node gets a fresh bitmap of one word; an id below or *)
(* above the bitmap's range moves the bits to a larger one, upwards with   *)
(* twice the words that are needed.                                        *)
(***************************************************************************)
AddDense(n, v) ==
  IF n.size = 0
  THEN [n EXCEPT !.bits = {v}, !.size = 1, !.min = v, !.max = v,
                 !.lo = WordStart(v), !.hi = WordEnd(v)]
  ELSE [n EXCEPT !.bits = @ \cup {v}, !.size = @ + 1,
                 !.min = Lesser(@, v), !.max = Greater(@, v),
                 !.lo = IF v < @ THEN WordStart(v) ELSE @,
                 !.hi = IF v > @ THEN (v \div Word + 1) * Word * 2 - 1
                                 ELSE @]

\* AddSparse: append; the aligned range widens by whole words.
AddSparse(n, v) ==
  [n EXCEPT !.list = Append(@, v), !.size = @ + 1,
            !.min = Lesser(@, v), !.max = Greater(@, v),
            !.lo = IF v < @ THEN WordStart(v) ELSE @,
            !.hi = IF v > @ THEN WordEnd(v) ELSE @]

\* ConvertToSparse: the set bits, at most size of them.  The code lists them
\* in ascending order; nothing depends on the order of a list.
Listing(S) == CHOOSE s \in [1..Cardinality(S) -> S] :
                /\ \A i, j \in 1..Cardinality(S) : s[i] = s[j] => i = j
                /\ \A v \in S : \E i \in 1..Cardinality(S) : s[i] = v

ConvertToSparse(n) ==
  [n EXCEPT !.dense = FALSE, !.bits = {},
            !.list = SubSeq(Listing(n.bits), 1,
                            Lesser(n.size, Cardinality(n.bits)))]

\* ConvertToDense: the listed ids inside the aligned range, as bits.
ConvertToDense(n) ==
  [n EXCEPT !.dense = TRUE, !.list = << >>,
            !.bits = {v \in Members(n) : v >= n.lo /\ v <= n.hi}]

\* size / (max - min) compared with a threshold; max - min > Spread >= 0.
Above(n, limit) == n.size * limit[2] > limit[1] * (n.max - n.min)
Below(n, limit) == n.size * limit[2] < limit[1] * (n.max - n.min)
Wide(n) == n.max - n.min > Spread

AddNode(n, v) ==
  IF n.dense
  THEN IF Wide(n) /\ Below(n, Fall) THEN AddSparse(ConvertToSparse(n), v)
                                    ELSE AddDense(n, v)
  ELSE IF Wide(n) /\ Above(n, Rise) THEN AddDense(ConvertToDense(n), v)
                                    ELSE AddSparse(n, v)

\* Mutant: the bit is cleared and the count left alone.
DeleteDenseNoCount(n, v) ==
  IF v < n.lo \/ v > n.hi THEN n ELSE [n EXCEPT !.bits = @ \ {v}]

(***************************************************************************)
(* DeleteDense clears the bit and counts down, whether or not the bit was  *)
(* set, when v lies in the bitmap's range; DeleteSparse removes the first  *)
(* occurrence of v.  Neither narrows the ranges.                           *)
(***************************************************************************)
DeleteDense(n, v) ==
  IF v < n.lo \/ v > n.hi THEN n
  ELSE [n EXCEPT !.bits = @ \ {v}, !.size = @ - 1]

FirstAt(s, v) == CHOOSE i \in 1..Len(s) :
                   s[i] = v /\ \A j \in 1..(i - 1) : s[j] # v

DeleteSparse(n, v) ==
  IF v \notin Members(n) THEN n
  ELSE LET i == FirstAt(n.list, v)
       IN  [n EXCEPT !.list = [j \in 1..(Len(n.list) - 1) |->
                                 IF j < i THEN n.list[j] ELSE n.list[j + 1]],
                     !.size = @ - 1]

DeleteNode(n, v) == IF n.dense THEN DeleteDense(n, v) ELSE DeleteSparse(n, v)

(***************************************************************************)
(* What every node reached by adding absent ids and deleting present ones  *)
(* satisfies: the count is exact and whole words cover the ids.            *)
(***************************************************************************)
NodeType == [dense : BOOLEAN, list : Seq(Nat), bits : SUBSET Nat, size : Nat,
             min : Nat, max : Nat \cup {-1}, lo : Nat, hi : Nat \cup {-1}]

ListedOnce(n) == \A i, j \in 1..Len(n.list) : n.list[i] = n.list[j] => i = j

CountIsExact(n) == n.size = IF n.dense THEN Cardinality(n.bits)
                                       ELSE Len(n.list)

Aligned(x) == \E j \in 0..x : x = j * Word

RangesCover(n) ==
  /\ \A v \in Members(n) : n.min <= v /\ v <= n.max
  /\ IF n.hi = -1
     THEN n.size = 0 /\ n.lo = IntMax /\ n.min = IntMax /\ n.max = -1
     ELSE /\ Aligned(n.lo) /\ Aligned(n.hi + 1)
          /\ n.lo <= n.min /\ n.min <= n.max /\ n.max <= n.hi

\* A bitmap has no array beside it and an array no bitmap.
OneForm(n) == IF n.dense THEN n.list = << >> /\ IsFiniteSet(n.bits) /\ n.hi # -1
                         ELSE n.bits = {}

NodeInv(n) ==
  n \in NodeType /\ OneForm(n) /\ ListedOnce(n) /\ CountIsExact(n) /\ RangesCover(n)
=============================================================================
