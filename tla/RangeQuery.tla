----------------------------- MODULE RangeQuery ----------------------------
(***************************************************************************)
(* Filters answered from the range index: FieldRangeIndex::Search over the *)
(* nodes of one field, MultiFieldsRangeIndex::Search and Intersect over a  *)
(* list of filters, RangeQueryResult::Has, and the ways the engine uses an *)
(* answer, over every state of the nodes that RangePostings reaches.       *)
(*                                                                         *)
(* A filter is a record [field, items, op].  On a numeric field items are  *)
(* the values between the two bounds, on a string field the tags of the    *)
(* filter's value, in the order utils::split returns them.                 *)
(***************************************************************************)
EXTENDS RangePostings, FiniteSetsExt, SequencesExt

CONSTANTS
  Numeric,     \* the numeric fields; the other fields hold strings
  FilterLists  \* the lists of filters a request may carry

IsFilter(f) == /\ f = [field |-> f.field, items |-> f.items, op |-> f.op]
               /\ f.items \in Seq(ToSet(f.items))

ASSUME FilterAssumption ==
  /\ IntMax > 0
  /\ IsFiniteSet(Keys)
  /\ \A k \in Keys : k = <<k[1], k[2]>>
  /\ \A fs \in FilterLists :
       fs \in Seq(ToSet(fs)) /\ \A i \in DOMAIN fs : IsFilter(fs[i])

----------------------------------------------------------------------------
(* Answers.  all is the list MultiRangeQueryResults keeps.                 *)

Nothing == [ret |-> 0, lo |-> 0, hi |-> -1, num |-> 0, bits |-> {},
            notIn |-> FALSE]

\* The nodes a filter's items reach.
Reached(f) == {k \in DOMAIN node : k[1] = f.field /\ k[2] \in ToSet(f.items)}

Sizes(K) == MapThenSumSet(LAMBDA k : node[k].size, K)

Bits(K) == UNION {Members(node[k]) : k \in K}

\* Search(lower, upper): the range spans every node, emptied ones included.
RangeSearch(f) ==
  LET K  == Reached(f)
      mn == Min({IntMax} \cup {node[k].min : k \in K})
      mx == Max({0} \cup {node[k].max : k \in K})
  IN  IF mx - mn + 1 <= 0 THEN Nothing
      ELSE [ret |-> mx - mn + 1, num |-> Sizes(K), bits |-> Bits(K),
            lo |-> Min({node[k].lo : k \in K}),
            hi |-> Max({node[k].hi : k \in K}), notIn |-> FALSE]

\* Search(tags): the range spans the nodes that hold a document.
Held(f) == {k \in Reached(f) : node[k].size > 0}

TagSearch(f) ==
  LET lo == Min({IntMax} \cup {node[k].lo : k \in Held(f)})
      hi == Max({0} \cup {node[k].hi : k \in Held(f)})
  IN  IF hi - lo + 1 <= 0 THEN Nothing
      ELSE [ret |-> Sizes(Reached(f)), num |-> Sizes(Reached(f)),
            bits |-> Bits(Reached(f)), lo |-> lo, hi |-> hi, notIn |-> FALSE]

Search(f) == IF f.field \in Numeric THEN RangeSearch(f) ELSE TagSearch(f)

\* Mutant: an id outside the range is refused, negated or not.
HasInRange(r, d) == IF d < r.lo \/ d > r.hi THEN FALSE
                                            ELSE (d \in r.bits) # r.notIn

\* RangeQueryResult::Has.
Has(r, d) == IF d < r.lo \/ d > r.hi THEN r.notIn
                                     ELSE (d \in r.bits) # r.notIn

\* Intersect: the common range, and the number of the first result.
Intersect(rs) ==
  LET lo == Max({rs[i].lo : i \in DOMAIN rs})
      hi == Min({rs[i].hi : i \in DOMAIN rs})
  IN  IF hi - lo + 1 <= 0 THEN Nothing
      ELSE [ret |-> rs[1].num, num |-> rs[1].num, lo |-> lo, hi |-> hi,
            bits |-> {d \in lo..hi : \A i \in DOMAIN rs : d \in rs[i].bits},
            notIn |-> FALSE]

\* Mutant: every filter keeps its list of tags.
SplitNothing(f) == <<f>>

\* A string filter that must carry every tag is split into one per tag.
Split(f) == IF f.field \notin Numeric /\ f.op = "And"
            THEN [i \in DOMAIN f.items |-> [f EXCEPT !.items = <<f.items[i]>>]]
            ELSE <<f>>

AsNot(r) == [r EXCEPT !.notIn = TRUE]

\* Mutant: an absent value answers nothing, negated or not.
OneEmpty(f) ==
  LET r == Search(f)
  IN  IF r.ret > 0
      THEN [ret |-> r.ret, all |-> <<IF f.op = "Not" THEN AsNot(r) ELSE r>>]
      ELSE [ret |-> r.ret, all |-> << >>]

One(f) ==
  LET r == Search(f)
  IN  IF r.ret > 0
      THEN [ret |-> r.ret, all |-> <<IF f.op = "Not" THEN AsNot(r) ELSE r>>]
      ELSE [ret |-> IF f.op = "Not" THEN -1 ELSE r.ret, all |-> << >>]

Finds(f) == Search(f).ret > 0

\* The answers of the negated filters, and of the others.
Nots(fs) ==
  FlattenSeq([i \in DOMAIN fs |-> IF Finds(fs[i]) /\ fs[i].op = "Not"
                                   THEN <<AsNot(Search(fs[i]))>> ELSE << >>])
Ands(fs) ==
  FlattenSeq([i \in DOMAIN fs |-> IF Finds(fs[i]) /\ fs[i].op # "Not"
                                   THEN <<Search(fs[i])>> ELSE << >>])

Many(fs) ==
  IF \E i \in DOMAIN fs : ~Finds(fs[i]) /\ fs[i].op # "Not"
  THEN [ret |-> 0, all |-> << >>]
  ELSE IF Ands(fs) = << >>
  THEN [ret |-> IF Nots(fs) # << >> THEN 1 ELSE -1, all |-> Nots(fs)]
  ELSE LET meet == Intersect(Ands(fs))
       IN  [ret |-> meet.ret, all |-> IF meet.ret > 0 THEN Append(Nots(fs), meet)
                                                      ELSE Nots(fs)]

\* MultiFieldsRangeIndex::Search.
MultiSearch(fs) ==
  LET split == FlattenSeq([i \in DOMAIN fs |-> Split(fs[i])])
  IN  IF Len(split) = 1 THEN One(split[1]) ELSE Many(split)

AllHave(out, d) == \A i \in DOMAIN out.all : Has(out.all[i], d)

\* A vector search drops the filter when it is negative, and asks
\* GammaSearchCondition::IsValid otherwise.
VectorSearchAllows(out) ==
  IF out.ret = 0 THEN {}
  ELSE IF out.ret < 0 THEN Docs
  ELSE {d \in Docs : out.all # << >> /\ AllHave(out, d)}

\* A search without vectors scans every document id with
\* MultiRangeQueryResults::Has, which is false of an empty list.
ScanAllows(out) ==
  IF out.ret = 0 THEN {} ELSE {d \in Docs : out.all # << >> /\ AllHave(out, d)}

\* DelDocByFilter deletes nothing when the answer is negative.
DelDocByFilterTakes(out) ==
  IF out.ret <= 0 THEN {} ELSE {d \in Docs : out.all # << >> /\ AllHave(out, d)}

\* ToDocs: the ids of one result after another, each over the common range.
ToDocs(out) ==
  LET lo == Max({0} \cup {out.all[i].lo : i \in DOMAIN out.all})
      hi == Min({IntMax} \cup {out.all[i].hi : i \in DOMAIN out.all})
      Ids(r) == SetToSortSeq({d \in lo..hi : Has(r, d)}, <)
  IN  FlattenSeq([i \in DOMAIN out.all |-> Ids(out.all[i])])

----------------------------------------------------------------------------
(* What the filters ask for, from what the documents carry.                *)

Carries(d, f, v) == <<f, v>> \in Keys /\ d \in docs[<<f, v>>]

Satisfies(d, f) ==
  LET any == \E i \in DOMAIN f.items : Carries(d, f.field, f.items[i])
  IN  IF f.op = "Not" THEN ~any
      ELSE IF f.op = "And" /\ f.field \notin Numeric
      THEN \A i \in DOMAIN f.items : Carries(d, f.field, f.items[i])
      ELSE any

Wanted(fs) == {d \in Docs : \A i \in DOMAIN fs : Satisfies(d, fs[i])}

----------------------------------------------------------------------------
(* Properties.                                                             *)

\* A vector search accepts exactly the documents the request's filters ask
\* for, through splitting, intersection and negation
\* (MultiFieldsRangeIndex::Search, Intersect, GammaSearchCondition::IsValid).
VectorFilterIsExact ==
  \A fs \in FilterLists : VectorSearchAllows(MultiSearch(fs)) = Wanted(fs)

\* A scan returns exactly the documents asked for unless every document is.
ScanIsExactOrUniversal ==
  \A fs \in FilterLists :
     LET out == MultiSearch(fs)
     IN  IF out.ret < 0 THEN Wanted(fs) = Docs ELSE ScanAllows(out) = Wanted(fs)

\* DelDocByFilter never deletes a document its filters do not ask for.
DelDocByFilterTakesOnlyMatches ==
  \A fs \in FilterLists : DelDocByFilterTakes(MultiSearch(fs)) \subseteq Wanted(fs)

(***************************************************************************)
(* Statements of the source that its code does not keep.                   *)
(***************************************************************************)

\* A negative answer stands for the "universal set" in every use: a scan
\* with it returns every document.
NegativeIsUniversal ==
  \A fs \in FilterLists : MultiSearch(fs).ret < 0 => ScanAllows(MultiSearch(fs)) = Docs

\* ToDocs returns "sorted docIDs".
ToDocsIsSorted ==
  \A fs \in FilterLists :
     LET ids == ToDocs(MultiSearch(fs))
     IN  \A i, j \in DOMAIN ids : i < j => ids[i] < ids[j]

\* A tag search merges only words that lie inside its result's bitmap.
MergesInsideBitmap ==
  \A fs \in FilterLists : \A i \in DOMAIN fs :
     fs[i].field \notin Numeric /\ TagSearch(fs[i]).ret > 0 =>
        LET r == TagSearch(fs[i])
        IN  \A k \in Reached(fs[i]) :
               node[k].dense => r.lo <= node[k].lo /\ node[k].hi <= r.hi
=============================================================================
