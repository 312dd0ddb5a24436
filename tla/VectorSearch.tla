---------------------------- MODULE VectorSearch ----------------------------
(***************************************************************************)
(* A search by several vectors: VectorManager::Search asks the index of    *)
(* every vector field, takes out what an index lists twice, and merges the *)
(* lists into one answer, by intersection or union, with weights; the      *)
(* answer is ranked and cut to the number asked for.                       *)
(*                                                                         *)
(* What an index answers is any list it may return: documents that pass    *)
(* the filters, best first.  Distances are small integers; scores of an    *)
(* inner product stand for their multiples by total_boost, the same for    *)
(* all documents.  A request holds one vector per field.                   *)
(***************************************************************************)
EXTENDS Integers, Sequences, FiniteSets, SequencesExt

CONSTANTS
  SearchDocs,   \* documents
  SearchDists,  \* distances, or similarities
  SearchBoosts, \* weights of the fields, one list of them per request
  TopN,         \* documents asked for
  SameMetric    \* the request names the metric the index computes with

ASSUME SearchAssumption ==
  /\ IsFiniteSet(SearchDocs)
  /\ SearchDists \subseteq Nat
  /\ SearchBoosts \subseteq Seq(Nat) \ {<< >>}
  /\ TopN \in Nat \ {0}
  /\ SameMetric \in BOOLEAN

VARIABLE search  \* the call of Search and its answer

searchVars == <<search>>

NotSearching == [pc |-> "idle"]

\* What a request asks for.  Without weights it need not ask for a ranking.
Requests ==
  {q \in [boost : SearchBoosts, and : BOOLEAN, is_l2 : BOOLEAN,
          metric : {"L2", "InnerProduct"}, rank : BOOLEAN] :
     /\ SameMetric => (q.is_l2 <=> q.metric = "L2")
     /\ ~q.rank => \A j \in DOMAIN q.boost : q.boost[j] = 1}

\* InnerProductCmp, L2Cmp: x comes before y.
\* Mutant: every list is ranked by its distances.
BetterIfCloser(metric, x, y) == x < y

Better(metric, x, y) == IF metric = "L2" THEN x < y ELSE x > y

SearchInit == search = NotSearching

BeginSearch(q) ==
  /\ search.pc = "idle"
  /\ search' = [pc |-> "fields", query |-> q, hits |-> << >>]

\* Mutant: documents an index lists twice stay twice.
ParsedWithCopies(hits) == hits

\* parse_index_search_result: the first entry of every document stays.
KeepFirst(list, hit) ==
  IF \E i \in DOMAIN list : list[i].doc = hit.doc THEN list
  ELSE Append(list, hit)

Parsed(hits) == FoldLeft(KeepFirst, << >>, hits)

\* What an index may answer: it may list a document twice, best first.
IndexAnswers(metric) ==
  {hits \in UNION {[1 .. k -> [doc : SearchDocs, dist : SearchDists]] :
                     k \in 0 .. TopN} :
     \A i, j \in DOMAIN hits :
       i < j => ~Better(metric, hits[j].dist, hits[i].dist)}

\* The next field is searched in its index.
SearchField(hits) ==
  /\ search.pc = "fields"
  /\ Len(search.hits) < Len(search.query.boost)
  /\ search' = [search EXCEPT !.hits = Append(@, hits)]

----------------------------------------------------------------------------
(* The merge.                                                               *)

\* limit_value: the largest distance of a list, kept for L2 only.
Farther(far, hit) == IF hit.dist > far THEN hit.dist ELSE far

Limit(list, is_l2) == IF is_l2 THEN FoldLeft(Farther, 0, list) ELSE 0

Assign(f, x, v) == [y \in DOMAIN f \cup {x} |-> IF y = x THEN v ELSE f[y]]
ValueOr(f, x, default) == IF x \in DOMAIN f THEN f[x] ELSE default
Nothing == [d \in {} |-> 0]

\* Mutant: a document that is new starts with the limit of this list only.
NewScoreOfThis(merged, max) == max

\* A document that no list had so far starts with the limits of all of them.
NewScore(merged, max) == merged.accu

\* Entry i of the list of field j joins the scores; places is doc2vec_idx:
\* where a document is in the lists it is in.
Enter(q, j, max, merged, i, hit) ==
  LET d == hit.doc
  IN [merged EXCEPT
        !.score = Assign(@, d, ValueOr(@, d, NewScore(merged, max))
                                 - max + hit.dist * q.boost[j]),
        !.count = Assign(@, d, ValueOr(@, d, 0) + 1),
        !.places = Assign(@, d, Assign(ValueOr(@, d, Nothing), j, i))]

\* A document that is not in a list takes the largest distance of the list
\* (union, L2).
MaxScore(q, j, list) ==
  IF ~q.and /\ q.is_l2 THEN q.boost[j] * Limit(list, q.is_l2) ELSE 0

\* VectorResult::logic_op: the list of field j joins the scores.
LogicOp(q, merged, j, list) ==
  LET max == MaxScore(q, j, list)
      lifted == [merged EXCEPT
                   !.score = [d \in DOMAIN @ |-> @[d] + max],
                   !.accu = @ + max]
  IN FoldLeft(LAMBDA m, i : Enter(q, j, max, m, i, list[i]), lifted,
              [i \in DOMAIN list |-> i])

\* All lists, in the order of the fields.
Unmerged == [score |-> Nothing, count |-> Nothing, places |-> Nothing,
             accu |-> 0]
Merged(q, hits) ==
  FoldLeft(LAMBDA m, j : LogicOp(q, m, j, Parsed(hits[j])), Unmerged,
           [j \in DOMAIN hits |-> j])

\* The documents of the answer: those in every list, or in any.
Kept(q, merged) ==
  IF q.and THEN {d \in DOMAIN merged.count :
                   merged.count[d] = Len(q.boost)}
  ELSE DOMAIN merged.score

\* Mutant: a union has room for one list.
SlotsOfOne(q) == TopN

\* GammaResult::init: the documents an answer has room for.
Slots(q) == IF q.and \/ Len(q.boost) = 1 THEN TopN ELSE TopN * Len(q.boost)

\* The answer's documents in the order of a hash map, or ranked.
Orders(q, merged) ==
  {s \in SetToSeqs(Kept(q, merged)) :
     q.rank => \A i, j \in DOMAIN s :
       i < j => ~Better(q.metric, merged.score[s[j]], merged.score[s[i]])}

\* Mutant: the smallest total is looked for and never found.
TotalOfNone(q, answer) ==
  IF q.and /\ answer # << >> THEN 2147483647 ELSE Cardinality(SearchDocs)

\* total is doc_num unless an intersection is not empty: the lists' own
\* totals, which nothing sets, replace it.
Total(q, answer) ==
  IF q.and /\ answer # << >> THEN 0 ELSE Cardinality(SearchDocs)

\* Mutant: every field is given the weight of the first.
FieldOfFirst(q, hits, j, place) == Parsed(hits[j])[place].dist * q.boost[1]

\* The score of a field of the answer.
FieldOf(q, hits, j, place) == Parsed(hits[j])[place].dist * q.boost[j]

\* The answer is written.
Answer(answer, total) ==
  search' = [pc |-> "answer", query |-> search.query, hits |-> search.hits,
             answer |-> answer, total |-> total]

\* Several fields.
MergeFields(order, merged) ==
  LET q == search.query
      answer == [i \in DOMAIN order |->
                   [doc |-> order[i], score |-> merged.score[order[i]],
                    fields |-> LET at == merged.places[order[i]]
                               IN [j \in DOMAIN at |->
                                     FieldOf(q, search.hits, j, at[j])]]]
  IN Answer(answer, Total(q, answer))

\* One field: the list is the answer.
TakeList ==
  LET list == Parsed(search.hits[1])
      answer == [i \in DOMAIN list |->
                   LET s == list[i].dist * search.query.boost[1]
                   IN [doc |-> list[i].doc, score |-> s,
                       fields |-> [j \in {1} |-> s]]]
  IN Answer(answer, Cardinality(SearchDocs))

Merge ==
  /\ search.pc = "fields"
  /\ Len(search.hits) = Len(search.query.boost)
  /\ IF Len(search.hits) = 1 THEN TakeList
     ELSE LET merged == Merged(search.query, search.hits)
          IN \E order \in Orders(search.query, merged) :
               MergeFields(order, merged)

\* SearchCall: at most as many documents as were asked for are sent.
Sent == SubSeq(search.answer, 1,
               IF Len(search.answer) < TopN THEN Len(search.answer) ELSE TopN)

Reply ==
  /\ search.pc = "answer"
  /\ search' = NotSearching

SearchNext ==
  \/ \E q \in Requests : BeginSearch(q)
  \/ /\ search.pc = "fields"
     /\ \E hits \in IndexAnswers(search.query.metric) : SearchField(hits)
  \/ Merge
  \/ Reply

SearchSpec == SearchInit /\ [][SearchNext]_searchVars

----------------------------------------------------------------------------
(* Properties.                                                              *)

SearchTypeOK ==
  /\ search.pc \in {"idle", "fields", "answer"}
  /\ search.pc # "idle" => search.query \in Requests
  /\ search.pc = "answer" =>
       /\ search.total \in 0 .. Cardinality(SearchDocs)
       /\ \A i \in DOMAIN search.answer :
            /\ search.answer[i].doc \in SearchDocs
            /\ search.answer[i].score \in Nat

HasAnswer == search.pc = "answer"

AnswerDocs == {e.doc : e \in ToSet(search.answer)}

\* The documents of the list of field j, and the distance of one of them: the
\* first the index listed.
Listed(j) == {e.doc : e \in ToSet(search.hits[j])}
DistIn(j, d) ==
  search.hits[j][CHOOSE i \in DOMAIN search.hits[j] :
                   /\ search.hits[j][i].doc = d
                   /\ \A k \in 1 .. (i - 1) : search.hits[j][k].doc # d].dist

\* An answer is the intersection or the union of what the indexes list, each
\* document once, whatever they list twice (vector_manager.cc:395).
AnswersAreTheOperation ==
  HasAnswer =>
    /\ AnswerDocs = {d \in SearchDocs :
                       LET has == {j \in DOMAIN search.hits : d \in Listed(j)}
                       IN IF search.query.and THEN has = DOMAIN search.hits
                          ELSE has # {}}
    /\ Cardinality(AnswerDocs) = Len(search.answer)

\* The loops write the documents of an answer without a test of its room.
AnswersFitTheirSlots == HasAnswer => Len(search.answer) <= Slots(search.query)

\* The score of a field of the answer is that of this document in the list of
\* this field: the places kept in doc2vec_idx are right.
FieldScoresAreOwn ==
  HasAnswer =>
    \A e \in ToSet(search.answer) :
      /\ DOMAIN e.fields = {j \in DOMAIN search.hits : e.doc \in Listed(j)}
      /\ \A j \in DOMAIN e.fields :
           e.fields[j] = DistIn(j, e.doc) * search.query.boost[j]

\* A document of the answer that is in all lists, and in none farther than
\* another one, is not scored behind it: what is added for a list without a
\* document must not make it better (common_query_data.h:140).
ListedBeatUnlisted ==
  HasAnswer /\ search.query.metric = "L2" =>
    \A x, y \in ToSet(search.answer) :
      /\ DOMAIN x.fields = DOMAIN search.hits
      /\ \A j \in DOMAIN y.fields : x.fields[j] <= y.fields[j]
      => x.score <= y.score

\* Whoever asks for a ranking is sent documents no other document of the
\* merged lists beats.
BestAreSent ==
  HasAnswer /\ search.query.rank =>
    \A x \in ToSet(Sent), y \in ToSet(search.answer) \ ToSet(Sent) :
      IF search.query.metric = "L2" THEN x.score <= y.score
      ELSE x.score >= y.score

\* A merged answer: the documents its operation asks for, in slots that exist,
\* each with the scores of its own lists.
SearchInv ==
  /\ SearchTypeOK
  /\ AnswersAreTheOperation
  /\ AnswersFitTheirSlots
  /\ FieldScoresAreOwn

\* A merged ranking: documents of more lists come first, and the best are sent.
RankingIsKept ==
  /\ ListedBeatUnlisted
  /\ BestAreSent
=============================================================================
