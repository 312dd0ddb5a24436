---------------------------- MODULE MCRangeQuery ----------------------------
EXTENDS RangeQuery

\* One numeric field "n" with the value 1, one string field "s" with two tags.
MCKeys    == {<<"n", 1>>, <<"s", 1>>, <<"s", 2>>}
MCNumeric == {"n"}

\* Documents in different bitmap words of two bits, one above the words that
\* a bitmap of the others covers.
MCDocs == {0, 5, 9}

\* Thresholds that a node of two documents crosses both ways.
MCRise == <<1, 6>>
MCFall == <<1, 8>>

\* Bound: every document carries the first tag in turn, fewer the other keys.
MCFewElsewhere == docs[<<"s", 2>>] \subseteq {0, 5} /\ docs[<<"n", 1>>] \subseteq {5}

Filter(field, items, op) == <<[field |-> field, items |-> items, op |-> op]>>

MCSingles ==
  {Filter("n", <<1>>, "And"), Filter("n", <<2>>, "And"), Filter("n", <<1>>, "Not"),
   Filter("s", <<1>>, "Or"), Filter("s", <<2>>, "Not"), Filter("s", <<1, 2>>, "Or"),
   Filter("s", <<2, 1>>, "And"), Filter("s", <<1, 2>>, "Not")}

MCFilterLists == MCSingles \cup {a \o b : a, b \in MCSingles}
=============================================================================
