----------------------------- MODULE MCAwaLocal -----------------------------
(* Documents and filters for small instances of AwaLocal. *)
EXTENDS AwaLocal

Plain == << >>
Numbered == <<<<"_id", "INT">>>>
Named == <<<<"_id", "STRING">>, <<"f", "INT">>>>
Tagged == <<<<"f", "LIST">>>>
TooBig == <<<<"f", "BIG">>>>
Placed == <<<<"f", "STRING">>, <<"v", "VECTOR">>>>

\* Each document alone, and pairs whose second one leans on the first; for the
\* tables beside the first one a few that create them or not.
MCDocLists ==
  [t \in Tables |->
     IF t = "t"
     THEN {<<d>> : d \in {Plain, Numbered, Named, Tagged, TooBig, Placed}}
            \cup {<<Plain, Numbered>>, <<Numbered, Placed>>}
     ELSE {<<Named>>, <<TooBig>>}]

Filter(which, kind) == [field |-> "f", kind |-> kind, bound |-> which]
MCFilterLists ==
  {<<Filter("upper", "INT"), Filter("lower", "INT"), Filter("value", "STRING")>>}
=============================================================================
