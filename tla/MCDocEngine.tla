---------------------------- MODULE MCDocEngine ----------------------------
(* What an engine keeps and answers, each part on its own: its documents,   *)
(* and the merge of a search by several vectors.                            *)
EXTENDS DocEngine, VectorSearch
CONSTANTS k1, k2, v1, v2

\* One field, two without weights, three with.
MCSearchBoosts == {<<1>>, <<1, 1>>, <<2, 1, 1>>}

VARIABLE part  \* the component of this behaviour

OnlyDocuments == part = "documents" /\ UNCHANGED <<part, searchVars>>
OnlySearch == part = "search" /\ UNCHANGED <<part, vars>>

MCInit == Init /\ SearchInit /\ part \in {"documents", "search"}

MCNext ==
  \/ OnlyDocuments /\ Next
  \/ OnlySearch /\ SearchNext

MCSpec == MCInit /\ [][MCNext]_<<part, vars, searchVars>>
=============================================================================
