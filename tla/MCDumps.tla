------------------------------ MODULE MCDumps ------------------------------
(* What the next process finds, each part on its own: the documents of an   *)
(* engine with deletes by query and an index, and the dumps of the index.   *)
EXTENDS DocEngine, IndexDump
CONSTANTS k1, k2, v1

\* An updated vector moves to another bucket.
MCBucketOf == <<1, 2>>

VARIABLE part  \* the component of this behaviour

OnlyDocs == part = "documents" /\ UNCHANGED <<part, indexDumpVars>>
OnlyDumps == part = "dumps" /\ UNCHANGED <<part, vars>>

DumpsInit == Init /\ IndexDumpInit /\ part \in {"documents", "dumps"}

DumpsNext ==
  \/ OnlyDocs /\ Next
  \/ OnlyDumps /\ IndexDumpNext

DumpsSpec == DumpsInit /\ [][DumpsNext]_<<part, vars, indexDumpVars>>
=============================================================================
