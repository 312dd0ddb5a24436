-------------------------- MODULE MCVectorIndexing --------------------------
EXTENDS VectorIndexing, SequencesExt

MCThreeVids == 0 .. 2
MCTwoVids == 0 .. 1

\* With two buckets every version of a vector belongs to the other bucket than
\* the one before, and the first versions share a bucket.
MCBucket == [vec \in Vectors |-> Version(vec) % Cardinality(Buckets)]

\* Bounds: two updates and one delete in all, and no searches once nothing is
\* claimed.
MCFewChanges ==
  /\ FoldSeq(LAMBDA version, updates : updates + version - 1, 0, raw) <= 2
  /\ Cardinality(deleted) <= 1
  /\ Claimed \/ \A r \in Readers : readers[r].pc = "idle"
=============================================================================
