--------------------------- MODULE MCRecordStore ---------------------------
(* Model values for RecordStore. *)
EXTENDS RecordStore, TLC
CONSTANTS v1, v2
ValueSymmetry == Permutations({v1, v2})
=============================================================================
