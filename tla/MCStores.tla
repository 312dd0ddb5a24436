------------------------------ MODULE MCStores ------------------------------
(* Small instances of ColumnFields, BlockCache and RangeQuery, each on its own: *)
(* what documents and filters read.                                             *)
EXTENDS ColumnFields, BlockCache, MCRangeQuery

(* Find against its meaning, for every ascending entry of up to seven ids: it *)
(* halves the entry without leaving out a place.                              *)
ASSUME FindIsExact ==
  \A ids \in SUBSET (1 .. 7), fid \in 0 .. 8 :
    LET entry == [n \in 1 .. Cardinality(ids) |->
                    [fid |-> CHOOSE i \in ids :
                               Cardinality({j \in ids : j < i}) = n - 1]]
    IN  IF fid \in ids THEN entry[Find(entry, fid)].fid = fid
        ELSE Find(entry, fid) = 0

VARIABLE part  \* the component of this behaviour

CONSTANTS r1, r2

OnlyColumns == part = "columns" /\ UNCHANGED <<part, cacheVars, qvars>>
OnlyBlocks == part = "blocks" /\ UNCHANGED <<part, columnVars, qvars>>
OnlyFilters == part = "filters" /\ UNCHANGED <<part, columnVars, cacheVars>>

StoresInit ==
  /\ ColumnInit /\ CacheInit /\ QInit
  /\ \/ part \in {"columns", "filters"} /\ \A size \in CacheSizes : cacheSize <= size
     \/ part = "blocks"

StoresNext ==
  \/ OnlyColumns /\ ColumnNext
  \/ OnlyBlocks /\ CacheNext
  \/ OnlyFilters /\ QNext /\ MCFewElsewhere'

StoresSpec ==
  /\ StoresInit /\ [][StoresNext]_<<part, columnVars, cacheVars, qvars>>
  /\ ColumnFairness /\ CacheFairness

(* The properties of RangeQuery, asked of the states of its part only. *)

\* A vector search keeps exactly the documents its filters ask for.
SearchesKeepFilters == part = "filters" => VectorFilterIsExact

\* A scan does, unless every document is asked for.
ScansKeepFilters == part = "filters" => ScanIsExactOrUniversal

\* A deletion by filters takes no other document.
DeletesKeepFilters == part = "filters" => DelDocByFilterTakesOnlyMatches

\* Filters mean the same in the three uses of an answer.
FiltersKeepTheirMeaning ==
  /\ QTypeOK
  /\ SearchesKeepFilters
  /\ ScansKeepFilters
  /\ DeletesKeepFilters

\* The flush thread catches up, and no read of a block waits for ever.
StoresProgress ==
  /\ FlushCatchesUp
  /\ BlockReadsReturn
=============================================================================
