SPECIFICATION MCSpec
CONSTANTS
  k1 = k1
  k2 = k2
  v1 = v1
  v2 = v2
  Keys = {k1, k2}
  Versions = {v1, v2}
  Missing = Missing
  None = None
  BadVectors = FALSE
  QueryDeletes = FALSE
  LateDeletes = FALSE
  Indexes = FALSE
  MaxDocs = 3
  MaxBatch = 2
  MaxStops = 1
  SearchDocs = {d1, d2, d3}
  SearchDists = {1, 2}
  SearchBoosts <- MCSearchBoosts
  TopN = 2
  SameMetric = TRUE
INVARIANT DocInv
 
INVARIANT SearchInv
INVARIANT RankingIsKept
PROPERTY ImplementsDocMap
