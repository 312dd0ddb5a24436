SPECIFICATION DumpsSpec
CONSTANTS
  k1 = k1
  k2 = k2
  v1 = v1
  Keys = {k1, k2}
  Versions = {v1}
  Missing = Missing
  None = None
  BadVectors = FALSE
  QueryDeletes = TRUE
  LateDeletes = TRUE
  Indexes = TRUE
  MaxDocs = 3
  MaxBatch = 2
  MaxStops = 1
  MaxVectors = 2
  BucketOf <- MCBucketOf
  MaxDumps = 2
  MaxProcesses = 3
  SameSecond = FALSE
INVARIANT KeysNameTheirDocs
INVARIANT IndexWithinVectors
 
INVARIANT NoVectorIsSkipped
CHECK_DEADLOCK FALSE
