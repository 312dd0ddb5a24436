CONSTANTS
  Fields = {"price", "tags"}
  Lists = {"tags"}
  SchemaFields = 1
  BlockDocs = 1
  MaxNewFields = 2
  MaxDocs = 3
  MaxCrashes = 1
  r1 = r1
  r2 = r2
  Blocks = {"k1", "k2", "k3"}
  BlockReaders = {r1, r2}
  CacheSizes = {1, 2}
  OverflowShare = 2
  PoolSpare = 0
  HitsToMove = 0
  UpdatedBlocks = {"k1"}
  MaxUpdates = 1
  Word = 2
  IntMax = 100
  Spread = 2
  Rise <- MCRise
  Fall <- MCFall
  Docs <- MCDocs
  Keys <- MCKeys
  Numeric <- MCNumeric
  FilterLists <- MCFilterLists
SPECIFICATION StoresSpec
INVARIANT ColumnInv
 
INVARIANT NodesHoldTheirDocs
 
 
PROPERTY StoresProgress
CHECK_DEADLOCK FALSE
