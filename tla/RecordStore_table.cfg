SPECIFICATION FairSpec
CONSTANTS
  v1 = v1
  v2 = v2
  Values = {v1, v2}
  NoRow = NoRow
  SegSize = 2
  BulkSize = 3
  RunSize = 2
  QueueCap = 2
  Readers = {r1}
  UpdateWaits = TRUE
  TruncateDrops = FALSE
  MaxRows = 3
  MaxStops = 2
INVARIANT TypeOK
INVARIANT FlushedRowsAreCurrent
INVARIANT PendingIsTheTail
INVARIANT NoRowFromNowhere
PROPERTY ImplementsDurableLog
PROPERTY RowsReachReaders
