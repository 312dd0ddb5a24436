CONSTANTS
  Word = 64
  IntMax = 1000
  Spread = 100
  Rise <- MCRise
  Fall <- MCFall
  Values = {v1, v2}
  NoValue = NoValue
  MaxDocs = 2
  MaxUpdates = 3
  Column = FALSE
  MigKeys = {k1, k2}
  MaxRows = 3
  MaxChanges = 2
  MaxBegins = 1
  IndexingSize = 2
  MaxStored = 4
  MaxFailures = 2
  ByteBits = 2
  FirstBits = 2
  BatchSizes = {1}
  MaxAdded = 6
  MaxFlips = 4
  MaxEnds = 2
  a = a
  b = b
  c = c
  Words = {a, b, c}
  TextQueries <- MCTextQueries
  MaxTextDocs = 4
SPECIFICATION PartsSpec
INVARIANT QueueInv
 
INVARIANT BitmapInv
INVARIANT TextInv
PROPERTY MigrationIsExact
PROPERTY PartsProgress
CHECK_DEADLOCK FALSE
