SPECIFICATION FairSpec
CONSTRAINT MCFewChanges
CONSTANTS
  Vids <- MCThreeVids
  Versions = {1, 2, 3}
  Buckets = {0, 1}
  BucketKeys = 1
  KeysLimit = 4
  Slack = 0
  r1 = r1
  Readers = {r1}
  Bucket <- MCBucket
  BatchSize = 2
  UpdateBatch = 2
  IndexingSize = 2
INVARIANT VectorInv
INVARIANT LiveVectorsAreListedOnce
INVARIANT FreshOrPending
INVARIANT ScansAreSound
PROPERTY VectorsGetIndexed
