SPECIFICATION Spec
CONSTANTS
  Vids <- MCTwoVids
  Versions = {1, 2}
  Buckets = {0}
  BucketKeys = 2
  KeysLimit = 8
  Slack = 0
  Readers = {}
  Bucket <- MCBucket
  BatchSize = 2
  UpdateBatch = 2
  IndexingSize = 1
INVARIANT CodesBelongToTheirIds
CHECK_DEADLOCK FALSE
