SPECIFICATION Spec
CONSTANTS
  NumKeys = 3
  UserData = {3, 4, 5, 6}
  NumNodes = 3
  BucketSizes = {0, 1, 2}
  MaxBucketSize = 2
  QuietRehash = TRUE
INVARIANTS
  TypeOK
  ChainSound
  IterationComplete
  SeekSound
PROPERTIES
  SeekReturns
