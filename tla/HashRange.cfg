SPECIFICATION Spec
CONSTANTS
  NumKeys = 3
  UserData = {3, 4, 5}
  NumNodes = 2
  BucketSizes = {0, 1}
  MaxBucketSize = 4
  QuietRehash = FALSE
INVARIANTS InRange
