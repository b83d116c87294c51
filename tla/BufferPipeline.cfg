SPECIFICATION FairSpec
CONSTANTS
  NumProcessor = 2
  BufSize = 2
  Results = {0, 1}
  Pending = Pending
  FreshStatus = {"Null"}
  MaxItems = 5
  MaxRuns = 2
INVARIANTS
  TypeOK
  BufferExclusive
  CleanWhenIdle
PROPERTIES
  RunReturns
  ImplementsPipeline
