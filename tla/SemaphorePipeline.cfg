SPECIFICATION FairSpec
CONSTANTS
  NumProcessor = 2
  BufSize = 2
  Modes = {0, 1, 2}
  Results = {0, 1}
  Pending = Pending
  FreshStatus = {"Null"}
  MaxItems = 5
  MaxRuns = 1
INVARIANTS
  TypeOK
  ProcessorAssert
  ConsumerAssert
PROPERTIES
  RunReturns
  ImplementsPipeline
