SPECIFICATION FairSpec
CONSTANTS
  NumProcessor = 2
  BufSize = 2
  Modes = {0, 1, 2}
  Results = {0}
  Pending = Pending
  MaxItems = 6
  MaxRuns = 1
INVARIANTS
  TypeOK
  CellExclusive
  StartAssert
PROPERTIES
  RunReturns
  ImplementsOrder
