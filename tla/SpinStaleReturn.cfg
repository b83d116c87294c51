SPECIFICATION Spec
CONSTANTS
  NumProcessor = 2
  BufSize = 2
  Modes = {0, 1}
  Results = {0, 1}
  Pending = Pending
  MaxItems = 2
  MaxRuns = 1
INVARIANTS
  ReturnDelivered
