SPECIFICATION Spec
CONSTANTS
  NumProcessor = 1
  BufSize = 2
  Modes = {0}
  Results = {0}
  Pending = Pending
  FreshStatus = {"Null"}
  MaxItems = 2
  MaxRuns = 2
INVARIANTS
  ProcessorAssert
