\* run() can hang here: the run shows it as a violation of RunReturns
SPECIFICATION FairSpec
CHECK_DEADLOCK FALSE
CONSTANTS
  NumProcessor = 2
  BufSize = 1
  Results = {0}
  Pending = Pending
  FreshStatus = {"Null", "Waiting"}
  MaxItems = 1
  MaxRuns = 1
PROPERTIES
  RunReturns
