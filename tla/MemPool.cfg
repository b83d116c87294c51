SPECIFICATION Spec
CONSTANTS
  MaxTypeNum = 2
  BlockNum = 2
  Span = 2
  BlockSize = 2
  Sizes = {1, 2}
  MaxDirty = 1
  UsedLengths = {"length", "default"}
  MaxDrift = 1
  MaxLent = 3
INVARIANTS
  TypeOK
  DataIntact
  Accounting
PROPERTIES
  ImplementsAllocator
