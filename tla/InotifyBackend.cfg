SPECIFICATION Spec
CONSTANTS
  a = a
  b = b
  Ids = {1, 2}
  Names <- Letters
  Paths <- Chain
  Files <- NoFiles
  InitialTree <- OnlyRoot
  RootOf <- NestedRoots
  Recursive = {1, 2}
  Wanted <- DirsForAll
  MaxDiscoveryDepth = 1
  KernelDepth = 2
  MaxCreations = 2
  MaxMishaps = 1
CHECK_DEADLOCK FALSE
INVARIANTS
  CoveredOrTold
  ReportedOrTold
  LossIsTold
  RemovedStaysRemoved
