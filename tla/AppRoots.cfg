CONSTANTS
  Calls <- MCCalls
  Segments <- MCSegments
  Leaf <- MCLeaf
  Privileged <- MCPrivileged
  MaxChanges = 2
SPECIFICATION RootsSpec
INVARIANTS
  BestSourceWins
  ModeIsWhole
  CreatedInside
CHECK_DEADLOCK FALSE
