SPECIFICATION Spec
CONSTANTS
  self = self
  x = x
  new = new
  old = old
  absent = absent
  Locations = {1, 2, 3}
  Entries = {self, x}
  Contents = {new, old}
  Self = self
  Absent = absent
  Plans <- SomePlans
  Options <- AllOptions
  Trees <- SomeTrees
  MaxMishaps = 2
  MaxWrites = 1
CHECK_DEADLOCK FALSE
PROPERTIES
  KeepsContent
  ExecutedMeansDone
  TargetKept
