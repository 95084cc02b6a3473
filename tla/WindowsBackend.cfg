SPECIFICATION Spec
CONSTANTS
  Callers = {c1, c2}
  NoOne = NoOne
  MaxWatches = 2
  MaxCalls = 3
  a = a
  b = b
  Names = {a, b}
  NoName = NoName
  FileOf <- DirectoryAndFile
  Picky <- NoWatch
  Happenings <- OneRename
  MaxChanges = 1
  MaxMishaps = 1
CHECK_DEADLOCK FALSE
INVARIANTS
  LossIsTold
PROPERTIES
  CallsReturn
