SPECIFICATION Spec
CONSTANTS
  Callers = {c1, c2, c3}
  NoOne = NoOne
  MaxWatches = 2
  MaxCalls = 4
  MaxEvents = 1
  Spurious = FALSE
CHECK_DEADLOCK FALSE
PROPERTIES
  ActiveEventsReported
  CallsReturn
