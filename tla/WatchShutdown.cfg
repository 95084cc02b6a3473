SPECIFICATION FairSpec
CONSTANTS
  c1 = c1
  c2 = c2
  cb1 = cb1
  Clients = {c1, c2}
  Callbacks = {cb1}
  NoCallback = NoCallback
  MaxQueueDepth = 1
  MaxCallbackQueueDepth = 1
  MaxWatches = 1
  MaxEvents = 2
  Severities = {FALSE}
  ShutdownPolicies <- ClientsOrCallback
CHECK_DEADLOCK FALSE
INVARIANTS
  NoLostWakeup
  StopJoinsWorkers
PROPERTIES
  StopReturns
  CallbackQueueDrains
