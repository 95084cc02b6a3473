SPECIFICATION FairSpec
CONSTANTS
  c1 = c1
  c2 = c2
  cb1 = cb1
  Clients = {c1}
  Callbacks = {cb1}
  NoCallback = NoCallback
  MaxQueueDepth = 1
  MaxCallbackQueueDepth = 1
  MaxWatches = 1
  MaxEvents = 1
  Severities = {FALSE}
  ShutdownPolicies <- ClientsAndCallback
CHECK_DEADLOCK FALSE
PROPERTY
  StopReturns
