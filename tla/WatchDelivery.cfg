SPECIFICATION FairSpec
CONSTANTS
  c1 = c1
  c2 = c2
  cb1 = cb1
  Clients = {c1}
  Callbacks = {cb1}
  NoCallback = NoCallback
  MaxQueueDepth = 2
  MaxCallbackQueueDepth = 2
  MaxWatches = 1
  MaxEvents = 4
  Severities = {FALSE}
  ShutdownPolicies <- ClientsOrCallback
CHECK_DEADLOCK FALSE
INVARIANTS
  Conservation
  QueuesConsistent
  LossDegradesStream
PROPERTY
  DeliveredOnceInOrder
