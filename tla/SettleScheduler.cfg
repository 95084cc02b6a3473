SPECIFICATION FairSpec
CONSTANTS
  busy = busy
  quiet = quiet
  calm = calm
  w1 = w1
  w2 = w2
  Keys = {busy, quiet, calm}
  Watches = {w1, w2}
  Owner <- OneFileEach
  Debounce <- DebounceFor
  StableFor <- Stability
  PollInterval = 1
  TimeoutAfter = {2}
  MaxPendingPaths <- Limits
  MaxEvents <- Events
  MaxWrites <- Writes
  MaxTime = 2
CHECK_DEADLOCK FALSE
INVARIANTS
  MapsAgree
  NoSlotLeaks
PROPERTIES
  SettledIsLatest
  ReadyMeansQuiet
  DueTasksAreTaken
