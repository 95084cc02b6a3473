\* Two writers in two processes; every write mode; one failing call and one crash.
CONSTANTS
  w1 = w1
  w2 = w2
  p1 = p1
  p2 = p2
  file = file
  alias = alias
  a = a
  b = b
  Writers = {w1, w2}
  Names = {file, alias}
  Main = file
  Contents = {a, b}
  Absent = Absent
  Torn = Torn
  MaxFaults = 1
  Processes = {p1, p2}
  ProcessOf <- OneEach
  VersionedRequests <- AllModes
  PlainRequests <- CommonConfig
  InitialImages = {a, Absent}
  Model = a
  NoToken = NoToken
  Nobody = Nobody
  NoRequest = NoRequest
  Disciplined = TRUE
  MaxCalls = 2
  MaxCrashes = 1
SPECIFICATION Spec
INVARIANTS
  TokenStaysCurrent
  AcknowledgedIsVisible
  AcknowledgedSurvives
PROPERTIES
  CommitsAreAtomic
  CallsReturn
CHECK_DEADLOCK FALSE
