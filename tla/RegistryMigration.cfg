SPECIFICATION RegistrySpec
CONSTANTS
  OddNames = {"odd"}
  RawNames = {"raw"}
  LineBreak = 10
  Keys <- SomeKeys
  Source <- App
  Destination <- Software
  Hive = "local_machine"
  Stores <- SomeStores
  Documents <- SomeDocuments
  Formats <- Both
  AllOptions <- SomeOptions
  NewValues <- Set1
  MaxChanges = 1
  MaxFailures = 1
CHECK_DEADLOCK FALSE
INVARIANTS
  ExportIsComplete
  ImportIsFaithful
PROPERTIES
  ChangesArePermitted
