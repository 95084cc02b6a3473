SPECIFICATION Spec
CHECK_DEADLOCK FALSE
CONSTANTS
  Apps = {"editor", "viewer"}
  Bundle <- MCBundle
  Options <- MCOptions
  Foreign <- MCForeign
  Litter <- MCLitter
  Absent = Absent
  Torn = Torn
  MaxCalls = 3
  MaxFaults = 1
INVARIANTS
  
  
  ReportIsTrue
