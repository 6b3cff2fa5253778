SPECIFICATION Spec
CONSTANTS
  Fields = {"id"}
  Types = {"string", "number"}
  Untyped = untyped
  Absent = absent
  Requests = {1, 2}
  DryRuns = {}
  Candidate <- MCSame
  Mode = "BACKWARD"
  NoSubject = noSubject
  MaxFailures = 0
INVARIANTS
  NoRedundantVersion
CHECK_DEADLOCK FALSE
