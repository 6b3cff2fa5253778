SPECIFICATION Spec
CONSTANTS
  Fields = {"id", "amount"}
  Types = {"string", "number"}
  Untyped = untyped
  Absent = absent
  Requests = {1, 2, 3, 4, 5}
  DryRuns = {5}
  Candidate <- MCCandidate
  Mode = "BACKWARD"
  NoSubject = noSubject
  MaxFailures = 1
INVARIANTS
  TypeOK
  HistoryCompatible
  ClosedDataStaysReadable
  ChecksAreAgainstPredecessor
PROPERTIES
  VersionsImmutable
CHECK_DEADLOCK FALSE
