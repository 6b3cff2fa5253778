SPECIFICATION Spec
CONSTANTS
  old = old  again = again  ahead = ahead  garbled = garbled
  Records = {old, again, ahead, garbled}
  Flaws <- MCFlaws
  EventKey <- MCEventKey
  Tenant <- MCTenant
  NoTenant = noTenant
  TenantFilter = {}
  EventTime <- MCEventTime
  OnTimeLimit = 0
  RejectLimit = 1
  WatermarkDelay = 1
  Queries = {"aggregates", "late-accepted-audit", "dlq", "dedup-audit"}
  WindowOf <- MCWindowOf
  TenantConfig = {"t1"}
  NoBatch = noBatch
  StartingOffsets = "earliest"
  Active <- MCActive
  MaxLog = 3
  MaxTime = 2
  MaxStops = 1
INVARIANTS
  CountedAtMostOnce
  WindowsShowState
PROPERTIES
  AcceptedIsCounted
  RefusedIsDeadLettered
CHECK_DEADLOCK FALSE
