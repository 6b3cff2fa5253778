SPECIFICATION Spec
CONSTANTS
  old = old  again = again  ahead = ahead  garbled = garbled
  Records = {old, again}
  Flaws <- MCFlaws
  EventKey <- MCOwnKey
  Tenant <- MCTenant
  NoTenant = noTenant
  TenantFilter = {}
  EventTime <- MCPastTime
  OnTimeLimit = 0
  RejectLimit = 1
  WatermarkDelay = 1
  Queries = {"dlq"}
  WindowOf <- MCWindowOf
  TenantConfig = {"t1"}
  NoBatch = noBatch
  StartingOffsets = "earliest"
  Active <- MCActive
  MaxLog = 2
  MaxTime = 1
  MaxStops = 0
PROPERTIES
  TooLateIsDeadLettered
CHECK_DEADLOCK FALSE
