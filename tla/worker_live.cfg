SPECIFICATION FairSpec
CONSTANTS
  w1 = w1  w2 = w2  orders = orders  retry = retry  eA = eA  eB = eB  eC = eC
  Workers = {w1, w2}
  Partitions = {orders, retry}
  Envelopes = {eA, eC}
  Ids = {1, 2}
  Keys = {1, 2}
  Tenants = {"t1"}
  Topics = {orders, retry}
  EventId <- MCIdShared
  Tenant <- MCOneTenant
  Kind <- MCKindSession
  RowKey <- MCKeyOwn
  Delta <- MCNoDelta
  Risky = {eA}
  Routes <- MCAllRoutes
  Topic <- MCTopic
  Poison = poison
  NoRow = noRow
  NoWorker = noWorker
  MaxLog = 2
  MaxCrashes = 1
  MaxFailures = 1
  MaxRebalances = 0
  MaxSeeds = 0
PROPERTIES
  EveryRecordIsAccounted
CHECK_DEADLOCK FALSE
