SPECIFICATION Spec
CONSTANTS
  w1 = w1  w2 = w2  orders = orders  retry = retry  eA = eA  eB = eB  eC = eC
  Workers = {w1}
  Partitions = {orders, retry}
  Envelopes = {eA}
  Ids = {1}
  Keys = {1}
  Tenants = {"t1"}
  Topics = {orders, retry}
  EventId <- MCIdShared
  Tenant <- MCOneTenant
  Kind <- MCKindPayment
  RowKey <- MCKeyOwn
  Delta <- MCNoDelta
  Risky = {eA}
  Routes <- MCAllRoutes
  Topic <- MCTopic
  Poison = poison
  NoRow = noRow
  NoWorker = noWorker
  MaxLog = 1
  MaxCrashes = 1
  MaxFailures = 0
  MaxRebalances = 0
  MaxSeeds = 0
INVARIANTS
  DeliveredTakesEffect
CHECK_DEADLOCK FALSE
