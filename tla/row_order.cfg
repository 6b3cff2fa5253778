SPECIFICATION Spec
CONSTANTS
  w1 = w1  w2 = w2  orders = orders  retry = retry  eA = eA  eB = eB  eC = eC
  Workers = {w1}
  Partitions = {orders, retry}
  Envelopes = {eA, eB}
  Ids = {1, 3}
  Keys = {1}
  Tenants = {"t1"}
  Topics = {orders, retry}
  EventId <- MCIdOwn
  Tenant <- MCOneTenant
  Kind <- MCKindProduct
  RowKey <- MCKeySame
  Delta <- MCDelta
  Risky = {}
  Routes <- MCDomainRoute
  Topic <- MCTopic
  Poison = poison
  NoRow = noRow
  NoWorker = noWorker
  MaxLog = 2
  MaxCrashes = 1
  MaxFailures = 1
  MaxRebalances = 0
  MaxSeeds = 0
INVARIANTS
  RowHoldsLatest
CHECK_DEADLOCK FALSE
