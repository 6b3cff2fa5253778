SPECIFICATION Spec
CONSTANTS
  w1 = w1  w2 = w2  orders = orders  retry = retry  eA = eA  eB = eB  eC = eC
  Workers = {w1, w2}
  Partitions = {orders, retry}
  Envelopes = {eA, eB}
  Ids = {1}
  Keys = {1}
  Tenants = {"t1"}
  Topics = {orders, retry}
  EventId <- MCIdShared
  Tenant <- MCOneTenant
  Kind <- MCKindPayment
  RowKey <- MCKeyOwn
  Delta <- MCNoDelta
  Risky = {eA}
  Routes <- MCAllRoutes
  Topic <- MCTopic
  Poison = poison
  NoRow = noRow
  NoWorker = noWorker
  MaxLog = 2
  MaxCrashes = 1
  MaxFailures = 1
  MaxRebalances = 1
  MaxSeeds = 0
SYMMETRY Symmetry
INVARIANTS
  TypeOK
  ClaimIsExclusive
  CountedAtMostOnce
  EffectsFollowProgramOrder
  StatusTellsEffects
  CommittedIsAccounted
PROPERTIES
  CommittedNeverRetreats
  LedgerSpec
CHECK_DEADLOCK FALSE
