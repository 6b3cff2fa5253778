SPECIFICATION MCSpec
CONSTANTS
  a = a  b = b  keyed = keyed  random = random  invalid = invalid  malformed = malformed
  forbidden = forbidden
  Events = {a, b, keyed, random, invalid, malformed, forbidden}
  Programs <- MCPrograms
  BatchRequest <- MCBatches
  DemoRequest <- MCDemos
  GivenId <- MCGivenId
  Key <- MCKey
  NoId = 0
  Forbidden = {forbidden}
  Invalid = {invalid}
  Malformed = {malformed}
  MaxBatch = 3
  MaxRetries = 2
  Sends = 2
  None = none
  Dispatchers = {"d1", "d2"}
  Rows = {"o1", "o2"}
  NoLease = "none"
  MaxAttempts = 2
  MaxCrashes = 1
  Letters <- MCLetters
  Commands <- MCCommands
  NoEvent = noEvent
  MaxRuns = 2
  AuthMode = "strict"
  Anonymous <- MCAnonymous
  OidcIssuer = TRUE
  NoTenantClaim = ""
  Calls = {"c1", "c2"}
  Conns = {"k1"}
  Tenants = {"t1", "t2"}
  Requests <- MCRequests
  Request <- MCRequest
  NoRequest = "none"
  Offers <- MCOffers
  Limit = 1
  RateTTL = 2
  CacheTTL = 1
  Flight = 1
  NoTenant = "none"
  NoCall = "pool"
  FirstTokens <- MCFirstTokens
  TokenRequests <- MCTokenRequests
  Lifetime = 1
  Places = {"t1", "t2"}
  MaxTokens = 4
  LastTime = 2
INVARIANTS
  AcceptedIsInTopic
  CopiesShareTheirId
  FirstCopiesInOrder
  MarksAreTrue
  OneReplayUnaudited
  OwnDataOnly
  ContextEndsWithTransaction
  FreshEnough
  LimitHolds
  ChainStaysInTenant
PROPERTIES
  FinalRowsStay
  EveryRequestEnds
  EveryCallEnds
CHECK_DEADLOCK FALSE
