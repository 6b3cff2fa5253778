SPECIFICATION MCSpec
CONSTANTS
  Threads = {"h1", "h2"}
  Kids = {"x", "y"}
  NoKeys = NoKeys
  CacheSeconds = 1
  CallTime = 1
  MaxClock = 5
  MaxRotations = 2
  Event <- MCEvent
  Days = {1, 2}
  Jobs <- MCJobs
  Request <- MCRequest
  MaxWindowDays = 1
  Today = 1
  SampleEvents = {"sample"}
  NoRow = NoRow
  MaxInFlight = 2
  Scripts <- MCScripts
  Drills = {"d1", "d2"}
  Keep = {"d2"}
  BackedUp <- MCBackedUp
  Rows = {1}
  Nothing = Nothing
  MaxSecond = 1
  MaxWrites = 1
  MaxFaults = 1
  Active <- MCActive
  Runs = {"nightly", "byHand", "dry"}
  Asked <- MCAsked
  DryRuns = {"dry"}
  FreshnessMinutes = 5
  NoEvent = NoEvent
  Databases <- MCDatabases
  NoScore = NoScore
  MaxDay = 2
  MaxChanges = 1
  MaxStops = 1
  MaxRuns = 2
  Reconciliations <- MCReconciliations
  Plan <- MCPlan
  Exercises = {"x1", "x2"}
  Scrapes = {"s1", "s2"}
  Absent = Absent
  DayLookback = 0
  WeekLookback = 1
  Stories <- MCStories
  DagRuns = {"b1", "b2"}
  RawEvents <- MCRawEvents
  Attributes <- MCAttributes
  BatchStories <- MCBatchStories
INVARIANTS
  WithdrawnKeyExpires
  NoCountIsLost
  AlarmsAreExplained
  PassedMeansRestored
  ScoreHasItsResults
  ScrapeShowsTables
  BatchOutputsAreWhole
CHECK_DEADLOCK FALSE
