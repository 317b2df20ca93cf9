SPECIFICATION FairSpec
CONSTANTS
  a = a
  b = b
  d1 = d1
  d3 = d3
  Records = {a, b, d1, d3}
  Resources <- MCResources
  Offered <- MCOffered
  Incremental <- MCIncremental
  Choices <- MCChoices
  ResourceOf <- MCResourceOf
  Daily <- MCDaily
  DayOf <- MCDayOf
  Lookback = 1
  InitialDays = 2
  LastDay = 3
  Workers = {k1, k2}
  Jobs = {j1, j2}
  Nobody = Nobody
  MaxTries = 2
  MaxEvents = 2
CHECK_DEADLOCK FALSE
INVARIANTS
  CursorSound
  LocksFit
  DisconnectErases
PROPERTIES
  JobsEnd
