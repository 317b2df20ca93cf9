SPECIFICATION FairSpec
CONSTANTS
  Tabs = {t1, t2}
  Calls = {c1, c2}
  NoCall = NoCall
  NoTab = NoTab
  Limit = 1
  MaxEvents = 3
CHECK_DEADLOCK FALSE
INVARIANTS
  SessionsFit
  LogoutEnds
  CookieIsAlive
PROPERTIES
  AllSettle
