SPECIFICATION MCSpec
CONSTANTS
    NA = NA
    NoRow = NoRow
    a1 = a1
    a2 = a2
    k1 = k1
    s1 = s1
    p1 = p1
    p2 = p2
    whole = whole
    Ads = {a1, a2}
    Business = whole
    Entity <- MCEntity
    TypeOf <- MCTypeOf
    Below <- MCAdsOf
    CurrentDays <- MCCurrent
    PreviousDays <- MCPrevious
    Yesterday = 4
    Threshold <- MCLimit
    Asker = {r1}
    Outlooks <- MCOutlooks
    Histories <- MCHistories
    Readings <- MCReadings
    Sales <- MCSales
    Catalogs <- MCCatalogs
    Offers <- MCOffers
    Goals <- MCGoals
    MaxMoves = 1
INVARIANTS
  ViewsAgree
  PersistenceHasACause
PROPERTIES
  RequestEnds
