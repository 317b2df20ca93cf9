SPECIFICATION MCSpec
CONSTANTS
    NA = NA
    c1 = c1
    c2 = c2
    p1 = p1
    p2 = p2
    Campaign = {c1, c2}
    Asked <- MCAsked
    r1 = r1
    r2 = r2
    Forecaster = {r1, r2}
    FirstDay = 1
    LastDay = 5
    Window = 4
    Least <- MCLeast
    Histories <- MCHistories
    AdRows <- MCAdRows
    SaleRows <- MCSaleRows
    Arrivals = {3}
    Catalogs <- MCCatalogs
    MaxForecasts = 2
    MaxFactChanges = 1
    Question <- MCQuestion
    Skew = {0, 1}
    Grade <- MCGrade
    Near = 5
    Unit <- MCUnit
SYMMETRY Symmetry
CHECK_DEADLOCK FALSE
INVARIANTS
  ForecastRowsHold
  BreakEvenAgrees
