SPECIFICATION MCSpec
CONSTANTS
  Requests = {r1, r2}
  Times = {1, 2, 3}
  Quantities = {0, 2}
  Open = Open
  Keep = Keep
  Deltas <- MCDeltas
  MaxRequests = 4
  MaxTables = 1
  NA = NA
  Projects = {p1, p2}
  Names = {"Acme", "ACME"}
  Folded <- MCFolded
  Submissions <- MCSubmissions
  Pages <- MCPages
  Claims <- MCClaims
  Recent = 0
  Ageing = 1
  MaxTime = 1
  MaxWork = 6
SYMMETRY Symmetry
CHECK_DEADLOCK FALSE
INVARIANTS
  NewestWins
  RowsFit
  ReportsAreCurrent
  LibraryFits
