SPECIFICATION MCSpec
CONSTANTS
  j1 = j1
  j2 = j2
  h1 = h1
  h2 = h2
  Jobs = {j1, j2}
  Workers = {w1, w2}
  Hashes = {h1, h2}
  NoHash = NoHash
  NoJob = NoJob
  MaxPages = 2
  MaxTries = 2
  MaxEvents = 2
CHECK_DEADLOCK FALSE
INVARIANTS
  PagesFit
PROPERTIES
  CancelHolds
  NewContentIsReported
  EveryJobEnds
