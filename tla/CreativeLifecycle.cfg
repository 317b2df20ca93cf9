SPECIFICATION Spec
CONSTANTS
  f1 = f1
  f2 = f2
  o1 = o1
  Requests = {r1, r2}
  Opps = {o1}
  Draftable = {o1}
  Facts = {f1, f2}
  Items <- MCItems
  NoFacts = NoFacts
  NoOpp = NoOpp
  MaxEvents = 9
SYMMETRY Symmetry
CHECK_DEADLOCK FALSE
INVARIANTS
  TwoStageReview
  TestsFit
  HistoryIsChain
