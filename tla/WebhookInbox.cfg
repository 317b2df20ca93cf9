SPECIFICATION FairSpec
CONSTANTS
  Webhooks = {w1}
  Requests = {q1, q2}
  Workers = {k1, k2}
  Businesses = {b1}
  NoEvent = NoEvent
  MaxTries = 3
  MaxDeliveries = 3
  MaxFaults = 1
  MaxRotations = 1
INVARIANTS
  TypeOK
  SingleClaimant
  AppliedAtMostOnce
  
PROPERTIES
  TerminalIsFinal
  EveryEventResolves
  
