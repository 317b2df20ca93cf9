SPECIFICATION MCSpec
CONSTANTS
    NA = NA
    Concept <- MCConcept
    Variant <- MCVariant
    Ad <- MCAd
    Target <- MCTarget
    AdsOf <- MCAdsOf
    CampaignOf <- MCCampaignOf
    Hook = {1, 2}
    Format = {1, 2}
    Day <- MCDay
    Limit <- MCLimit
    Reader = {r1, r2}
    Period <- MCPeriod
    Form <- MCForm
    Series <- MCSeries
    Economy <- MCEconomy
    InitialConcepts <- MCInitialConcepts
    InitialLinks <- MCInitialLinks
    InitialFacts <- MCInitialFacts
    MaxWork = 2
    MaxChanges = 1
    MaxReviews = 1
SYMMETRY Symmetry
CHECK_DEADLOCK FALSE
INVARIANTS
  GatesAgree
  PlansFollowReports
  CitationsHold
