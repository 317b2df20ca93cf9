SPECIFICATION Spec
CONSTANTS
    NA = NA
    pain = pain
    rivalry = rivalry
    logo = logo
    award = award
    badge = badge
    seal = seal
    Evidence = {pain, rivalry, logo, award, badge, seal}
    KindOf <- MCKindOf
    ConfidenceOf <- MCConfidenceOf
    Collected <- MCCollected
    r1 = r1
    r2 = r2
    Request = {r1, r2}
    Positions <- MCPositions
    Offers <- MCOffers
    Shops <- MCShops
    Goals <- MCGoals
    Views <- MCViews
    Linked = {"shopify"}
    Variants = {NA}
    Gate <- MCGate
    MaxWork = 3
    MaxChanges = 1
SYMMETRY Symmetry
CHECK_DEADLOCK FALSE
INVARIANTS
  SelectionIsEarned
  NoVersionSkipped
  RecommendedFunnelLeadsToSale
