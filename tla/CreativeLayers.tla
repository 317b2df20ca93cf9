--------------------------- MODULE CreativeLayers ---------------------------
(***************************************************************************)
(* The layers above the linked creatives (Insight) with requests, facts    *)
(* and drafts of names of their own, so that a module may speak of them    *)
(* and of the lifecycle of a test.                                         *)
(***************************************************************************)
EXTENDS Economics

CONSTANTS Concept, Variant, Ad, Target, AdsOf, CampaignOf, Hook, Format, Day, Limit,
          Reader, Period, Form, Series, Economy, InitialConcepts, InitialLinks,
          InitialFacts, MaxWork, MaxChanges, MaxReviews

VARIABLES adFacts, concepts, links, breakEven, stored, work, decided, acknowledged,
          testDrafts, clock, changes

Insight == INSTANCE CreativeInsight
             WITH Request <- Reader, facts <- adFacts, drafts <- testDrafts

ASSUME LayersAssumption == Insight!CreativeAssumption /\ Insight!InsightAssumption

\* The properties of the layers, by name.
GatesAgree == Insight!GatesAgree
PlansFollowReports == Insight!PlansFollowReports
CitationsHold == Insight!CitationsHold
=============================================================================
