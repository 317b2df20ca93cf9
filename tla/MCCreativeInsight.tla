-------------------------- MODULE MCCreativeInsight --------------------------
(***************************************************************************)
(* A business of three concepts on two angles, each linked to an ad, one   *)
(* of them to a provider creative of the same ad too, and a test variant   *)
(* shares an ad with a concept; a fourth concept may join. Six days,       *)
(* windows of two days, small samples.                                     *)
(***************************************************************************)
EXTENDS CreativeLayers, Integers, TLC

MCConcept == 1 .. 4
MCVariant == {9}
MCAd == {"ad1", "ad2", "ad3"}
MCTarget == MCAd \union {"creative"}
MCAdsOf == [t \in MCTarget |-> IF t = "creative" THEN {"ad1"} ELSE {t}]
MCCampaignOf ==
    [t \in MCTarget |-> IF t \in {"ad1", "ad2"} THEN "campaign" ELSE NA]
MCDay == 1 .. 6
MCPeriod == {1 .. 6}

MCLimit ==
    [trendDays |-> 2, deadband |-> 10, window |-> 2, windowDays |-> 2,
     frequency |-> 2, decline |-> 25, impressions |-> 200, spend |-> 10,
     conversions |-> 2, ctrLow |-> 2, ctrCritical |-> 1, classDays |-> 2,
     scalingDays |-> 3, clicks |-> 4, minEntities |-> 2, stableMin |-> 3,
     staleDays |-> 2, conflict |-> 35, gaps |-> 2]

Row(impressions, clicks, spend, conversions) ==
    [impressions |-> impressions, clicks |-> clicks, spend |-> spend,
     conversions |-> conversions, value |-> 20 * conversions, reach |-> 100]

\* Rows on the given days, nothing on the others.
On(days, row) == [d \in MCDay |-> IF d \in days THEN row ELSE NA]
Good == Row(100, 5, 5, 1)
Poor == Row(100, 2, 5, 0)
Tired == [d \in MCDay |-> CASE d \in {3, 4} -> Good
                            [] d \in {5, 6} -> Row(300, 6, 20, 1)
                            [] OTHER -> NA]
MCSeries ==
    {On(3 .. 6, Poor), Tired, On(1 .. 3, Good), On({6}, Row(400, 20, 20, 4))}

MCForm ==
    {[angle |-> "trust", hook |-> 1, format |-> 1, offer |-> "available",
      proof |-> NA, messaging |-> NA, stage |-> NA, objective |-> "sale",
      audience |-> NA, objection |-> "price"],
     [angle |-> "speed", hook |-> NA, format |-> 2, offer |-> NA,
      proof |-> "reviews", messaging |-> "proven", stage |-> "interest",
      objective |-> NA, audience |-> NA, objection |-> NA],
     [angle |-> NA, hook |-> 1, format |-> 2, offer |-> "withdrawn",
      proof |-> NA, messaging |-> NA, stage |-> NA, objective |-> NA,
      audience |-> NA, objection |-> NA]}

Plain(form) == Insight!TraitsOf([form EXCEPT !.offer = NA, !.objection = NA])
MCInitialConcepts ==
    LET form == CHOOSE f \in MCForm : f.angle = "trust"
    IN  [c \in MCConcept |-> IF c = 4 THEN NA
                             ELSE IF c = 3 THEN [Plain(form) EXCEPT !.angle = "speed",
                                    !.hook = NA, !.format = 2]
                             ELSE Plain(form)]
MCInitialLinks ==
    {[entity |-> 1, target |-> "ad1"], [entity |-> 1, target |-> "creative"],
     [entity |-> 2, target |-> "ad2"], [entity |-> 3, target |-> "ad3"],
     [entity |-> 9, target |-> "ad2"]}
MCInitialFacts ==
    [a \in MCAd |-> IF a = "ad3" THEN On(3 .. 6, Poor) ELSE On(3 .. 6, Good)]
MCEconomy == {<<3, 1>>}
Symmetry == Permutations(Reader)

MCSpec == Insight!Spec
=============================================================================
