----------------------------- MODULE MCInsights -----------------------------
(* One campaign k1 over an ad set s1 and two ads; days 1-2 and 3-4. *)
EXTENDS Decisions, TLC

CONSTANTS a1, a2, k1, s1, p1, p2, whole

MCEntity == {k1, s1, a1, a2}
MCTypeOf == [e \in MCEntity |-> IF e = k1 THEN "campaign"
                                ELSE IF e = s1 THEN "ad_set" ELSE "ad"]
MCAdsOf == [e \in MCEntity |-> IF e \in {k1, s1} THEN {a1, a2} ELSE {e}]
MCCurrent == {3, 4}
MCPrevious == {1, 2}

Reading(seen, clicked, spent, converted, earned, reached) ==
    [impressions |-> seen, clicks |-> clicked, spend |-> spent,
     conversions |-> converted, value |-> earned, reach |-> reached,
     landing_page_views |-> clicked]
Good == Reading(100, 10, 10, 4, 60, 90)
Fair == Reading(100, 6, 10, 3, 25, 45)
Poor == Reading(100, 1, 20, 3, 10, 20)
Thin == Reading(10, 1, 1, 0, 0, 9)

Both(x, y) == (a1 :> x) @@ (a2 :> y)
MCReadings == {Both(Good, Good), Both(Poor, Poor), Both(Fair, Poor),
               Both(Good, NA), Both(Thin, NA), Both(NA, NA)}
Sold(n, money) == [purchases |-> n, revenue |-> money]
MCSales == {NA, Sold(1, 20), Sold(6, 120)}

Priced(x, y) == (p1 :> [price |-> x, cost |-> 8]) @@ (p2 :> y)
Lone == Priced(20, [price |-> NA, cost |-> NA])
MCCatalogs == {Priced(20, [price |-> 12, cost |-> NA]),
               Priced(9, [price |-> NA, cost |-> NA])}
Terms(rule, discounts) == [shipping |-> rule, discounts |-> discounts]
Rule == [price |-> 2, cost |-> 3]
MCOffers == {Terms(Rule, {[type |-> "percentage", value |-> 50, min |-> NA,
                           cap |-> 8],
                          [type |-> "fixed_amount", value |-> 3, min |-> 10,
                           cap |-> NA]}),
             Terms(NA, {})}
MCGoals == {NA, [cpa |-> 15, roas |-> 3]}

History(before, now, sold) ==
    [insight |-> [a \in {a1, a2} |-> [d \in 1..4 |->
                    IF d \in MCPrevious THEN before[a] ELSE now[a]]],
     orders |-> [d \in 1..4 |-> sold], catalog |-> Lone,
     offer |-> Terms(Rule, {}), goal |-> NA,
     feed |-> [p \in {"meta", "shopify"} |-> "recent"]]
MCHistories ==
    {History(Both(Good, Good), Both(Good, Good), Sold(6, 120)),
     History(Both(Poor, Poor), Both(Poor, Poor), Sold(3, 60)),
     History(Both(Good, Good), Both(Fair, Fair), Sold(1, 20)),
     [History(Both(NA, NA), Both(NA, NA), NA) EXCEPT !.feed["meta"] = "never"]}

MCOutlooks == {NA, <<1, 1>>, <<4, 1>>}
MCLimit ==
    [minImpressions |-> 200, minClicks |-> 10, minPurchases |-> 3,
     minSpend |-> 20, minConversions |-> 6, minDays |-> 2, ctrLow |-> 4,
     ctrCritical |-> 2, decline |-> 20, cpcHigh |-> 3, cpmHigh |-> 0,
     frequency |-> 4, cvrLow |-> 10, cpaHigh |-> 125, cpaCritical |-> 150,
     growth |-> 10, fall |-> 10, transition |-> 20, spendOverCpa |-> 100,
     mismatch |-> 50, missingDays |-> 2, floorSpend |-> 20,
     floorImpressions |-> 400, killBuffer |-> 10, killCpa |-> 200,
     killSpend |-> 40, killDays |-> 2, killSales |-> 6, drop |-> 15,
     scaleBuffer |-> 20, scaleCpa |-> 90]

MCSpec == Rules!Spec
=============================================================================
