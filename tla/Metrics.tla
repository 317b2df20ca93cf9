------------------------------ MODULE Metrics ------------------------------
(***************************************************************************)
(* The metrics layer: the facts of a business (ad insights per ad and day, *)
(* orders per day) and what the KPI engine computes from them. A sum over  *)
(* no rows is None, never zero; a ratio without a denominator is None; a   *)
(* negative term is refused with an exception.                             *)
(***************************************************************************)
EXTENDS Economics

CONSTANTS
    Ads,            \* the ads of the business
    Entity,         \* campaigns, ad sets and ads
    TypeOf,         \* TypeOf[e] \in {"campaign", "ad_set", "ad"}
    AdsOf,          \* AdsOf[e]: the ads below e
    Business,       \* the scope of the whole business
    CurrentDays,    \* the reporting range, dates as integers
    PreviousDays,   \* the range before it, of the same length
    Yesterday       \* the last day a fresh provider covers

ScopeAssumption ==
    /\ Business \notin Entity
    /\ AdsOf \in [Entity -> SUBSET Ads]
    /\ Cardinality(CurrentDays) = Cardinality(PreviousDays)

VARIABLES
    insight,    \* insight[a][d]: the ad row of a day, or NA
    orders,     \* orders[d]: purchases and revenue of a day, or NA
    catalog,    \* catalog[p]: price and cost of a product, or NA
    offer,      \* [shipping, discounts]: the rule and the discounts in force
    goal,       \* [cpa, roas]: the current goal, or NA
    feed,       \* feed[provider]: last sync "never", "old", "recent", or "failing"
                \* (an old one, and a failed run in the last day)
    views       \* what the SQL views and the economics summary compute from
                \* the facts, kept so that a state computes them once

factVars == <<insight, orders, catalog, offer, goal, feed, views>>

Days == CurrentDays \union PreviousDays
Provider == {"meta", "shopify"}
Scope == Entity \union {Business}

AdsIn(s) == IF s = Business THEN Ads ELSE AdsOf[s]

(***************************************************************************)
(* Aggregation: rollups read the ad rows of the scope in the range.        *)
(***************************************************************************)
Column == {"impressions", "clicks", "spend", "conversions", "value",
           "reach", "landing_page_views"}

RowsOf(rows, s, days) ==
    {k \in AdsIn(s) \X days : Known(rows[k[1]][k[2]])}

SumOf(rows, keys, column) ==
    IF keys = {} THEN NA
    ELSE SumFunctionOnSet([k \in keys |-> rows[k[1]][k[2]][column]], keys)

SoldOf(sales, days, column) ==
    LET sold == {d \in days : Known(sales[d])}
    IN  IF sold = {} THEN NA
        ELSE SumFunctionOnSet([d \in sold |-> sales[d][column]], sold)

Views(rows, sales, priced, terms) ==
    [ads |-> [s \in Scope |-> [days \in {CurrentDays, PreviousDays} |->
                LET keys == RowsOf(rows, s, days)
                IN  [rows |-> Cardinality(keys),
                     total |-> [c \in Column |-> SumOf(rows, keys, c)]]]],
     sold |-> [days \in {CurrentDays, PreviousDays} |->
                [c \in {"purchases", "revenue"} |-> SoldOf(sales, days, c)]],
     economy |-> Profile(priced, terms.shipping, terms.discounts)]

RowCount(s, days) == views.ads[s][days].rows
AdTotal(s, days, column) == views.ads[s][days].total[column]
CommerceTotal(days, column) == views.sold[days][column]

\* Days a provider has facts for: orders for Shopify, ad rows for Meta.
Covered(p, days) ==
    {d \in days : IF p = "shopify" THEN Known(orders[d])
                                   ELSE \E a \in Ads : Known(insight[a][d])}

(***************************************************************************)
(* The KPI engine.                                                         *)
(***************************************************************************)
\* The engine raises on a negative term of two known ones.
RatioRaises(n, d) ==
    Known(n) /\ Known(d) /\ (IF n < 0 THEN TRUE ELSE d < 0)

\* The rules' relative decline and growth.
Declined(current, previous, pct) == ChangedBy(current, previous, pct, -1)
Grew(current, previous, pct) == ChangedBy(current, previous, pct, 1)

(***************************************************************************)
(* Summary measures of a scope; purchases exist at business grain only.    *)
(***************************************************************************)
Impressions(s, days) == AdTotal(s, days, "impressions")
Clicks(s, days) == AdTotal(s, days, "clicks")
Spend(s, days) == AdTotal(s, days, "spend")
Conversions(s, days) == AdTotal(s, days, "conversions")
Purchases(days) == CommerceTotal(days, "purchases")
Revenue(days) == CommerceTotal(days, "revenue")

Ctr(s, days) == Ratio(Clicks(s, days), Impressions(s, days))
Cpc(s, days) == Ratio(Spend(s, days), Clicks(s, days))
Cpm(s, days) == Ratio(Spend(s, days), Impressions(s, days))
Roas(s, days) == Ratio(AdTotal(s, days, "value"), Spend(s, days))
Cvr(days) == Ratio(Purchases(days), Clicks(Business, days))
Cpa(days) == Ratio(Spend(Business, days), Purchases(days))

Economy == views.economy

\* Period profit: the average unit profit of the profile times purchases.
PeriodProfit(days) ==
    IF Known(Revenue(days)) /\ Known(Economy.average)
    THEN <<Economy.average[1] * Purchases(days), Economy.average[2]>>
    ELSE NA

\* Of the profit, as a ratio, over the revenue.
PeriodMargin(days) ==
    LET profit == PeriodProfit(days)
    IN  IF ~Known(profit) THEN NA
        ELSE SafeDivide(profit[1], profit[2] * Revenue(days))

\* build_summary sends the profit through the KPI engine.
SummaryFails(days) ==
    LET profit == PeriodProfit(days)
    IN  RatioRaises(IF Known(profit) THEN profit[1] ELSE NA, Revenue(days))

\* The observed stages of the funnel; the intent stages are never observed.
FunnelStage(metric, days) ==
    IF metric = "purchases" THEN Purchases(days)
    ELSE IF metric \in {"impressions", "clicks", "landing_page_views"}
    THEN AdTotal(Business, days, metric)
    ELSE NA

\* One provider's line of data_quality.
Freshness(p) ==
    LET covered == Covered(p, CurrentDays)
    IN  IF covered = {}
        THEN IF feed[p] = "never" THEN "not connected" ELSE "no facts"
        ELSE IF Max(covered) >= Yesterday THEN "fresh"
        ELSE IF feed[p] = "recent" THEN "delayed" ELSE "stale"

MissingDays(p) ==
    Cardinality(CurrentDays) - Cardinality(Covered(p, CurrentDays))
=============================================================================
