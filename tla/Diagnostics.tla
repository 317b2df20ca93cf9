---------------------------- MODULE Diagnostics ----------------------------
(***************************************************************************)
(* The diagnostic engine: one operator per rule, from the measures of a    *)
(* scope (the business, a campaign, an ad set or an ad) to the findings it *)
(* returns, and the campaign states and scaling gates read from them. The  *)
(* rules are pure; everything they see comes from module Metrics.          *)
(* Wording, evidence layout and translation keys are left out.             *)
(***************************************************************************)
EXTENDS Metrics

CONSTANTS
    Limit       \* the threshold registry: a record of naturals

LimitAssumption ==
    /\ \A f \in DOMAIN Limit : Limit[f] \in Nat
    /\ Limit.ctrCritical <= Limit.ctrLow
    /\ Limit.cpaHigh <= Limit.cpaCritical

Cur == CurrentDays
Prev == PreviousDays

(***************************************************************************)
(* Findings. The fingerprint of a finding is its scope and its code: the   *)
(* range and the business are the same for all findings of one diagnosis.  *)
(***************************************************************************)
Finding(code, s, severity) ==
    {[code |-> code, scope |-> s, severity |-> severity, of |-> NA,
      status |-> "detected"]}

Insufficient(code, s) ==
    {[code |-> code, scope |-> s, severity |-> "info", of |-> NA,
      status |-> "insufficient_data"]}

When(condition, findings) == IF condition THEN findings ELSE {}
AtLeast(x, least) == Known(x) /\ x >= least
Rank(severity) == CASE severity = "info" -> 0 [] severity = "low" -> 1
                    [] severity = "medium" -> 2 [] severity = "high" -> 3
                    [] severity = "critical" -> 4
Serious(f) == f.severity \in {"high", "critical"}

(***************************************************************************)
(* Traffic.                                                                *)
(***************************************************************************)
LowCtr(s) ==
    IF ~AtLeast(Impressions(s, Cur), Limit.minImpressions)
    THEN Insufficient("low_ctr", s)
    ELSE When(Known(Ctr(s, Cur)) /\ BelowPct(Ctr(s, Cur), Limit.ctrLow),
              Finding("low_ctr", s,
                  IF BelowPct(Ctr(s, Cur), Limit.ctrCritical)
                  THEN "high" ELSE "low"))

CtrDecline(s) ==
    When(/\ Known(Impressions(s, Cur)) =>
              Impressions(s, Cur) >= Limit.minImpressions
         /\ Declined(Ctr(s, Cur), Ctr(s, Prev), Limit.decline),
         Finding("ctr_decline", s, "medium"))

\* A price per click or per impression above its limit.
Above(r, limit) == Known(r) /\ r[1] > limit * r[2]

HighCpc(s) ==
    IF ~AtLeast(Clicks(s, Cur), Limit.minClicks)
    THEN Insufficient("high_cpc", s)
    ELSE When(Above(Cpc(s, Cur), Limit.cpcHigh), Finding("high_cpc", s, "low"))

HighCpm(s) ==
    IF ~AtLeast(Impressions(s, Cur), Limit.minImpressions)
    THEN Insufficient("high_cpm", s)
    ELSE When(Above(Cpm(s, Cur), Limit.cpmHigh), Finding("high_cpm", s, "low"))

(***************************************************************************)
(* Creative, ads only.                                                     *)
(***************************************************************************)
CreativeLowCtr(s) ==
    IF ~AtLeast(Impressions(s, Cur), Limit.minImpressions)
    THEN Insufficient("creative_low_ctr", s)
    ELSE When(Known(Ctr(s, Cur)) /\ BelowPct(Ctr(s, Cur), Limit.ctrLow),
              Finding("creative_low_ctr", s, "medium"))

\* High frequency, active spend and a falling CTR. The previous frequency is
\* this period's impressions over the previous reach, as the rule has it.
PossibleFatigue(s) ==
    LET seen == Impressions(s, Cur)
        reach == AdTotal(s, Cur, "reach")
        before == AdTotal(s, Prev, "reach")
    IN  When(/\ AtLeast(seen, Limit.minImpressions)
             /\ AtLeast(reach, 1)
             /\ seen >= Limit.frequency * reach
             /\ AtLeast(Spend(s, Cur), 1)
             /\ AtLeast(before, 1)
             /\ before > reach
             /\ Declined(Ctr(s, Cur), Ctr(s, Prev), Limit.decline),
             Finding("possible_creative_fatigue", s, "medium"))

(***************************************************************************)
(* Conversion, business only.                                              *)
(***************************************************************************)
LowCvr ==
    IF ~AtLeast(Clicks(Business, Cur), Limit.minClicks)
    THEN Insufficient("low_cvr", Business)
    ELSE When(Known(Cvr(Cur)) /\ BelowPct(Cvr(Cur), Limit.cvrLow),
              Finding("low_cvr", Business,
                  IF BelowPct(<<2 * Cvr(Cur)[1], Cvr(Cur)[2]>>, Limit.cvrLow)
                  THEN "high" ELSE "medium"))

CvrDecline ==
    When(Declined(Cvr(Cur), Cvr(Prev), Limit.decline),
         Finding("cvr_decline", Business, "medium"))

\* The goal's maximum CPA, else the best product's break-even CPA.
CpaTarget ==
    IF Known(goal) /\ Known(goal.cpa) THEN goal.cpa ELSE Economy.cpaHigh

CpaOver(r, target, pct) == r[1] * 100 >= target * pct * r[2]

HighCpa ==
    IF ~AtLeast(Purchases(Cur), Limit.minPurchases)
    THEN Insufficient("high_cpa", Business)
    ELSE When(/\ Known(Cpa(Cur))
              /\ Known(CpaTarget) /\ CpaTarget # 0
              /\ Above(Cpa(Cur), CpaTarget),
              Finding("high_cpa", Business,
                  IF CpaOver(Cpa(Cur), CpaTarget, Limit.cpaCritical)
                  THEN "critical"
                  ELSE IF CpaOver(Cpa(Cur), CpaTarget, Limit.cpaHigh)
                  THEN "high" ELSE "medium"))

(***************************************************************************)
(* Economics.                                                              *)
(***************************************************************************)
UnderBreakEven(r) ==
    Known(r) /\ Known(Economy.roas) /\ RatLess(r, Economy.roas)

\* Mutant: the rule waits for a sample of clicks.
BelowBreakEvenSampled(s) ==
    When(AtLeast(Clicks(s, Cur), Limit.minClicks) /\ UnderBreakEven(Roas(s, Cur)),
         Finding("below_break_even_roas", s, "high"))

BelowBreakEvenRoas(s) ==
    When(UnderBreakEven(Roas(s, Cur)),
         Finding("below_break_even_roas", s, "high"))

TargetRoas == IF Known(goal) THEN goal.roas ELSE NA

BelowTargetRoas(s) ==
    When(/\ Known(TargetRoas) /\ Known(Roas(s, Cur))
         /\ TargetRoas # 0
         /\ RatLess(Roas(s, Cur), <<TargetRoas, 1>>),
         Finding("below_target_roas", s, "medium"))

NegativeProfit ==
    When(Known(PeriodProfit(Cur)) /\ PeriodProfit(Cur)[1] <= 0,
         Finding("negative_contribution_profit", Business, "high"))

DecliningMargin ==
    When(Declined(PeriodMargin(Cur), PeriodMargin(Prev), Limit.decline),
         Finding("declining_contribution_margin", Business, "medium"))

RevenueProfitDivergence ==
    LET revenue(days) == IF Known(Revenue(days)) THEN <<Revenue(days), 1>>
                                                 ELSE NA
    IN  When(/\ Grew(revenue(Cur), revenue(Prev), Limit.growth)
             /\ Declined(PeriodProfit(Cur), PeriodProfit(Prev), Limit.fall),
             Finding("revenue_profit_divergence", Business, "high"))

NegativeUnitMargin ==
    When(Known(Economy.average) /\ Economy.average[1] < 0,
         Finding("negative_unit_margin", Business, "high"))

BreakEvenUnavailable ==
    When(Known(Cpa(Cur)) /\ ~Known(Economy.cpaHigh),
         Finding("break_even_unavailable", Business, "info"))

TargetAboveViable ==
    When(/\ Known(goal) /\ AtLeast(goal.cpa, 1)
         /\ Known(Economy.cpaHigh) /\ goal.cpa > Economy.cpaHigh,
         Finding("target_cpa_above_viable", Business, "medium"))

(***************************************************************************)
(* Funnel: the lowest rate among the transitions with enough data is a     *)
(* bottleneck below the limit, so some sampled transition must be.         *)
(***************************************************************************)
StageOrder == <<"impressions", "clicks", "landing_page_views", "purchases">>

Transition(i) ==
    Ratio(FunnelStage(StageOrder[i + 1], Cur), FunnelStage(StageOrder[i], Cur))

EnoughFor(i) ==
    /\ Known(Transition(i))
    /\ FunnelStage(StageOrder[i], Cur) >=
         IF i = 1 THEN Limit.minImpressions ELSE Limit.minClicks
    /\ i = 1 => FunnelStage("clicks", Cur) >= Limit.minClicks

FunnelBottleneck ==
    When(\E i \in 1..3 : EnoughFor(i) /\ BelowPct(Transition(i), Limit.transition),
         Finding("funnel_bottleneck", Business, "medium"))

\* Purchases per click while the stages between are not observed (never are).
LowClickToPurchase ==
    When(/\ AtLeast(FunnelStage("clicks", Cur), Limit.minClicks)
         /\ AtLeast(FunnelStage("purchases", Cur), 1)
         /\ BelowPct(Cvr(Cur), Limit.cvrLow),
         Finding("low_click_to_purchase_rate", Business, "medium"))

(***************************************************************************)
(* Spend and tracking.                                                     *)
(***************************************************************************)
SpendWithoutPurchase ==
    LET spend == Spend(Business, Cur)
        lost == Known(Economy.cpaHigh) /\
                  spend * 100 >= Economy.cpaHigh * Limit.spendOverCpa
        soldBefore == AtLeast(Purchases(Prev), 1) /\
                        (Known(Spend(Business, Prev)) =>
                           spend >= Spend(Business, Prev))
    IN  When(/\ AtLeast(spend, Limit.minSpend + 1)
             /\ Purchases(Cur) = 0,
             Finding("spend_without_purchase", Business,
                     IF TRUE \in {lost, soldBefore} THEN "high" ELSE "medium"))

PurchaseRevenueMismatch ==
    When(AtLeast(Purchases(Cur), 1) /\ Revenue(Cur) = 0,
         Finding("purchase_revenue_mismatch", Business, "medium"))

RevenuePurchaseMismatch ==
    When(AtLeast(Revenue(Cur), 1) /\ Purchases(Cur) = 0,
         Finding("revenue_purchase_mismatch", Business, "medium"))

ConversionMismatch ==
    LET reported == Conversions(Business, Cur)
    IN  When(/\ AtLeast(reported, 1) /\ AtLeast(Purchases(Cur), 1)
             /\ Abs(reported - Purchases(Cur)) * 100
                  >= Limit.mismatch * Purchases(Cur),
             Finding("provider_conversion_mismatch", Business, "low"))

(***************************************************************************)
(* Data quality, per provider. An incomplete period has one code for both  *)
(* providers, the other codes name theirs.                                 *)
(***************************************************************************)
ProviderFinding(code, p, severity) ==
    {[code |-> code, scope |-> Business, severity |-> severity, of |-> p,
      status |-> "detected"]}

ProviderFindings(p) ==
    CASE Freshness(p) = "stale" -> ProviderFinding("stale_data", p, "medium")
      [] Freshness(p) = "delayed" -> ProviderFinding("delayed_data", p, "low")
      [] Freshness(p) = "not connected" ->
            ProviderFinding("not_connected", p, "info")
      [] Freshness(p) = "no facts" ->
            ProviderFinding("missing_reporting_period", p, "info")
      [] OTHER -> {}

Incomplete(p) ==
    Covered(p, Cur) # {} /\ MissingDays(p) >= Limit.missingDays

IncompletePeriod ==
    When(\E p \in Provider : Incomplete(p),
         Finding("incomplete_reporting_period", Business, "low"))

UnobservedStages ==
    When(\E i \in 1..4 : Known(FunnelStage(StageOrder[i], Cur)),
         Finding("unobserved_funnel_stages", Business, "info"))

RecentSyncFailures ==
    When(\E p \in Provider : feed[p] = "failing",
         Finding("recent_sync_failures", Business, "low"))

(***************************************************************************)
(* Below break-even in both periods with a sufficient sample: of a         *)
(* campaign by ROAS, of the business by ROAS or by CPA.                    *)
(***************************************************************************)
PersistentRoas(s) ==
    UnderBreakEven(Roas(s, Cur)) /\ UnderBreakEven(Roas(s, Prev))

PersistentCpa ==
    /\ Known(CpaTarget)
    /\ Above(Cpa(Cur), CpaTarget) /\ Above(Cpa(Prev), CpaTarget)

PersistentlyUnprofitable(s) ==
    When(/\ AtLeast(Spend(s, Cur), Limit.minSpend)
         /\ IF s = Business
            THEN /\ AtLeast(Purchases(Cur), Limit.minPurchases)
                 /\ TRUE \in {PersistentRoas(s), PersistentCpa}
            ELSE RowCount(s, Cur) >= 2 /\ PersistentRoas(s),
         Finding("persistent_unprofitable_performance", s, "high"))

(***************************************************************************)
(* The registry: the rules of the business and of an entity of each type.  *)
(***************************************************************************)
SharedRules(s) ==
    UNION {LowCtr(s), CtrDecline(s), HighCpc(s), HighCpm(s),
           BelowBreakEvenRoas(s), BelowTargetRoas(s)}

BusinessFindings ==
    SharedRules(Business) \union
    UNION {LowCvr, CvrDecline, HighCpa, NegativeProfit, DecliningMargin,
           RevenueProfitDivergence, NegativeUnitMargin, BreakEvenUnavailable,
           TargetAboveViable, FunnelBottleneck, LowClickToPurchase,
           SpendWithoutPurchase, PurchaseRevenueMismatch,
           RevenuePurchaseMismatch, ConversionMismatch,
           ProviderFindings("meta"), ProviderFindings("shopify"),
           IncompletePeriod, UnobservedStages, RecentSyncFailures,
           PersistentlyUnprofitable(Business)}

EntityFindings(e) ==
    SharedRules(e) \union
    (CASE TypeOf[e] = "ad" -> CreativeLowCtr(e) \union PossibleFatigue(e)
       [] TypeOf[e] = "campaign" -> PersistentlyUnprofitable(e)
       [] OTHER -> {})

(***************************************************************************)
(* Campaign states and scaling readiness.                                  *)
(***************************************************************************)
TrafficCodes == {"low_ctr", "ctr_decline", "high_cpc", "high_cpm",
                 "creative_low_ctr", "possible_creative_fatigue"}

Sampled(e) == AtLeast(Spend(e, Cur), Limit.minSpend)
              /\ AtLeast(Impressions(e, Cur), Limit.minImpressions)

MeetsTarget(e) ==
    /\ Known(Roas(e, Cur))
    /\ Known(TargetRoas) => ~RatLess(Roas(e, Cur), <<TargetRoas, 1>>)

SeriousIn(findings) ==
    \E f \in findings : f.status = "detected" /\ Serious(f)

PerformanceState(e) ==
    LET findings == EntityFindings(e)
        traffic == {f \in findings : f.code \in TrafficCodes}
    IN  IF RowCount(e, Cur) = 0 THEN "insufficient_data"
        ELSE IF Freshness("meta") = "stale" THEN "stale_data"
        ELSE IF ~Sampled(e) THEN "learning"
        ELSE IF UnderBreakEven(Roas(e, Cur)) THEN "unprofitable"
        ELSE IF MeetsTarget(e) THEN "profitable"
        ELSE IF SeriousIn(findings) THEN "attention"
        ELSE IF Cardinality(traffic) >= 2 THEN "inefficient"
        ELSE IF findings # {} THEN "attention"
        ELSE "healthy"

\* Mutant: stale data passes the gates.
GatesMetStale(e) ==
    /\ Sampled(e)
    /\ RowCount(e, Cur) >= Limit.minDays
    /\ AtLeast(Conversions(e, Cur), Limit.minConversions)

\* The day gate counts fact rows, one per ad and day.
GatesMet(e) ==
    /\ Sampled(e)
    /\ RowCount(e, Cur) >= Limit.minDays
    /\ AtLeast(Conversions(e, Cur), Limit.minConversions)
    /\ Freshness("meta") # "stale"

Scaling(e) ==
    IF ~GatesMet(e) THEN "insufficient_data"
    ELSE IF UnderBreakEven(Roas(e, Cur)) THEN "performance_negative"
    ELSE IF MeetsTarget(e) THEN "performance_positive" ELSE "stable"

ReadyForReview(e) ==
    Scaling(e) = "performance_positive" /\ ~SeriousIn(EntityFindings(e))

(***************************************************************************)
(* One diagnosis: both summaries, then the rules of every scope with rows. *)
(***************************************************************************)
Active == {e \in Entity : RowCount(e, Cur) > 0}
DiagnosisFails == SummaryFails(Cur) \/ SummaryFails(Prev)
Findings == BusinessFindings \union UNION {EntityFindings(e) : e \in Active}

\* The view of one campaign hands the goal's database row to rules that call
\* .get on it: with a goal, below_target_roas raises.
CampaignViewFails == DiagnosisFails \/ Known(goal)
=============================================================================
