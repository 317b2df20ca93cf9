------------------------ MODULE CreativePerformance ------------------------
(***************************************************************************)
(* How linked creatives perform. The owner writes concepts, anchored in    *)
(* the strategy, and links a concept or a test variant to an ad or to the  *)
(* ads of a provider creative. A report observes every link over a range   *)
(* of days: signals, trend, fatigue, a classification, the readiness for a *)
(* scaling review, and rankings within groups.                             *)
(* Negative facts, which the engine refuses, and the copy of a concept     *)
(* are left out.                                                           *)
(***************************************************************************)
EXTENDS Economics, Sequences

CONSTANTS
    Concept, Variant,   \* identifiers of the two kinds of creative, integers
    Ad,
    Target,     \* ads and provider creatives, what a link names
    AdsOf,      \* AdsOf[t]: the ads whose facts count for t
    CampaignOf, \* CampaignOf[t]: the campaign of an ad, NA otherwise
    Hook, Format,       \* the taxonomies
    Day,        \* the calendar, integers
    Limit       \* the registry of thresholds

CreativeAssumption ==
    /\ Concept \intersect Variant = {}
    /\ AdsOf \in [Target -> SUBSET Ad]

VARIABLES
    facts,      \* facts[a][d]: the row of an ad and a day, or NA
    concepts,   \* concepts[c]: the traits of a concept, NA before it exists
    links,      \* the active links, [entity, target]
    breakEven   \* the break-even ROAS of the unit economics, or NA

inputs == <<facts, concepts, links, breakEven>>

Written == {c \in Concept : Known(concepts[c])}

(***************************************************************************)
(* A concept. A trait not given is NA; the format is required. References  *)
(* are resolved within the business; the offer must be available and a     *)
(* reason to believe needs proof in the messaging that is referred to. The *)
(* funnel reference is stored as it comes.                                 *)
(***************************************************************************)
StageOf(objective) ==
    CASE objective \in {"awareness", "traffic", "reach"} -> "awareness"
      [] objective \in {"consideration", "evaluation"} -> "consideration"
      [] objective \in {"purchase", "conversion", "sale"} -> "purchase"
      [] objective \in {"retention", "churn-reduction", "loyalty"} -> "retention"
      [] objective = "interest" -> "interest"
      [] OTHER -> NA

Acceptable(form) ==
    /\ form.hook \in Hook \union {NA}
    /\ form.format \in Format
    /\ form.offer \in {NA, "available"}
    /\ Known(form.proof) /\ Known(form.messaging) => form.messaging = "proven"

TraitsOf(form) ==
    [angle |-> form.angle, hook |-> form.hook, format |-> form.format,
     stage |-> IF Known(form.stage) THEN form.stage ELSE StageOf(form.objective),
     audience |-> form.audience, offer |-> form.offer,
     messaging |-> form.messaging, proof |-> form.proof,
     objection |-> form.objection]

NoTraits == [t \in {"angle", "hook", "format", "stage", "audience"} |-> NA]
ContextOf(e) == IF e \in Concept THEN concepts[e] ELSE NoTraits

(***************************************************************************)
(* Signals of the ads of a target over some days. A fact nobody reported   *)
(* is NA, and so is a ratio that needs it.                                 *)
(***************************************************************************)
DaysSeen(t, days) == {d \in days : \E a \in AdsOf[t] : Known(facts[a][d])}

Total(t, days, column) ==
    LET reported(k) == /\ Known(facts[k[1]][k[2]])
                       /\ Known(facts[k[1]][k[2]][column])
        rows == {k \in AdsOf[t] \X days : reported(k)}
        value(k) == facts[k[1]][k[2]][column]
    IN  IF rows = {} THEN NA ELSE MapThenSumSet(value, rows)

Signals(t, days) ==
    LET total(column) == Total(t, days, column)
        impressions == total("impressions")
        clicks == total("clicks")
        spend == total("spend")
        conversions == total("conversions")
    IN  [impressions |-> impressions, clicks |-> clicks, spend |-> spend,
         conversions |-> conversions,
         ctr |-> Ratio(clicks, impressions),
         cpc |-> Ratio(spend, clicks),
         cvr |-> Ratio(conversions, clicks),
         cpa |-> Ratio(spend, conversions),
         roas |-> Ratio(total("value"), spend),
         frequency |-> Ratio(impressions, total("reach"))]

Reaches(x, least) == Known(x) /\ x >= least

(***************************************************************************)
(* The trend of the click rate between the two halves of the observed      *)
(* days, the first one longer by a day when their number is odd.           *)
(***************************************************************************)
CtrTrend(t, days) ==
    LET seen == DaysSeen(t, days)
        n == Cardinality(seen)
        first == {d \in seen : Cardinality({e \in seen : e < d}) < n - n \div 2}
        before == Signals(t, first).ctr
        now == Signals(t, seen \ first).ctr
    IN  IF n < Limit.trendDays \/ ~Known(now) \/ ~Known(before)
          THEN "unavailable"
        ELSE IF before[1] = 0 THEN "unavailable"
        ELSE IF ChangedBy(now, before, Limit.deadband, 1) THEN "rising"
        ELSE IF ChangedBy(now, before, Limit.deadband, -1) THEN "falling"
        ELSE "stable"

(***************************************************************************)
(* Fatigue: the last days against as many days before them, whatever the   *)
(* range of the report.                                                    *)
(***************************************************************************)
RecentDays(last) == {d \in Day : d <= last /\ d > last - Limit.window}
PriorDays(last) == RecentDays(last - Limit.window)

\* Mutant: the frequency alone is pressure, and two of the three signals
\* are always looked for in the recent window only.
FatigueOfNow(t, last) ==
    LET now == Signals(t, RecentDays(last))
    IN  IF Known(now.frequency) THEN "fatigue_signal" ELSE "healthy"

Fatigue(t, last) ==
    LET observed(days) == Cardinality(DaysSeen(t, days)) >= Limit.windowDays
        now == Signals(t, RecentDays(last))
        before == Signals(t, PriorDays(last))
        pressed == /\ Known(now.frequency) /\ Known(before.frequency)
                   /\ now.frequency[1] >= Limit.frequency * now.frequency[2]
                   /\ RatLess(before.frequency, now.frequency)
        score == Cardinality(
            {s \in {"ctr_decline", "cost_escalation", "frequency_pressure"} :
                CASE s = "ctr_decline" ->
                        ChangedBy(now.ctr, before.ctr, Limit.decline, -1)
                  [] s = "cost_escalation" ->
                        ChangedBy(now.cpa, before.cpa, Limit.decline, 1)
                  [] OTHER -> pressed})
    IN  IF ~observed(RecentDays(last)) \/ ~observed(PriorDays(last))
          THEN "insufficient_data"
        ELSE CASE score >= 2 -> "fatigue_signal"
               [] score = 1 -> "watch"
               [] OTHER -> "healthy"

(***************************************************************************)
(* Classification and readiness: ordered rules, the first one that matches.*)
(***************************************************************************)
Sampled(sig) ==
    /\ Reaches(sig.impressions, Limit.impressions)
    /\ Reaches(sig.spend, Limit.spend)

LosesMoney(sig) ==
    Known(sig.roas) /\ Known(breakEven) /\ RatLess(sig.roas, breakEven)

Classification(sig, n, fatigue, trend) ==
    LET strong == /\ Known(sig.ctr) /\ ~BelowPct(sig.ctr, Limit.ctrLow)
                  /\ Reaches(sig.conversions, Limit.conversions)
                  /\ trend # "falling"
    IN  IF n < Limit.classDays \/ ~Sampled(sig) THEN "insufficient_data"
        ELSE IF fatigue = "fatigue_signal" THEN "fatigue_signal"
        ELSE IF LosesMoney(sig) THEN "underperforming"
        ELSE IF Known(sig.ctr) /\ BelowPct(sig.ctr, Limit.ctrCritical)
          THEN "underperforming"
        ELSE IF strong THEN "strong"
        ELSE IF n < Limit.scalingDays THEN "developing" ELSE "stable"

\* Mutant: the gates of readiness have no minimum of days.
ReadinessAnyRunway(sig, n, fatigue, class) ==
    IF ~Sampled(sig) \/ ~Reaches(sig.conversions, Limit.conversions)
      THEN "insufficient_data"
    ELSE IF fatigue \in {"watch", "fatigue_signal"} THEN "fatigue_risk"
    ELSE IF LosesMoney(sig) THEN "not_ready"
    ELSE IF class = "strong" THEN "strong_candidate_for_review"
    ELSE "ready_for_review"

Readiness(sig, n, fatigue, class) ==
    IF \/ ~Sampled(sig)
       \/ n < Limit.scalingDays
       \/ ~Reaches(sig.conversions, Limit.conversions)
      THEN "insufficient_data"
    ELSE IF fatigue \in {"watch", "fatigue_signal"} THEN "fatigue_risk"
    ELSE IF LosesMoney(sig) THEN "not_ready"
    ELSE IF class = "strong" THEN "strong_candidate_for_review"
    ELSE "ready_for_review"

(***************************************************************************)
(* One link over a range of days: what is measured, and how it is judged.  *)
(***************************************************************************)
Measure(link, range) ==
    LET t == link.target
        seen == DaysSeen(t, range)
    IN  [link |-> link, context |-> ContextOf(link.entity),
         days |-> Cardinality(seen), signals |-> Signals(t, range),
         fatigue |-> Fatigue(t, Max(range)), trend |-> CtrTrend(t, range),
         fresh |-> IF seen = {} THEN NA ELSE Max(range) - Max(seen)]

Judged(m) ==
    LET class == Classification(m.signals, m.days, m.fatigue, m.trend)
    IN  [link |-> m.link, context |-> m.context, days |-> m.days,
         signals |-> m.signals, fatigue |-> m.fatigue, fresh |-> m.fresh,
         class |-> class,
         ready |-> Readiness(m.signals, m.days, m.fatigue, class)]

Observations(range) == {Judged(m) : m \in {Measure(l, range) : l \in links}}

(***************************************************************************)
(* Rankings: links that share a trait or a campaign, by click rate, with a *)
(* sample of impressions and clicks; ties go to the smaller identifier.    *)
(***************************************************************************)
DimensionOf(o, dimension) ==
    IF dimension = "campaign" THEN CampaignOf[o.link.target]
                              ELSE o.context[dimension]

Rankable(o) ==
    /\ Reaches(o.signals.impressions, Limit.impressions)
    /\ Reaches(o.signals.clicks, Limit.clicks)

Before(o, p) ==
    \/ RatLess(p.signals.ctr, o.signals.ctr)
    \/ /\ ~RatLess(o.signals.ctr, p.signals.ctr)
       /\ o.link.entity < p.link.entity

\* The ranking as the pairs it orders; two links of one creative with equal
\* rates come in either order.
Ranking(group) ==
    LET ranked == {o \in group : Rankable(o)}
    IN  {<<x[1].link, x[2].link>> : x \in
            {y \in ranked \X ranked : Before(y[1], y[2])}}

Comparisons(observed) ==
    LET dimensions == DOMAIN NoTraits \union {"campaign"}
        value(o, d) == DimensionOf(o, d)
        group(d, v) == {o \in observed : value(o, d) = v}
        keys == {k \in {<<d, value(o, d)>> : d \in dimensions, o \in observed} :
                    Known(k[2]) /\ Cardinality(group(k[1], k[2])) >= 2}
    IN  {[dimension |-> k[1], ranking |-> Ranking(group(k[1], k[2]))] : k \in keys}

PerformanceReport(observed) ==
    [observed |-> observed, comparisons |-> Comparisons(observed)]

(***************************************************************************)
(* Reading one creative takes any of its links; no order is asked for.     *)
(***************************************************************************)
EntityObservations(e, range) ==
    {o \in Observations(range) : o.link.entity = e}
=============================================================================
