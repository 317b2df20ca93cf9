-------------------------- MODULE CreativeLearning --------------------------
(***************************************************************************)
(* What the linked creatives of a business teach. Every observed link is   *)
(* profiled against the mean of the sampled ones; profiles that share a    *)
(* trait form a pattern with a status; patterns, fatigue, concentration    *)
(* and uncovered taxonomy values give recommendations for review.          *)
(* Statements, strongest signals and the portfolio roles, which no caller  *)
(* supplies, are left out. Two links of one creative are two profiles.     *)
(***************************************************************************)
EXTENDS CreativePerformance

Metric == {"ctr", "cpc", "cpa", "roas"}
PatternDimension == {"angle", "hook", "format", "stage"}

(***************************************************************************)
(* Profiles. Ratios are compared as per mille.                             *)
(***************************************************************************)
PerMille(r) == (1000 * r[1]) \div r[2]

Baseline(observed, metric) ==
    LET sampled == {o \in observed : Sampled(o.signals) /\ Known(o.signals[metric])}
        value(o) == PerMille(o.signals[metric])
    IN  Ratio(MapThenSumSet(value, sampled), Cardinality(sampled))

Direction(o, metric, baseline) ==
    LET value == <<PerMille(o.signals[metric]), 1>>
        moved(sign) == ChangedBy(value, baseline, Limit.deadband, sign)
        good == IF metric \in {"ctr", "roas"} THEN 1 ELSE -1
    IN  IF ~Known(o.signals[metric]) \/ ~Known(baseline) THEN "insufficient"
        ELSE IF baseline[1] = 0 THEN "insufficient"
        ELSE IF moved(good) THEN "positive"
        ELSE IF moved(-good) THEN "negative" ELSE "neutral"

Profiles(observed) ==
    LET profile(o) ==
            LET towards == [metric \in Metric |->
                    Direction(o, metric, Baseline(observed, metric))]
            IN  [link |-> o.link, context |-> o.context, fresh |-> o.fresh,
                 fatigue |-> o.fatigue, class |-> o.class,
                 sufficient |-> Sampled(o.signals),
                 direction |-> towards,
                 conflicts |-> {m \in Metric \ {"ctr"} :
                    towards["ctr"] = "positive" /\ towards[m] = "negative"}]
    IN  {profile(o) : o \in observed}

(***************************************************************************)
(* Patterns: the click rates of the sampled profiles that share a trait.   *)
(***************************************************************************)
Shares(p, dimension, value) == p.context[dimension] = value

StatusOf(observed, minority, fresh) ==
    IF observed < Limit.minEntities THEN "insufficient_data"
    ELSE IF minority * 100 >= Limit.conflict * observed THEN "conflicting"
    ELSE IF Known(fresh) /\ fresh > Limit.staleDays THEN "stale"
    ELSE IF minority > 0 THEN "emerging"
    ELSE IF observed >= Limit.stableMin THEN "stable" ELSE "supported"

StrengthOf(status) ==
    CASE status = "stable" -> "strong"
      [] status \in {"supported", "stale"} -> "moderate"
      [] status \in {"emerging", "conflicting"} -> "weak"
      [] OTHER -> "insufficient"

Pattern(profiles, dimension, value) ==
    LET sampled == {p \in profiles : Shares(p, dimension, value) /\ p.sufficient}
        towards(d) == {p \in sampled : p.direction["ctr"] = d}
        pos == Cardinality(towards("positive"))
        neg == Cardinality(towards("negative"))
        ages == {p.fresh : p \in sampled} \ {NA}
        fresh == IF ages = {} THEN NA ELSE Max(ages)
        status == StatusOf(Cardinality(sampled), Min({pos, neg}), fresh)
    IN  [ref |-> <<dimension, value>>, status |-> status,
         strength |-> StrengthOf(status),
         dominant |-> IF status = "insufficient_data" THEN NA
                      ELSE CASE pos > neg -> "positive"
                             [] neg > pos -> "negative"
                             [] OTHER -> "neutral",
         fresh |-> fresh, against |-> neg,
         supporting |-> {p.link.entity : p \in towards("positive")},
         contradicting |-> {p.link.entity : p \in towards("negative")}]

Patterns(profiles) ==
    UNION {{Pattern(profiles, d, v) : v \in {p.context[d] : p \in profiles} \ {NA}} :
               d \in PatternDimension}

Learnings(patterns) ==
    {p \in patterns : p.dominant \in {"positive", "negative"}}

Conflicts(patterns) == {p \in patterns : p.status = "conflicting"}

(***************************************************************************)
(* The portfolio: a value that more than half of the profiles carry is a   *)
(* concentration risk; a taxonomy value nobody uses is a gap.              *)
(***************************************************************************)
Concentrated(profiles, trait) ==
    {v \in {p.context[trait] : p \in profiles} \ {NA} :
        2 * Cardinality({p \in profiles : Shares(p, trait, v)}) > Cardinality(profiles)}

CoverageGaps(profiles) ==
    LET gaps(trait, taxonomy) ==
            {<<trait, v>> : v \in taxonomy \ {p.context[trait] : p \in profiles}}
    IN  gaps("hook", Hook) \union gaps("format", Format)

\* The first gaps, hooks before formats, each in the order of its values.
FirstGaps(gaps) ==
    LET before(g, h) == \/ g[1] = "hook" /\ h[1] = "format"
                        \/ g[1] = h[1] /\ g[2] < h[2]
    IN  {g \in gaps : Cardinality({h \in gaps : before(h, g)}) < Limit.gaps}

(***************************************************************************)
(* Recommendations, for review. A priority comes from the doubled weight   *)
(* of the one factor a recommendation has.                                 *)
(***************************************************************************)
PriorityOf(weight) ==
    IF weight >= 6 THEN "high" ELSE IF weight >= 3 THEN "medium" ELSE "low"

Recommend(type, ref, weight) ==
    [type |-> type, ref |-> ref, priority |-> PriorityOf(weight)]

Recommendations(profiles, patterns) ==
    LET weight(p) == CASE p.strength = "strong" -> 4
                       [] p.strength = "moderate" -> 3
                       [] OTHER -> 2
        positive(statuses) ==
            {p \in patterns : p.dominant = "positive" /\ p.status \in statuses}
        tired(f) == {<<"entity", p.link.entity>> : p \in {q \in profiles : q.fatigue = f}}
    IN  {Recommend("refresh_creative", r, 6) : r \in tired("fatigue_signal")}
        \union {Recommend("investigate_fatigue", r, 0) : r \in tired("watch")}
        \union {Recommend("reduce_concentration", <<"angle", v>>, 5) :
                    v \in Concentrated(profiles, "angle")}
        \union {Recommend("investigate_conflicting_evidence", p.ref, 4) :
                    p \in Conflicts(patterns)}
        \union {Recommend(IF p.ref[1] = "angle" THEN "expand_angle"
                                                   ELSE "explore_more",
                          p.ref, weight(p)) :
                    p \in {q \in positive({"stable", "supported"}) :
                              q.ref[1] # "stage"}}
        \union {Recommend("gather_more_evidence", p.ref, 2) :
                    p \in positive({"emerging"})}
        \union {Recommend(IF g[1] = "hook" THEN "test_new_hook"
                                           ELSE "test_new_format", g, 0) :
                    g \in FirstGaps(CoverageGaps(profiles))}

(***************************************************************************)
(* The status of the business and the report.                              *)
(***************************************************************************)
SufficientCount(profiles) == Cardinality({p \in profiles : p.sufficient})

LearningStatus(profiles, patterns) ==
    LET statuses == {p.status : p \in patterns}
    IN  IF SufficientCount(profiles) < Limit.minEntities
        THEN "insufficient_data"
        ELSE IF "conflicting" \in statuses THEN "conflicting"
        ELSE IF "stale" \in statuses THEN "stale"
        ELSE IF "stable" \in statuses THEN "stable"
        ELSE IF "supported" \in statuses THEN "supported" ELSE "emerging"

LearningReport(profiles, patterns) ==
    [profiles |-> profiles, patterns |-> patterns,
     recommendations |-> Recommendations(profiles, patterns),
     status |-> LearningStatus(profiles, patterns)]
=============================================================================
