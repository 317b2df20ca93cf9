------------------------ MODULE CreativeOptimization ------------------------
(***************************************************************************)
(* The optimization plan: opportunities for review, built from the         *)
(* profiles of a learning report and the concepts as they are now, gated,  *)
(* scored and made unique by identifier; and the translation of an item of *)
(* the plan into a draft test. Weights are doubled, to be integers.        *)
(* Rationales, provenance chains and suggested wording are left out.       *)
(***************************************************************************)
EXTENDS CreativeLearning

Stages == {"awareness", "interest", "consideration", "purchase", "retention"}

Category(type) ==
    CASE type \in {"expand_supported_angle", "test_new_hook", "test_new_format"}
            -> "expansion"
      [] type = "refresh_fatigued_creative" -> "fatigue"
      [] type \in {"reduce_angle_concentration", "reduce_format_concentration"}
            -> "concentration"
      [] type \in {"improve_funnel_coverage", "improve_proof_coverage",
                   "improve_objection_coverage"} -> "coverage"
      [] type \in {"validate_offer_alignment", "validate_message_alignment"}
            -> "alignment"
      [] OTHER -> "investigation"

(***************************************************************************)
(* The score: the weights of the factors that apply, less one for each     *)
(* contradicting profile, up to four.                                      *)
(***************************************************************************)
Weight ==
    [strong |-> 6, moderate |-> 4, weak |-> 2, sufficient |-> 2, fresh |-> 1,
     aligned |-> 2, stage |-> 1, high |-> 4, medium |-> 2, coverage |-> 2,
     diversity |-> 3, fatigue |-> 5]

LearningValue(category, status) ==
    CASE category = "investigation" ->
            IF status = "conflicting_evidence" THEN "high" ELSE "medium"
      [] category = "coverage" -> "medium"
      [] OTHER -> "low"

Score(factors, against) ==
    SumFunctionOnSet(Weight, factors \intersect DOMAIN Weight) - Min({against, 4})

PriorityOfScore(score) ==
    IF score >= 10 THEN "high" ELSE IF score >= 5 THEN "medium" ELSE "low"

(***************************************************************************)
(* An opportunity: what it is about, its status, the evidence, and the     *)
(* factors of its score that depend on the rule that makes it. Its         *)
(* identifier is the triple of type, dimension and reference; the link     *)
(* tells apart those that two links of one creative raise.                 *)
(***************************************************************************)
Opportunity(type, dimension, ref, status, evidence, factors) ==
    LET category == Category(type)
        value == LearningValue(category, status)
        fresh == IF Known(evidence.fresh)
                 THEN IF evidence.fresh <= Limit.staleDays THEN {"fresh"} ELSE {}
                 ELSE {}
        score == Score(factors \union fresh \union {value, evidence.strength},
                       evidence.against)
    IN  [id |-> <<type, dimension, ref>>, status |-> status,
         category |-> category, strength |-> evidence.strength,
         data |-> factors \intersect {"sufficient", "insufficient", "unavailable"},
         supporting |-> evidence.supporting,
         contradicting |-> evidence.contradicting,
         score |-> score, priority |-> PriorityOfScore(score),
         link |-> evidence.link]

Evidence(strength) ==
    [strength |-> strength, fresh |-> NA, against |-> 0, supporting |-> {},
     contradicting |-> {}, link |-> NA]

EvidenceOf(pattern) ==
    [Evidence(pattern.strength) EXCEPT !.fresh = pattern.fresh,
        !.against = pattern.against, !.supporting = pattern.supporting,
        !.contradicting = pattern.contradicting]

EvidenceFrom(profile, strength) ==
    [Evidence(strength) EXCEPT !.fresh = profile.fresh,
        !.supporting = {profile.link.entity}, !.link = profile.link]

\* What the concepts behind an opportunity add to its score.
Anchored(c) == Known(concepts[c].offer) \/ Known(concepts[c].messaging)

StrategyFlags(entities) ==
    LET known == entities \intersect Written
    IN  (IF \E c \in known : Anchored(c) THEN {"aligned"} ELSE {})
        \union (IF \E c \in known : concepts[c].stage \in Stages THEN {"stage"} ELSE {})

(***************************************************************************)
(* Angles: a pattern with a positive association expands unless a gate     *)
(* blocks it, and the blocked ones are kept with their gate. An emerging   *)
(* pattern passes the gates.                                               *)
(***************************************************************************)
Blocking == {"insufficient_data", "stale", "conflicting"}

OfDimension(patterns, dimension) == {p \in patterns : p.ref[1] = dimension}

Favoured(patterns) ==
    {p \in OfDimension(patterns, "angle") : p.dominant = "positive"}

\* Mutant: every favoured angle expands, the gates only report.
ExpansionsUngated(patterns) ==
    {Opportunity("expand_supported_angle", "angle", p.ref[2], "supported_pattern",
                 EvidenceOf(p), {"sufficient"}) : p \in Favoured(patterns)}

Expansions(patterns) ==
    {Opportunity("expand_supported_angle", "angle", p.ref[2], "supported_pattern",
                 EvidenceOf(p),
                 {"sufficient"} \union
                    StrategyFlags(p.supporting \union p.contradicting)) :
        p \in {q \in Favoured(patterns) : q.status \notin Blocking}}

Blocked(patterns) ==
    {[type |-> "expand_supported_angle", ref |-> p.ref[2], gate |-> p.status] :
        p \in {q \in Favoured(patterns) : q.status \in Blocking}}

Inquiries(patterns) ==
    LET angles(statuses) ==
            {p \in OfDimension(patterns, "angle") : p.status \in statuses}
    IN  {Opportunity("investigate_conflicting_evidence", "angle", p.ref[2],
                     "conflicting_evidence", EvidenceOf(p), {"insufficient"}) :
            p \in angles({"conflicting"})}
        \union {Opportunity("gather_more_evidence", "angle", p.ref[2], p.status,
                     [Evidence(p.strength) EXCEPT !.fresh = p.fresh],
                     {IF p.status = "emerging" THEN "sufficient"
                                               ELSE "insufficient"}) :
            p \in angles({"insufficient_data", "emerging"})}

Explorations(patterns) ==
    {Opportunity(IF p.ref[1] = "hook" THEN "test_new_hook" ELSE "test_new_format",
                 p.ref[1], p.ref[2], "supported_pattern", EvidenceOf(p),
                 {"sufficient"} \union StrategyFlags(p.supporting)) :
        p \in {q \in patterns : /\ q.ref[1] \in {"hook", "format"}
                                /\ q.dominant = "positive"
                                /\ q.status \in {"stable", "supported"}}}

(***************************************************************************)
(* Creatives: a refresh for every fatigued link, a look at every sampled   *)
(* link that underperforms.                                                *)
(***************************************************************************)
Refreshes(profiles) ==
    {Opportunity("refresh_fatigued_creative", "entity", p.link.entity,
                 "fatigue_signal", EvidenceFrom(p, "moderate"),
                 {"fatigue", IF p.sufficient THEN "sufficient" ELSE "insufficient"}) :
        p \in {q \in profiles : q.fatigue = "fatigue_signal"}}

Underperformers(profiles) ==
    {Opportunity("investigate_underperformance", "entity", p.link.entity,
                 "investigate", EvidenceFrom(p, "weak"), {"sufficient"}) :
        p \in {q \in profiles : q.class = "underperforming" /\ q.sufficient}}

(***************************************************************************)
(* The portfolio: concentration, coverage and alignment. All concepts      *)
(* count for proof, objections and alignment, the linked ones for stages   *)
(* and the taxonomies.                                                     *)
(***************************************************************************)
Concentrations(profiles) ==
    LET risks(type, trait) ==
            {Opportunity(type, "portfolio", v, "concentration_risk",
                         Evidence("moderate"), {"sufficient", "diversity"}) :
                v \in Concentrated(profiles, trait)}
    IN  risks("reduce_angle_concentration", "angle")
        \union risks("reduce_format_concentration", "format")

Gap(type, dimension, ref) ==
    Opportunity(type, dimension, ref, "coverage_gap", Evidence("weak"),
                {"unavailable", "coverage"})

Coverage(profiles) ==
    {Gap("improve_funnel_coverage", "stage", s) :
        s \in Stages \ {p.context.stage : p \in profiles}}
    \union {Gap(IF g[1] = "hook" THEN "test_new_hook" ELSE "test_new_format",
                g[1], g[2]) : g \in CoverageGaps(profiles)}
    \union {Gap(IF t = "proof" THEN "improve_proof_coverage"
                               ELSE "improve_objection_coverage", t, NA) :
        t \in {u \in {"proof", "objection"} :
                  \A c \in Written : ~Known(concepts[c][u])}}

Alignments ==
    LET review(type, trait) ==
            IF Written = {} \/ \E c \in Written : Known(concepts[c][trait])
            THEN {}
            ELSE {Opportunity(type, trait, NA, "strategic_alignment_review",
                    [Evidence("weak") EXCEPT
                        !.supporting = {c \in Written : ~Anchored(c)}],
                    {"unavailable"})}
    IN  review("validate_offer_alignment", "offer")
        \union review("validate_message_alignment", "messaging")

Opportunities(profiles, patterns) ==
    Expansions(patterns) \union Inquiries(patterns)
        \union Explorations(patterns) \union Refreshes(profiles)
        \union Underperformers(profiles) \union Concentrations(profiles)
        \union Coverage(profiles) \union Alignments

(***************************************************************************)
(* The plan. Of the opportunities with one identifier the best scored is   *)
(* kept; between equals the first created stays.                           *)
(***************************************************************************)
\* Mutant: nothing is dropped.
DedupeNothing(opportunities) == opportunities

Dedupe(opportunities) ==
    LET best(same) == CHOOSE o \in same : \A p \in same : p.score <= o.score
    IN  {best(same) : same \in {{o \in opportunities : o.id = id} :
                                    id \in {o.id : o \in opportunities}}}

PlanStatus(items, total, sufficient) ==
    LET categories == {o.category : o \in items}
    IN  CASE total = 0 -> "unavailable"
          [] total > 0 /\ sufficient < Limit.minEntities -> "insufficient_data"
          [] OTHER ->
                IF "expansion" \in categories THEN "test_ready"
                ELSE IF categories \subseteq {"investigation"} THEN "investigate"
                ELSE "review_ready"

\* The plan of a learning report, which it names by its key; items are its
\* opportunities, each once.
Plan(report, items, key) ==
    [items |-> items, blocked |-> Blocked(report.patterns),
     status |-> PlanStatus(items, Cardinality(report.profiles),
                           SufficientCount(report.profiles)),
     tired |-> {p.link.entity : p \in {q \in report.profiles :
                                           q.fatigue = "fatigue_signal"}},
     summary |-> report.status,
     breakEven |-> Known(breakEven), learning |-> key]

(***************************************************************************)
(* The draft test of an item of a decision plan, NA where none can be      *)
(* assembled. What the item does not vary comes from the supporting        *)
(* concepts, else from all of them, by majority; the value decides a tie,  *)
(* not the order of the rows. An item about anything but an angle, a hook  *)
(* or a format has no format and makes no draft.                           *)
(***************************************************************************)
Majority(cs, trait) ==
    LET carried == {concepts[c][trait] : c \in cs} \ {NA}
        count(v) == Cardinality({c \in cs : concepts[c][trait] = v})
        top == {v \in carried : \A w \in carried : count(w) <= count(v)}
    IN  IF carried = {} THEN NA ELSE CHOOSE v \in top : TRUE

MajorityOf(item, trait) ==
    LET own == Majority(item.supporting \intersect Written, trait)
    IN  IF Known(own) THEN own ELSE Majority(Written, trait)

ObjectiveOf(stage) == IF stage \in Stages THEN stage ELSE "awareness"

\* The first supporting concept lends its angle and its stage.
Primary(item, trait) ==
    LET own == item.supporting \intersect Written
    IN  IF own = {} THEN NA ELSE concepts[Min(own)][trait]

RefreshSpec(item) ==
    LET c == item.id[3]
    IN  IF c \in Written
        THEN [kind |-> "fatigue", angle |-> concepts[c].angle,
              hook |-> concepts[c].hook, format |-> concepts[c].format,
              objective |-> ObjectiveOf(concepts[c].stage)]
        ELSE NA

TestSpec(item) ==
    LET varied == item.id[2]
        of(trait) == IF varied = trait THEN item.id[3] ELSE MajorityOf(item, trait)
    IN  IF varied \in {"angle", "hook", "format"} /\ Known(of("format"))
        THEN [kind |-> "expansion",
              angle |-> IF varied = "angle" THEN item.id[3]
                                           ELSE Primary(item, "angle"),
              hook |-> of("hook"), format |-> of("format"),
              objective |-> ObjectiveOf(IF Known(Primary(item, "stage"))
                                        THEN Primary(item, "stage")
                                        ELSE MajorityOf(item, "stage"))]
        ELSE NA

Translate(item) ==
    CASE item.category = "fatigue" -> RefreshSpec(item)
      [] item.category \in {"expansion", "coverage"} -> TestSpec(item)
      [] OTHER -> NA
=============================================================================
