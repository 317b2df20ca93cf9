-------------------------- MODULE CreativeInsight ---------------------------
(***************************************************************************)
(* The layers above the linked creatives, as requests run them: a report   *)
(* on performance, a learning report and an optimization plan are computed *)
(* from what the request reads and stored as snapshots, one for each       *)
(* fingerprint; the decision plan freezes the latest optimization plan,    *)
(* people acknowledge its items, and acknowledged items become draft       *)
(* tests. Facts arrive, concepts and links change, and the unit economics  *)
(* move in between.                                                        *)
(* A request reads its inputs at once. Organisations, authors, review      *)
(* states other than acknowledgement (module CreativeLifecycle has them)   *)
(* and the life of a draft are left out.                                   *)
(***************************************************************************)
EXTENDS CreativeOptimization

CONSTANTS
    Request,
    Period,     \* the reporting ranges, sets of days
    Form,       \* what a client may send to create a concept
    Series,     \* the facts an ad may have, functions from days to rows
    Economy,    \* what the break-even ROAS may become, NA at first
    InitialConcepts, InitialLinks, InitialFacts,
    MaxWork,    \* bound: generations
    MaxChanges, \* bound: changes of the inputs
    MaxReviews  \* bound: acknowledged items

\* A report is over finitely many days, and no creative is ready to scale on
\* fewer of them than it is classified on.
InsightAssumption ==
    /\ \A range \in Period : IsFiniteSet(range)
    /\ Limit.classDays \in Int /\ Limit.scalingDays \in Int
    /\ Limit.minEntities \in Int /\ Limit.classDays <= Limit.scalingDays
    /\ IsFiniteSet(InitialLinks)

VARIABLES
    stored,     \* snapshots, [layer, at, key, body, cites]
    work,       \* work[r]: the snapshot a request is about to insert, or NA
    decided,    \* the decision plans in their order, [source, items]
    acknowledged,   \* identifiers of acknowledged items
    drafts,     \* [id, spec, supporting]
    clock,      \* generations begun; a snapshot is dated by its beginning
    changes     \* changes so far

layers == <<stored, work, decided, acknowledged, drafts>>
vars == <<inputs, layers, clock, changes>>

(***************************************************************************)
(* Changes of the inputs.                                                  *)
(***************************************************************************)
Change == changes < MaxChanges /\ changes' = changes + 1 /\ UNCHANGED <<layers, clock>>

CreateConcept(c, form) ==
    /\ Change
    /\ ~Known(concepts[c])
    /\ Acceptable(form)
    /\ concepts' = [concepts EXCEPT ![c] = TraitsOf(form)]
    /\ UNCHANGED <<facts, links, breakEven>>

CreateLink(e, t) ==
    /\ Change
    /\ e \in Concept => Known(concepts[e])
    /\ [entity |-> e, target |-> t] \notin links
    /\ links' = links \union {[entity |-> e, target |-> t]}
    /\ UNCHANGED <<facts, concepts, breakEven>>

DeleteLink(l) ==
    /\ Change
    /\ links' = links \ {l}
    /\ UNCHANGED <<facts, concepts, breakEven>>

Sync(a, series) ==
    /\ Change
    /\ facts[a] # series
    /\ facts' = [facts EXCEPT ![a] = series]
    /\ UNCHANGED <<concepts, links, breakEven>>

Reprice(e) ==
    /\ Change
    /\ breakEven # e
    /\ breakEven' = e
    /\ UNCHANGED <<facts, concepts, links>>

(***************************************************************************)
(* Snapshots. The key of a report is its range and the entities it covers, *)
(* once per link for performance, once each for learning: not what was     *)
(* observed. The key of a plan is the whole plan.                          *)
(***************************************************************************)
Latest(layer) ==
    LET of == {s \in stored : s.layer = layer}
    IN  IF of = {} THEN NA
        ELSE CHOOSE s \in of : \A u \in of : u.at <= s.at

PerformanceKey(range) ==
    <<range, [e \in {l.entity : l \in links} |->
                 Cardinality({l \in links : l.entity = e})]>>

LearningKey(range) == <<range, {l.entity : l \in links}>>

\* What a request computes, as sets of one element: the entry of a layer is
\* its key and its body.
Learned(range) ==
    {[key |-> LearningKey(range), body |-> LearningReport(x[1], x[2])] :
        x \in {<<p, Patterns(p)>> : p \in {Profiles(o) : o \in {Observations(range)}}}}

\* Mutant: the report is computed anew for every plan.
SourcesFresh(range) == Learned(range)

\* A plan reads the latest learning report, of whatever range, and computes
\* one only when none is stored. What it was built from is kept beside it.
Sources(range) ==
    IF Known(Latest("learning")) THEN {Latest("learning")} ELSE Learned(range)

Planned(range) ==
    {[key |-> Plan(x[1].body, Dedupe(x[2]), x[1].key), body |-> x[1].body] :
        x \in {<<s, Opportunities(s.body.profiles, s.body.patterns)>> :
                  s \in Sources(range)}}

Computed(layer, range) ==
    CASE layer = "performance" ->
            {[key |-> PerformanceKey(range), body |-> PerformanceReport(o)] :
                o \in {Observations(range)}}
      [] layer = "learning" -> Learned(range)
      [] OTHER -> Planned(range)

Present(layer, key) == \E s \in stored : s.layer = layer /\ s.key = key

\* What is not stored: a learning report without links, a plan of nothing.
Storable(layer, range) ==
    CASE layer = "performance" -> TRUE
      [] layer = "learning" -> links # {}
      [] OTHER -> IF Known(Latest("learning")) THEN TRUE ELSE links # {}

\* A generation that finds its key returns the snapshot and stores nothing. A
\* plan cites a learning report in any case; cites says that it was a stored one.
Generate(r, layer, range) ==
    /\ clock < MaxWork
    /\ ~Known(work[r])
    /\ Storable(layer, range)
    /\ \E c \in Computed(layer, range) :
          /\ ~Present(layer, c.key)
          /\ work' = [work EXCEPT ![r] =
                 [layer |-> layer, at |-> clock, key |-> c.key, body |-> c.body,
                  cites |-> layer = "plan" /\ Known(Latest("learning"))]]
    /\ clock' = clock + 1
    /\ UNCHANGED <<inputs, stored, decided, acknowledged, drafts, changes>>

\* The unique index refuses the second of two that were computed at once.
Insert(r) ==
    /\ Known(work[r])
    /\ stored' = IF Present(work[r].layer, work[r].key) THEN stored
                 ELSE stored \union {work[r]}
    /\ work' = [work EXCEPT ![r] = NA]
    /\ UNCHANGED <<inputs, decided, acknowledged, drafts, clock, changes>>

(***************************************************************************)
(* The decision plan, reviews and drafts.                                  *)
(***************************************************************************)
Items == IF decided = <<>> THEN {} ELSE decided[Len(decided)].items

Decide ==
    /\ Known(Latest("plan"))
    /\ \A i \in DOMAIN decided : decided[i].source # Latest("plan").key
    /\ decided' = Append(decided, [source |-> Latest("plan").key,
                                   items |-> Latest("plan").key.items])
    /\ UNCHANGED <<inputs, stored, work, acknowledged, drafts, clock, changes>>

Acknowledge(id) ==
    /\ Cardinality(acknowledged) < MaxReviews
    /\ id \in {i.id : i \in Items} \ acknowledged
    /\ acknowledged' = acknowledged \union {id}
    /\ UNCHANGED <<inputs, stored, work, decided, drafts, clock, changes>>

\* One draft for each identifier, ever; the items of older plans are orphans.
GenerateDrafts ==
    LET taken == {d.id : d \in drafts}
        ready == {i \in Items : /\ i.id \in acknowledged \ taken
                                /\ Known(Translate(i))}
    IN  /\ ready # {}
        /\ drafts' = drafts \union
               {[id |-> i.id, spec |-> Translate(i), supporting |-> i.supporting] :
                   i \in ready}
        /\ UNCHANGED <<inputs, stored, work, decided, acknowledged, clock, changes>>

(***************************************************************************)
(* The measurement of a draft looks at the concepts behind it, each by any *)
(* one of its links.                                                       *)
(***************************************************************************)
Measured(o) == Sampled(o.signals) /\ o.days >= Limit.scalingDays

MeasuredEntity(e, range) ==
    LET any == EntityObservations(e, range)
    IN  /\ e \in Concept
        /\ any # {}
        /\ Measured(CHOOSE o \in any : TRUE)

Measurement(draft, range) ==
    IF draft.supporting # {}
       /\ \A e \in draft.supporting : MeasuredEntity(e, range)
    THEN "sufficient" ELSE "insufficient_data"

(***************************************************************************)
Init ==
    /\ facts = InitialFacts
    /\ concepts = InitialConcepts
    /\ links = InitialLinks
    /\ breakEven = NA
    /\ stored = {}
    /\ work = [r \in Request |-> NA]
    /\ decided = <<>>
    /\ acknowledged = {}
    /\ drafts = {}
    /\ clock = 0
    /\ changes = 0

Next ==
    \/ \E c \in Concept, form \in Form : CreateConcept(c, form)
    \/ \E e \in Concept \union Variant, t \in Target : CreateLink(e, t)
    \/ \E l \in links : DeleteLink(l)
    \/ \E a \in Ad, series \in Series : Sync(a, series)
    \/ \E e \in Economy : Reprice(e)
    \/ \E r \in Request, range \in Period, layer \in {"performance", "learning", "plan"} :
          Generate(r, layer, range)
    \/ \E r \in Request : Insert(r)
    \/ Decide
    \/ \E i \in Items : Acknowledge(i.id)
    \/ GenerateDrafts

Spec == Init /\ [][Next]_vars
-----------------------------------------------------------------------------
(***************************************************************************)
(* The rules of classification, readiness and measurement are written      *)
(* apart (performance/engine.py classify and scaling_readiness, measurement*)
(* /service.py _observation_sufficiency). In a stored report they agree: a *)
(* creative that may be reviewed for scaling, or that a test report calls  *)
(* sufficiently observed, is classified on enough data and is not tired,   *)
(* and the strong candidates are exactly the strong ones among the         *)
(* creatives that may be reviewed.                                         *)
(***************************************************************************)
GatesAgree ==
    \A s \in {u \in stored : u.layer = "performance"} :
        \A o \in s.body.observed :
            LET reviewable == o.ready \in {"ready_for_review",
                                           "strong_candidate_for_review"}
            IN  /\ reviewable \/ Measured(o) => o.class # "insufficient_data"
                /\ reviewable => o.class # "fatigue_signal"
                /\ o.ready = "strong_candidate_for_review"
                       <=> reviewable /\ o.class = "strong"

(***************************************************************************)
(* The learning engine recommends and the optimization engine plans from   *)
(* the same profiles by rules written apart. A refresh, a concentration on *)
(* an angle, an expansion, an exploration, a gap, and an inquiry about an  *)
(* angle have exactly one item in the plan built from that report, also    *)
(* where two links of one creative raise it twice. The plan ignores the    *)
(* rest and has no item of them: early signs of fatigue, and thin or mixed *)
(* evidence on a hook, a format or a stage.                                *)
(***************************************************************************)
ItemType(rec) ==
    CASE rec.type = "refresh_creative" -> "refresh_fatigued_creative"
      [] rec.type = "reduce_concentration" -> "reduce_angle_concentration"
      [] rec.type = "expand_angle" -> "expand_supported_angle"
      [] rec.type \in {"explore_more", "test_new_hook", "test_new_format"} ->
            IF rec.ref[1] = "hook" THEN "test_new_hook" ELSE "test_new_format"
      [] OTHER -> rec.type

Ignored(rec) ==
    \/ rec.type = "investigate_fatigue"
    \/ /\ rec.type \in {"gather_more_evidence", "investigate_conflicting_evidence"}
       /\ rec.ref[1] # "angle"

Answered(rec, items) ==
    LET of == {i \in items : i.id[1] = ItemType(rec)}
    IN  IF Ignored(rec)
        THEN \A i \in of : i.id[2] # rec.ref[1]
        ELSE Cardinality({i \in of : i.id[3] = rec.ref[2]}) = 1

RecommendedIsPlanned ==
    \A s \in {u \in stored : u.layer = "plan"} :
        \A rec \in s.body.recommendations : Answered(rec, s.key.items)

(***************************************************************************)
(* A plan says insufficient_data exactly when the learning report it is    *)
(* built from does, and then none of its items claims a supported pattern; *)
(* an angle a gate blocks is never among its expansions.                   *)
(***************************************************************************)
PlanAgreesWithLearning ==
    \A s \in {u \in stored : u.layer = "plan"} :
        LET p == s.key
        IN  /\ p.status = "insufficient_data"
                   <=> s.body.status = "insufficient_data"
            /\ p.status = "insufficient_data" =>
                   \A i \in p.items : i.status # "supported_pattern"
            /\ \A b \in p.blocked : \A i \in p.items :
                   ~(i.id[1] = b.type /\ i.id[3] = b.ref)

(***************************************************************************)
(* A plan cites the learning report it was built from by a fingerprint     *)
(* that does not cover the facts. Unless the report was computed for the   *)
(* plan alone, the fingerprint leads to a stored report, and to no other   *)
(* than the one the plan was built from, whatever facts have arrived since *)
(* and however requests overlap.                                           *)
(***************************************************************************)
CitationsHold ==
    \A s \in {u \in stored : u.cites} :
        {u.body : u \in {v \in stored : v.layer = "learning" /\ v.key = s.key.learning}}
            = {s.body}

(***************************************************************************)
(* Plans follow the reports they are built from.                           *)
(***************************************************************************)
PlansFollowReports == RecommendedIsPlanned /\ PlanAgreesWithLearning
=============================================================================
