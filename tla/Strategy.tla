------------------------------ MODULE Strategy ------------------------------
(***************************************************************************)
(* Positioning and offer candidates, their recommendation, and the         *)
(* decisions about them. A request reads its inputs, then the next version *)
(* number, then commits; other requests run in between. Every candidate    *)
(* has a strategy row of its own, so the two are one row here.             *)
(***************************************************************************)
EXTENDS Economics, Sequences

CONSTANTS
    Evidence,       \* research evidence that may be collected
    KindOf,         \* its type
    Request,        \* concurrent requests
    Positions,      \* what users ask for: [evidence, fields, proof]
    Offers,         \* [evidence, bundle, price, urgent, proof]
    Shops,          \* states of the product: [price, cost, stock, bundle]
    Goals,          \* goals in force, NA included
    MaxWork,        \* bound: requests that read before they write
    MaxChanges      \* bound: changes of the world, of a recommendation

ASSUME StrategyAssumption ==
    /\ \A ask \in Positions \union Offers : IsFiniteSet(ask.evidence)
    /\ MaxWork \in Nat /\ MaxChanges \in Nat

VARIABLES
    evidence,       \* the evidence stored
    intelligence,   \* the research snapshots, each the evidence it covers
    shop, goal,     \* the product; the goal in force
    seen,           \* what metrics, diagnostics and forecasts show
    positionings,   \* candidates, in the order they were committed
    offers,
    decisions,
    work,           \* work[r]: the request r in progress
    clock,          \* transactions begun: what created_at is taken from
    changes

world == <<shop, goal, seen>>
candidates == <<positionings, offers>>

Idle == [step |-> "idle"]

(***************************************************************************)
(* Scores, in 30ths for a positioning and 400ths for an offer.             *)
(***************************************************************************)
CustomerKinds == {"pain_point", "complaint", "desire", "buying_trigger",
                  "trust_signal"}
EdgeKinds == {"competitor_gap", "feature", "benefit"}

Kinds(refs) == {KindOf[e] : e \in refs}
Points(condition, worth) == IF condition THEN worth ELSE 0
Third(n) == Min({n, 3})

Strength(n) == CASE n >= 3 -> "strong" [] n = 2 -> "moderate"
                 [] n = 1 -> "weak" [] OTHER -> "insufficient"

\* Mutant: the coverage of the evidence is not divided by three.
PositionScorePerRow(ask) ==
    12 * Min({1, Cardinality(ask.evidence)})
        + Points(Kinds(ask.evidence) \intersect CustomerKinds # {}, 6)
        + Points(Kinds(ask.evidence) \intersect EdgeKinds # {}, 6)
        + Points({"solution", "differentiator"} \intersect ask.fields # {}, 6)

PositionScore(ask) ==
    4 * Third(Cardinality(ask.evidence))
        + Points(Kinds(ask.evidence) \intersect CustomerKinds # {}, 6)
        + Points(Kinds(ask.evidence) \intersect EdgeKinds # {}, 6)
        + Points({"solution", "differentiator"} \intersect ask.fields # {}, 6)

\* The economics of an offer: nothing without a price; no cost counts as 0.
OfferEconomics(ask) ==
    LET cost == IF Known(shop.cost) THEN shop.cost ELSE 0
        price == IF Known(ask.price) THEN ask.price ELSE shop.price
        of(income, stock) == [price |-> income, profit |-> income - cost,
                              stock |-> stock]
    IN  CASE ask.bundle -> of(IF Known(ask.price) THEN ask.price
                              ELSE shop.bundle, 1)
          [] ~ask.bundle /\ ~Known(shop.price) ->
                [price |-> NA, profit |-> NA, stock |-> 1]
          [] OTHER -> of(price, shop.stock)

Pays(economics) == Known(economics.profit) /\ economics.profit > 0

\* Mutant: an offer is judged by its stock and its evidence.
OfferScoreOfStock(ask, economics) ==
    Points(Known(economics.profit), 200) + Points(economics.stock > 0, 100)
        + <<33, 66, 100>>[Max({1, Third(Cardinality(ask.evidence))})]

OfferScore(ask, economics) ==
    Points(Pays(economics), 200) + Points(economics.stock > 0, 100)
        + IF ask.evidence = {} THEN 0
          ELSE <<33, 66, 100>>[Third(Cardinality(ask.evidence))]

OfferRisks(ask, economics) ==
    {risk \in {"missing_price", "margin_risk", "inventory_risk",
               "unsupported_urgency", "weak_proof"} :
        CASE risk = "missing_price" -> ~Known(economics.price)
          [] risk = "margin_risk" -> Known(economics.profit) /\ ~Pays(economics)
          [] risk = "inventory_risk" -> economics.stock <= 0
          [] risk = "unsupported_urgency" -> ask.urgent
          [] OTHER -> ~ask.proof}

(***************************************************************************)
(* Reading. A snapshot of new evidence is committed on its own and writes  *)
(* a finding for each piece it covers, so the links to a piece grow with   *)
(* every snapshot; overlapping requests may both write one.                *)
(***************************************************************************)
Snapshotted == \E i \in DOMAIN intelligence : intelligence[i] = evidence
EnsureSnapshot ==
    intelligence' = IF Snapshotted THEN intelligence
                    ELSE Append(intelligence, evidence)

Links(refs) ==
    LET times(e) == Max({1, Cardinality({i \in DOMAIN intelligence :
                                            e \in intelligence[i]})})
    IN  MapThenSumSet(times, refs)

\* Mutant: the number of rows instead of the highest version.
NextVersionByCount(rows) == Len(rows) + 1

NextVersion(rows) == Max({0} \union {rows[i].version : i \in DOMAIN rows}) + 1

Job(kind, input) == [step |-> "read", kind |-> kind, input |-> input,
                     start |-> clock + 1, fresh |-> "no", version |-> 0]

Begin(r, job) ==
    /\ work[r] = Idle /\ clock < MaxWork
    /\ clock' = clock + 1
    /\ work' = [work EXCEPT ![r] = job]

\* The version is read where the rows of one kind are counted on. A request
\* that wrote a snapshot does it in a new transaction.
Number(r, kind, rows) ==
    LET job == work[r] IN
    /\ job.step = "read" /\ job.kind = kind
    /\ clock' = IF job.fresh = "yes" THEN clock + 1 ELSE clock
    /\ work' = [work EXCEPT ![r] =
          [job EXCEPT !.step = "numbered", !.version = NextVersion(rows),
                      !.start = IF job.fresh = "yes" THEN clock' ELSE @]]

Finish(r, kind) ==
    /\ work[r].step = "numbered" /\ work[r].kind = kind
    /\ work' = [work EXCEPT ![r] = Idle]

Read(r, kind, ask) ==
    /\ ask.evidence \subseteq evidence
    /\ EnsureSnapshot
    /\ Begin(r, [Job(kind, [ask |-> ask, refs |-> Links(ask.evidence)])
                    EXCEPT !.fresh = IF Snapshotted THEN "no" ELSE "yes"])

(***************************************************************************)
(* Positioning.                                                            *)
(***************************************************************************)
CreatePosition(r) ==
    LET ask == work[r].input.ask
        score == PositionScore(ask)
    IN  /\ Finish(r, "positioning")
        /\ positionings' = Append(positionings,
                [version |-> work[r].version, start |-> work[r].start,
                 ask |-> ask, refs |-> work[r].input.refs, score |-> score,
                 cand |-> "draft", status |-> "draft", selected |-> "no"])
        /\ UNCHANGED <<offers, decisions, clock>>

Newest(rows) == {i \in DOMAIN rows :
                    \A j \in DOMAIN rows : rows[j].version <= rows[i].version}

\* created_at is the start of the transaction.
Latest(rows) ==
    IF rows = <<>> THEN 0
    ELSE CHOOSE i \in DOMAIN rows :
            \A j \in DOMAIN rows : rows[j].start <= rows[i].start

RecommendPosition ==
    \E i \in Newest(positionings) :
        LET row == positionings[i]
            ok == row.score >= 18 /\ row.ask.evidence # {}
        IN  positionings' = [positionings EXCEPT ![i] =
                IF ok THEN [row EXCEPT !.cand = "recommended",
                                !.status = "recommended", !.selected = "yes"]
                ELSE [row EXCEPT !.status = "insufficient_data",
                                 !.selected = "no"]]

(***************************************************************************)
(* Offers.                                                                 *)
(***************************************************************************)
CreateOffer(r) ==
    LET ask == work[r].input.ask
        economics == OfferEconomics(ask)
    IN  /\ Finish(r, "offer")
        /\ offers' = Append(offers,
                [version |-> work[r].version, start |-> work[r].start,
                 ask |-> ask, refs |-> work[r].input.refs,
                 economics |-> economics, score |-> OfferScore(ask, economics),
                 risks |-> OfferRisks(ask, economics),
                 cand |-> "draft", status |-> "draft", selected |-> "no"])
        /\ UNCHANGED <<positionings, decisions, clock>>

\* The verdict replaces that of the strategy, its selection stays.
ValidateOffer(i) ==
    LET broken == {"missing_price", "margin_risk", "unsupported_urgency"}
        verdict == IF offers[i].risks \intersect broken # {}
                   THEN "invalid" ELSE "validated"
    IN  offers' = [offers EXCEPT ![i] = [@ EXCEPT !.cand = verdict,
                                                  !.status = verdict]]

\* Only a draft or a validated candidate is considered: what is recommended
\* already is not, and the selection is taken back.
RecommendOffer ==
    \E i \in Newest(offers) :
        LET row == offers[i]
            free == row.cand \in {"validated", "draft"}
            ok == free /\ row.score >= 240 /\ "missing_price" \notin row.risks
        IN  offers' = [offers EXCEPT ![i] =
                IF ok THEN [row EXCEPT !.cand = "recommended",
                                !.status = "recommended", !.selected = "yes"]
                ELSE [row EXCEPT !.selected = "no",
                        !.status = IF free THEN "invalid"
                                           ELSE "insufficient_data"]]

(***************************************************************************)
(* Decisions: the weighted mean of the dimensions that are available, each *)
(* <<weight, value in 300ths, NA when unavailable>>.                       *)
(***************************************************************************)
Mean(dims, least) ==
    LET known == {n \in DOMAIN dims : Known(dims[n][2])}
        weight(n) == dims[n][1]
        worth(n) == dims[n][1] * dims[n][2]
    IN  MapThenSumSet(worth, known) * 100
            >= least * 300 * MapThenSumSet(weight, known)

When(condition) == IF condition THEN 300 ELSE NA
Graded(n) == IF n = 0 THEN NA ELSE <<99, 198, 300>>[Third(n)]

PositionDims(row) ==
    LET kinds == Kinds(row.ask.evidence)
        n == Cardinality(row.ask.evidence)
        fields == row.ask.fields
    IN  [research |-> <<20, IF n = 0 THEN NA ELSE 100 * Third(n)>>,
         customer |-> <<15, When({"pain_point", "complaint", "desire", "review",
                                  "buying_trigger"} \intersect kinds # {})>>,
         edge |-> <<15, When(EdgeKinds \intersect kinds # {})>>,
         capability |-> <<15, When({"solution", "promise"} \subseteq fields)>>,
         economics |-> <<10, When("solution" \in fields)>>,
         goal |-> <<10, When(Known(goal))>>,
         performance |-> <<5, When(seen.performance)>>,
         evidence |-> <<10, Graded(n)>>]

Ladder(dims) == CASE Mean(dims, 75) -> "recommended"
                  [] ~Mean(dims, 75) /\ Mean(dims, 50) -> "viable"
                  [] OTHER -> "needs_optimization"

PositionVerdict(row) ==
    CASE row.refs = 0 -> "not_recommended"
      [] row.refs # 0 /\ (~Known(goal) \/ ~seen.performance)
            -> "insufficient_data"
      [] OTHER -> Ladder(PositionDims(row))

\* The goal's limits that the economics of an offer can be held against.
GoalChecks(economics) ==
    IF ~Known(goal) \/ ~Known(economics.profit) THEN {}
    ELSE (IF Known(goal.cpa) THEN {economics.profit >= goal.cpa} ELSE {})
         \union
         (IF Known(goal.roas) /\ Pays(economics)
          THEN {economics.price <= goal.roas * economics.profit} ELSE {})

OfferDims(row) ==
    LET kinds == Kinds(row.ask.evidence)
        checks == GoalChecks(row.economics)
    IN  [viability |-> <<30, IF Pays(row.economics) THEN 300 ELSE 0>>,
         goal |-> <<15, IF checks = {} THEN NA
                        ELSE IF FALSE \in checks THEN 0 ELSE 300>>,
         customer |-> <<10, When({"pain_point", "objection", "desire", "review",
                                  "buying_trigger"} \intersect kinds # {})>>,
         competition |-> <<10, When({"competitor_gap", "pricing", "offer"}
                                        \intersect kinds # {})>>,
         performance |-> <<10, IF seen.findings = {} THEN NA
                               ELSE IF \E f \in seen.findings : f.about = "offer"
                               THEN 300 ELSE 150>>,
         forecast |-> <<5, When(seen.forecast = "available")>>,
         simulation |-> <<5, When(seen.simulated)>>,
         inventory |-> <<5, IF row.economics.stock > 0 THEN 300 ELSE 0>>,
         evidence |-> <<10, Graded(row.refs)>>]

\* A stored forecast is current, insufficient_data or unavailable, never
\* "available": its alignment is unavailable, and so is the verdict.
OfferVerdict(row) ==
    LET dims == OfferDims(row)
    IN  CASE ~Pays(row.economics) -> "economically_invalid"
          [] Pays(row.economics) /\ dims.goal[2] = 0 -> "goal_mismatch"
          [] Pays(row.economics) /\ dims.goal[2] # 0 /\
                \E n \in {"goal", "performance", "forecast", "simulation"} :
                    ~Known(dims[n][2]) -> "insufficient_data"
          [] OTHER -> Ladder(dims)

ReadDecision(r, kind, i) ==
    /\ EnsureSnapshot
    /\ Begin(r, Job("decision", [kind |-> kind, row |-> i, verdict |->
            IF kind = "positioning" THEN PositionVerdict(positionings[i])
                                    ELSE OfferVerdict(offers[i])]))

CommitDecision(r) ==
    /\ work[r].step = "read" /\ work[r].kind = "decision"
    /\ work' = [work EXCEPT ![r] = Idle]
    /\ decisions' = Append(decisions,
            [start |-> work[r].start, kind |-> work[r].input.kind,
             row |-> work[r].input.row, status |-> work[r].input.verdict])
    /\ UNCHANGED <<positionings, offers, clock>>

(***************************************************************************)
(* Properties.                                                             *)
(***************************************************************************)

\* A recommended positioning rests on two pieces of evidence at least. One is a
\* customer's or a competitor's, or there are three and a solution to offer,
\* which just make the threshold.
RecommendedHasEvidence ==
    \A i \in DOMAIN positionings :
        positionings[i].selected = "yes" =>
            LET ask == positionings[i].ask
            IN  /\ Cardinality(ask.evidence) >= 2
                /\ \/ Kinds(ask.evidence)
                          \intersect (CustomerKinds \union EdgeKinds) # {}
                   \/ /\ Cardinality(ask.evidence) >= 3
                      /\ ask.fields \intersect {"solution", "differentiator"} # {}

\* The selected offer of a strategy earned money per order when it was made,
\* in whatever order it was created, validated and recommended.
SelectedOfferPays ==
    \A i \in DOMAIN offers :
        offers[i].selected = "yes" => Pays(offers[i].economics)

\* What a strategy selects has earned it, whenever it was validated.
SelectionIsEarned == RecommendedHasEvidence /\ SelectedOfferPays
=============================================================================
