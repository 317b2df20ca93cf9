------------------------------- MODULE Funnel -------------------------------
(***************************************************************************)
(* Messaging and funnel strategies, built on what Strategy leaves: each    *)
(* generation takes the latest candidates, decision and messaging, or the  *)
(* ones it is told, and what metrics, diagnostics and connections show.    *)
(* Rows are immutable, so the components of a messaging strategy are a     *)
(* function of the inputs its row names.                                   *)
(***************************************************************************)
EXTENDS Strategy

CONSTANTS
    Collected,      \* evidence there may be at first
    ConfidenceOf,   \* confidence of a piece of evidence
    Views,          \* what metrics, diagnostics and forecasts may show
    Linked,         \* providers that may be connected
    Variants,       \* the variants a user asks for, NA to infer one
    Gate            \* [impressions, clicks, low]: samples, low transition in %

VARIABLES
    connected,      \* the connected providers
    messages,       \* messaging strategies
    funnels

vars == <<world, evidence, intelligence, candidates, decisions, work, clock,
          changes, connected, messages, funnels>>

(***************************************************************************)
(* Messaging.                                                              *)
(***************************************************************************)
ClaimStatus(class, n) ==
    CASE n = 0 -> IF class \in {"claimed", "validated"} THEN "unsupported"
                                                        ELSE "unknown"
      [] n > 0 /\ class = "hypothesis" -> "unknown"
      [] n > 0 /\ class # "hypothesis" /\
            (n >= 2 \/ class \in {"observed", "validated"}) -> "supported"
      [] OTHER -> "partially_supported"

ComponentKinds(kind) ==
    CASE kind \in {"pain_point", "complaint"} -> {"problem", "pain"}
      [] kind \in {"desire", "benefit", "feature", "objection"} -> {kind}
      [] kind \in {"review", "trust_signal"} -> {"proof"}
      [] OTHER -> {}

FromEvidence(refs) ==
    UNION {{[kind |-> k, source |-> e, cites |-> {e},
             claim |-> ClaimStatus(ConfidenceOf[e], 1)] :
                k \in ComponentKinds(KindOf[e])} : e \in refs}

\* A differentiator that is at least claimed is judged as if observed.
FromPosition(row) ==
    LET of(kind, class) == [kind |-> kind, source |-> "positioning",
                            cites |-> row.ask.evidence,
                            claim |-> ClaimStatus(class, row.refs)]
        class == row.ask.class
        edge == IF class \in {"observed", "validated", "claimed"}
                THEN "observed" ELSE class
    IN  {of(k, IF k = "differentiator" THEN edge ELSE class) :
            k \in {"differentiator", "promise"} \intersect row.ask.fields}
        \union (IF row.ask.proof THEN {of("proof", "claimed")} ELSE {})

FromOffer(row) ==
    LET of(kind, claim) == [kind |-> kind, source |-> "offer",
                            cites |-> row.ask.evidence, claim |-> claim]
    IN  (IF row.ask.proof THEN {of("proof", ClaimStatus("claimed", row.refs))}
                          ELSE {})
        \union (IF row.ask.bundle THEN {} ELSE {of("cta", "supported")})

Components(m) ==
    FromEvidence(m.evidence)
        \union (IF m.positioning = 0 THEN {}
                ELSE FromPosition(positionings[m.positioning]))
        \union (IF m.offer = 0 THEN {} ELSE FromOffer(offers[m.offer]))

Required == {"who", "problem", "solution", "promise"}

Inputs == [positioning |-> Latest(positionings), offer |-> Latest(offers),
           decision |-> Latest(decisions), evidence |-> evidence]

ReadMessaging(r) ==
    /\ Begin(r, Job("messaging", Inputs))
    /\ UNCHANGED intelligence

CommitMessaging(r) ==
    LET input == work[r].input
        whole == input.positioning # 0 /\
                    Required \subseteq positionings[input.positioning].ask.fields
    IN  /\ Finish(r, "messaging")
        /\ messages' = Append(messages,
              [positioning |-> input.positioning, offer |-> input.offer,
               decision |-> input.decision, evidence |-> input.evidence,
               version |-> work[r].version, start |-> work[r].start,
               status |-> IF whole THEN "draft" ELSE "insufficient_data"])
        /\ UNCHANGED <<candidates, decisions, clock, funnels>>

(***************************************************************************)
(* The funnel: stages, the transitions between them and what is known.     *)
(***************************************************************************)
Stages == {"awareness", "interest", "consideration", "purchase"}

InferVariant(offer) == IF offer # 0 THEN "ecommerce" ELSE "direct_response"

\* education_led asks the snapshot for areas under a name it does not have.
Supported(in) ==
    CASE in.variant = "lead_generation" -> FALSE
      [] in.variant = "ecommerce" -> in.offer # 0
      [] in.variant = "product_led" -> in.offer # 0 /\ in.positioning # 0 /\
            "differentiator" \in positionings[in.positioning].ask.fields
      [] in.variant = "content_led" -> in.messaging # 0 /\
            Components(messages[in.messaging]) # {}
      [] in.variant = "education_led" -> FALSE
      [] OTHER -> TRUE

Steps == [interest |-> <<"clicks", "impressions">>,
          consideration |-> <<"views", "clicks">>,
          purchase |-> <<"purchases", "views">>]

Transition(counts, to) ==
    LET top == counts[Steps[to][1]]
        bottom == counts[Steps[to][2]]
        gate == IF Steps[to][2] = "views" THEN 0 ELSE Gate[Steps[to][2]]
    IN  CASE ~Known(top) \/ ~Known(bottom) -> "unavailable"
          [] Known(top) /\ Known(bottom) /\ bottom = 0 -> "unavailable"
          [] Known(top) /\ Known(bottom) /\ bottom # 0 /\ bottom < gate
                -> "insufficient_data"
          [] OTHER -> IF top * 100 < Gate.low * bottom THEN "likely"
                                                      ELSE "potential"

NextStage(stage) == CASE stage = "awareness" -> "interest"
                      [] stage = "interest" -> "consideration"
                      [] stage = "consideration" -> "purchase"
                      [] OTHER -> "retention"

\* Some indicator of the stage is available.
HasKpi(view, stage) ==
    CASE stage = "awareness" -> Known(view.counts.impressions)
      [] stage = "interest" -> Known(view.counts.clicks)
      [] stage = "consideration" -> Known(view.counts.views) \/
            (Known(view.counts.purchases) /\ Known(view.counts.clicks) /\
                view.counts.clicks > 0)
      [] OTHER -> Known(view.counts.purchases)

StageStatus(view, stage) ==
    LET mine == {f.status : f \in {g \in view.findings : g.stage = stage}}
        exit == IF stage = "purchase" THEN "none"
                ELSE Transition(view.counts, NextStage(stage))
    IN  CASE "detected" \in mine -> "warning"
          [] "detected" \notin mine /\ "insufficient_data" \in mine
                -> "insufficient_data"
          [] mine = {} /\ ~HasKpi(view, stage) -> "unavailable"
          [] mine = {} /\ HasKpi(view, stage) /\
                exit \in {"unavailable", "insufficient_data"}
                -> "insufficient_data"
          [] OTHER -> "healthy"

\* Weights in quarters; the score is the mean of the weights, weighted by
\* themselves, so a stage of weight zero does not count at all.
Weight(status) == CASE status = "healthy" -> 4 [] status = "warning" -> 2
                    [] status = "insufficient_data" -> 1 [] OTHER -> 0

ScoreAtLeast(statuses, quarters) ==
    LET w == [stage \in Stages |-> Weight(statuses[stage])]
        total(f) == f.awareness + f.interest + f.consideration + f.purchase
    IN  total([stage \in Stages |-> w[stage] * w[stage]]) >= quarters * total(w)

Gaps(in, view) ==
    LET gap(condition, severity) == IF condition THEN {severity} ELSE {}
    IN  gap(in.positioning = 0 /\ in.messaging = 0, "high")
        \union gap(~Supported(in), "critical")
        \union gap(in.variant \in {"ecommerce", "product_led"} /\ in.offer = 0,
                   "high")
        \union gap(in.decision = 0, "info")
        \union gap(in.decision # 0 /\
                     decisions[Max({in.decision, 1})].status = "insufficient_data",
                   "medium")
        \union gap(\E to \in DOMAIN Steps :
                      Transition(view.counts, to) = "likely", "high")
        \union gap(in.offer = 0 \/ offers[Max({in.offer, 1})].ask.bundle, "medium")
        \union gap(Linked \ in.connected # {}, "info")

\* Mutant: a medium gap does not stand in the way of a recommendation.
FunnelStatusLenient(in, gaps, statuses) ==
    CASE ~Supported(in) -> "insufficient_data"
      [] Supported(in) /\ \A s \in Stages : Weight(statuses[s]) = 0
            -> "needs_evidence"
      [] Supported(in) /\ gaps \subseteq {"info", "medium"} /\
            ScoreAtLeast(statuses, 3) -> "recommended"
      [] OTHER -> "viable"

FunnelStatus(in, gaps, statuses) ==
    LET known == \E s \in Stages : Weight(statuses[s]) # 0
    IN  CASE in.variant = "lead_generation" -> "invalid"
          [] in.variant # "lead_generation" /\ ~Supported(in)
                -> "insufficient_data"
          [] Supported(in) /\ ~known -> "needs_evidence"
          [] Supported(in) /\ known /\ ScoreAtLeast(statuses, 3) /\
                gaps \subseteq {"low", "info"} -> "recommended"
          [] OTHER -> IF ScoreAtLeast(statuses, 2) THEN "viable"
                                                  ELSE "needs_optimization"

ReadFunnel(r, variant) ==
    /\ Begin(r, Job("funnel",
          [positioning |-> Latest(positionings), offer |-> Latest(offers),
           decision |-> Latest(decisions), messaging |-> Latest(messages),
           variant |-> IF Known(variant) THEN variant
                       ELSE InferVariant(Latest(offers)),
           view |-> seen, connected |-> connected]))
    /\ UNCHANGED intelligence

FunnelOf(in) ==
    LET statuses == [s \in Stages |-> StageStatus(in.view, s)]
        gaps == IF in.variant = "lead_generation" THEN {} ELSE Gaps(in, in.view)
    IN  [stages |-> statuses, gaps |-> gaps,
         status |-> FunnelStatus(in, gaps, statuses)]

CommitFunnel(r) ==
    /\ Finish(r, "funnel")
    /\ funnels' = Append(funnels,
          [input |-> work[r].input, version |-> work[r].version,
           start |-> work[r].start, funnel |-> FunnelOf(work[r].input)])
    /\ UNCHANGED <<candidates, decisions, clock, messages>>

(***************************************************************************)
(* The system.                                                             *)
(***************************************************************************)
Change == changes < MaxChanges /\ changes' = changes + 1

Init ==
    /\ evidence \in Collected /\ intelligence \in {<<>>, <<evidence>>}
    /\ shop \in Shops /\ goal \in Goals /\ seen \in Views
    /\ positionings = <<>> /\ offers = <<>> /\ decisions = <<>>
    /\ messages = <<>> /\ funnels = <<>> /\ connected = {}
    /\ work = [r \in Request |-> Idle] /\ clock = 0 /\ changes = 0

Reads(r) ==
    /\ \/ \E ask \in Positions : Read(r, "positioning", ask)
       \/ \E ask \in Offers : Read(r, "offer", ask)
       \/ \E i \in DOMAIN positionings : ReadDecision(r, "positioning", i)
       \/ \E i \in DOMAIN offers : ReadDecision(r, "offer", i)
       \/ ReadMessaging(r)
       \/ \E v \in Variants : ReadFunnel(r, v)
    /\ UNCHANGED <<candidates, decisions, messages, funnels>>

Numbers(r) ==
    /\ \/ Number(r, "positioning", positionings)
       \/ Number(r, "offer", offers)
       \/ Number(r, "messaging", messages)
       \/ Number(r, "funnel", funnels)
    /\ UNCHANGED <<intelligence, candidates, decisions, messages, funnels>>

Commits(r) ==
    /\ \/ CreatePosition(r) /\ UNCHANGED <<messages, funnels>>
       \/ CreateOffer(r) /\ UNCHANGED <<messages, funnels>>
       \/ CommitDecision(r) /\ UNCHANGED <<messages, funnels>>
       \/ CommitMessaging(r)
       \/ CommitFunnel(r)
    /\ UNCHANGED intelligence

Reviews ==
    /\ \/ RecommendPosition /\ UNCHANGED offers
       \/ RecommendOffer /\ UNCHANGED positionings
       \/ (\E i \in DOMAIN offers : ValidateOffer(i)) /\ UNCHANGED positionings
    /\ Change
    /\ UNCHANGED <<world, evidence, connected, intelligence, decisions, work,
                   clock, messages, funnels>>

Moves ==
    /\ \/ \E e \in Evidence \ evidence :
            evidence' = evidence \union {e} /\ UNCHANGED <<world, connected>>
       \/ \E s \in Shops \ {shop} :
            shop' = s /\ UNCHANGED <<goal, seen, evidence, connected>>
       \/ \E v \in Views \ {seen} :
            seen' = v /\ UNCHANGED <<shop, goal, evidence, connected>>
       \/ \E g \in Goals \ {goal} :
            goal' = g /\ UNCHANGED <<shop, seen, evidence, connected>>
       \/ \E p \in Linked \ connected :
            connected' = connected \union {p} /\ UNCHANGED <<world, evidence>>
    /\ Change
    /\ UNCHANGED <<intelligence, candidates, decisions, work, clock, messages,
                   funnels>>

Next ==
    \/ \E r \in Request : (Reads(r) \/ Numbers(r) \/ Commits(r))
                            /\ UNCHANGED <<world, evidence, connected, changes>>
    \/ Reviews
    \/ Moves

Spec == Init /\ [][Next]_vars

(***************************************************************************)
(* Properties.                                                             *)
(***************************************************************************)

\* Overlapping requests may share a version, but no version is ever skipped:
\* the versions of a strategy are 1 to the highest.
NoVersionSkipped ==
    \A rows \in {positionings, offers, messages, funnels} :
        {rows[i].version : i \in DOMAIN rows} = 1..(NextVersion(rows) - 1)

\* A recommended funnel leads to a product that can be bought, is anchored in
\* a candidate or a message, has no transition that is likely its bottleneck,
\* no decision that lacked data behind it, and a stage that is healthy.
RecommendedFunnelLeadsToSale ==
    \A i \in DOMAIN funnels :
        funnels[i].funnel.status = "recommended" =>
            LET in == funnels[i].input
            IN  /\ in.offer # 0 /\ ~offers[in.offer].ask.bundle
                /\ in.positioning # 0 \/ in.messaging # 0
                /\ in.decision # 0 =>
                      decisions[in.decision].status # "insufficient_data"
                /\ \E s \in Stages : funnels[i].funnel.stages[s] = "healthy"
                /\ \A to \in DOMAIN Steps :
                      Transition(in.view.counts, to) # "likely"
=============================================================================
