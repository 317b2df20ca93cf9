-------------------------- MODULE Recommendations --------------------------
(***************************************************************************)
(* The decision engine and its persistence. A decision is computed from    *)
(* the facts and findings of a scope by explicit precedence, and stored    *)
(* under the fingerprint of (scope, range): a request computes and commits *)
(* scope after scope, so facts and other requests move in between.         *)
(* The forecast is evidence from another module: any value it may have.    *)
(***************************************************************************)
EXTENDS Diagnostics, Sequences

CONSTANTS
    Request,    \* concurrent recommendation requests
    Outlooks,   \* the forecast ROAS a decision may see, NA included
    NoRow,      \* no recommendation stored
    Histories,  \* the facts a business may start with
    Readings,   \* what a sync may bring for one day: a row or NA per ad
    Sales,      \* what a day of orders may add up to
    Catalogs, Offers, Goals,    \* what the owner may enter
    MaxChanges  \* bound: changes of the facts

(***************************************************************************)
(* The facts the tables admit: counts and amounts of an ad row are not     *)
(* negative, nor are purchases; a goal's limits are positive.              *)
(***************************************************************************)
OrNone(values) == values \union {NA}
AdRow == [Column -> Nat]
SaleRow == [purchases : Nat, revenue : Int]
Amounts == [price : OrNone(Int), cost : OrNone(Int)]
Aim == [cpa : OrNone(Nat \ {0}), roas : OrNone(Nat \ {0})]
Discount == [type : {"percentage", "fixed_amount"}, value : Int,
             min : OrNone(Int), cap : OrNone(Int)]

CatalogFits(entry) ==
    IsFiniteSet(DOMAIN entry) /\ \A p \in DOMAIN entry : entry[p] \in Amounts

OfferFits(terms) ==
    /\ terms.shipping \in OrNone([price : Int, cost : Int])
    /\ IsFiniteSet(terms.discounts) /\ \A d \in terms.discounts : d \in Discount

DecisionAssumption ==
    /\ IsFiniteSet(Ads) /\ IsFiniteSet(Days)
    /\ NA \notin Int /\ NA \notin Int \X Int
    /\ Limit.floorSpend <= Limit.minSpend
    /\ {"minSpend", "floorSpend", "minImpressions", "floorImpressions",
        "minConversions", "minDays", "minPurchases", "killBuffer"}
          \subseteq DOMAIN Limit
    /\ Readings \subseteq [Ads -> OrNone(AdRow)]
    /\ Sales \subseteq OrNone(SaleRow)
    /\ Goals \subseteq OrNone(Aim)
    /\ \A entry \in Catalogs : CatalogFits(entry)
    /\ \A terms \in Offers : OfferFits(terms)
    /\ \A h \in Histories :
          /\ h.insight \in [Ads -> [Days -> OrNone(AdRow)]]
          /\ h.orders \in [Days -> OrNone(SaleRow)]
          /\ CatalogFits(h.catalog) /\ OfferFits(h.offer) /\ h.goal \in OrNone(Aim)

VARIABLES
    stored,     \* stored[s]: the recommendation row of a scope, or NoRow
    req,        \* req[r]: a request: scopes left, the decision not yet stored
    changes     \* number of changes of the facts

vars == <<factVars, stored, req, changes>>

(***************************************************************************)
(* Gates. The day gate takes the longer of the rows and the range.         *)
(***************************************************************************)
Larger(a, b) == IF a > b THEN a ELSE b
DaysSeen(s) ==
    Larger(IF s = Business THEN 0 ELSE RowCount(s, Cur),
           Cardinality(Cur))

SampleSufficient(s) ==
    /\ Sampled(s)
    /\ AtLeast(Conversions(s, Cur), Limit.minConversions)
    /\ DaysSeen(s) >= Limit.minDays

\* A campaign is judged with the findings of the business as well.
SeenFindings(s) ==
    BusinessFindings \union (IF s = Business THEN {} ELSE EntityFindings(s))

TrackingCodes == {"purchase_revenue_mismatch", "revenue_purchase_mismatch",
                  "provider_conversion_mismatch"}
QualityCodes == {"stale_data", "delayed_data", "recent_sync_failures",
                 "incomplete_reporting_period"}
NoteCodes == {"not_connected", "missing_reporting_period",
              "unobserved_funnel_stages"}

TrackingIssue(seen) == \E f \in seen : f.code \in TrackingCodes

QualityIssue(seen) ==
    Freshness("meta") = "stale" \/ \E f \in seen : f.code \in QualityCodes

PerformanceFindings(seen) ==
    {f \in seen :
        /\ f.status = "detected"
        /\ f.code \notin TrackingCodes
        /\ f.code \notin QualityCodes \union NoteCodes}

(***************************************************************************)
(* Economics of the verdict. A campaign has no purchases and no CPA.       *)
(***************************************************************************)
ViableCpa ==
    LET target == IF Known(goal) THEN goal.cpa ELSE NA
        known == {v \in {target, Economy.cpaLow, Economy.cpaHigh} : Known(v)}
        positive == {v \in known : v > 0}
    IN  IF positive = {} THEN NA ELSE Min(positive)

CpaOf(s) == IF s = Business THEN Cpa(Cur) ELSE NA

SalesOf(s) ==
    IF s = Business /\ Known(Purchases(Cur)) THEN Purchases(Cur)
    ELSE Conversions(s, Cur)

\* r at or above the break-even ROAS plus pct hundredths, or below it.
AtOrOver(r, pct) ==
    (r[1] * Economy.roas[2] - Economy.roas[1] * r[2]) * 100
        >= pct * r[2] * Economy.roas[2]

CpaOverViable(s, pct) ==
    /\ Known(CpaOf(s)) /\ Known(ViableCpa)
    /\ CpaOf(s)[1] * 100 > pct * ViableCpa * CpaOf(s)[2]

(***************************************************************************)
(* The rules, in order of precedence.                                      *)
(***************************************************************************)
InsufficientData(s) ==
    ~ (/\ AtLeast(Spend(s, Cur), Limit.floorSpend)
       /\ AtLeast(Impressions(s, Cur), Limit.floorImpressions))

Learning(s) ==
    /\ TRUE \in {AtLeast(Spend(s, Cur), 1), AtLeast(Impressions(s, Cur), 1)}
    /\ ~SampleSufficient(s)

KillReview(s, outlook) ==
    LET roas == Roas(s, Cur)
        under == /\ Known(roas) /\ Known(Economy.roas)
                 /\ ~AtOrOver(roas, -Limit.killBuffer)
        costly == CpaOverViable(s, Limit.killCpa)
    IN  /\ AtLeast(Spend(s, Cur), Limit.killSpend)
        /\ DaysSeen(s) >= Limit.killDays
        /\ TRUE \in {AtLeast(SalesOf(s), Limit.killSales), costly}
        /\ TRUE \in {under, costly}
        /\ Known(outlook) /\ Known(Economy.roas) => ~AtOrOver(outlook, 0)

\* The forecast falls by more than the limit, in percent of today's ROAS.
Deteriorates(roas, outlook) ==
    Known(outlook) /\ roas[1] > 0 /\
      (roas[1] * outlook[2] - outlook[1] * roas[2]) * 100
          > Limit.drop * roas[1] * outlook[2]

ScaleReview(s, seen, outlook) ==
    LET roas == Roas(s, Cur)
        state == IF s = Business THEN "none" ELSE PerformanceState(s)
    IN  /\ state \notin {"unprofitable", "stale_data"}
        /\ SampleSufficient(s)
        /\ Known(roas) /\ Known(Economy.roas)
        /\ AtOrOver(roas, Limit.scaleBuffer)
        /\ ~CpaOverViable(s, Limit.scaleCpa)
        /\ \A f \in seen : ~Serious(f)
        /\ ~Deteriorates(roas, outlook)

Optimize(s, seen) ==
    SampleSufficient(s) /\
      TRUE \in {PerformanceFindings(seen) # {}, CpaOverViable(s, Limit.scaleCpa)}

VerdictOn(s, seen, outlook) ==
    IF TrackingIssue(seen) THEN "tracking_issue"
    ELSE IF QualityIssue(seen) THEN "data_quality_issue"
    ELSE IF InsufficientData(s) THEN "insufficient_data"
    ELSE IF Learning(s) THEN "learning"
    ELSE IF KillReview(s, outlook) THEN "kill_review"
    ELSE IF ScaleReview(s, seen, outlook) THEN "scale_review"
    ELSE IF Optimize(s, seen) THEN "optimize" ELSE "maintain"

Verdict(s, outlook) == VerdictOn(s, SeenFindings(s), outlook)

\* How many of the sources a verdict leans on were there.
Strength(s, verdict, outlook) ==
    LET forecasted == verdict \in {"scale_review", "kill_review"}
        sources == {<<"spend", Spend(s, Cur)>>,
                    <<"impressions", Impressions(s, Cur)>>,
                    <<"sales", SalesOf(s)>>, <<"economics", Economy.cpaLow>>}
                   \union (IF forecasted THEN {<<"forecast", outlook>>} ELSE {})
        met == Cardinality({x \in sources : Known(x[2])})
        total == Cardinality(sources)
    IN  IF met * 10 >= 9 * total THEN "strong"
        ELSE IF met * 10 >= 7 * total THEN "moderate"
        ELSE IF met * 10 >= 5 * total THEN "weak" ELSE "insufficient"

(***************************************************************************)
(* Requests. Both summaries are built, then the rules get the goal's       *)
(* database row, on which .get raises: no decision where there is a goal.  *)
(***************************************************************************)
DecisionFails == DiagnosisFails \/ Known(goal)

Campaigns == {e \in Entity : TypeOf[e] = "campaign"}
Idle == [phase |-> "idle", left |-> {}, decided |-> NoRow]

\* The business comes first, then every campaign with facts.
Begin(r) ==
    /\ req[r].phase = "idle"
    /\ req' = [req EXCEPT ![r] = [phase |-> "decide", left |-> {Business},
                                  decided |-> NoRow]]
    /\ UNCHANGED <<factVars, stored, changes>>

\* The view of one campaign decides that campaign alone.
BeginCampaign(r, c) ==
    /\ req[r].phase = "idle"
    /\ req' = [req EXCEPT ![r] = [phase |-> "decide", left |-> {c},
                                  decided |-> NoRow]]
    /\ UNCHANGED <<factVars, stored, changes>>

\* A campaign whose facts are gone ends the request, as an exception does.
Decide(r, s, outlook) ==
    /\ req[r].phase = "decide" /\ s \in req[r].left
    /\ IF DecisionFails \/ (s # Business /\ s \notin Active)
       THEN req' = [req EXCEPT ![r] = Idle]
       ELSE LET verdict == Verdict(s, outlook)
            IN  req' = [req EXCEPT ![r].phase = "store",
                          ![r].decided =
                             [scope |-> s, verdict |-> verdict,
                              strength |-> Strength(s, verdict, outlook)]]
    /\ UNCHANGED <<factVars, stored, changes>>

\* Mutant: the loop never drops the scope it stored.
StoreAgain(r) ==
    LET row == req[r].decided
        left == IF row.scope = Business THEN Active \intersect Campaigns
                                        ELSE req[r].left
    IN  /\ req[r].phase = "store"
        /\ stored' = [stored EXCEPT ![row.scope] = row]
        /\ req' = [req EXCEPT ![r] =
                     IF left = {} THEN Idle
                     ELSE [@ EXCEPT !.phase = "decide", !.left = left]]
        /\ UNCHANGED <<factVars, changes>>

\* The upsert on the fingerprint, committed before the next scope is read.
Store(r) ==
    LET row == req[r].decided
        left == IF row.scope = Business THEN Active \intersect Campaigns
                                        ELSE req[r].left \ {row.scope}
    IN  /\ req[r].phase = "store"
        /\ stored' = [stored EXCEPT ![row.scope] = row]
        /\ req' = [req EXCEPT ![r] =
                     IF left = {} THEN Idle
                     ELSE [@ EXCEPT !.phase = "decide", !.left = left]]
        /\ UNCHANGED <<factVars, changes>>

(***************************************************************************)
(* The facts move between the steps of a request.                          *)
(***************************************************************************)
Change ==
    /\ changes < MaxChanges
    /\ changes' = changes + 1
    /\ views' = Views(insight', orders', catalog', offer')
    /\ UNCHANGED <<stored, req>>

\* A sync upserts the insight rows of one day.
SyncInsights(d, reading) ==
    /\ insight' = [a \in Ads |-> [insight[a] EXCEPT ![d] = reading[a]]]
    /\ UNCHANGED <<orders, catalog, offer, goal, feed>>
    /\ Change

SyncOrders(d, sales) ==
    /\ orders' = [orders EXCEPT ![d] = sales]
    /\ UNCHANGED <<insight, catalog, offer, goal, feed>>
    /\ Change

EditCatalog(entry) ==
    /\ catalog' = entry
    /\ UNCHANGED <<insight, orders, offer, goal, feed>>
    /\ Change

EditOffer(terms) ==
    /\ offer' = terms
    /\ UNCHANGED <<insight, orders, catalog, goal, feed>>
    /\ Change

SetGoal(target) ==
    /\ goal' = target
    /\ UNCHANGED <<insight, orders, catalog, offer, feed>>
    /\ Change

\* A sync run of a provider ends, or ages.
RunSync(p, outcome) ==
    /\ feed' = [feed EXCEPT ![p] = outcome]
    /\ UNCHANGED <<insight, orders, catalog, offer, goal>>
    /\ Change

Init ==
    /\ \E h \in Histories :
          /\ insight = h.insight /\ orders = h.orders
          /\ catalog = h.catalog /\ offer = h.offer
          /\ goal = h.goal /\ feed = h.feed
          /\ views = Views(h.insight, h.orders, h.catalog, h.offer)
    /\ stored = [s \in Scope |-> NoRow]
    /\ req = [r \in Request |-> Idle]
    /\ changes = 0

Answer(r) ==
    \/ \E s \in Scope, outlook \in Outlooks : Decide(r, s, outlook)
    \/ Store(r)

FactsMove ==
    \/ \E d \in Days, reading \in Readings : SyncInsights(d, reading)
    \/ \E d \in Days, sales \in Sales : SyncOrders(d, sales)
    \/ \E entry \in Catalogs : EditCatalog(entry)
    \/ \E terms \in Offers : EditOffer(terms)
    \/ \E target \in Goals : SetGoal(target)
    \/ \E p \in Provider, outcome \in {"old", "recent", "failing"} :
          RunSync(p, outcome)

Next ==
    \/ \E r \in Request :
          \/ Begin(r)
          \/ \E c \in Campaigns : BeginCampaign(r, c)
          \/ Answer(r)
    \/ FactsMove

\* A request that began is answered by its coroutine.
Spec == Init /\ [][Next]_vars /\ \A r \in Request : WF_vars(Answer(r))

(***************************************************************************)
(* Properties.                                                             *)
(***************************************************************************)

\* Diagnostics and decisions read the same facts through different gates and
\* never contradict each other on a campaign: what diagnostics calls ready
\* for a scaling review is profitable and not up for a kill or still
\* learning, and short of data only by the floor of impressions that decisions
\* have of their own; a kill review is of an unprofitable campaign, a scale
\* review of one that is neither unprofitable, stale nor short of data.
ViewsAgree ==
    \A c \in Campaigns \intersect Active :
        LET state == PerformanceState(c)
            ready == ReadyForReview(c)
            seen == SeenFindings(c)
        IN  \A outlook \in Outlooks :
              LET verdict == VerdictOn(c, seen, outlook)
              IN  /\ ready =>
                        /\ state = "profitable"
                        /\ verdict \notin {"kill_review", "learning"}
                        /\ verdict = "insufficient_data" =>
                             Impressions(c, Cur) < Limit.floorImpressions
                  /\ verdict = "kill_review" => state = "unprofitable"
                  /\ verdict = "scale_review" =>
                        state \notin {"unprofitable", "stale_data",
                                     "learning", "insufficient_data"}

\* "Persistent" findings look at two periods and have gates of their own;
\* the finding of the current period they build on is always there too.
PersistenceHasACause ==
    \A f \in Findings : f.code = "persistent_unprofitable_performance" =>
        \E g \in Findings :
            /\ g.scope = f.scope /\ g.status = "detected"
            /\ g.code \in {"below_break_even_roas", "high_cpa",
                         "negative_contribution_profit",
                         "negative_unit_margin"}

\* A request that began is over after finitely many scopes, whatever the
\* facts do meanwhile.
RequestEnds ==
    \A r \in Request : req[r].phase # "idle" ~> req[r].phase = "idle"

=============================================================================
