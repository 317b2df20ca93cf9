---------------------------- MODULE Forecasting ----------------------------
(***************************************************************************)
(* Forecasts: a request loads the daily series that end yesterday, lets    *)
(* the candidate models compete on a holdout, derives profit from sales    *)
(* and unit economics, then commits metric by metric: first the row, then  *)
(* its daily points. Facts arrive and other requests run in between.       *)
(* A series is its observed days; which model wins and what it predicts is *)
(* any outcome its series allows.                                          *)
(***************************************************************************)
EXTENDS Economics, Sequences

CONSTANTS
    Campaign,   \* the campaigns of the business
    Request,    \* concurrent forecast requests
    FirstDay,   \* bound: the first day with facts
    LastDay,    \* bound: the last day time may reach
    Window,     \* length of the training window
    Least,      \* [sufficient, backtest, holdout, maxHoldout, average, trend,
                \* seasonal]: minimum numbers of observations
    Histories,  \* what a business may start with
    AdRows, SaleRows,   \* what a sync may bring for one day, NA included
    Arrivals,   \* bound: the days a sync may still bring rows for
    Catalogs,   \* what the owner may enter
    Asked,      \* bound: the scopes and metrics (NA: all) that are asked for
    MaxWork,    \* bound: forecast requests
    MaxChanges  \* bound: changes of the facts, deaths of a process

VARIABLES
    today,      \* the date in the timezone of the business
    ads,        \* ads[c][d]: the insight row of a campaign and a day, or NA
    sold,       \* sold[d]: the orders of a day, or NA
    catalog,    \* catalog[p]: price and cost of a product
    rows,       \* the table of forecasts, each with its points
    work,       \* work[r]: forecasts of request r not yet stored
    begun,      \* number of requests
    changes     \* number of changes of the facts

facts == <<today, ads, sold, catalog>>
forecastVars == <<rows, work, begun>>

Calendar == FirstDay..LastDay
MetricCode == {"revenue", "spend", "purchases", "contribution_profit"}

\* What a request is for: entity_type and entity_id, stored as they come. The
\* id, a foreign key to the campaigns, may be missing beside either type, and
\* may be given beside "business", where it selects nothing.
Scope == {"business", "campaign"} \X (Campaign \union {NA})
Business == <<"business", NA>>
OfCampaign(s) == s[1] = "campaign"
Unnamed(s) == ~Known(s[2])

\* A forecast in the table is named by a record, which is not None.
Key == [scope : Scope, metric : MetricCode, cutoff : Int, number : Nat]

ForecastAssumption ==
    /\ NA \notin Campaign /\ Asked \subseteq Scope \X (MetricCode \union {NA})
    /\ FirstDay \in Int /\ \A h \in Histories : h.today \in Int
    /\ \A name \in {"sufficient", "backtest", "holdout", "maxHoldout", "average",
                     "trend", "seasonal"} : Least[name] \in Int
    /\ NA \notin Key

Economy == Profile(catalog, NA, {})

(***************************************************************************)
(* Series: the days of the window, up to yesterday, that have a row. The   *)
(* ads are those of the campaign that is named, else all of them; the      *)
(* purchases of a campaign are those of the business; its revenue is what  *)
(* its ads report, nothing where no campaign is named.                     *)
(***************************************************************************)
TrainingDays(length) == {d \in FirstDay..(today - 1) : d >= today - length}

AdsOf(s) == IF OfCampaign(s) /\ ~Unnamed(s) THEN {s[2]} ELSE Campaign

AdDays(s, days) == {d \in days : \E c \in AdsOf(s) : Known(ads[c][d])}
SoldDays(days) == {d \in days : Known(sold[d])}

Observed(s, metric) ==
    LET days == TrainingDays(Window)
    IN  CASE metric = "spend" -> AdDays(s, days)
          [] metric = "revenue" /\ OfCampaign(s) ->
                IF Unnamed(s) THEN {} ELSE AdDays(s, days)
          [] OTHER -> SoldDays(days)

(***************************************************************************)
(* The contest: the last 30% of the observations are held out, within      *)
(* bounds, and a model takes part when the rest is enough for it.          *)
(***************************************************************************)
Holdout(n) ==
    IF n < Least.backtest THEN 0
    ELSE Min({Max({Least.holdout, Min({Least.maxHoldout, (n * 3) \div 10})}),
              n - 1})

\* "average" stands for the moving average and the weighted one.
Model == {"naive", "average", "trend", "seasonal"}

Needs(model) == CASE model = "naive" -> 1
                  [] model = "average" -> Least.average
                  [] model = "trend" -> Least.trend
                  [] model = "seasonal" -> Least.seasonal

\* Mutant: a model takes part on the observations it is scored on as well.
CandidatesOfAll(n) ==
    IF Holdout(n) = 0 THEN {} ELSE {m \in Model : n >= Needs(m)}

Candidates(n) ==
    IF Holdout(n) = 0 THEN {}
    ELSE {m \in Model : n - Holdout(n) >= Needs(m)}

(***************************************************************************)
(* One metric. A short history is refused. A winner predicts the last      *)
(* value, the mean of the last ones, or what a line that starts over at    *)
(* the first day of training gives, zero where it was clamped; a series    *)
(* that varies has a spread.                                               *)
(***************************************************************************)
DayValue(s, metric, d) ==
    LET mine == {c \in AdsOf(s) : Known(ads[c][d])}
        spent(c) == ads[c][d].spend
        earned(c) == ads[c][d].value
    IN  CASE metric = "spend" -> MapThenSumSet(spent, mine)
          [] metric = "purchases" -> sold[d].purchases
          [] metric = "revenue" /\ ~OfCampaign(s) -> sold[d].revenue
          [] OTHER -> MapThenSumSet(earned, mine)

Refused(s, metric, reason) ==
    [scope |-> s, metric |-> metric, cutoff |-> today - 1, model |-> "naive",
     status |-> reason, obs |-> Cardinality(Observed(s, metric)),
     expected |-> NA, upper |-> NA, daily |-> FALSE]

Predicted(s, metric, winner, expected) ==
    LET varies == Cardinality({DayValue(s, metric, d) :
                                  d \in Observed(s, metric)}) > 1
    IN  [Refused(s, metric, "current") EXCEPT
            !.model = winner, !.expected = expected,
            !.upper = IF varies THEN expected + 1 ELSE expected,
            !.daily = TRUE]

MeanOf(s, metric, days) ==
    LET value(d) == DayValue(s, metric, d)
    IN  MapThenSumSet(value, days) \div Cardinality(days)

\* The forecast of a metric where the named model wins if it takes part.
\* (Bound: one model then wins for every metric of a pass that it can.)
MetricForecast(s, metric, favourite) ==
    LET days == Observed(s, metric)
        recent == {d \in days : Cardinality({e \in days : e > d}) < Least.average}
        predicts(m) == CASE m = "naive" -> DayValue(s, metric, Max(days))
                         [] m = "trend" -> DayValue(s, metric, Min(days))
                         [] OTHER -> MeanOf(s, metric, recent)
    IN  IF Cardinality(days) < Least.sufficient
          THEN Refused(s, metric, "insufficient_data")
        ELSE IF Candidates(Cardinality(days)) = {}
          THEN Refused(s, metric, "insufficient_data")
        ELSE LET m == IF favourite \in Candidates(Cardinality(days))
                      THEN favourite ELSE "naive"
             IN  Predicted(s, metric, m, predicts(m))

\* Profit is the average unit profit times the purchases, both bounds too:
\* a loss turns the interval over.
ProfitForecast(revenue, purchases) ==
    LET unit == Quantize(Economy.average, 1)
        none == [Refused(revenue.scope, "contribution_profit", "unavailable")
                    EXCEPT !.cutoff = revenue.cutoff, !.obs = purchases.obs]
    IN  IF ~Known(unit) \/ ~Known(revenue.expected) \/ ~Known(purchases.expected)
        THEN none
        ELSE [none EXCEPT !.status = "current", !.model = "profit_derived",
                !.expected = unit[1] * purchases.expected,
                !.upper = unit[1] * purchases.upper]

\* What the table's CHECK constraints refuse.
Admissible(f) == Known(f.expected) => f.expected >= 0 /\ f.expected <= f.upper

(***************************************************************************)
(* A pass of the engine: the forecasts of a scope, in the order they are   *)
(* stored. A seasonal winner has no slope to extrapolate: the pass fails.  *)
(***************************************************************************)
BusinessPass(s, favourite) ==
    LET f(metric) == MetricForecast(s, metric, favourite)
    IN  <<f("revenue"), f("spend"), f("purchases"),
          ProfitForecast(f("revenue"), f("purchases"))>>

CampaignPass(s, favourite) ==
    LET f(metric) == MetricForecast(s, metric, favourite)
    IN  IF Observed(s, "revenue") = {}
        THEN <<f("spend"), f("purchases")>>
        ELSE <<f("spend"), f("purchases"), f("revenue")>>

Passes(s) ==
    {IF OfCampaign(s) THEN CampaignPass(s, m) ELSE BusinessPass(s, m) : m \in Model}

Fails(pass) == \E i \in DOMAIN pass : pass[i].model = "seasonal"

(***************************************************************************)
(* Requests.                                                               *)
(***************************************************************************)
Idle == [left |-> <<>>, row |-> NA, number |-> 0]
Listed(s) == {f \in rows : f.key.scope = s}

\* What is stored of a pass: the metric that was asked for, NA for all.
Wanted(pass, metric) ==
    LET asked == {i \in DOMAIN pass : pass[i].metric = metric}
    IN  IF ~Known(metric) THEN pass
        ELSE IF asked = {} THEN <<>> ELSE <<pass[CHOOSE i \in asked : TRUE]>>

\* POST .../forecast/generate, of every metric or of one.
Generate(r, s, metric) ==
    /\ work[r] = Idle /\ begun < MaxWork
    /\ begun' = begun + 1
    /\ \E pass \in Passes(s) :
          LET left == Wanted(pass, metric)
          IN  work' = [work EXCEPT ![r] =
                         IF Fails(pass) THEN Idle
                         ELSE IF left = <<>> THEN Idle
                         ELSE [left |-> left, row |-> NA, number |-> begun']]
    /\ UNCHANGED <<facts, rows, changes>>

\* A view reads the stored rows; the first one generates them, and only it.
\* GET .../forecast/summary
Summary(r) ==
    Listed(Business) = {} /\ Generate(r, Business, NA)

\* GET .../campaigns/{id}/forecast
CampaignForecast(r, c) ==
    LET s == <<"campaign", c>> IN Listed(s) = {} /\ Generate(r, s, NA)

\* The unique key of the table leaves out the rows whose entity_id is NULL,
\* whatever their type: those are told apart by the request that wrote them.
\* Mutant: NULLS NOT DISTINCT, as the key of the simulations has it.
KeyOfAll(f, number) ==
    [scope |-> f.scope, metric |-> f.metric, cutoff |-> f.cutoff,
     number |-> 0 * number]

RowKey(f, number) ==
    [scope |-> f.scope, metric |-> f.metric, cutoff |-> f.cutoff,
     number |-> IF Unnamed(f.scope) THEN number ELSE 0]

RowAt(key) == CHOOSE f \in rows : f.key = key

\* The row, committed. A conflict keeps the model of the first forecast.
StoreRow(r) ==
    LET f == Head(work[r].left)
        key == RowKey(f, work[r].number)
        old == {g \in rows : g.key = key}
    IN  /\ work[r].left # <<>> /\ work[r].row = NA
        /\ IF ~Admissible(f)
           THEN rows' = rows /\ work' = [work EXCEPT ![r] = Idle]
           ELSE /\ rows' = (rows \ old) \union
                      {[key |-> key, status |-> f.status, obs |-> f.obs,
                        expected |-> f.expected,
                        model |-> IF old = {} THEN f.model
                                              ELSE RowAt(key).model,
                        points |-> IF old = {} THEN NA
                                               ELSE RowAt(key).points]}
                /\ work' = [work EXCEPT ![r].row = key]
        /\ UNCHANGED <<facts, begun, changes>>

\* The points. The session inserts the new ones before it deletes the old:
\* where there are any, the unique (forecast, date) ends the request.
StorePoints(r) ==
    LET f == Head(work[r].left)
        row == RowAt(work[r].row)
        rest == SubSeq(work[r].left, 2, Len(work[r].left))
        next == IF rest = <<>> THEN Idle
                ELSE [work[r] EXCEPT !.left = rest, !.row = NA]
    IN  /\ Known(work[r].row)
        /\ IF ~f.daily
           THEN rows' = rows /\ work' = [work EXCEPT ![r] = next]
           ELSE IF Known(row.points)
           THEN rows' = rows /\ work' = [work EXCEPT ![r] = Idle]
           ELSE /\ rows' = (rows \ {row})
                             \union {[row EXCEPT !.points = f.expected]}
                /\ work' = [work EXCEPT ![r] = next]
        /\ UNCHANGED <<facts, begun, changes>>

(***************************************************************************)
(* The world: the days pass, rows arrive late, products are priced, a      *)
(* process dies between two commits.                                       *)
(***************************************************************************)
Change == changes < MaxChanges /\ changes' = changes + 1

NextDay ==
    /\ today < LastDay /\ today' = today + 1
    /\ Change
    /\ UNCHANGED <<ads, sold, catalog, forecastVars>>

SyncAds(c, d, row) ==
    /\ d < today /\ ads[c][d] # row
    /\ ads' = [ads EXCEPT ![c][d] = row]
    /\ Change
    /\ UNCHANGED <<today, sold, catalog, forecastVars>>

SyncOrders(d, row) ==
    /\ d < today /\ sold[d] # row
    /\ sold' = [sold EXCEPT ![d] = row]
    /\ Change
    /\ UNCHANGED <<today, ads, catalog, forecastVars>>

EditCatalog(entry) ==
    /\ catalog' = entry
    /\ Change
    /\ UNCHANGED <<today, ads, sold, forecastVars>>

Die(r) ==
    /\ work[r] # Idle /\ work' = [work EXCEPT ![r] = Idle]
    /\ Change
    /\ UNCHANGED <<facts, rows, begun>>

FactsInit ==
    \E h \in Histories :
        /\ today = h.today /\ ads = h.ads /\ sold = h.sold
        /\ catalog = h.catalog

ForecastInit ==
    /\ rows = {} /\ begun = 0 /\ changes = 0
    /\ work = [r \in Request |-> Idle]

Proceed(r) == StoreRow(r) \/ StorePoints(r)

ForecastNext ==
    \E r \in Request :
        \/ \E asked \in Asked : Generate(r, asked[1], asked[2])
        \/ Summary(r)
        \/ \E c \in Campaign :
              <<<<"campaign", c>>, NA>> \in Asked /\ CampaignForecast(r, c)
        \/ Proceed(r) \/ Die(r)

FactsNext ==
    \/ NextDay
    \/ \E c \in Campaign, d \in Arrivals, row \in AdRows :
          SyncAds(c, d, row)
    \/ \E d \in Arrivals, row \in SaleRows : SyncOrders(d, row)
    \/ \E entry \in Catalogs : EditCatalog(entry)

(***************************************************************************)
(* Properties.                                                             *)
(***************************************************************************)

\* A forecast that claims to be current has the history a contest needs, also
\* where requests overlap and the row is stored again for more or less of it;
\* and the model it names had its minimum left after the holdout. (The second
\* is claimed of rows without an entity_id. A row stored under an id, a
\* campaign's or one a business request gave, is stored again by the next
\* request and keeps the name of the model it was first stored for: a trend
\* may stand beside too few days.)
EvidenceBehindModel ==
    \A f \in rows :
        f.status = "current" /\ f.key.metric # "contribution_profit" =>
            /\ f.obs >= Least.backtest
            /\ Unnamed(f.key.scope) =>
                  f.obs - Holdout(f.obs) >= Needs(f.model)

\* The daily points of a forecast without an entity_id are those of its own
\* total, whatever requests and late facts overlap: its row is never reused.
\* (Not so under an id: the second request updates the row, fails at the
\* points, and leaves the old ones beside the new total.)
PointsMatchRow ==
    \A f \in rows :
        Unnamed(f.key.scope) /\ Known(f.points) => f.points = f.expected

\* A stored forecast is backed by its evidence and agrees with its points.
ForecastRowsHold == EvidenceBehindModel /\ PointsMatchRow
=============================================================================
