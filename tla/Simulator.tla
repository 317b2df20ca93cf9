----------------------------- MODULE Simulator -----------------------------
(***************************************************************************)
(* The simulator: what a budget would do if the funnel went on as it did.  *)
(* A run resolves its assumptions (user, history, economics, or none),     *)
(* picks the first funnel model they can feed, computes an expected        *)
(* scenario and two tails from the daily distribution, and keeps one row   *)
(* per resolved assumptions and window. Assumptions and daily series are   *)
(* read by different statements: facts arrive in between.                  *)
(* Money is in cents. What Decimal.quantize rounds is rounded here, half   *)
(* to even; between two roundings the arithmetic is exact (Decimal keeps   *)
(* 28 digits).                                                             *)
(***************************************************************************)
EXTENDS Forecasting

CONSTANTS
    Question,   \* simulation requests: [scope, budget, window, overrides,
                \* targets]
    Skew,       \* days the server's date is ahead of the business's
    Grade,      \* [weak, moderate, strong]: minimum numbers of observations
    Near,       \* margin, in percent, that still counts as break-even
    Unit        \* [rate, mille, cent]: parts of a rate or of a count that are
                \* kept (10000), impressions a cpm is for (1000), parts of a
                \* cent in the largest cost per order, kept as a rate (100)

VARIABLES
    sims,       \* the table of simulations
    run         \* the run whose assumptions are resolved, or NA

simVars == <<sims, run>>
vars == <<facts, forecastVars, simVars, changes>>

(***************************************************************************)
(* The facts the tables admit and the requests validation lets through: a  *)
(* budget is positive, an overridden ratio is not negative.                *)
(***************************************************************************)
OrNone(values) == values \union {NA}
Share == Nat \X (Nat \ {0})
AdFact == [spend : Nat, impressions : Nat, clicks : Nat, value : Nat]
SaleFact == [purchases : Nat, revenue : Int, refunds : Int]

PricesFit(entry) ==
    /\ IsFiniteSet(DOMAIN entry)
    /\ \A p \in DOMAIN entry : entry[p] \in [price : OrNone(Nat), cost : OrNone(Int)]

QuestionFits(q) ==
    /\ q.budget \in Nat \ {0}
    /\ {"ctr", "cpc", "cpm", "cvr", "aov"} \subseteq DOMAIN q.overrides
    /\ \A n \in {"ctr", "cpc", "cpm", "cvr", "aov"} : q.overrides[n] \in OrNone(Share)

SimulatorAssumption ==
    /\ IsFiniteSet(Campaign) /\ Arrivals \subseteq Calendar
    /\ LastDay \in Int /\ NA \notin Int /\ NA \notin Int \X Int
    /\ AdRows \subseteq OrNone(AdFact) /\ SaleRows \subseteq OrNone(SaleFact)
    /\ \A entry \in Catalogs : PricesFit(entry)
    /\ \A h \in Histories :
          /\ h.ads \in [Campaign -> [Calendar -> OrNone(AdFact)]]
          /\ h.sold \in [Calendar -> OrNone(SaleFact)]
          /\ PricesFit(h.catalog)
    /\ \A q \in Question : QuestionFits(q)
    /\ \A name \in {"rate", "mille", "cent"} : Unit[name] \in Nat \ {0}

(***************************************************************************)
(* Ratios: None as soon as one part is None, or a divisor is zero.         *)
(***************************************************************************)
Times(x, y) ==
    IF Known(x) /\ Known(y) THEN <<x[1] * y[1], x[2] * y[2]>> ELSE NA
Over(x, y) ==
    IF Known(x) /\ Known(y) /\ y[1] # 0
    THEN IF y[1] > 0 THEN <<x[1] * y[2], x[2] * y[1]>>
                     ELSE <<-x[1] * y[2], -x[2] * y[1]>>
    ELSE NA
AtMost(x, y) == ~RatLess(y, x)
Whole(n) == IF Known(n) THEN <<n, 1>> ELSE NA

\* Amounts to the cent; rates and counts to the fourth decimal.
Money(x) == Quantize(x, 1)
Rate(x) == Quantize(x, Unit.rate)

(***************************************************************************)
(* History: the totals of the window, which ends on the server's           *)
(* yesterday. Orders are never of one campaign.                            *)
(***************************************************************************)
RatioName == {"ctr", "cpc", "cpm", "cvr", "aov", "cpa"}

WindowOf(q, skew) == (today + skew - q.window)..(today + skew - 1)

AdRowsOf(s, days) ==
    {k \in Campaign \X (days \intersect Calendar) :
        k[1] \in AdsOf(s) /\ Known(ads[k[1]][k[2]])}

Totals(s, days) ==
    LET keys == AdRowsOf(s, days)
        orders == SoldDays(days \intersect Calendar)
        ad(column) ==
            IF keys = {} THEN NA
            ELSE <<SumFunctionOnSet([k \in keys |-> ads[k[1]][k[2]][column]], keys), 1>>
        order(column) ==
            IF orders = {} THEN NA
            ELSE <<SumFunctionOnSet([d \in orders |-> sold[d][column]], orders), 1>>
    IN  [rows |-> Cardinality(keys), spend |-> ad("spend"),
         clicks |-> ad("clicks"), impressions |-> ad("impressions"),
         purchases |-> order("purchases"), revenue |-> order("revenue"),
         refunds |-> order("refunds")]

RatiosOf(t) ==
    [ctr |-> Rate(Over(t.clicks, t.impressions)),
     cpc |-> Money(Over(t.spend, t.clicks)),
     cpm |-> Quantize(Over(t.spend, t.impressions), Unit.mille),
     cvr |-> Rate(Over(t.purchases, t.clicks)),
     aov |-> Money(Over(t.revenue, t.purchases)),
     cpa |-> Money(Over(t.spend, t.purchases))]

GradeOf(n) == CASE n >= Grade.strong -> "strong"
                [] n >= Grade.moderate /\ n < Grade.strong -> "moderate"
                [] n >= Grade.weak /\ n < Grade.moderate -> "weak"
                [] OTHER -> "insufficient"

(***************************************************************************)
(* Assumptions: the user's value, else history or economics, else none. A  *)
(* cpm is kept as the price of one impression, in parts of a cent.         *)
(***************************************************************************)
Assumption(override, found, confidence) ==
    IF Known(override) THEN [value |-> override, confidence |-> "strong"]
    ELSE IF Known(found) THEN [value |-> found, confidence |-> confidence]
    ELSE [value |-> NA, confidence |-> "insufficient"]

PartsOf(n) == CASE n \in {"ctr", "cvr"} -> Unit.rate
                [] n = "cpm" -> Unit.mille
                [] OTHER -> 1

\* The ratios a user may override.
FromHistory(q, t) ==
    [n \in RatioName \ {"cpa"} |->
        Assumption(Quantize(q.overrides[n], PartsOf(n)), RatiosOf(t)[n],
                   GradeOf(t.rows))]

\* The quotient of two averages, each to the cent.
BreakEvenRoas ==
    IF Known(Economy.roas)
    THEN Rate(Over(Money(<<Economy.roas[1], Economy.average[2]>>),
                   Money(Economy.average)))
    ELSE NA

FromEconomy(q, t) ==
    LET graded == GradeOf(t.rows)
    IN  [budget |-> Assumption(<<q.budget, 1>>, NA, "strong"),
         cpa |-> Assumption(NA, RatiosOf(t).cpa, graded),
         refund |-> Assumption(Rate(q.overrides.refund),
                               Rate(Over(t.refunds, t.revenue)), graded),
         profit |-> Assumption(Money(q.overrides.profit), Money(Economy.average),
                               "strong"),
         even_cpa |-> Assumption(NA, Whole(Economy.cpaLow), graded),
         even_roas |-> Assumption(NA, BreakEvenRoas, graded)]

Assumptions(q, window) ==
    LET t == Totals(q.scope, window)
        ratios == FromHistory(q, t)
        others == FromEconomy(q, t)
    IN  [n \in DOMAIN ratios \union DOMAIN others |->
            IF n \in DOMAIN ratios THEN ratios[n] ELSE others[n]]

ValuesOf(assumed) == [n \in DOMAIN assumed |-> assumed[n].value]

(***************************************************************************)
(* Scenarios: nearest-rank quartiles of the daily ratios, none below the   *)
(* minimum number of days that have the ratio.                             *)
(***************************************************************************)
\* A day that cost nothing has no price of a click.
DayRatios(t) ==
    IF Known(t.spend) /\ t.spend[1] > 0 THEN RatiosOf(t)
    ELSE [RatiosOf(t) EXCEPT !.cpc = NA]

DaySeries(q, window) == [d \in window |-> DayRatios(Totals(q.scope, {d}))]

\* A day that was paid for and brought no click: the division raises.
SeriesFails(q, window) ==
    \E d \in window :
        LET t == Totals(q.scope, {d})
        IN  Known(t.spend) /\ t.spend[1] > 0 /\ t.clicks[1] = 0

DaysWith(series, n) == {d \in DOMAIN series : Known(series[d][n])}

Percentile(series, days, n, pct) ==
    LET count == Cardinality(days)
        rank == Max({1, (pct * count + 99) \div 100})
        atMost(d) == {e \in days : AtMost(series[e][n], series[d][n])}
        below(d) == {e \in days : RatLess(series[e][n], series[d][n])}
        d0 == CHOOSE d \in days : Cardinality(below(d)) < rank
                                    /\ rank <= Cardinality(atMost(d))
    IN  series[d0][n]

Quartile(series, pct) ==
    [n \in RatioName |->
        LET days == DaysWith(series, n)
        IN  IF Cardinality(days) < Grade.weak THEN NA
            ELSE Percentile(series, days, n, pct)]

(***************************************************************************)
(* The funnel, computed from the rounded assumptions; its figures are      *)
(* rounded one by one, and what is said about them reads the rounded ones. *)
(***************************************************************************)
FunnelInputs(model) ==
    CASE model = "cpm_ctr_cvr_aov" -> {"cpm", "ctr", "cvr", "aov"}
      [] model = "cpc_cvr_aov" -> {"cpc", "cvr", "aov"}
      [] model = "cpa_aov" -> {"cpa", "aov"}

Feeds(level, model) == \A n \in FunnelInputs(model) : Known(level[n])

SelectModel(level) ==
    CASE Feeds(level, "cpm_ctr_cvr_aov") -> "cpm_ctr_cvr_aov"
      [] ~Feeds(level, "cpm_ctr_cvr_aov") /\ Feeds(level, "cpc_cvr_aov")
            -> "cpc_cvr_aov"
      [] ~Feeds(level, "cpm_ctr_cvr_aov") /\ ~Feeds(level, "cpc_cvr_aov")
            /\ Feeds(level, "cpa_aov") -> "cpa_aov"
      [] OTHER -> "unavailable"

\* A price of zero: the quotient is None, and None is multiplied on.
FunnelFails(model, level) ==
    \/ model = "cpm_ctr_cvr_aov" /\ level.cpm[1] = 0
    \/ model = "cpc_cvr_aov" /\ level.cpc[1] = 0

\* Mutant: clicks are bought at the price of an impression.
PurchasesPerView(model, budget, level) ==
    CASE model = "cpm_ctr_cvr_aov" -> Times(Over(budget, level.cpm), level.cvr)
      [] model = "cpc_cvr_aov" -> Times(Over(budget, level.cpc), level.cvr)
      [] model = "cpa_aov" -> Over(budget, level.cpa)

Purchases(model, budget, level) ==
    CASE model = "cpm_ctr_cvr_aov" ->
            Times(Times(Over(budget, level.cpm), level.ctr), level.cvr)
      [] model = "cpc_cvr_aov" -> Times(Over(budget, level.cpc), level.cvr)
      [] model = "cpa_aov" -> Over(budget, level.cpa)

Clicks(model, budget, level) ==
    CASE model = "cpm_ctr_cvr_aov" ->
            Times(Over(budget, level.cpm), level.ctr)
      [] model = "cpc_cvr_aov" -> Over(budget, level.cpc)
      [] model = "cpa_aov" -> Over(Over(budget, level.cpa), level.cvr)

Net(revenue, refund) ==
    IF Known(revenue) /\ Known(refund)
    THEN Times(revenue, <<refund[2] - refund[1], refund[2]>>)
    ELSE revenue

Funnel(model, budget, level, refund, profit) ==
    LET bought == Purchases(model, budget, level)
        revenue == Times(bought, level.aov)
    IN  [purchases |-> Rate(bought), clicks |-> Rate(Clicks(model, budget, level)),
         revenue |-> Money(revenue), net |-> Money(Net(revenue, refund)),
         cpa |-> Money(Over(budget, bought)), roas |-> Rate(Over(revenue, budget)),
         cvr |-> level.cvr, aov |-> level.aov,
         profit |-> Money(Times(bought, profit))]

(***************************************************************************)
(* What is said about the expected scenario.                               *)
(***************************************************************************)
Profitability(s) ==
    LET margin == Over(s.profit, IF s.net[1] # 0 THEN s.net ELSE s.revenue)
    IN  CASE ~Known(s.profit) -> "unavailable"
          [] Known(s.profit) /\ s.profit[1] > 0
                /\ (Known(margin) => margin[1] * 100 > Near * margin[2])
                    -> "profitable"
          [] Known(s.profit) /\ s.profit[1] < 0 -> "unprofitable"
          [] OTHER -> "near_break_even"

Positive(x) == IF Known(x) /\ x[1] # 0 THEN x ELSE NA

\* Mutant: the smallest conversion rate ignores the price of a click.
BreakEvenPerOrder(s, budget, cpa, roas) ==
    [minCvr |-> Rate(Over(budget, Positive(cpa))),
     minAov |-> Money(Over(Times(Positive(roas), budget), s.purchases)),
     maxCpa |-> Quantize(Over(s.aov, Positive(roas)), Unit.cent)]

BreakEven(s, budget, cpa, roas) ==
    [minCvr |-> Rate(Over(budget, Times(Positive(cpa), s.clicks))),
     minAov |-> Money(Over(Times(Positive(roas), budget), s.purchases)),
     maxCpa |-> Quantize(Over(s.aov, Positive(roas)), Unit.cent)]

TargetMet(s, targets) ==
    [cpa |-> IF Known(targets.cpa) /\ Known(s.cpa)
             THEN AtMost(s.cpa, targets.cpa) ELSE NA,
     roas |-> IF Known(targets.roas) /\ Known(s.roas)
              THEN AtMost(targets.roas, s.roas) ELSE NA]

Weakest(grades) ==
    CASE "insufficient" \in grades -> "insufficient"
      [] "insufficient" \notin grades /\ "weak" \in grades -> "weak"
      [] grades = {"strong"} -> "strong"
      [] OTHER -> "moderate"

BestCount(series) == Max({Cardinality(DaysWith(series, n)) : n \in RatioName})

RunOf(q, assumed, series) ==
    LET v == ValuesOf(assumed)
        model == SelectModel(v)
        scenario(level) ==
            IF model = "unavailable" THEN NA
            ELSE IF ~Feeds(level, model) THEN NA
            ELSE Funnel(model, v.budget, level, v.refund, v.profit)
        expected == scenario(v)
        known == Known(expected)
    IN  [model |-> model, expected |-> expected,
         downside |-> scenario(Quartile(series, 25)),
         upside |-> scenario(Quartile(series, 75)),
         verdict |-> IF known THEN Profitability(expected) ELSE "unavailable",
         even |-> IF known THEN BreakEven(expected, v.budget, v.even_cpa,
                                          v.even_roas) ELSE NA,
         targets |-> IF known THEN TargetMet(expected, q.targets) ELSE NA,
         quality |-> IF model = "unavailable" THEN "insufficient"
                     ELSE Weakest({assumed[n].confidence : n \in FunnelInputs(model)}),
         evidence |-> GradeOf(BestCount(series))]

RunFails(assumed, series) ==
    LET v == ValuesOf(assumed)
        model == SelectModel(v)
    IN  \E level \in {v, Quartile(series, 25), Quartile(series, 75)} :
            /\ model # "unavailable"
            /\ Feeds(level, model) /\ FunnelFails(model, level)

(***************************************************************************)
(* Runs. Row and result are one transaction; the key is the scope, the     *)
(* values assumed and the window, so requests that differ in their targets *)
(* or their duration share a row, and the columns that no conflict updates *)
(* keep the first request.                                                 *)
(***************************************************************************)
Resolve(q, skew) ==
    /\ run = NA /\ begun < MaxWork
    /\ run' = [input |-> q, window |-> WindowOf(q, skew),
               assumed |-> Assumptions(q, WindowOf(q, skew))]
    /\ begun' = begun + 1
    /\ UNCHANGED <<facts, rows, work, changes, sims>>

Rerun(i, skew) == Resolve(sims[i].input, skew)

KeyOf(job) == [scope |-> job.input.scope, values |-> ValuesOf(job.assumed),
               window |-> job.window]

Simulate ==
    LET q == run.input
        series == DaySeries(q, run.window)
        same == {i \in DOMAIN sims : sims[i].key = KeyOf(run)}
        row == [key |-> KeyOf(run), asked |-> q, input |-> q,
                result |-> RunOf(q, run.assumed, series)]
    IN  /\ Known(run)
        /\ sims' = IF SeriesFails(q, run.window) THEN sims
                   ELSE IF RunFails(run.assumed, series) THEN sims
                   ELSE IF same = {} THEN Append(sims, row)
                   ELSE [i \in DOMAIN sims |->
                            IF i \in same THEN [row EXCEPT !.asked = sims[i].asked]
                                          ELSE sims[i]]
        /\ run' = NA
        /\ UNCHANGED <<facts, forecastVars, changes>>

Init == FactsInit /\ ForecastInit /\ sims = <<>> /\ run = NA

\* Bound: a behaviour forecasts or simulates, which share only the facts.
Simulating == Known(run) \/ sims # <<>>

Next ==
    \/ ForecastNext /\ ~Simulating /\ UNCHANGED simVars
    \/ FactsNext /\ UNCHANGED simVars
    \/ \E q \in Question, skew \in Skew :
          (begun > 0 => Simulating) /\ Resolve(q, skew)
    \/ \E i \in DOMAIN sims, skew \in Skew : Rerun(i, skew)
    \/ Simulate

Spec == Init /\ [][Next]_vars

(***************************************************************************)
(* Properties.                                                             *)
(***************************************************************************)

\* The break-even hints of a run never contradict its figures. A conversion
\* rate above its minimum costs no more per order than break-even, one below
\* it no less; an order value above its minimum returns no less than break-even,
\* one below it no more; a cost per order a cent under its maximum likewise.
\* Each of them is rounded by itself, so on the line they may disagree, and the
\* rounded divisors must be large enough to tell: a conversion rate no more
\* than the clicks, an order value no more cents than the purchases have parts.
BreakEvenAgrees ==
    \A i \in DOMAIN sims :
        LET s == sims[i].result.expected
            e == sims[i].result.even
            v == sims[i].key.values
            dearer(n) == <<s.cpa[1] + n, 1>>
        IN  Known(s) /\ Known(s.cpa) =>
            /\ Known(e.minCvr) /\ v.even_cpa[1] > 0 /\ AtMost(s.cvr, s.clicks) =>
                  /\ RatLess(e.minCvr, s.cvr) => AtMost(s.cpa, v.even_cpa)
                  /\ RatLess(s.cvr, e.minCvr) => AtMost(v.even_cpa, s.cpa)
            /\ Known(e.minAov) /\ s.aov[1] <= s.purchases[1] =>
                  /\ RatLess(e.minAov, s.aov) => AtMost(v.even_roas, s.roas)
                  /\ RatLess(s.aov, e.minAov) => AtMost(s.roas, v.even_roas)
            /\ Known(e.maxCpa) =>
                  /\ AtMost(dearer(1), e.maxCpa) => AtMost(v.even_roas, s.roas)
                  /\ AtMost(e.maxCpa, dearer(-1)) => AtMost(s.roas, v.even_roas)
=============================================================================
