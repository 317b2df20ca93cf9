----------------------------- MODULE MCPlanning -----------------------------
(* Two campaigns, five days, thresholds scaled down to them. *)
EXTENDS Planning, TLC

CONSTANTS c1, c2, p1, p2, r1, r2

Symmetry == Permutations({r1, r2})

MCLeast == [sufficient |-> 1, backtest |-> 2, holdout |-> 1, maxHoldout |-> 2,
            average |-> 2, trend |-> 3, seasonal |-> 4]
MCGrade == [weak |-> 2, moderate |-> 3, strong |-> 4]

MCUnit == [rate |-> 20, mille |-> 4, cent |-> 2]

Ad(spent, seen, clicked, earned) ==
    [spend |-> spent, impressions |-> seen, clicks |-> clicked, value |-> earned]
Sold(n, money, back) == [purchases |-> n, revenue |-> money, refunds |-> back]
MCAdRows == {Ad(9, 8, 3, 6)}
MCSaleRows == {Sold(2, 18, 3)}
Priced(price1, cost1, price2) ==
    (p1 :> [price |-> price1, cost |-> cost1]) @@ (p2 :> [price |-> price2, cost |-> 4])
MCCatalogs == {Priced(9, 12, 5)}

History(now, ad1, ad2, orders) ==
    [today |-> now, ads |-> (c1 :> ad1) @@ (c2 :> ad2), sold |-> orders,
     catalog |-> Priced(12, 6, 7)]
None == [d \in 1..5 |-> NA]
MCHistories ==
    {History(4, [d \in 1..5 |-> IF d < 4 THEN Ad(6, 8, 2, 6) ELSE NA],
                [d \in 1..5 |-> IF d < 4 THEN Ad(9, 0, 2, 0) ELSE NA],
                [d \in 1..5 |-> IF d < 4 THEN Sold(1, 12, 3) ELSE NA]),
     History(5, [d \in 1..5 |-> IF d = 2 THEN Ad(6, 4, 2, 6)
                           ELSE IF d < 5 THEN Ad(4, 4, 1, 0) ELSE NA],
                [d \in 1..5 |-> IF d = 3 THEN Ad(6, 4, 0, 0) ELSE NA],
                [d \in 1..5 |-> IF d < 4 THEN Sold(d, 9, 0) ELSE NA]),
     History(3, [d \in 1..5 |-> IF d < 3 THEN Ad(0, 4, 0, 0) ELSE NA], None,
                [d \in 1..5 |-> IF d < 3 THEN Sold(1, 12, 3) ELSE NA])}

Of(c) == <<"campaign", c>>
Whole == <<"business", NA>>
MCAsked ==
    ({Whole, Of(c1), Of(NA), <<"business", c1>>} \X {NA})
      \union {<<Whole, "contribution_profit">>, <<Of(c1), "spend">>,
              <<<<"business", c1>>, "revenue">>}

NoTargets == [cpa |-> NA, roas |-> NA]
NoOverride == [ctr |-> NA, cpc |-> NA, cpm |-> NA, cvr |-> NA, aov |-> NA,
               refund |-> NA, profit |-> NA]
Asks(s, days, over, aims) ==
    [scope |-> s, budget |-> 25, window |-> days, overrides |-> over,
     targets |-> aims]
MCQuestion ==
    {Asks(Whole, 3, NoOverride, NoTargets),
     Asks(Of(c1), 3, [NoOverride EXCEPT !.cvr = <<11, 20>>, !.aov = <<13, 1>>],
          [cpa |-> <<9, 1>>, roas |-> <<2, 1>>]),
     Asks(Of(c2), 2, [NoOverride EXCEPT !.cpc = <<9, 4>>], NoTargets)}

MCSpec == Sim!Spec
=============================================================================
