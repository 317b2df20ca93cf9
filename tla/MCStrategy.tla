----------------------------- MODULE MCStrategy -----------------------------
(* Evidence of customers, of competitors and of neither; a product that   *)
(* gains or loses money.                                                  *)
EXTENDS Funnel, TLC

CONSTANTS pain, rivalry, logo, award, badge, seal, r1, r2

Symmetry == Permutations({r1, r2})

MCKindOf == (pain :> "pain_point") @@ (rivalry :> "competitor_gap")
                @@ (logo :> "other") @@ (award :> "other") @@ (badge :> "other")
                @@ (seal :> "other")
MCConfidenceOf == (pain :> "observed") @@ (rivalry :> "claimed")
                      @@ (logo :> "hypothesis") @@ (award :> "hypothesis")
                      @@ (badge :> "hypothesis") @@ (seal :> "hypothesis")
MCCollected == {{pain, rivalry, award, badge, seal}}

Whole == {"who", "problem", "solution", "promise"}
MCPositions ==
    {[evidence |-> {pain, rivalry}, fields |-> Whole, proof |-> TRUE,
      class |-> "inferred"],
     [evidence |-> {pain}, fields |-> {"differentiator"}, proof |-> FALSE,
      class |-> "claimed"],
     [evidence |-> {award, badge, seal}, fields |-> {"differentiator"},
      proof |-> FALSE, class |-> "claimed"]}
MCOffers ==
    {[evidence |-> {pain}, bundle |-> FALSE, price |-> NA, urgent |-> FALSE,
      proof |-> TRUE],
     [evidence |-> {pain}, bundle |-> TRUE, price |-> 2, urgent |-> TRUE,
      proof |-> TRUE]}
Stock(price, cost, n) == [price |-> price, cost |-> cost, stock |-> n,
                          bundle |-> 5]
MCShops == {Stock(6, 3, 1), Stock(2, 3, 0)}
MCGoals == {NA, [cpa |-> 2, roas |-> 1]}

Counts(n, c, v, p) == [impressions |-> n, clicks |-> c, views |-> v,
                       purchases |-> p]
MCViews ==
    {[performance |-> TRUE, findings |-> {}, forecast |-> "current",
      simulated |-> FALSE, counts |-> Counts(10, 8, 6, 5)],
     [performance |-> FALSE, forecast |-> "unavailable", simulated |-> TRUE,
      findings |-> {[stage |-> "interest", status |-> "detected",
                     about |-> "offer"]},
      counts |-> Counts(10, 1, NA, NA)]}
MCGate == [impressions |-> 5, clicks |-> 2, low |-> 20]
=============================================================================
