----------------------------- MODULE Economics -----------------------------
(***************************************************************************)
(* Unit economics: what one order of a product earns, and the profile of   *)
(* a business that diagnostics, recommendations, forecasts and strategy    *)
(* read. The records that apply (active price and cost, default shipping   *)
(* rule, running discounts) are the ones modules Catalog resolves; here    *)
(* they are values. Amounts are integers, a ratio is the pair              *)
(* <<numerator, denominator>> with a positive denominator, and NA stands   *)
(* for None. The profile is exact: Forecasting and Simulator round what    *)
(* they take of it (Quantize), the others compare it as it is.             *)
(***************************************************************************)
EXTENDS Integers, FiniteSets, FiniteSetsExt

CONSTANTS
    NA          \* None: no record, no fact, no value

(***************************************************************************)
(* Ratios and None.                                                        *)
(***************************************************************************)
Known(x) == x # NA

\* A ratio, None without a denominator (calculator._divide).
SafeDivide(n, d) == IF d = 0 THEN NA ELSE <<n, d>>

Ratio(n, d) == IF ~Known(n) \/ ~Known(d) THEN NA ELSE SafeDivide(n, d)

\* Comparisons of two ratios and of a ratio with a percentage.
RatLess(r, s) == r[1] * s[2] < s[1] * r[2]
BelowPct(r, pct) == r[1] * 100 < pct * r[2]

\* Decimal.quantize, half to even: a ratio in parts of a unit, None as it is.
Rounded(n, d) ==
    LET q == n \div d
        up == 2 * (n % d) > d \/ (2 * (n % d) = d /\ q % 2 = 1)
    IN  IF up THEN q + 1 ELSE q

Quantize(x, unit) == IF Known(x) THEN <<Rounded(x[1] * unit, x[2]), unit>> ELSE NA

Abs(n) == IF n < 0 THEN -n ELSE n

\* Comparison.of: current is at least pct percent above (sign 1) or below
\* (sign -1) previous.
ChangedBy(current, previous, pct, sign) ==
    /\ Known(current) /\ Known(previous)
    /\ previous[1] # 0
    /\ sign * (current[1] * previous[2] - previous[1] * current[2]) * 100
         >= pct * Abs(previous[1]) * current[2]

(***************************************************************************)
(* One order. A discount is [type, value, min, cap]: a percentage of the   *)
(* price or a flat amount, gated by the order value with shipping, capped, *)
(* and never above the price.                                              *)
(***************************************************************************)
DiscountAmount(discount, price, order) ==
    LET amount == IF discount.type = "percentage"
                  THEN (price * discount.value) \div 100
                  ELSE discount.value
        capped == IF Known(discount.cap) THEN Min({amount, discount.cap})
                                         ELSE amount
    IN  IF Known(discount.min) /\ order < discount.min
        THEN 0
        ELSE Min({capped, price})

\* What the customer pays and what the business keeps of it.
CustomerRevenue(price, shipping) ==
    price + (IF Known(shipping) THEN shipping.price ELSE 0)

ContributionProfit(price, cost, shipping, discount) ==
    LET order == CustomerRevenue(price, shipping)
    IN  order
        - (IF Known(cost) THEN cost ELSE 0)
        - (IF Known(shipping) THEN shipping.cost ELSE 0)
        - (IF Known(discount) THEN DiscountAmount(discount, price, order)
                              ELSE 0)

\* The discount assumed for every order: the largest on the highest price.
BestDiscount(discounts, highest) ==
    IF discounts = {} \/ ~Known(highest)
    THEN NA
    ELSE LET worth(d) == IF d.type = "percentage"
                         THEN (highest * d.value) \div 100 ELSE d.value
         IN  CHOOSE d \in discounts : \A e \in discounts : worth(e) <= worth(d)

(***************************************************************************)
(* The profile over the priced products of a business: catalog is a        *)
(* function from products to [price, cost]. break_even_roas exists only    *)
(* where the average order earns something.                                *)
(***************************************************************************)
Profile(catalog, shipping, discounts) ==
    LET priced == {p \in DOMAIN catalog : Known(catalog[p].price)}
        best == BestDiscount(discounts,
                    IF priced = {} THEN NA
                    ELSE Max({catalog[p].price : p \in priced}))
        earned(p) == ContributionProfit(catalog[p].price, catalog[p].cost,
                                        shipping, best)
        paid(p) == CustomerRevenue(catalog[p].price, shipping)
        profit == SumFunctionOnSet([p \in priced |-> earned(p)], priced)
        revenue == SumFunctionOnSet([p \in priced |-> paid(p)], priced)
    IN  IF priced = {}
        THEN [average |-> NA, cpaLow |-> NA, cpaHigh |-> NA, roas |-> NA,
              targetReason |-> "no_price"]
        ELSE [average |-> <<profit, Cardinality(priced)>>,
              cpaLow |-> Min({earned(p) : p \in priced}),
              cpaHigh |-> Max({earned(p) : p \in priced}),
              roas |-> IF profit > 0 THEN <<revenue, profit>> ELSE NA,
              targetReason |-> IF profit > 0 THEN "not_provided"
                                             ELSE "negative_contribution"]

\* A bundle earns its price less the costs of its items.
BundleProfit(price, items) ==
    LET cost(i) == i.quantity * (IF Known(i.cost) THEN i.cost ELSE 0)
    IN  price - MapThenSumSet(cost, items)
=============================================================================
