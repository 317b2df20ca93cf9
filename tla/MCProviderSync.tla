--------------------------- MODULE MCProviderSync ---------------------------
(* The instance of ProviderSync that TLC checks: Shopify has a resource type  *)
(* with two records, and so two pages, and one with none; Meta has the        *)
(* insights of two days, the second of which is yet to come.  Its hierarchy,  *)
(* listed without a filter, is left to the proof.                             *)
EXTENDS ProviderSync

CONSTANTS a, b, d1, d3

MCResources == <<"orders", "inventory", "insights">>
MCOffered == [shopify |-> {1, 2}, meta |-> {3}]
MCIncremental == [shopify |-> {1}, meta |-> {3}]
MCChoices == {{1}, {3}}
MCResourceOf == [r \in Records |-> IF r \in {a, b} THEN "orders" ELSE "insights"]
MCDaily == {"insights"}
MCDayOf == [r \in Records |-> IF r = d3 THEN 3 ELSE 1]
=============================================================================
