-------------------------- MODULE MCCreativeLifecycle --------------------------
(* Two requests and one opportunity; the second plan no longer holds it. *)
EXTENDS CreativeLifecycle, TLC

CONSTANTS f1, f2, o1

MCItems == f1 :> {o1} @@ f2 :> {}

Symmetry == Permutations(Requests)

===============================================================================
