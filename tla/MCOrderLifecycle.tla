-------------------------- MODULE MCOrderLifecycle --------------------------
(***************************************************************************)
(* Small instances of OrderLifecycle: two orders with up to three     *)
(* items between them, one table, and product plans that differ in strategy *)
(* and units.                                                              *)
(***************************************************************************)
EXTENDS OrderLifecycle, TLC

CONSTANTS o1, o2, i1, i2, i3, g1

MCOrderOf == (i1 :> o1) @@ (i2 :> o1) @@ (i3 :> o2)

MCOrderOfSame == (i1 :> o1) @@ (i2 :> o1)

MCOrderOfSingle == (i1 :> o1) @@ (i3 :> o2)

\* One ingredient and one recipe.
MCPlansRecipe == {[strategy |-> "RECIPE", use |-> (g1 :> 1)]}

\* A recipe that takes two units and a product sold by the piece.
MCPlansTwo == {[strategy |-> "RECIPE", use |-> (g1 :> 2)],
               [strategy |-> "DIRECT", use |-> (g1 :> 1)]}
=============================================================================
