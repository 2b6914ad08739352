-------------------------- MODULE MCKitchenPrinter --------------------------
(***************************************************************************)
(* Small instances of KitchenPrinter.                                      *)
(***************************************************************************)
EXTENDS KitchenPrinter, TLC

\* Handlers are alike.
Symmetry == Permutations(Handlers)
=============================================================================
