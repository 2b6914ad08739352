---------------------------- MODULE StockPromises ----------------------------
(***************************************************************************)
(* What the reservations of send-to-kitchen promise, whatever runs at the  *)
(* same time: a send reserves everything it needs in one indivisible step, *)
(* or nothing, and never more than what is in stock at that moment.        *)
(* Levels move on their own: purchases, closings and transformations owe   *)
(* the reservations nothing.                                               *)
(***************************************************************************)
EXTENDS Integers

CONSTANTS
    Ingredients,
    Demands         \* the quantities per ingredient one request can ask for

VARIABLES level, reserved

promiseVars == <<level, reserved>>

Init ==
    /\ level \in [Ingredients -> Int]
    /\ reserved \in [Ingredients -> Int]

Reserve(need) ==
    /\ \A g \in Ingredients : need[g] > 0 => reserved[g] + need[g] <= level[g]
    /\ reserved' = [g \in Ingredients |-> reserved[g] + need[g]]
    /\ UNCHANGED level

\* A reservation ends: its stock is taken from the level or stays in it.
Settle(need) ==
    /\ reserved' = [g \in Ingredients |-> reserved[g] - need[g]]
    /\ level' \in [Ingredients -> Int]

ChangeLevel ==
    /\ level' \in [Ingredients -> Int]
    /\ UNCHANGED reserved

Next ==
    \/ \E need \in Demands : Reserve(need) \/ Settle(need)
    \/ ChangeLevel

Spec == Init /\ [][Next]_promiseVars
=============================================================================
