---------------------------- MODULE MCStockLocks ----------------------------
(***************************************************************************)
(* Small instances of StockLocks: ingredients 101 to 103; their batches    *)
(* are 11 and 12, 21 and 31; 13 and 22 are the batches requests insert.    *)
(***************************************************************************)
EXTENDS StockLocks, TLC

Out(g, q) == [op |-> "OUT", ingredient |-> g, quantity |-> q]
In(g, q) == [op |-> "IN", ingredient |-> g, quantity |-> q]

MCBatchOf == 11 :> 101 @@ 12 :> 101 @@ 13 :> 101 @@ 21 :> 102 @@ 22 :> 102 @@ 31 :> 103

MCNewBatch == [r \in Requests |-> IF Kind[r] = "TRANSFORM" THEN 22 ELSE 13]

MCNeed == [r \in Requests |-> groupByIngredient(Lines[r])]

MCLevel == 101 :> 3 @@ 102 :> 2 @@ 103 :> 1
MCRemaining == 11 :> 1 @@ 12 :> 2 @@ 13 :> 0 @@ 21 :> 2 @@ 22 :> 0 @@ 31 :> 1

\* What the requests that are closed or cancelled hold.
MCReserved == 101 :> 1 @@ 102 :> 1 @@ 103 :> 1

\* Sends that name the ingredients in opposite orders, a cancellation that makes
\* room for one of them, closings, a transformation and a purchase.
KindOf ==
    "a" :> "SEND" @@ "b" :> "SEND" @@ "x" :> "CANCEL" @@ "c" :> "CLOSE" @@
    "f" :> "CLOSE" @@ "d" :> "TRANSFORM" @@ "e" :> "PURCHASE"
LinesOf ==
    "a" :> <<Out(101, 1), Out(102, 1)>> @@
    "b" :> <<Out(103, 1), Out(102, 1), Out(101, 1)>> @@
    "x" :> <<Out(103, 1)>> @@
    "c" :> <<Out(102, 1), Out(101, 1)>> @@
    "f" :> <<Out(101, 1)>> @@
    "d" :> <<Out(101, 3), In(102, 1)>> @@
    "e" :> <<In(101, 2)>>
MCKind == [r \in Requests |-> KindOf[r]]
MCLines == [r \in Requests |-> LinesOf[r]]
=============================================================================
