------------------------------ MODULE Inventory ------------------------------
(***************************************************************************)
(* The books of one ingredient, src/contexts/inventory: the batches it was *)
(* bought in, its level, the movements that explain both, and the alerts   *)
(* of its level.                                                           *)
(*                                                                         *)
(* Quantities are in ten-thousandths of the ingredient's unit, the         *)
(* resolution of inventory_levels and inventory_movements; costs of a unit *)
(* in cents, the resolution of a batch; total costs in their product.  A   *)
(* batch keeps three decimals of its quantities, a movement four of its    *)
(* total cost: each table rounds what it is given.                         *)
(*                                                                         *)
(* Every operation is one step: requests that overlap are StockLocks'      *)
(* subject.  Batches are numbered by their dates.                          *)
(* Bounds: MaxMovements; orders take whole ten-thousandths.                *)
(***************************************************************************)
EXTENDS Integers, Sequences, FiniteSets, Functions

CONSTANTS BaseUnit,      \* the ingredient's unit
          Conversions,   \* rows of unit_conversions: [from, to, num, den], a factor num/den
          Received,      \* lines a delivery may have: [quantity, unit, cost]
          Wanted,        \* quantities orders and adjustments may take
          Minimum,       \* minimum_quantity: above 0 only when the level was seeded
          MaxMovements   \* bound

ASSUME InventoryAssumption ==
    /\ \A r \in Conversions : r.num \in Nat \ {0} /\ r.den \in Nat \ {0} /\ r.from # r.to
    /\ \A r, s \in Conversions : r.from = s.from /\ r.to = s.to => r = s
    /\ \A l \in Received : l.quantity \in Nat \ {0} /\ l.cost \in Nat
    /\ Wanted \subseteq Nat \ {0}
    /\ Minimum \in Nat /\ MaxMovements \in Nat

VARIABLES lots,     \* the batches, oldest first
          onHand,   \* current_quantity of the level
          ledger,   \* the movements, in the order they were written
          alerts    \* the alerts of the level that were published

inventoryVars == <<lots, onHand, ledger, alerts>>

\* numeric(): the nearest to n/d, a half up.
Nearest(n, d) == (2 * n + d) \div (2 * d)

\* numeric(12,3) of a quantity n/d, and numeric(12,4) of a total cost n/d.
LotScale(n, d) == 10 * Nearest(n, 10 * d)
ValueScale(n, d) == 100 * Nearest(n, 100 * d)

Lesser(a, b) == IF a < b THEN a ELSE b

-----------------------------------------------------------------------------
(* Units *)

\* findByUnits: the rule of the direction asked for, or the other one inverted.
FindByUnits(from, to) ==
    LET direct == {r \in Conversions : r.from = from /\ r.to = to}
        inverse == {[from |-> from, to |-> to, num |-> r.den, den |-> r.num] :
                       r \in {r \in Conversions : r.from = to /\ r.to = from}}
    IN  IF direct # {} THEN direct ELSE inverse

\* GetConversionFactor throws when there is no rule.
GetConversionFactor(unit) ==
    IF unit = BaseUnit THEN {[from |-> unit, to |-> unit, num |-> 1, den |-> 1]}
    ELSE FindByUnits(unit, BaseUnit)

\* convertToBaseUnit: the quantity by the factor, the cost of a unit over it.  Both
\* are fractions, which JavaScript's numbers keep.
ConvertToBaseUnit(line, rule) ==
    [quantity |-> [num |-> line.quantity * rule.num, den |-> rule.den],
     cost     |-> [num |-> line.cost * rule.den, den |-> rule.num]]

-----------------------------------------------------------------------------
(* First in, first out *)

Remaining == [l \in DOMAIN lots |-> lots[l].remaining]

\* findAvailableByIngredient: the batches with something left.
FindAvailable == {l \in DOMAIN lots : lots[l].remaining > 0}

HasStock(q) == SumFunctionOnSet(Remaining, FindAvailable) >= q

\* Faulty variant: the youngest batch is drawn on first.
DeductionsOfYoungest(available, q) ==
    LET younger(l) == SumFunctionOnSet(Remaining, {k \in available : k > l})
    IN  [l \in {l \in available : q > younger(l)} |->
            Lesser(lots[l].remaining, q - younger(l))]

\* FifoInventoryService.deduct: what is taken of each available batch.
Deductions(available, q) ==
    LET older(l) == SumFunctionOnSet(Remaining, {k \in available : k < l})
    IN  [l \in {l \in available : q > older(l)} |-> Lesser(lots[l].remaining, q - older(l))]

\* sortBatchesByFifo, of the batches that are drawn on.
SortBatchesByFifo(batches) ==
    {s \in [1..Cardinality(batches) -> batches] :
        /\ Range(s) = batches
        /\ \A i, j \in DOMAIN s : i < j => s[i] < s[j]}

\* FifoInventoryService.calculateCost, without deducting.
CalculateCost(q) ==
    LET quote[l \in 0..Len(lots)] ==
            IF l = 0 THEN [left |-> q, cost |-> 0]
            ELSE LET use == Lesser(quote[l - 1].left, lots[l].remaining) IN
                 [left |-> quote[l - 1].left - use,
                  cost |-> quote[l - 1].cost + use * lots[l].cost]
    IN  quote[Len(lots)].cost

-----------------------------------------------------------------------------
NewLot(bought) ==
    LET kept == LotScale(bought.quantity.num, bought.quantity.den) IN
    [initial |-> kept, remaining |-> kept, cost |-> Nearest(bought.cost.num, bought.cost.den)]

RegisterManualAdjustmentRequest == Wanted

PurchaseMovement(lot, bought) ==
    [type |-> "PURCHASE", lot |-> lot,
     quantity |-> Nearest(bought.quantity.num, bought.quantity.den),
     totalCost |-> ValueScale(bought.quantity.num * bought.cost.num,
                              bought.quantity.den * bought.cost.den)]

Movement(type, lot, quantity, cost) ==
    [type |-> type, lot |-> lot, quantity |-> quantity, totalCost |-> ValueScale(cost, 1)]

\* decrease() records at most one of the two alerts; increase() records none.
CheckAndEmitStockEvents(left) ==
    CASE left = 0                    -> <<"OutOfStock">>
      [] left > 0 /\ left < Minimum  -> <<"LowStockDetected">>
      [] OTHER                       -> << >>

\* InventoryBatch.deduct, and what the table keeps of the rest.
Drawn(lot, taken) == [lot EXCEPT !.remaining = LotScale(@ - taken, 1)]

Increase(q) == onHand' = onHand + q /\ UNCHANGED alerts

Decrease(q) ==
    /\ onHand >= q
    /\ onHand' = onHand - q
    /\ alerts' = alerts \o CheckAndEmitStockEvents(onHand - q)

InventoryInit == lots = << >> /\ onHand = 0 /\ ledger = << >> /\ alerts = << >>

\* RegisterPurchase, in the transaction of the reception that announced the item.
ReceiveGoods ==
    \E line \in Received : \E rule \in GetConversionFactor(line.unit) :
        LET bought == ConvertToBaseUnit(line, rule) IN
        /\ Len(ledger) < MaxMovements   \* bound
        /\ lots' = Append(lots, NewLot(bought))
        /\ ledger' = Append(ledger, PurchaseMovement(Len(lots) + 1, bought))
        /\ Increase(Nearest(bought.quantity.num, bought.quantity.den))

\* DeductIngredient: refused when the batches, or the level, have less.
DeductStock ==
    \E q \in Wanted : \E taken \in {Deductions(FindAvailable, q)} :
      \E order \in SortBatchesByFifo(DOMAIN taken) :
        /\ Len(ledger) + Len(order) <= MaxMovements   \* bound
        /\ FindAvailable # {} /\ HasStock(q)
        /\ lots' = [l \in DOMAIN lots |-> IF l \in DOMAIN taken THEN Drawn(lots[l], taken[l])
                                         ELSE lots[l]]
        /\ ledger' = ledger \o [i \in DOMAIN order |->
              Movement("SALE", order[i], taken[order[i]],
                       taken[order[i]] * lots[order[i]].cost)]
        /\ Decrease(q)

\* RegisterManualAdjustment: a movement of no batch at the current cost, or at none
\* when the batches do not have that much.  Batches and level stay as they are: no
\* subscriber listens to InventoryMovementCreatedEvent.
RegisterManualAdjustment ==
    \E q \in RegisterManualAdjustmentRequest :
        /\ Len(ledger) < MaxMovements   \* bound
        /\ ledger' = Append(ledger,
              Movement("ADJUSTMENT", 0, q, IF HasStock(q) THEN CalculateCost(q) ELSE 0))
        /\ UNCHANGED <<lots, onHand, alerts>>

InventoryNext == ReceiveGoods \/ DeductStock \/ RegisterManualAdjustment
InventorySpec == InventoryInit /\ [][InventoryNext]_inventoryVars

-----------------------------------------------------------------------------
InventoryTypeOK ==
    /\ \A l \in DOMAIN lots : lots[l] \in [initial : Nat, remaining : Nat, cost : Nat]
    /\ onHand \in Nat
    /\ \A m \in DOMAIN ledger :
          /\ ledger[m].type \in {"PURCHASE", "SALE", "ADJUSTMENT"}
          /\ IF ledger[m].type = "ADJUSTMENT" THEN ledger[m].lot = 0
             ELSE ledger[m].lot \in DOMAIN lots
          /\ ledger[m].quantity \in Nat /\ ledger[m].totalCost \in Nat
    /\ \A a \in DOMAIN alerts : alerts[a] \in {"OutOfStock", "LowStockDetected"}

\* What a movement says it did to the stock.
Change(movement) ==
    CASE movement.type = "PURCHASE"   -> movement.quantity
      [] movement.type = "SALE"       -> -movement.quantity
      [] movement.type = "ADJUSTMENT" -> -movement.quantity

\* An adjustment reaches no level and no batch, although the use case and the design
\* of the level say that every movement does.
Applied(movement) == IF movement.type = "ADJUSTMENT" THEN 0 ELSE Change(movement)

Changes == [m \in DOMAIN ledger |-> Applied(ledger[m])]
MovementsOf(l) == {m \in DOMAIN ledger : ledger[m].lot = l}
LevelAfter(m) == SumFunctionOnSet(Changes, 1..m)

\* The level is what the movements say, to the last ten-thousandth, but for every
\* adjustment: none of them reaches it.
LevelIsExplained == onHand = LevelAfter(Len(ledger))

\* A batch is what its movements say, up to half a thousandth for each of them: the
\* roundings add up, and the batches drift away from the level.
LotsAreExplained ==
    \A l \in DOMAIN lots :
        LET drift == lots[l].remaining - SumFunctionOnSet(Changes, MovementsOf(l))
            most == 5 * Cardinality(MovementsOf(l))
        IN  -most <= drift /\ drift <= most

\* A batch was drawn on only when nothing was left of the older ones: no sale goes
\* back to a batch older than one that was sold from before.
OldestFirst ==
    /\ \A m, n \in DOMAIN ledger :
          m < n /\ ledger[m].type = "SALE" /\ ledger[n].type = "SALE"
             => ledger[m].lot <= ledger[n].lot
    /\ \A m \in DOMAIN ledger : ledger[m].type = "SALE" =>
          \A k \in 1..(ledger[m].lot - 1) : lots[k].remaining = 0

\* What the next sale will cost, before its movements round it, is what was quoted
\* for it.
QuotesAreKept ==
    \A q \in {q \in Wanted : HasStock(q)} :
        LET taken == Deductions(FindAvailable, q)
            costs == [l \in DOMAIN taken |-> taken[l] * lots[l].cost] IN
        /\ SumFunctionOnSet(taken, DOMAIN taken) = q
        /\ SumFunctionOnSet(costs, DOMAIN costs) = CalculateCost(q)

Within(a, b, margin) == -margin <= a - b /\ a - b <= margin

\* In whatever unit a delivery came, its movement is worth what was paid for it, to half
\* a ten-thousandth, and its batch, whose cost of a unit is a whole number of cents, to
\* half a cent for each unit of it and half a thousandth of its cost.
ValueIsKept ==
    \A m \in DOMAIN ledger : ledger[m].type = "PURCHASE" =>
        \E line \in Received :
            LET paid == line.quantity * line.cost
                lot == lots[ledger[m].lot] IN
            /\ Within(2 * ledger[m].totalCost, 2 * paid, 100)
            /\ Within(2 * lot.initial * lot.cost, 2 * paid, 10 * lot.cost + lot.initial + 5)

\* Every sale that left the level empty was announced, and nothing else was announced
\* as such.
EmptyingIsAnnounced ==
    Cardinality({a \in DOMAIN alerts : alerts[a] = "OutOfStock"})
      = Cardinality({m \in DOMAIN ledger : ledger[m].type = "SALE" /\ LevelAfter(m) = 0})

\* The books of an ingredient add up (fifo-inventory.service.ts, register-purchase.ts,
\* deduct-ingredient.ts, register-manual-adjustment.ts): level, batches and movements
\* tell one story, up to what their tables round and to the adjustments, which no
\* level and no batch ever sees; the oldest batch is sold first, at the cost that was
\* quoted, a delivery keeps its value in whatever unit it came, and a level that a sale
\* emptied is announced.
StockBooksAddUp ==
    /\ LevelIsExplained
    /\ LotsAreExplained
    /\ OldestFirst
    /\ QuotesAreKept
    /\ ValueIsKept
    /\ EmptyingIsAnnounced
=============================================================================
