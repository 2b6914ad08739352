--------------------------- MODULE OrderLifecycle ---------------------------
(***************************************************************************)
(* Orders, the tables they sit on and the stock they hold.                 *)
(*                                                                         *)
(* One step is one HTTP request: the use case, the aggregate's method, the *)
(* save and every category-1 subscriber, which TransactionInterceptor and  *)
(* EventBusRouter run inside one database transaction.  A request that     *)
(* throws rolls everything back, so its action is simply not enabled.      *)
(* Requests follow one another here; StockLocks interleaves them.          *)
(***************************************************************************)
EXTENDS Naturals, FiniteSets, Functions

CONSTANTS
    Orders, Items,      \* ids the clients generate (UUIDs of the DTOs)
    OrderOf,            \* bound: the one order a client adds an item id to
    Tables, NoTable,
    NoOrder,            \* currentOrderId = null
    Ingredients,
    EnabledOrderTypes,  \* the establishment's settings.enabledOrderTypes
    ManualStatuses,     \* the statuses staff set on tables by hand
    Plans,              \* product plans: [strategy, use]
    MaxQuantity,        \* bound: units of one order item
    MaxLevel,           \* bound: stock of one ingredient
    MaxDraw,            \* bound: units one transformation takes
    MaxClosings,        \* bound: closings of one order
    MaxPlanChanges,     \* bound: edits of products and recipes
    RepeatedOpens,      \* whether a client may repeat POST /orders for an id
    RepeatedAdds        \* bound: the items it may repeat POST /orders/:id/items for

Strategies == {"DIRECT", "RECIPE", "NONE"}

OrderType == {"DINE_IN", "TAKEOUT", "DELIVERY"}
TableStatus == {"AVAILABLE", "OCCUPIED", "RESERVED", "INACTIVE"}

PlanRecords == [strategy : Strategies, use : [Ingredients -> Nat]]

ASSUME OrderLifecycleAssumption ==
    /\ IsFiniteSet(Items)
    /\ OrderOf \in [Items -> Orders]
    /\ NoTable \notin Tables
    /\ NoOrder \notin Orders
    /\ EnabledOrderTypes \subseteq OrderType
    /\ ManualStatuses \subseteq TableStatus
    /\ Plans \subseteq PlanRecords
    /\ Plans # {}
    /\ MaxQuantity \in Nat \ {0}
    /\ MaxLevel \in Nat
    /\ MaxDraw \in Nat
    /\ MaxClosings \in Nat
    /\ MaxPlanChanges \in Nat
    /\ RepeatedOpens \in BOOLEAN
    /\ RepeatedAdds \subseteq Items

VARIABLES
    orderStatus,    \* orders.status, "ABSENT" when there is no row
    orderType,
    orderTable,     \* orders.table_id
    itemStatus,     \* order_items.status, "ABSENT" when there is no row
    quantity,       \* order_items.quantity
    plan,           \* the strategy and recipe of the item's product
    planChanges,
    reservation,    \* stock_reservations: one row per item and ingredient
    level,          \* inventory_levels.current_quantity
    tableStatus,
    currentOrder,   \* tables.current_order_id
    closings,       \* history: how often CloseOrder ran for the order
    deductions,     \* history: how often a closing took the item's stock
    overwritten,    \* history: orders whose row a repeated POST replaced
    reposted,       \* history: sent or cancelled items a repeated POST replaced
    drawn,          \* history: ingredients used without a reservation
    reopened        \* history: terminal orders a late delivery made READY

orderVars == <<orderStatus, orderType, orderTable, itemStatus, quantity>>
stockVars == <<reservation, level>>
planVars  == <<plan, planChanges>>
tableVars == <<tableStatus, currentOrder>>
history   == <<closings, deductions, overwritten, reposted, drawn, reopened>>
vars == <<orderVars, stockVars, planVars, tableVars, history>>

-----------------------------------------------------------------------------
OrderStatus == {"OPEN", "IN_PROGRESS", "READY", "CLOSED", "CANCELLED"}
OrderItemStatus == {"PENDING", "SENT", "READY", "DELIVERED", "CANCELLED"}
StockReservationStatus == {"ACTIVE", "RELEASED", "CONSUMED"}

Terminal == {"CLOSED", "CANCELLED"}
Live == {"OPEN", "IN_PROGRESS", "READY"}

Nothing == [g \in Ingredients |-> 0]

\* There is no row for the item and the ingredient.
NoReservation == [status |-> "NONE", quantity |-> 0, direct |-> FALSE]

ItemsOf(o) == {i \in Items : OrderOf[i] = o}
Present(o) == {i \in ItemsOf(o) : itemStatus[i] # "ABSENT"}
\* Faulty variant: the cancelled items are not left out.
ActiveItemsWithCancelled(o) == Present(o)

ActiveItems(o) == {i \in Present(o) : itemStatus[i] # "CANCELLED"}
isActive(i, g) == reservation[i][g].status = "ACTIVE"

\* findActiveByOrderItem finds something.
Holds(i) == \E g \in Ingredients : isActive(i, g)

\* What the product's current plan asks for the item.
Demand(i) ==
    IF plan[i].strategy = "NONE" THEN Nothing
    ELSE [g \in Ingredients |-> quantity[i] * plan[i].use[g]]

\* sumActiveByIngredient.
Reserved(g) ==
    SumFunctionOnSet([i \in Items |-> reservation[i][g].quantity],
                     {i \in Items : isActive(i, g)})

areAllDelivered(S) == \A i \in S : itemStatus[i] = "DELIVERED"

ensureCanBeModified(o) == orderStatus[o] \in Live

\* What closing takes for the item: the reserved snapshot, or, when no ACTIVE
\* reservation is found, whatever the plan says now.
Charge(i) ==
    IF Holds(i)
    THEN [g \in Ingredients |-> IF isActive(i, g) THEN reservation[i][g].quantity ELSE 0]
    ELSE Demand(i)

\* The lines deducted with the 'unit' sentinel as their unit.
ChargedDirect(i) ==
    IF Holds(i)
    THEN {g \in Ingredients : isActive(i, g) /\ reservation[i][g].direct}
    ELSE {g \in Ingredients : plan[i].strategy = "DIRECT" /\ Demand(i)[g] > 0}

TotalCharge(o, g) == SumFunctionOnSet([i \in Items |-> Charge(i)[g]], ActiveItems(o))

-----------------------------------------------------------------------------
Init ==
    /\ orderStatus = [o \in Orders |-> "ABSENT"]
    /\ orderType = [o \in Orders |-> "TAKEOUT"]     \* no row yet: any value
    /\ orderTable = [o \in Orders |-> NoTable]
    /\ itemStatus = [i \in Items |-> "ABSENT"]
    /\ quantity = [i \in Items |-> 1]
    /\ plan \in [Items -> Plans]
    /\ planChanges = 0
    /\ reservation = [i \in Items |-> [g \in Ingredients |-> NoReservation]]
    /\ level = Nothing
    /\ tableStatus = [t \in Tables |-> "AVAILABLE"]
    /\ currentOrder = [t \in Tables |-> NoOrder]
    /\ closings = [o \in Orders |-> 0]
    /\ deductions = [i \in Items |-> 0]
    /\ overwritten = {}
    /\ reposted = {}
    /\ drawn = {}
    /\ reopened = {}

\* SetTableOccupiedOnOrderOpened -> OccupyTable: only DINE_IN orders with a table.
OccupyTable(o, type, t) ==
    IF type = "DINE_IN" /\ t # NoTable
    THEN /\ tableStatus[t] \in {"AVAILABLE", "RESERVED"}
         /\ tableStatus' = [tableStatus EXCEPT ![t] = "OCCUPIED"]
         /\ currentOrder' = [currentOrder EXCEPT ![t] = o]
    ELSE UNCHANGED tableVars

\* POST /orders.  The id comes from the client and save() upserts: for an id
\* that exists, the row is replaced and all its items are deleted.
OpenOrder(o, type, t) ==
    /\ orderStatus[o] = "ABSENT" \/ RepeatedOpens
    /\ orderStatus' = [orderStatus EXCEPT ![o] = "OPEN"]
    /\ orderType' = [orderType EXCEPT ![o] = type]
    /\ orderTable' = [orderTable EXCEPT ![o] = t]
    /\ itemStatus' = [i \in Items |->
                        IF OrderOf[i] = o THEN "ABSENT" ELSE itemStatus[i]]
    /\ OccupyTable(o, type, t)
    /\ overwritten' = IF orderStatus[o] = "ABSENT" THEN overwritten
                                                   ELSE overwritten \union {o}
    /\ UNCHANGED <<quantity, stockVars, planVars, closings, deductions,
                   reposted, drawn, reopened>>

\* POST /orders/:id/items.  The item's id, too, comes from the client, nobody
\* looks for it among the order's items, and save() upserts: the row of an id
\* that exists becomes the new PENDING item.  Its reservations stay.
AddOrderItem(i, q) ==
    /\ ensureCanBeModified(OrderOf[i])
    /\ itemStatus[i] = "ABSENT" \/ i \in RepeatedAdds
    /\ itemStatus' = [itemStatus EXCEPT ![i] = "PENDING"]
    /\ quantity' = [quantity EXCEPT ![i] = q]
    /\ reposted' = IF itemStatus[i] \in {"ABSENT", "PENDING"} THEN reposted
                   ELSE reposted \union {i}
    /\ UNCHANGED <<orderStatus, orderType, orderTable, stockVars, planVars, tableVars,
                   closings, deductions, overwritten, drawn, reopened>>

UpdateOrderItem(i, q) ==
    /\ ensureCanBeModified(OrderOf[i])
    /\ itemStatus[i] = "PENDING"
    /\ quantity' = [quantity EXCEPT ![i] = q]
    /\ UNCHANGED <<orderStatus, orderType, orderTable, itemStatus, stockVars,
                   planVars, tableVars, history>>

RemoveOrderItem(i) ==
    /\ ensureCanBeModified(OrderOf[i])
    /\ itemStatus[i] = "PENDING"
    /\ itemStatus' = [itemStatus EXCEPT ![i] = "ABSENT"]
    /\ UNCHANGED <<orderStatus, orderType, orderTable, quantity, stockVars,
                   planVars, tableVars, history>>

-----------------------------------------------------------------------------
\* Faulty variant: availability is the level alone.
ReserveStockOfLevel(S) ==
    LET required(g) == SumFunctionOnSet([i \in Items |-> Demand(i)[g]], S)
    IN  /\ \A g \in Ingredients : required(g) > 0 => level[g] >= required(g)
        /\ \A i \in S, g \in Ingredients :
              Demand(i)[g] > 0 => reservation[i][g] = NoReservation
        /\ reservation' = [i \in Items |-> [g \in Ingredients |->
              IF i \in S /\ Demand(i)[g] > 0
              THEN [status |-> "ACTIVE", quantity |-> Demand(i)[g],
                    direct |-> plan[i].strategy = "DIRECT"]
              ELSE reservation[i][g]]]

\* ReserveStock: every ingredient is checked before a row is written, and the
\* unique index (order, item, ingredient) refuses a second row for a line.
ReserveStock(S) ==
    LET required(g) == SumFunctionOnSet([i \in Items |-> Demand(i)[g]], S)
    IN  /\ \A g \in Ingredients :
              required(g) > 0 => level[g] >= Reserved(g) + required(g)
        /\ \A i \in S, g \in Ingredients :
              Demand(i)[g] > 0 => reservation[i][g] = NoReservation
        /\ reservation' = [i \in Items |-> [g \in Ingredients |->
              IF i \in S /\ Demand(i)[g] > 0
              THEN [status |-> "ACTIVE", quantity |-> Demand(i)[g],
                    direct |-> plan[i].strategy = "DIRECT"]
              ELSE reservation[i][g]]]

\* The pending items among the requested ones go to the kitchen.
SendOrderToKitchen(o, requested) ==
    LET sent == {i \in requested \intersect ItemsOf(o) : itemStatus[i] = "PENDING"}
    IN  /\ ensureCanBeModified(o)
        /\ sent # {}
        /\ itemStatus' = [i \in Items |->
                            IF i \in sent THEN "SENT" ELSE itemStatus[i]]
        /\ orderStatus' = [orderStatus EXCEPT ![o] = "IN_PROGRESS"]
        /\ ReserveStock(sent)
        /\ UNCHANGED <<orderType, orderTable, quantity, level, planVars,
                       tableVars, history>>

\* The order's status is not consulted: neither here nor on delivery.
MarkOrderItemReady(i) ==
    /\ itemStatus[i] = "SENT"
    /\ itemStatus' = [itemStatus EXCEPT ![i] = "READY"]
    /\ UNCHANGED <<orderStatus, orderType, orderTable, quantity, stockVars,
                   planVars, tableVars, history>>

\* Delivering the last active item makes the order READY, whatever it was.
MarkOrderItemDelivered(i) ==
    LET o == OrderOf[i]
        autoCompleted == areAllDelivered(ActiveItems(o) \ {i})
    IN  /\ itemStatus[i] = "READY"
        /\ itemStatus' = [itemStatus EXCEPT ![i] = "DELIVERED"]
        /\ orderStatus' = [orderStatus EXCEPT ![o] =
                             IF autoCompleted THEN "READY" ELSE @]
        /\ reopened' = IF autoCompleted /\ orderStatus[o] \in Terminal
                       THEN reopened \union {o} ELSE reopened
        /\ UNCHANGED <<orderType, orderTable, quantity, stockVars, planVars,
                       tableVars, closings, deductions, overwritten, reposted, drawn>>

-----------------------------------------------------------------------------
\* Faulty variant: release() and consume() do not look at the row's status.
SettleAnyRow(S, status) ==
    reservation' = [i \in Items |-> [g \in Ingredients |->
        IF i \in S /\ reservation[i][g] # NoReservation
        THEN [reservation[i][g] EXCEPT !.status = status]
        ELSE reservation[i][g]]]

\* release() and consume(): a row that is not ACTIVE is left alone.
Settle(S, status) ==
    reservation' = [i \in Items |-> [g \in Ingredients |->
        IF i \in S /\ isActive(i, g)
        THEN [reservation[i][g] EXCEPT !.status = status]
        ELSE reservation[i][g]]]

\* Faulty variant: cancelling an item releases the stock of the whole order.
CancelOrderItemReleasingAll(i) ==
    /\ ensureCanBeModified(OrderOf[i])
    /\ itemStatus[i] \notin {"ABSENT", "DELIVERED"}
    /\ itemStatus' = [itemStatus EXCEPT ![i] = "CANCELLED"]
    /\ Settle(ItemsOf(OrderOf[i]), "RELEASED")
    /\ UNCHANGED <<orderStatus, orderType, orderTable, quantity, level,
                   planVars, tableVars, history>>

CancelOrderItem(i) ==
    /\ ensureCanBeModified(OrderOf[i])
    /\ itemStatus[i] \notin {"ABSENT", "DELIVERED"}
    /\ itemStatus' = [itemStatus EXCEPT ![i] = "CANCELLED"]
    /\ Settle({i}, "RELEASED")
    /\ UNCHANGED <<orderStatus, orderType, orderTable, quantity, level,
                   planVars, tableVars, history>>

\* Faulty variant: the status is reset, current_order_id is not.
ReleaseTableKeepingOrder(t) ==
    IF t = NoTable THEN UNCHANGED tableVars
    ELSE /\ tableStatus' = [tableStatus EXCEPT ![t] = "AVAILABLE"]
         /\ UNCHANGED currentOrder

\* ReleaseTable frees the order's table_id without looking at who occupies it.
ReleaseTable(t) ==
    IF t = NoTable THEN UNCHANGED tableVars
    ELSE /\ tableStatus' = [tableStatus EXCEPT ![t] = "AVAILABLE"]
         /\ currentOrder' = [currentOrder EXCEPT ![t] = NoOrder]

\* Faulty variant: ReleaseStockOnOrderCancelled is not subscribed.
CancelOrderHoldingStock(o) ==
    /\ orderStatus[o] \in {"OPEN", "IN_PROGRESS"}
    /\ orderStatus' = [orderStatus EXCEPT ![o] = "CANCELLED"]
    /\ ReleaseTable(orderTable[o])
    /\ UNCHANGED <<orderType, orderTable, itemStatus, quantity, stockVars,
                   planVars, history>>

\* ReleaseStockForOrder finds rows by order id, item row or not.
CancelOrder(o) ==
    /\ orderStatus[o] \in {"OPEN", "IN_PROGRESS"}
    /\ orderStatus' = [orderStatus EXCEPT ![o] = "CANCELLED"]
    /\ ReleaseTable(orderTable[o])
    /\ Settle(ItemsOf(o), "RELEASED")
    /\ UNCHANGED <<orderType, orderTable, itemStatus, quantity, level,
                   planVars, history>>

\* Faulty variant: the level is not checked (ensureSufficientStock).
DeductIngredientsUnchecked(o) ==
    /\ \A i \in ActiveItems(o) : ChargedDirect(i) = {}
    /\ level' = [g \in Ingredients |-> level[g] - TotalCharge(o, g)]
    /\ Settle(ActiveItems(o), "CONSUMED")
    /\ deductions' = [i \in Items |->
                        deductions[i] + IF i \in ActiveItems(o) THEN 1 ELSE 0]

\* Consume the item's reservation, else deduct what its plan says now.  The
\* 'unit' sentinel of DIRECT lines matches no level's unit, so a DIRECT line
\* makes the deduction, and with it the closing, throw.
DeductIngredients(o) ==
    /\ \A i \in ActiveItems(o) : ChargedDirect(i) = {}
    /\ \A g \in Ingredients : TotalCharge(o, g) \in 0..level[g]
    /\ level' = [g \in Ingredients |-> level[g] - TotalCharge(o, g)]
    /\ Settle(ActiveItems(o), "CONSUMED")
    /\ deductions' = [i \in Items |->
                        deductions[i] + IF i \in ActiveItems(o) THEN 1 ELSE 0]

\* The payments of the request match the total.
CloseOrder(o) ==
    /\ orderStatus[o] \in {"IN_PROGRESS", "READY"}
    /\ closings[o] < MaxClosings
    /\ orderStatus' = [orderStatus EXCEPT ![o] = "CLOSED"]
    /\ ReleaseTable(orderTable[o])
    /\ DeductIngredients(o)
    /\ closings' = [closings EXCEPT ![o] = @ + 1]
    /\ drawn' = drawn \union
          {g \in Ingredients : \E i \in ActiveItems(o) : ~Holds(i) /\ Demand(i)[g] > 0}
    /\ UNCHANGED <<orderType, orderTable, itemStatus, quantity, planVars,
                   overwritten, reposted, reopened>>

-----------------------------------------------------------------------------
\* PATCH /tables/:id/status, by hand; current_order_id stays as it is.
ChangeTableStatus(t, s) ==
    /\ ~(tableStatus[t] = "OCCUPIED" /\ s = "INACTIVE")
    /\ tableStatus' = [tableStatus EXCEPT ![t] = s]
    /\ UNCHANGED <<orderVars, stockVars, planVars, currentOrder, history>>

\* RegisterPurchase and AddProducedStock.
RegisterPurchase(g, q) ==
    /\ level[g] + q <= MaxLevel
    /\ level' = [level EXCEPT ![g] = @ + q]
    /\ UNCHANGED <<orderVars, reservation, planVars, tableVars, history>>

\* RegisterTransformation deducts its inputs whatever is reserved.
DeductForTransformation(g, q) ==
    /\ q <= level[g]
    /\ level' = [level EXCEPT ![g] = @ - q]
    /\ drawn' = drawn \union {g}
    /\ UNCHANGED <<orderVars, reservation, planVars, tableVars, closings, deductions,
                   overwritten, reposted, reopened>>

\* A product's strategy or recipe is edited (menu).
ChangePlan(i, p) ==
    /\ planChanges < MaxPlanChanges
    /\ plan' = [plan EXCEPT ![i] = p]
    /\ planChanges' = planChanges + 1
    /\ UNCHANGED <<orderVars, stockVars, tableVars, history>>

Next ==
    \/ \E o \in Orders, type \in EnabledOrderTypes, t \in Tables \union {NoTable} :
          OpenOrder(o, type, t)
    \/ \E i \in Items, q \in 1..MaxQuantity : AddOrderItem(i, q)
    \/ \E i \in Items, q \in 1..MaxQuantity : UpdateOrderItem(i, q)
    \/ \E i \in Items : RemoveOrderItem(i)
    \/ \E o \in Orders, S \in SUBSET Items : SendOrderToKitchen(o, S)
    \/ \E i \in Items : MarkOrderItemReady(i)
    \/ \E i \in Items : MarkOrderItemDelivered(i)
    \/ \E i \in Items : CancelOrderItem(i)
    \/ \E o \in Orders : CancelOrder(o)
    \/ \E o \in Orders : CloseOrder(o)
    \/ \E t \in Tables, s \in ManualStatuses : ChangeTableStatus(t, s)
    \/ \E g \in Ingredients, q \in 1..MaxLevel : RegisterPurchase(g, q)
    \/ \E g \in Ingredients, q \in 1..MaxDraw : DeductForTransformation(g, q)
    \/ \E i \in Items, p \in Plans : ChangePlan(i, p)

Spec == Init /\ [][Next]_vars

-----------------------------------------------------------------------------
Row == [status : StockReservationStatus \union {"NONE"}, quantity : Nat, direct : BOOLEAN]

\* The types of the variables; in particular no stock level is ever negative
\* (InventoryLevel.ensureCurrentQuantityIsNotNegative).
TypeOK ==
    /\ orderStatus \in [Orders -> OrderStatus \union {"ABSENT"}]
    /\ orderType \in [Orders -> OrderType]
    /\ orderTable \in [Orders -> Tables \union {NoTable}]
    /\ itemStatus \in [Items -> OrderItemStatus \union {"ABSENT"}]
    /\ quantity \in [Items -> Nat]
    /\ plan \in [Items -> Plans]
    /\ planChanges \in Nat
    /\ reservation \in [Items -> [Ingredients -> Row]]
    /\ level \in [Ingredients -> Nat]
    /\ tableStatus \in [Tables -> TableStatus]
    /\ currentOrder \in [Tables -> Orders \union {NoOrder}]
    /\ closings \in [Orders -> Nat]
    /\ deductions \in [Items -> Nat]
    /\ overwritten \subseteq Orders
    /\ reposted \subseteq Items
    /\ drawn \subseteq Ingredients
    /\ reopened \subseteq Orders

\* No stock stays held for nothing: an ACTIVE reservation is that of an item the
\* kitchen has, in an order that can still be closed or give it back.  Two
\* repeated requests are the only ways out: POST /orders wipes the items under
\* the reservations, and POST /orders/:id/items makes an item PENDING again,
\* which a DELETE may then take away, so that closing does not find it.
ActiveReservationHasLiveItem ==
    \A i \in Items, g \in Ingredients :
        isActive(i, g) /\ OrderOf[i] \notin overwritten =>
            \/ /\ \/ itemStatus[i] \in {"SENT", "READY", "DELIVERED"}
                  \/ itemStatus[i] = "PENDING" /\ i \in reposted
               /\ orderStatus[OrderOf[i]] \in {"IN_PROGRESS", "READY"}
            \/ /\ itemStatus[i] = "ABSENT" /\ i \in reposted
               /\ orderStatus[OrderOf[i]] \in {"IN_PROGRESS", "READY", "CLOSED"}

\* What the kitchen works on keeps its stock: until its order is closed or
\* cancelled, no reservation of a sent item is released or consumed
\* (ReleaseStockOnOrderItemCancelled touches the cancelled item only).  An item
\* sent again after a repeated POST may have old rows, released when it was
\* cancelled.
KitchenItemKeepsItsStock ==
    \A i \in Items, g \in Ingredients :
        /\ itemStatus[i] \in {"SENT", "READY", "DELIVERED"}
        /\ orderStatus[OrderOf[i]] \in Live
        /\ OrderOf[i] \notin overwritten \union reopened
        /\ i \notin reposted
        => reservation[i][g].status \in {"NONE", "ACTIVE"}

\* RELEASED and CONSUMED are terminal and a row is never re-quantified
\* (the state machine in the comment of StockReservation).
ReservationIsFinal ==
    [][\A i \in Items, g \in Ingredients :
          /\ reservation[i][g].status \in {"RELEASED", "CONSUMED"} =>
                reservation'[i][g] = reservation[i][g]
          /\ isActive(i, g) => /\ reservation'[i][g].status # "NONE"
                               /\ reservation'[i][g].quantity = reservation[i][g].quantity
      ]_vars

\* One closing takes the stock of every active item once and of no cancelled
\* item, whether by consuming its reservation or by direct deduction.
ClosedOrderDeductedOnce ==
    \A o \in Orders :
        orderStatus[o] = "CLOSED" /\ closings[o] = 1 /\ o \notin overwritten =>
            \A i \in Present(o) :
                deductions[i] = IF itemStatus[i] = "CANCELLED" THEN 0 ELSE 1

\* A table points to an order that is alive, eats in, and sits at that table:
\* closing and cancelling never leave a table behind.
OccupiedTableHasLiveOrder ==
    \A t \in Tables :
        LET o == currentOrder[t]
        IN  o # NoOrder /\ o \notin overwritten =>
                /\ orderStatus[o] \in Live
                /\ orderTable[o] = t
                /\ orderType[o] = "DINE_IN"

\* Sends never promise stock twice: what is reserved comes to exceed the level
\* only through a use that asks for no reservation, which is the closing of an
\* item without one, or a transformation.
OverbookedOnlyByUnreservedUse ==
    [][\A g \in Ingredients :
          Reserved(g) <= level[g] /\ Reserved(g)' > level'[g] =>
              \/ \E o \in Orders :
                    /\ closings'[o] > closings[o]
                    /\ \E i \in ActiveItems(o) : ~Holds(i) /\ Demand(i)[g] > 0
              \/ UNCHANGED <<orderVars, reservation>>
      ]_vars

\* The point of reserving: an order whose items all hold their stock finds it
\* when it is closed, after whatever sends, edits of products and recipes,
\* cancellations, repeated POSTs and closings of others, as long as nobody has
\* used the ingredient without reserving it.  (An order with a DIRECT line cannot
\* be closed for another reason: the unit of its deduction.)
FullyReservedOrderCanClose ==
    \A o \in Orders :
        /\ orderStatus[o] \in {"IN_PROGRESS", "READY"}
        /\ \A i \in ActiveItems(o) : Holds(i) /\ ChargedDirect(i) = {}
        => \A g \in Ingredients \ drawn : TotalCharge(o, g) <= level[g]

-----------------------------------------------------------------------------
\* Stated by the code's comments and tests, and not so.

\* The "no double-deduction invariant" of the closing subscriber's tests: no
\* item's stock is ever taken twice.
NoItemDeductedTwice == \A i \in Items : deductions[i] <= 1

\* StockReservation: "ACTIVE -> CONSUMED (order closed, ...)": a closed order
\* holds no stock.
ClosedOrderHoldsNoStock ==
    \A i \in Items, g \in Ingredients :
        orderStatus[OrderOf[i]] = "CLOSED" => ~isActive(i, g)
=============================================================================
