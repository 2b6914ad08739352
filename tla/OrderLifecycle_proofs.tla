------------------------ MODULE OrderLifecycle_proofs ------------------------
(***************************************************************************)
(* Type correctness and the safety invariants of OrderLifecycle, for every *)
(* number of orders, items, tables and ingredients.                        *)
(***************************************************************************)
EXTENDS OrderLifecycle, DataTheorems, TLAPS

\* A settled table of reservations is a table of reservations.
LEMMA SettleType ==
    ASSUME NEW S, NEW status \in {"RELEASED", "CONSUMED"},
           reservation \in [Items -> [Ingredients -> Row]], Settle(S, status)
    PROVE  reservation' \in [Items -> [Ingredients -> Row]]
<1>1. ASSUME NEW r \in Row
      PROVE  [r EXCEPT !.status = status] \in Row
  BY DEF Row, StockReservationStatus
<1>2. ASSUME NEW i \in Items, NEW g \in Ingredients
      PROVE  (IF i \in S /\ isActive(i, g)
              THEN [reservation[i][g] EXCEPT !.status = status]
              ELSE reservation[i][g]) \in Row
  <2>1. reservation[i][g] \in Row
    OBVIOUS
  <2>2. QED  BY <2>1, <1>1
<1>3. QED  BY <1>2 DEF Settle

\* The demand of an item is a number of units of every ingredient.
LEMMA DemandType ==
    ASSUME NEW i \in Items, TypeOK
    PROVE  Demand(i) \in [Ingredients -> Nat]
<1>1. plan[i] \in PlanRecords /\ quantity[i] \in Nat
  BY OrderLifecycleAssumption DEF TypeOK
<1>2. \A g \in Ingredients : plan[i].use[g] \in Nat
  BY <1>1 DEF PlanRecords
<1>3. \A g \in Ingredients : quantity[i] * plan[i].use[g] \in Nat
  BY <1>1, <1>2
<1>4. QED  BY <1>3 DEF Demand, Nothing

LEMMA TypeOKInit == Init => TypeOK
  BY OrderLifecycleAssumption
  DEF Init, TypeOK, OrderStatus, OrderType, OrderItemStatus, TableStatus,
      StockReservationStatus, Row, NoReservation, Nothing

LEMMA TypeOKNext == TypeOK /\ [Next]_vars => TypeOK'
<1> SUFFICES ASSUME TypeOK, [Next]_vars  PROVE TypeOK'
  OBVIOUS
<1> USE DEF TypeOK, OrderStatus, OrderItemStatus, orderVars, stockVars, planVars,
            tableVars, history
<1>1. ASSUME NEW o \in Orders, NEW type \in EnabledOrderTypes,
             NEW t \in Tables \union {NoTable}, OpenOrder(o, type, t)
      PROVE  TypeOK'
  <2>1. type \in OrderType
    BY OrderLifecycleAssumption
  <2>2. itemStatus' \in [Items -> OrderItemStatus \union {"ABSENT"}]
    BY <1>1 DEF OpenOrder
  <2>3. /\ tableStatus' \in [Tables -> TableStatus]
        /\ currentOrder' \in [Tables -> Orders \union {NoOrder}]
    BY <1>1 DEF OpenOrder, OccupyTable, TableStatus
  <2>4. overwritten' \subseteq Orders
    BY <1>1 DEF OpenOrder
  <2>5. QED  BY <1>1, <2>1, <2>2, <2>3, <2>4 DEF OpenOrder
<1>2. ASSUME NEW i \in Items, NEW q \in 1..MaxQuantity, AddOrderItem(i, q)
      PROVE  TypeOK'
  BY <1>2, OrderLifecycleAssumption DEF AddOrderItem
<1>3. ASSUME NEW i \in Items, NEW q \in 1..MaxQuantity, UpdateOrderItem(i, q)
      PROVE  TypeOK'
  BY <1>3, OrderLifecycleAssumption DEF UpdateOrderItem
<1>4. ASSUME NEW i \in Items, RemoveOrderItem(i)
      PROVE  TypeOK'
  BY <1>4 DEF RemoveOrderItem
<1>5. ASSUME NEW o \in Orders, NEW S \in SUBSET Items, SendOrderToKitchen(o, S)
      PROVE  TypeOK'
  <2> DEFINE sent == {i \in S \intersect ItemsOf(o) : itemStatus[i] = "PENDING"}
  <2>1. ReserveStock(sent)
    BY <1>5 DEF SendOrderToKitchen
  <2>2. reservation' \in [Items -> [Ingredients -> Row]]
    <3>1. ASSUME NEW i \in Items, NEW g \in Ingredients
          PROVE  [status |-> "ACTIVE", quantity |-> Demand(i)[g],
                  direct |-> plan[i].strategy = "DIRECT"] \in Row
      BY DemandType DEF Row, StockReservationStatus
    <3>2. ASSUME NEW i \in Items, NEW g \in Ingredients
          PROVE  reservation[i][g] \in Row
      OBVIOUS
    <3>3. QED  BY <2>1, <3>1, <3>2 DEF ReserveStock
  <2>3. itemStatus' \in [Items -> OrderItemStatus \union {"ABSENT"}]
    BY <1>5 DEF SendOrderToKitchen
  <2>4. QED  BY <1>5, <2>2, <2>3 DEF SendOrderToKitchen
<1>6. ASSUME NEW i \in Items, MarkOrderItemReady(i)
      PROVE  TypeOK'
  BY <1>6 DEF MarkOrderItemReady
<1>7. ASSUME NEW i \in Items, MarkOrderItemDelivered(i)
      PROVE  TypeOK'
  <2>1. OrderOf[i] \in Orders
    BY OrderLifecycleAssumption
  <2>2. QED  BY <1>7, <2>1 DEF MarkOrderItemDelivered
<1>8. ASSUME NEW i \in Items, CancelOrderItem(i)
      PROVE  TypeOK'
  <2>1. reservation' \in [Items -> [Ingredients -> Row]]
    BY <1>8, SettleType DEF CancelOrderItem
  <2>2. QED  BY <1>8, <2>1 DEF CancelOrderItem
<1>9. ASSUME NEW o \in Orders, CancelOrder(o)
      PROVE  TypeOK'
  <2>1. reservation' \in [Items -> [Ingredients -> Row]]
    BY <1>9, SettleType DEF CancelOrder
  <2>2. QED  BY <1>9, <2>1 DEF CancelOrder, ReleaseTable, TableStatus
<1>10. ASSUME NEW o \in Orders, CloseOrder(o)
       PROVE  TypeOK'
  <2>1. reservation' \in [Items -> [Ingredients -> Row]]
    BY <1>10, SettleType DEF CloseOrder, DeductIngredients
  <2>2. level' \in [Ingredients -> Nat]
    BY <1>10 DEF CloseOrder, DeductIngredients
  <2>3. deductions' \in [Items -> Nat]
    BY <1>10 DEF CloseOrder, DeductIngredients
  <2>4. /\ tableStatus' \in [Tables -> TableStatus]
        /\ currentOrder' \in [Tables -> Orders \union {NoOrder}]
    BY <1>10 DEF CloseOrder, ReleaseTable, TableStatus
  <2>5. /\ closings' \in [Orders -> Nat]
        /\ orderStatus' \in [Orders -> OrderStatus \union {"ABSENT"}]
        /\ drawn' \subseteq Ingredients
    BY <1>10 DEF CloseOrder
  <2>6. QED  BY <1>10, <2>1, <2>2, <2>3, <2>4, <2>5 DEF CloseOrder
<1>11. ASSUME NEW t \in Tables, NEW s \in ManualStatuses, ChangeTableStatus(t, s)
       PROVE  TypeOK'
  BY <1>11, OrderLifecycleAssumption DEF ChangeTableStatus
<1>12. ASSUME NEW g \in Ingredients, NEW q \in 1..MaxLevel, RegisterPurchase(g, q)
       PROVE  TypeOK'
  BY <1>12, OrderLifecycleAssumption DEF RegisterPurchase
<1>13. ASSUME NEW g \in Ingredients, NEW q \in 1..MaxDraw,
              DeductForTransformation(g, q)
       PROVE  TypeOK'
  BY <1>13, OrderLifecycleAssumption DEF DeductForTransformation
<1>14. ASSUME NEW i \in Items, NEW p \in Plans, ChangePlan(i, p)
       PROVE  TypeOK'
  BY <1>14 DEF ChangePlan
<1>15. CASE UNCHANGED vars
  BY <1>15 DEF vars
<1>16. QED
  BY <1>1, <1>2, <1>3, <1>4, <1>5, <1>6, <1>7, <1>8, <1>9, <1>10, <1>11, <1>12,
     <1>13, <1>14, <1>15 DEF Next

\* Every reachable state is well typed; above all, stock levels stay natural
\* numbers through closings, transformations and purchases.
THEOREM TypeCorrect == Spec => []TypeOK
  BY TypeOKInit, TypeOKNext, PTL DEF Spec

-----------------------------------------------------------------------------
(***************************************************************************)
(* Stock.  The two invariants about reservations need two more facts: an   *)
(* order that was never opened has no item rows, and an item that was not  *)
(* sent has no reservation row.  Together they are inductive.              *)
(***************************************************************************)
AbsentOrderHasNoItems ==
    \A i \in Items : orderStatus[OrderOf[i]] = "ABSENT" => itemStatus[i] = "ABSENT"

UnsentItemHasNoReservation ==
    \A i \in Items, g \in Ingredients :
        /\ itemStatus[i] \in {"ABSENT", "PENDING"}
        /\ OrderOf[i] \notin overwritten
        /\ i \notin reposted
        => reservation[i][g] = NoReservation

StockInv ==
    /\ TypeOK
    /\ AbsentOrderHasNoItems
    /\ UnsentItemHasNoReservation
    /\ ActiveReservationHasLiveItem
    /\ KitchenItemKeepsItsStock

LEMMA StockInvInit == Init => StockInv
  BY TypeOKInit, OrderLifecycleAssumption
  DEF Init, StockInv, AbsentOrderHasNoItems, UnsentItemHasNoReservation,
      ActiveReservationHasLiveItem, KitchenItemKeepsItsStock, isActive, NoReservation

LEMMA StockInvNext == StockInv /\ [Next]_vars => StockInv'
<1> SUFFICES ASSUME StockInv, [Next]_vars  PROVE StockInv'
  OBVIOUS
<1>0. TypeOK'
  BY TypeOKNext DEF StockInv
<1> USE DEF StockInv, AbsentOrderHasNoItems, UnsentItemHasNoReservation,
            ActiveReservationHasLiveItem, KitchenItemKeepsItsStock,
            orderVars, stockVars, planVars, tableVars, history
<1>a. /\ OrderOf \in [Items -> Orders]
      /\ orderStatus \in [Orders -> OrderStatus \union {"ABSENT"}]
      /\ itemStatus \in [Items -> OrderItemStatus \union {"ABSENT"}]
      /\ reservation \in [Items -> [Ingredients -> Row]]
  BY OrderLifecycleAssumption DEF TypeOK
<1>1. ASSUME NEW o \in Orders, NEW type \in EnabledOrderTypes,
             NEW t \in Tables \union {NoTable}, OpenOrder(o, type, t)
      PROVE  StockInv'
  BY <1>0, <1>1, <1>a DEF OpenOrder, isActive, NoReservation, Live
<1>2. ASSUME NEW i \in Items, NEW q \in 1..MaxQuantity, AddOrderItem(i, q)
      PROVE  StockInv'
  BY <1>0, <1>2, <1>a DEF AddOrderItem, ensureCanBeModified, isActive, NoReservation, Live
<1>3. ASSUME NEW i \in Items, NEW q \in 1..MaxQuantity, UpdateOrderItem(i, q)
      PROVE  StockInv'
  BY <1>0, <1>3, <1>a DEF UpdateOrderItem, isActive
<1>4. ASSUME NEW i \in Items, RemoveOrderItem(i)
      PROVE  StockInv'
  BY <1>0, <1>4, <1>a DEF RemoveOrderItem, isActive, NoReservation
<1>5. ASSUME NEW o \in Orders, NEW S \in SUBSET Items, SendOrderToKitchen(o, S)
      PROVE  StockInv'
  <2> DEFINE sent == {i \in S \intersect ItemsOf(o) : itemStatus[i] = "PENDING"}
  <2>1. /\ orderStatus' = [orderStatus EXCEPT ![o] = "IN_PROGRESS"]
        /\ orderStatus[o] \in Live
        /\ itemStatus' = [i \in Items |-> IF i \in sent THEN "SENT" ELSE itemStatus[i]]
        /\ UNCHANGED <<overwritten, reposted, reopened>>
    BY <1>5 DEF SendOrderToKitchen, ensureCanBeModified
  <2>2. ASSUME NEW i \in Items, i \notin sent
        PROVE  \A g \in Ingredients : reservation'[i][g] = reservation[i][g]
    BY <1>5, <2>2 DEF SendOrderToKitchen, ReserveStock
  <2>3. ASSUME NEW i \in sent
        PROVE  /\ i \in Items
               /\ OrderOf[i] = o
               /\ itemStatus'[i] = "SENT"
               /\ \A g \in Ingredients :
                     \/ reservation'[i][g].status \in {"NONE", "ACTIVE"}
                     \/ o \in overwritten
                     \/ i \in reposted
    <3>1. /\ i \in Items
          /\ OrderOf[i] = o
          /\ itemStatus[i] = "PENDING"
      BY <2>3 DEF ItemsOf
    <3>2. ASSUME NEW g \in Ingredients
          PROVE  \/ reservation'[i][g].status = "ACTIVE"
                 \/ reservation'[i][g] = reservation[i][g]
      BY <1>5, <2>3, <3>1 DEF SendOrderToKitchen, ReserveStock
    <3>3. QED  BY <2>1, <2>3, <3>1, <3>2 DEF NoReservation
  <2>4. AbsentOrderHasNoItems'
    BY <1>a, <2>1, <2>3 DEF Live
  <2>5. ASSUME NEW i \in Items, NEW g \in Ingredients
        PROVE  /\ /\ itemStatus'[i] \in {"ABSENT", "PENDING"}
                  /\ OrderOf[i] \notin overwritten
                  /\ i \notin reposted
                  => reservation'[i][g] = NoReservation
               /\ reservation'[i][g].status = "ACTIVE" /\ OrderOf[i] \notin overwritten =>
                     \/ /\ \/ itemStatus'[i] \in {"SENT", "READY", "DELIVERED"}
                           \/ itemStatus'[i] = "PENDING" /\ i \in reposted
                        /\ orderStatus'[OrderOf[i]] \in {"IN_PROGRESS", "READY"}
                     \/ /\ itemStatus'[i] = "ABSENT" /\ i \in reposted
                        /\ orderStatus'[OrderOf[i]] \in {"IN_PROGRESS", "READY", "CLOSED"}
               /\ /\ itemStatus'[i] \in {"SENT", "READY", "DELIVERED"}
                  /\ orderStatus'[OrderOf[i]] \in Live
                  /\ OrderOf[i] \notin overwritten \union reopened
                  /\ i \notin reposted
                  => reservation'[i][g].status \in {"NONE", "ACTIVE"}
    <3>1. CASE i \in sent
      BY <1>a, <2>1, <2>3, <3>1
    <3>2. CASE i \notin sent
      BY <1>a, <2>1, <2>2, <3>2 DEF isActive, Live
    <3>3. QED  BY <3>1, <3>2
  <2>6. QED
    BY <1>0, <2>1, <2>4, <2>5 DEF isActive
<1>6. ASSUME NEW i \in Items, MarkOrderItemReady(i)
      PROVE  StockInv'
  BY <1>0, <1>6, <1>a DEF MarkOrderItemReady, isActive
<1>7. ASSUME NEW i \in Items, MarkOrderItemDelivered(i)
      PROVE  StockInv'
  BY <1>0, <1>7, <1>a DEF MarkOrderItemDelivered, isActive, Live, Terminal, OrderStatus
<1>8. ASSUME NEW i \in Items, CancelOrderItem(i)
      PROVE  StockInv'
  <2>1. Settle({i}, "RELEASED")
    BY <1>8 DEF CancelOrderItem
  <2>2. ASSUME NEW j \in Items, NEW g \in Ingredients
        PROVE  \/ reservation'[j][g] = reservation[j][g] /\ (j = i => ~isActive(i, g))
               \/ j = i /\ reservation'[j][g].status = "RELEASED" /\ isActive(j, g)
    BY <1>a, <2>1 DEF Settle, isActive, Row
  <2>3. /\ itemStatus' = [itemStatus EXCEPT ![i] = "CANCELLED"]
        /\ itemStatus[i] # "ABSENT"
        /\ UNCHANGED <<orderStatus, overwritten, reposted, reopened>>
    BY <1>8 DEF CancelOrderItem
  <2>4. AbsentOrderHasNoItems'
    BY <1>a, <2>3
  <2>5. UnsentItemHasNoReservation'
    BY <1>a, <2>2, <2>3 DEF NoReservation, isActive
  <2>6. ActiveReservationHasLiveItem'
    BY <1>a, <2>2, <2>3 DEF isActive
  <2>7. KitchenItemKeepsItsStock'
    BY <1>a, <2>2, <2>3
  <2>8. QED  BY <1>0, <2>4, <2>5, <2>6, <2>7
<1>9. ASSUME NEW o \in Orders, CancelOrder(o)
      PROVE  StockInv'
  <2>1. Settle(ItemsOf(o), "RELEASED")
    BY <1>9 DEF CancelOrder
  <2>2. ASSUME NEW j \in Items, NEW g \in Ingredients
        PROVE  \/ /\ reservation'[j][g] = reservation[j][g]
                  /\ OrderOf[j] = o => ~isActive(j, g)
               \/ /\ OrderOf[j] = o
                  /\ reservation'[j][g].status = "RELEASED"
                  /\ isActive(j, g)
    BY <1>a, <2>1 DEF Settle, isActive, Row, ItemsOf
  <2>3. /\ orderStatus' = [orderStatus EXCEPT ![o] = "CANCELLED"]
        /\ orderStatus[o] # "ABSENT"
        /\ UNCHANGED <<itemStatus, overwritten, reposted, reopened>>
    BY <1>9 DEF CancelOrder
  <2>4. AbsentOrderHasNoItems'
    BY <1>a, <2>3
  <2>5. UnsentItemHasNoReservation'
    BY <1>a, <2>2, <2>3 DEF NoReservation, isActive
  <2>6. ActiveReservationHasLiveItem'
    BY <1>a, <2>2, <2>3 DEF isActive
  <2>7. KitchenItemKeepsItsStock'
    BY <1>a, <2>2, <2>3 DEF Live
  <2>8. QED  BY <1>0, <2>4, <2>5, <2>6, <2>7
<1>10. ASSUME NEW o \in Orders, CloseOrder(o)
       PROVE  StockInv'
  <2>1. Settle(ActiveItems(o), "CONSUMED")
    BY <1>10 DEF CloseOrder, DeductIngredients
  <2>2. ASSUME NEW j \in Items, NEW g \in Ingredients
        PROVE  \/ /\ reservation'[j][g] = reservation[j][g]
                  /\ OrderOf[j] = o /\ itemStatus[j] \notin {"ABSENT", "CANCELLED"}
                        => ~isActive(j, g)
               \/ /\ OrderOf[j] = o
                  /\ reservation'[j][g].status = "CONSUMED"
                  /\ isActive(j, g)
    BY <1>a, <2>1 DEF Settle, isActive, Row, ActiveItems, Present, ItemsOf
  <2>3. /\ orderStatus' = [orderStatus EXCEPT ![o] = "CLOSED"]
        /\ orderStatus[o] # "ABSENT"
        /\ UNCHANGED <<itemStatus, overwritten, reposted, reopened>>
    BY <1>10 DEF CloseOrder
  <2>4. AbsentOrderHasNoItems'
    BY <1>a, <2>3
  <2>5. UnsentItemHasNoReservation'
    BY <1>a, <2>2, <2>3 DEF NoReservation, isActive
  <2>6. ActiveReservationHasLiveItem'
    BY <1>a, <2>2, <2>3 DEF isActive
  <2>7. KitchenItemKeepsItsStock'
    BY <1>a, <2>2, <2>3 DEF Live
  <2>8. QED  BY <1>0, <2>4, <2>5, <2>6, <2>7
<1>11. ASSUME NEW t \in Tables, NEW s \in ManualStatuses, ChangeTableStatus(t, s)
       PROVE  StockInv'
  BY <1>0, <1>11 DEF ChangeTableStatus, isActive
<1>12. ASSUME NEW g \in Ingredients, NEW q \in 1..MaxLevel, RegisterPurchase(g, q)
       PROVE  StockInv'
  BY <1>0, <1>12 DEF RegisterPurchase, isActive
<1>13. ASSUME NEW g \in Ingredients, NEW q \in 1..MaxDraw,
              DeductForTransformation(g, q)
       PROVE  StockInv'
  BY <1>0, <1>13 DEF DeductForTransformation, isActive
<1>14. ASSUME NEW i \in Items, NEW p \in Plans, ChangePlan(i, p)
       PROVE  StockInv'
  BY <1>0, <1>14 DEF ChangePlan, isActive
<1>15. CASE UNCHANGED vars
  BY <1>0, <1>15 DEF vars, isActive
<1>16. QED
  BY <1>1, <1>2, <1>3, <1>4, <1>5, <1>6, <1>7, <1>8, <1>9, <1>10, <1>11, <1>12,
     <1>13, <1>14, <1>15 DEF Next

\* No reservation outlives its item or its order, but for the item that a repeated POST
\* made PENDING again and a DELETE then took away.
THEOREM ReservationsBelongToLiveItems == Spec => []ActiveReservationHasLiveItem
<1>1. StockInv => ActiveReservationHasLiveItem
  BY DEF StockInv
<1>2. QED  BY <1>1, StockInvInit, StockInvNext, PTL DEF Spec

\* No reservation of an item in the kitchen ends before its order does; an item that was
\* sent again after a repeated POST may have rows of its first life that did.
THEOREM KitchenItemsKeepTheirStock == Spec => []KitchenItemKeepsItsStock
<1>1. StockInv => KitchenItemKeepsItsStock
  BY DEF StockInv
<1>2. QED  BY <1>1, StockInvInit, StockInvNext, PTL DEF Spec

-----------------------------------------------------------------------------
(***************************************************************************)
(* The box formulas and the invariants of the other parts of the state.    *)
(***************************************************************************)

\* RELEASED and CONSUMED rows never change again, and no step re-quantifies or
\* removes an ACTIVE one.
THEOREM ReservationsAreFinal == Spec => ReservationIsFinal
<1> DEFINE Final == \A i \in Items, g \in Ingredients :
          /\ reservation[i][g].status \in {"RELEASED", "CONSUMED"} =>
                reservation'[i][g] = reservation[i][g]
          /\ isActive(i, g) => /\ reservation'[i][g].status # "NONE"
                               /\ reservation'[i][g].quantity = reservation[i][g].quantity
<1>1. ASSUME TypeOK, [Next]_vars  PROVE [Final]_vars
  <2>a. reservation \in [Items -> [Ingredients -> Row]]
    BY <1>1 DEF TypeOK
  <2>1. CASE UNCHANGED reservation
    BY <2>1 DEF isActive
  <2>2. ASSUME NEW S \in SUBSET Items, ReserveStock(S)  PROVE Final
    BY <2>a, <2>2 DEF ReserveStock, NoReservation, isActive
  <2>3. ASSUME NEW o \in Orders, CancelOrder(o)  PROVE Final
    BY <2>a, <2>3 DEF CancelOrder, Settle, isActive, Row
  <2>4. ASSUME NEW i \in Items, CancelOrderItem(i)  PROVE Final
    BY <2>a, <2>4 DEF CancelOrderItem, Settle, isActive, Row
  <2>5. ASSUME NEW o \in Orders, CloseOrder(o)  PROVE Final
    BY <2>a, <2>5 DEF CloseOrder, DeductIngredients, Settle, isActive, Row
  <2>6. ASSUME NEW o \in Orders, NEW S \in SUBSET Items, SendOrderToKitchen(o, S)
        PROVE  Final
    BY <2>a, <2>6
    DEF SendOrderToKitchen, ReserveStock, ItemsOf, NoReservation, isActive
  <2>7. ASSUME NEW o \in Orders, NEW type, NEW t, OpenOrder(o, type, t)
        PROVE  UNCHANGED reservation
    BY <2>7 DEF OpenOrder, stockVars
  <2>8. ASSUME NEW i \in Items,
               \/ \E q \in 1..MaxQuantity : AddOrderItem(i, q) \/ UpdateOrderItem(i, q)
               \/ RemoveOrderItem(i)
               \/ MarkOrderItemReady(i)
               \/ MarkOrderItemDelivered(i)
               \/ \E q \in Plans : ChangePlan(i, q)
        PROVE  UNCHANGED reservation
    BY <2>8 DEF AddOrderItem, UpdateOrderItem, RemoveOrderItem, MarkOrderItemReady,
                MarkOrderItemDelivered, ChangePlan, stockVars
  <2>9. ASSUME \/ \E t \in Tables, st \in ManualStatuses : ChangeTableStatus(t, st)
               \/ \E g \in Ingredients, q \in Nat :
                     RegisterPurchase(g, q) \/ DeductForTransformation(g, q)
        PROVE  UNCHANGED reservation
    BY <2>9 DEF ChangeTableStatus, RegisterPurchase, DeductForTransformation, stockVars
  <2>10. CASE UNCHANGED vars
    BY <2>10 DEF vars
  <2>11. QED
    BY <1>1, <2>1, <2>3, <2>4, <2>5, <2>6, <2>7, <2>8, <2>9, <2>10 DEF Next
<1>2. QED
  BY <1>1, TypeCorrect, PTL DEF Spec, ReservationIsFinal

\* No table is left with an order that was closed, cancelled or never sat there.
THEOREM TablesHaveLiveOrders == Spec => []OccupiedTableHasLiveOrder
<1> DEFINE TableInv == TypeOK /\ OccupiedTableHasLiveOrder
<1>1. Init => TableInv
  BY TypeOKInit DEF Init, OccupiedTableHasLiveOrder
<1>2. ASSUME TableInv, [Next]_vars  PROVE TableInv'
  <2>0. TypeOK'
    BY <1>2, TypeOKNext
  <2>a. /\ orderStatus \in [Orders -> OrderStatus \union {"ABSENT"}]
        /\ orderType \in [Orders -> OrderType]
        /\ orderTable \in [Orders -> Tables \union {NoTable}]
        /\ currentOrder \in [Tables -> Orders \union {NoOrder}]
        /\ OccupiedTableHasLiveOrder
        /\ NoTable \notin Tables /\ NoOrder \notin Orders
        /\ OrderOf \in [Items -> Orders]
    BY <1>2, OrderLifecycleAssumption DEF TypeOK
  <2>1. ASSUME NEW o \in Orders, NEW type \in EnabledOrderTypes,
               NEW t \in Tables \union {NoTable}, OpenOrder(o, type, t)
        PROVE  OccupiedTableHasLiveOrder'
    <3>1. ASSUME o \notin overwritten'
          PROVE  \A u \in Tables : currentOrder[u] # o
      BY <2>1, <2>a, <3>1 DEF OpenOrder, OccupiedTableHasLiveOrder, Live
    <3>2. /\ orderStatus' = [orderStatus EXCEPT ![o] = "OPEN"]
          /\ orderType' = [orderType EXCEPT ![o] = type]
          /\ orderTable' = [orderTable EXCEPT ![o] = t]
          /\ overwritten \subseteq overwritten'
      BY <2>1 DEF OpenOrder
    <3>3. \/ /\ type = "DINE_IN" /\ t \in Tables
             /\ currentOrder' = [currentOrder EXCEPT ![t] = o]
          \/ UNCHANGED currentOrder
      BY <2>1 DEF OpenOrder, OccupyTable, tableVars
    <3>4. QED
      BY <2>a, <3>1, <3>2, <3>3 DEF OccupiedTableHasLiveOrder, Live
  <2>2. ASSUME NEW o \in Orders, CancelOrder(o) \/ CloseOrder(o)
        PROVE  OccupiedTableHasLiveOrder'
    <3>1. /\ orderStatus' \in {[orderStatus EXCEPT ![o] = "CANCELLED"],
                               [orderStatus EXCEPT ![o] = "CLOSED"]}
          /\ ReleaseTable(orderTable[o])
          /\ UNCHANGED <<orderType, orderTable, overwritten>>
      BY <2>2 DEF CancelOrder, CloseOrder, history
    <3>2. QED
      BY <2>a, <3>1 DEF ReleaseTable, tableVars, OccupiedTableHasLiveOrder
  <2>3. ASSUME NEW o \in Orders, NEW S \in SUBSET Items, SendOrderToKitchen(o, S)
        PROVE  OccupiedTableHasLiveOrder'
    BY <2>a, <2>3 DEF SendOrderToKitchen, tableVars, history, OccupiedTableHasLiveOrder, Live
  <2>4. ASSUME NEW i \in Items, MarkOrderItemDelivered(i)
        PROVE  OccupiedTableHasLiveOrder'
    BY <2>a, <2>4 DEF MarkOrderItemDelivered, tableVars, OccupiedTableHasLiveOrder, Live
  <2>5. ASSUME UNCHANGED <<orderStatus, orderType, orderTable, currentOrder, overwritten>>
        PROVE  OccupiedTableHasLiveOrder'
    BY <2>a, <2>5 DEF OccupiedTableHasLiveOrder
  <2>6. ASSUME NEW i \in Items,
               \/ \E q \in 1..MaxQuantity : AddOrderItem(i, q) \/ UpdateOrderItem(i, q)
               \/ RemoveOrderItem(i)
               \/ MarkOrderItemReady(i)
               \/ CancelOrderItem(i)
               \/ \E q \in Plans : ChangePlan(i, q)
        PROVE  UNCHANGED <<orderStatus, orderType, orderTable, currentOrder, overwritten>>
    BY <2>6 DEF AddOrderItem, UpdateOrderItem, RemoveOrderItem, MarkOrderItemReady,
                CancelOrderItem, ChangePlan, orderVars, tableVars, history
  <2>7. ASSUME \/ \E t \in Tables, st \in ManualStatuses : ChangeTableStatus(t, st)
               \/ \E g \in Ingredients, q \in Nat :
                     RegisterPurchase(g, q) \/ DeductForTransformation(g, q)
        PROVE  UNCHANGED <<orderStatus, orderType, orderTable, currentOrder, overwritten>>
    BY <2>7 DEF ChangeTableStatus, RegisterPurchase, DeductForTransformation,
                orderVars, tableVars, history
  <2>8. ASSUME UNCHANGED vars
        PROVE  UNCHANGED <<orderStatus, orderType, orderTable, currentOrder, overwritten>>
    BY <2>8 DEF vars, orderVars, tableVars, history
  <2>9. QED
    BY <1>2, <2>0, <2>1, <2>2, <2>3, <2>4, <2>5, <2>6, <2>7, <2>8 DEF Next
<1>3. TableInv => OccupiedTableHasLiveOrder
  OBVIOUS
<1>4. QED  BY <1>1, <1>2, <1>3, PTL DEF Spec

-----------------------------------------------------------------------------
(***************************************************************************)
(* What a closing takes.  An order that was never closed has had nothing   *)
(* deducted: with that, the invariant about the first closing is inductive.*)
(***************************************************************************)
UnclosedOrderDeductedNothing ==
    \A i \in Items : closings[OrderOf[i]] = 0 => deductions[i] = 0

ClosedOrderWasClosed ==
    \A o \in Orders : orderStatus[o] = "CLOSED" /\ o \notin overwritten => closings[o] # 0

DeductionInv ==
    /\ TypeOK
    /\ UnclosedOrderDeductedNothing
    /\ ClosedOrderWasClosed
    /\ ClosedOrderDeductedOnce

LEMMA DeductionInvInit == Init => DeductionInv
  BY TypeOKInit, OrderLifecycleAssumption
  DEF Init, DeductionInv, UnclosedOrderDeductedNothing, ClosedOrderWasClosed,
      ClosedOrderDeductedOnce, Present, ItemsOf

LEMMA DeductionInvNext == DeductionInv /\ [Next]_vars => DeductionInv'
<1> SUFFICES ASSUME DeductionInv, [Next]_vars  PROVE DeductionInv'
  OBVIOUS
<1>0. TypeOK'
  BY TypeOKNext DEF DeductionInv
<1> USE DEF DeductionInv, UnclosedOrderDeductedNothing, ClosedOrderWasClosed,
            ClosedOrderDeductedOnce, Present, ItemsOf
<1>a. /\ OrderOf \in [Items -> Orders]
      /\ orderStatus \in [Orders -> OrderStatus \union {"ABSENT"}]
      /\ itemStatus \in [Items -> OrderItemStatus \union {"ABSENT"}]
      /\ closings \in [Orders -> Nat]
      /\ deductions \in [Items -> Nat]
  BY OrderLifecycleAssumption DEF DeductionInv, TypeOK
<1>1. ASSUME NEW o \in Orders, NEW type \in EnabledOrderTypes,
             NEW t \in Tables \union {NoTable}, OpenOrder(o, type, t)
      PROVE  DeductionInv'
  BY <1>0, <1>1, <1>a DEF OpenOrder
<1>2. ASSUME NEW i \in Items,
             \/ \E q \in 1..MaxQuantity : AddOrderItem(i, q) \/ UpdateOrderItem(i, q)
             \/ RemoveOrderItem(i)
             \/ CancelOrderItem(i)
      PROVE  DeductionInv'
  <2>1. /\ orderStatus[OrderOf[i]] \in Live
        /\ \A j \in Items : j # i => itemStatus'[j] = itemStatus[j]
        /\ UNCHANGED <<orderStatus, closings, deductions, overwritten>>
    BY <1>2, <1>a DEF AddOrderItem, UpdateOrderItem, RemoveOrderItem, CancelOrderItem,
                      ensureCanBeModified, history
  <2>2. QED  BY <1>0, <1>a, <2>1 DEF Live
<1>3. ASSUME NEW i \in Items, MarkOrderItemReady(i)
      PROVE  DeductionInv'
  BY <1>0, <1>3, <1>a DEF MarkOrderItemReady, history
<1>4. ASSUME NEW i \in Items, MarkOrderItemDelivered(i)
      PROVE  DeductionInv'
  BY <1>0, <1>4, <1>a DEF MarkOrderItemDelivered
<1>5. ASSUME NEW o \in Orders, NEW S \in SUBSET Items, SendOrderToKitchen(o, S)
      PROVE  DeductionInv'
  <2>1. /\ orderStatus' = [orderStatus EXCEPT ![o] = "IN_PROGRESS"]
        /\ \A i \in Items : OrderOf[i] # o => itemStatus'[i] = itemStatus[i]
        /\ UNCHANGED <<closings, deductions, overwritten>>
    BY <1>5 DEF SendOrderToKitchen, history
  <2>2. QED  BY <1>0, <1>a, <2>1
<1>6. ASSUME NEW o \in Orders, CancelOrder(o)
      PROVE  DeductionInv'
  BY <1>0, <1>6, <1>a DEF CancelOrder, history
<1>7. ASSUME NEW o \in Orders, CloseOrder(o)
      PROVE  DeductionInv'
  <2>1. /\ orderStatus' = [orderStatus EXCEPT ![o] = "CLOSED"]
        /\ closings' = [closings EXCEPT ![o] = @ + 1]
        /\ UNCHANGED <<itemStatus, overwritten>>
    BY <1>7 DEF CloseOrder
  <2>2. ASSUME NEW i \in Items
        PROVE  deductions'[i] = IF OrderOf[i] = o /\ itemStatus[i] \notin {"ABSENT", "CANCELLED"}
                                THEN deductions[i] + 1 ELSE deductions[i]
    BY <1>7, <1>a, <2>2 DEF CloseOrder, DeductIngredients, ActiveItems
  <2>3. QED  BY <1>0, <1>a, <2>1, <2>2
<1>8. ASSUME \/ \E t \in Tables, s \in ManualStatuses : ChangeTableStatus(t, s)
             \/ \E g \in Ingredients, q \in Nat :
                   RegisterPurchase(g, q) \/ DeductForTransformation(g, q)
             \/ \E i \in Items, p \in Plans : ChangePlan(i, p)
             \/ UNCHANGED vars
      PROVE  DeductionInv'
  <2>1. UNCHANGED <<orderStatus, itemStatus, closings, deductions, overwritten>>
    BY <1>8 DEF ChangeTableStatus, RegisterPurchase, DeductForTransformation,
                ChangePlan, vars, orderVars, history
  <2>2. QED  BY <1>0, <1>a, <2>1
<1>9. QED
  BY <1>1, <1>2, <1>3, <1>4, <1>5, <1>6, <1>7, <1>8 DEF Next

\* The first closing of an order takes every active item's stock once, and no
\* cancelled item's.
THEOREM ClosingDeductsOnce == Spec => []ClosedOrderDeductedOnce
<1>1. DeductionInv => ClosedOrderDeductedOnce
  BY DEF DeductionInv
<1>2. QED  BY <1>1, DeductionInvInit, DeductionInvNext, PTL DEF Spec

-----------------------------------------------------------------------------
(***************************************************************************)
(* When stock can be taken twice.  The tests of the closing subscriber     *)
(* exclude it, and a run of this model finds it; it takes an order that is *)
(* made READY again after it had ended, or replaced by a repeated POST.    *)
(***************************************************************************)
ClosedOnceUnlessDisturbed ==
    \A o \in Orders :
        o \notin overwritten \union reopened /\ closings[o] # 0 =>
            closings[o] = 1 /\ orderStatus[o] = "CLOSED"

DeductedAtClosingsOnly == \A i \in Items : deductions[i] <= closings[OrderOf[i]]

UndisturbedItemsAreDeductedOnce ==
    \A i \in Items : OrderOf[i] \notin overwritten \union reopened => deductions[i] <= 1

OnceInv == TypeOK /\ ClosedOnceUnlessDisturbed /\ DeductedAtClosingsOnly

LEMMA OnceInvInit == Init => OnceInv
  BY TypeOKInit, OrderLifecycleAssumption
  DEF Init, OnceInv, ClosedOnceUnlessDisturbed, DeductedAtClosingsOnly

LEMMA OnceInvNext == OnceInv /\ [Next]_vars => OnceInv'
<1> SUFFICES ASSUME OnceInv, [Next]_vars  PROVE OnceInv'
  OBVIOUS
<1>0. TypeOK'
  BY TypeOKNext DEF OnceInv
<1>a. /\ OrderOf \in [Items -> Orders]
      /\ orderStatus \in [Orders -> OrderStatus \union {"ABSENT"}]
      /\ closings \in [Orders -> Nat]
      /\ deductions \in [Items -> Nat]
  BY OrderLifecycleAssumption DEF OnceInv, TypeOK
<1> USE DEF OnceInv, ClosedOnceUnlessDisturbed, DeductedAtClosingsOnly
<1>1. ASSUME NEW o \in Orders, NEW type \in EnabledOrderTypes,
             NEW t \in Tables \union {NoTable}, OpenOrder(o, type, t)
      PROVE  OnceInv'
  <2>1. /\ orderStatus' = [orderStatus EXCEPT ![o] = "OPEN"]
        /\ overwritten' = IF orderStatus[o] = "ABSENT" THEN overwritten
                                                       ELSE overwritten \union {o}
        /\ UNCHANGED <<closings, deductions, reopened>>
    BY <1>1 DEF OpenOrder
  <2>2. QED  BY <1>0, <1>a, <2>1
<1>2. ASSUME NEW o \in Orders, NEW S \in SUBSET Items, SendOrderToKitchen(o, S)
      PROVE  OnceInv'
  <2>1. /\ orderStatus[o] \in Live
        /\ orderStatus' = [orderStatus EXCEPT ![o] = "IN_PROGRESS"]
        /\ UNCHANGED <<closings, deductions, overwritten, reopened>>
    BY <1>2 DEF SendOrderToKitchen, ensureCanBeModified, history
  <2>2. QED  BY <1>0, <1>a, <2>1 DEF Live
<1>3. ASSUME NEW i \in Items, MarkOrderItemDelivered(i)
      PROVE  OnceInv'
  <2>1. PICK o \in Orders : o = OrderOf[i]
    BY <1>a
  <2>2. /\ UNCHANGED <<closings, deductions, overwritten>>
        /\ \/ UNCHANGED <<orderStatus, reopened>>
           \/ /\ orderStatus' = [orderStatus EXCEPT ![o] = "READY"]
              /\ reopened' = IF orderStatus[o] \in Terminal
                             THEN reopened \union {o} ELSE reopened
    BY <1>3, <1>a, <2>1 DEF MarkOrderItemDelivered
  <2>3. QED  BY <1>0, <1>a, <2>2 DEF Terminal
<1>4. ASSUME NEW o \in Orders, CancelOrder(o)
      PROVE  OnceInv'
  <2>1. /\ orderStatus[o] \in {"OPEN", "IN_PROGRESS"}
        /\ orderStatus' = [orderStatus EXCEPT ![o] = "CANCELLED"]
        /\ UNCHANGED <<closings, deductions, overwritten, reopened>>
    BY <1>4 DEF CancelOrder, history
  <2>2. QED  BY <1>0, <1>a, <2>1
<1>5. ASSUME NEW o \in Orders, CloseOrder(o)
      PROVE  OnceInv'
  <2>1. /\ orderStatus[o] \in {"IN_PROGRESS", "READY"}
        /\ orderStatus' = [orderStatus EXCEPT ![o] = "CLOSED"]
        /\ closings' = [closings EXCEPT ![o] = @ + 1]
        /\ UNCHANGED <<overwritten, reopened>>
    BY <1>5 DEF CloseOrder
  <2>2. ASSUME NEW i \in Items
        PROVE  deductions'[i] <= IF OrderOf[i] = o THEN deductions[i] + 1 ELSE deductions[i]
    BY <1>5, <1>a, <2>2 DEF CloseOrder, DeductIngredients, ActiveItems, Present, ItemsOf
  <2>3. ClosedOnceUnlessDisturbed'
    BY <1>a, <2>1
  <2>4. ASSUME NEW i \in Items
        PROVE  deductions'[i] <= closings'[OrderOf[i]]
    <3>1. /\ OrderOf[i] \in Orders
          /\ deductions[i] \in Nat /\ deductions'[i] \in Nat
          /\ closings[OrderOf[i]] \in Nat
      BY <1>0, <1>a DEF TypeOK
    <3>2. QED  BY <1>a, <2>1, <2>2, <3>1
  <2>5. QED  BY <1>0, <2>3, <2>4
<1>6. ASSUME \/ \E i \in Items :
                   \/ \E q \in 1..MaxQuantity : AddOrderItem(i, q) \/ UpdateOrderItem(i, q)
                   \/ RemoveOrderItem(i)
                   \/ MarkOrderItemReady(i)
                   \/ CancelOrderItem(i)
                   \/ \E p \in Plans : ChangePlan(i, p)
             \/ \E t \in Tables, s \in ManualStatuses : ChangeTableStatus(t, s)
             \/ \E g \in Ingredients, q \in Nat :
                   RegisterPurchase(g, q) \/ DeductForTransformation(g, q)
             \/ UNCHANGED vars
      PROVE  OnceInv'
  <2>1. UNCHANGED <<orderStatus, closings, deductions, overwritten, reopened>>
    BY <1>6 DEF AddOrderItem, UpdateOrderItem, RemoveOrderItem, MarkOrderItemReady,
                CancelOrderItem, ChangePlan, ChangeTableStatus, RegisterPurchase,
                DeductForTransformation, vars, orderVars, history
  <2>2. QED  BY <1>0, <1>a, <2>1
<1>7. QED
  BY <1>1, <1>2, <1>3, <1>4, <1>5, <1>6 DEF Next

\* An item's stock is taken twice only if its order was made READY again after it had
\* ended (MarkOrderItemDelivered does not look at the order's status) or replaced by a
\* repeated POST /orders: nothing else breaks the "no double-deduction invariant".
THEOREM OnlyDisturbedOrdersDeductTwice == Spec => []UndisturbedItemsAreDeductedOnce
<1>1. OnceInv => UndisturbedItemsAreDeductedOnce
  <2> SUFFICES ASSUME OnceInv, NEW i \in Items,
                      OrderOf[i] \notin overwritten \union reopened
               PROVE  deductions[i] <= 1
    BY DEF UndisturbedItemsAreDeductedOnce
  <2>1. /\ OrderOf[i] \in Orders
        /\ deductions[i] \in Nat
        /\ closings[OrderOf[i]] \in Nat
    BY OrderLifecycleAssumption DEF OnceInv, TypeOK
  <2>2. closings[OrderOf[i]] = 0 \/ closings[OrderOf[i]] = 1
    BY <2>1 DEF OnceInv, ClosedOnceUnlessDisturbed
  <2>3. QED  BY <2>1, <2>2 DEF OnceInv, DeductedAtClosingsOnly
<1>2. QED  BY <1>1, OnceInvInit, OnceInvNext, PTL DEF Spec

-----------------------------------------------------------------------------
(***************************************************************************)
(* Reserved amounts against the level.                                     *)
(***************************************************************************)

\* What the rows of an ingredient hold, item by item.
Held(rows, g) ==
    [i \in Items |-> IF rows[i][g].status = "ACTIVE" THEN rows[i][g].quantity ELSE 0]

LEMMA HeldType ==
    ASSUME NEW rows \in [Items -> [Ingredients -> Row]], NEW g \in Ingredients
    PROVE  /\ \A i \in Items : rows[i][g].quantity \in Nat /\ Held(rows, g)[i] \in Nat
           /\ SumFunctionOnSet(Held(rows, g), Items) \in Nat
<1>1. \A i \in Items : rows[i][g].quantity \in Nat
  BY DEF Row
<1>2. \A i \in Items : Held(rows, g)[i] \in Nat
  BY <1>1 DEF Held
<1>3. QED  BY <1>1, <1>2, SumIsNatural, OrderLifecycleAssumption

\* sumActiveByIngredient, as a sum over all items.
LEMMA ActiveSum ==
    ASSUME NEW rows \in [Items -> [Ingredients -> Row]], NEW g \in Ingredients
    PROVE  SumFunctionOnSet([i \in Items |-> rows[i][g].quantity],
                            {i \in Items : rows[i][g].status = "ACTIVE"})
             = SumFunctionOnSet(Held(rows, g), Items)
<1>1. PICK A \in SUBSET Items : A = {i \in Items : rows[i][g].status = "ACTIVE"}
  OBVIOUS
<1>2. PICK f : f = [i \in Items |-> rows[i][g].quantity]
  OBVIOUS
<1>3. PICK h : h = Held(rows, g)
  OBVIOUS
<1>4. IsFiniteSet(Items) /\ IsFiniteSet(A)
  BY OrderLifecycleAssumption, FS_Subset
<1>5. \A i \in Items : f[i] \in Nat /\ h[i] \in Nat
  BY <1>2, <1>3, HeldType
<1>6. \A i \in A : h[i] \in Int /\ f[i] = h[i]
  BY <1>1, <1>2, <1>3, <1>5 DEF Held
<1>7. \A i \in Items \ A : h[i] = 0
  BY <1>1, <1>3 DEF Held
<1>8. SumFunctionOnSet(f, A) = SumFunctionOnSet(h, A)
  BY <1>4, <1>6, SumsEqual
<1>9. SumFunctionOnSet(h, A) = SumFunctionOnSet(h, Items)
  BY <1>4, <1>5, <1>7, SumOfPart
<1>10. QED  BY <1>1, <1>2, <1>3, <1>8, <1>9

LEMMA ReservedSum ==
    ASSUME NEW g \in Ingredients
    PROVE  /\ TypeOK => Reserved(g) = SumFunctionOnSet(Held(reservation, g), Items)
           /\ TypeOK' => Reserved(g)' = SumFunctionOnSet(Held(reservation', g), Items)
<1>1. TypeOK => Reserved(g) = SumFunctionOnSet(Held(reservation, g), Items)
  BY ActiveSum DEF TypeOK, Reserved, isActive
<1>2. TypeOK' => Reserved(g)' = SumFunctionOnSet(Held(reservation', g), Items)
  BY ActiveSum DEF TypeOK, Reserved, isActive
<1>3. QED  BY <1>1, <1>2

\* What closing takes when every active item holds its stock, or needs none of the
\* ingredient: what the active items hold.
LEMMA ChargeOfHolders ==
    ASSUME TypeOK, NEW o \in Orders, NEW g \in Ingredients,
           \A i \in ActiveItems(o) : Holds(i) \/ Demand(i)[g] = 0
    PROVE  TotalCharge(o, g) = SumFunctionOnSet(Held(reservation, g), ActiveItems(o))
<1>1. PICK A : A = ActiveItems(o)
  OBVIOUS
<1>2. A \in SUBSET Items
  BY <1>1 DEF ActiveItems, Present, ItemsOf
<1>3. IsFiniteSet(A)
  BY <1>2, FS_Subset, OrderLifecycleAssumption
<1>4. PICK f : f = [i \in Items |-> Charge(i)[g]]
  OBVIOUS
<1>5. PICK h : h = Held(reservation, g)
  OBVIOUS
<1>6. reservation \in [Items -> [Ingredients -> Row]]
  BY DEF TypeOK
<1>7. \A i \in Items : h[i] \in Int
  BY <1>5, <1>6, HeldType
<1>8. ASSUME NEW i \in A
      PROVE  h[i] \in Int /\ f[i] = h[i]
  <2>1. i \in Items /\ (Holds(i) \/ Demand(i)[g] = 0)
    BY <1>1, <1>2
  <2>2. CASE Holds(i)
    BY <1>4, <1>5, <1>7, <2>1, <2>2 DEF Charge, Held, isActive
  <2>3. CASE ~Holds(i)
    <3>1. f[i] = 0
      BY <1>4, <2>1, <2>3 DEF Charge
    <3>2. h[i] = 0
      BY <1>5, <2>1, <2>3 DEF Holds, Held, isActive
    <3>3. QED  BY <3>1, <3>2
  <2>4. QED  BY <2>2, <2>3
<1>9. SumFunctionOnSet(f, A) = SumFunctionOnSet(h, A)
  BY <1>3, <1>8, SumsEqual
<1>10. QED  BY <1>1, <1>4, <1>5, <1>9 DEF TotalCharge

-----------------------------------------------------------------------------
(***************************************************************************)
(* Who can overbook an ingredient: one lemma for each operation that       *)
(* changes what is reserved or the level.                                  *)
(***************************************************************************)

\* Rows that hold no more than before reserve no more.
LEMMA SettlingReservesNoMore ==
    ASSUME TypeOK, TypeOK', NEW S, NEW status \in {"RELEASED", "CONSUMED"}, Settle(S, status),
           NEW g \in Ingredients
    PROVE  Reserved(g)' <= Reserved(g)
<1>1. /\ reservation \in [Items -> [Ingredients -> Row]]
      /\ reservation' \in [Items -> [Ingredients -> Row]]
  BY DEF TypeOK
<1>2. PICK h : h = Held(reservation, g)
  OBVIOUS
<1>3. PICK k : k = Held(reservation', g)
  OBVIOUS
<1>4. \A i \in Items : h[i] \in Nat /\ k[i] \in Nat
  BY <1>1, <1>2, <1>3, HeldType
<1>5. ASSUME NEW i \in Items
      PROVE  k[i] <= h[i]
  <2>1. CASE i \in S /\ isActive(i, g)
    <3>1. reservation'[i][g] = [reservation[i][g] EXCEPT !.status = status]
      BY <2>1 DEF Settle
    <3>2. reservation'[i][g].status # "ACTIVE"
      BY <1>1, <3>1 DEF Row
    <3>3. k[i] = 0
      BY <1>3, <3>2 DEF Held
    <3>4. QED  BY <1>4, <3>3
  <2>2. CASE ~(i \in S /\ isActive(i, g))
    <3>1. reservation'[i][g] = reservation[i][g]
      BY <2>2 DEF Settle
    <3>2. QED  BY <1>2, <1>3, <1>4, <3>1 DEF Held
  <2>3. QED  BY <2>1, <2>2
<1>6. SumFunctionOnSet(k, Items) <= SumFunctionOnSet(h, Items)
  BY <1>4, <1>5, SumsCompare, OrderLifecycleAssumption
<1>7. QED  BY <1>2, <1>3, <1>6, ReservedSum

\* Sending reserves the sum of the demands it compared with the level.
LEMMA SendStaysWithinLevel ==
    ASSUME TypeOK, TypeOK', NEW S \in SUBSET Items, ReserveStock(S), NEW g \in Ingredients
    PROVE  /\ Reserved(g)' >= Reserved(g)
           /\ Reserved(g)' > Reserved(g) => Reserved(g)' <= level[g]
<1>1. /\ reservation \in [Items -> [Ingredients -> Row]]
      /\ reservation' \in [Items -> [Ingredients -> Row]]
      /\ level[g] \in Nat
  BY DEF TypeOK
<1>2. PICK h : h = Held(reservation, g)
  OBVIOUS
<1>3. PICK k : k = Held(reservation', g)
  OBVIOUS
<1>4. PICK d : d = [i \in Items |-> IF i \in S THEN Demand(i)[g] ELSE 0]
  OBVIOUS
<1>5. PICK e : e = [i \in Items |-> Demand(i)[g]]
  OBVIOUS
<1>6. \A i \in Items : h[i] \in Nat /\ k[i] \in Nat
  BY <1>1, <1>2, <1>3, HeldType
<1>7. \A i \in Items : e[i] \in Nat /\ d[i] \in Nat
  BY <1>4, <1>5, DemandType
<1>8. ASSUME NEW i \in Items
      PROVE  k[i] = h[i] + d[i]
  <2>1. reservation'[i][g] = IF i \in S /\ Demand(i)[g] > 0
                             THEN [status |-> "ACTIVE", quantity |-> Demand(i)[g],
                                   direct |-> plan[i].strategy = "DIRECT"]
                             ELSE reservation[i][g]
    BY DEF ReserveStock
  <2>2. CASE i \in S /\ Demand(i)[g] > 0
    <3>1. reservation[i][g] = NoReservation
      BY <2>2 DEF ReserveStock
    <3>2. h[i] = 0
      BY <1>2, <3>1 DEF Held, NoReservation
    <3>3. reservation'[i][g].status = "ACTIVE" /\ reservation'[i][g].quantity = Demand(i)[g]
      BY <2>1, <2>2
    <3>4. k[i] = Demand(i)[g] /\ d[i] = Demand(i)[g]
      BY <1>3, <1>4, <2>2, <3>3 DEF Held
    <3>5. QED  BY <1>7, <3>2, <3>4
  <2>3. CASE ~(i \in S /\ Demand(i)[g] > 0)
    <3>1. k[i] = h[i]
      BY <1>2, <1>3, <2>1, <2>3 DEF Held
    <3>2. d[i] = 0
      BY <1>4, <1>5, <1>7, <2>3
    <3>3. QED  BY <1>6, <3>1, <3>2
  <2>4. QED  BY <2>2, <2>3
<1>9. IsFiniteSet(Items) /\ IsFiniteSet(S)
  BY FS_Subset, OrderLifecycleAssumption
<1>10. SumFunctionOnSet(k, Items) = SumFunctionOnSet(h, Items) + SumFunctionOnSet(d, Items)
  BY <1>6, <1>7, <1>8, <1>9, SumsAdd
<1>11. SumFunctionOnSet(d, Items) = SumFunctionOnSet(e, S)
  <2>1. SumFunctionOnSet(d, S) = SumFunctionOnSet(d, Items)
    BY <1>4, <1>7, <1>9, SumOfPart
  <2>2. \A i \in S : e[i] \in Int /\ d[i] = e[i]
    BY <1>4, <1>5, <1>7
  <2>3. QED  BY <1>9, <2>1, <2>2, SumsEqual
<1>12. SumFunctionOnSet(e, S) > 0 => level[g] >= Reserved(g) + SumFunctionOnSet(e, S)
  BY <1>5 DEF ReserveStock
<1>13. SumFunctionOnSet(e, S) \in Nat /\ SumFunctionOnSet(h, Items) \in Nat
  BY <1>6, <1>7, <1>9, SumIsNatural
<1>14. /\ Reserved(g) = SumFunctionOnSet(h, Items)
       /\ Reserved(g)' = SumFunctionOnSet(k, Items)
  BY <1>2, <1>3, ReservedSum
<1>15. QED  BY <1>1, <1>10, <1>11, <1>12, <1>13, <1>14

\* A closing that deducts nothing without a reservation takes as much as it gives back.
LEMMA ClosingStaysWithinLevel ==
    ASSUME TypeOK, TypeOK', NEW o \in Orders, CloseOrder(o), NEW g \in Ingredients,
           \A i \in ActiveItems(o) : Holds(i) \/ Demand(i)[g] = 0,
           Reserved(g) <= level[g]
    PROVE  Reserved(g)' <= level'[g]
<1>1. /\ reservation \in [Items -> [Ingredients -> Row]]
      /\ reservation' \in [Items -> [Ingredients -> Row]]
      /\ level[g] \in Nat
  BY DEF TypeOK
<1>2. PICK h : h = Held(reservation, g)
  OBVIOUS
<1>3. PICK k : k = Held(reservation', g)
  OBVIOUS
<1>4. PICK A : A = ActiveItems(o)
  OBVIOUS
<1>5. /\ A \in SUBSET Items /\ IsFiniteSet(Items)
      /\ IsFiniteSet(A) /\ IsFiniteSet(Items \ A)
  <2>1. A \in SUBSET Items
    BY <1>4 DEF ActiveItems, Present, ItemsOf
  <2>2. QED  BY <2>1, FS_Subset, OrderLifecycleAssumption
<1>6. \A i \in Items : h[i] \in Nat /\ k[i] \in Nat
  BY <1>1, <1>2, <1>3, HeldType
<1>7. Settle(A, "CONSUMED") /\ level'[g] = level[g] - TotalCharge(o, g)
  BY <1>4 DEF CloseOrder, DeductIngredients
<1>8. ASSUME NEW i \in A
      PROVE  k[i] = 0
  <2>1. i \in Items
    BY <1>5
  <2>2. CASE isActive(i, g)
    <3>1. reservation'[i][g] = [reservation[i][g] EXCEPT !.status = "CONSUMED"]
      BY <1>7, <2>1, <2>2 DEF Settle
    <3>2. reservation'[i][g].status # "ACTIVE"
      BY <1>1, <2>1, <3>1 DEF Row
    <3>3. QED  BY <1>3, <2>1, <3>2 DEF Held
  <2>3. CASE ~isActive(i, g)
    <3>1. reservation'[i][g] = reservation[i][g]
      BY <1>7, <2>1, <2>3 DEF Settle
    <3>2. QED  BY <1>3, <2>1, <2>3, <3>1 DEF Held, isActive
  <2>4. QED  BY <2>2, <2>3
<1>9. ASSUME NEW i \in Items \ A
      PROVE  k[i] = h[i]
  <2>1. reservation'[i][g] = reservation[i][g]
    BY <1>7 DEF Settle
  <2>2. QED  BY <1>2, <1>3, <2>1 DEF Held
<1>10. SumFunctionOnSet(h, Items) = SumFunctionOnSet(h, A) + SumFunctionOnSet(h, Items \ A)
  BY <1>5, <1>6, SumSplits
<1>11. SumFunctionOnSet(k, Items) = SumFunctionOnSet(h, Items \ A)
  <2>1. \A i \in Items \ (Items \ A) : k[i] = 0
    BY <1>8
  <2>2. SumFunctionOnSet(k, Items \ A) = SumFunctionOnSet(k, Items)
    BY <1>5, <1>6, <2>1, SumOfPart
  <2>3. \A i \in Items \ A : h[i] \in Int /\ k[i] = h[i]
    BY <1>6, <1>9
  <2>4. SumFunctionOnSet(k, Items \ A) = SumFunctionOnSet(h, Items \ A)
    BY <1>5, <2>3, SumsEqual
  <2>5. QED  BY <2>2, <2>4
<1>12. TotalCharge(o, g) = SumFunctionOnSet(h, A)
  BY <1>2, <1>4, ChargeOfHolders
<1>13. SumFunctionOnSet(h, A) \in Nat /\ SumFunctionOnSet(h, Items \ A) \in Nat
  BY <1>5, <1>6, SumIsNatural
<1>14. /\ Reserved(g) = SumFunctionOnSet(h, Items)
       /\ Reserved(g)' = SumFunctionOnSet(k, Items)
  BY <1>2, <1>3, ReservedSum
<1>15. QED  BY <1>1, <1>7, <1>10, <1>11, <1>12, <1>13, <1>14

\* A step of the order service that breaks what is promised of an ingredient is a
\* transformation that uses it, or the closing of an item without a reservation.
LEMMA StepStaysWithinLevel ==
    ASSUME TypeOK, TypeOK', [Next]_vars, NEW g \in Ingredients, Reserved(g) <= level[g]
    PROVE  \/ Reserved(g)' <= level'[g]
           \/ \E q \in Nat : DeductForTransformation(g, q)
           \/ \E o \in Orders : /\ CloseOrder(o)
                               /\ \E i \in ActiveItems(o) : ~Holds(i) /\ Demand(i)[g] > 0
<1> SUFFICES ASSUME \A q \in Nat : ~DeductForTransformation(g, q),
                    \A o \in Orders : CloseOrder(o) =>
                        \A i \in ActiveItems(o) : Holds(i) \/ ~(Demand(i)[g] > 0)
             PROVE  Reserved(g)' <= level'[g]
  OBVIOUS
<1>1. level[g] \in Nat /\ level'[g] \in Nat /\ Reserved(g) \in Nat /\ Reserved(g)' \in Nat
  BY ReservedSum, HeldType, ZenonT(60) DEF TypeOK
<1>2. ASSUME UNCHANGED reservation, level'[g] >= level[g]
      PROVE  Reserved(g)' <= level'[g]
  <2>1. Reserved(g)' = Reserved(g)
    BY <1>2 DEF Reserved, isActive
  <2>2. QED  BY <1>1, <1>2, <2>1
<1>3. ASSUME NEW o \in Orders, CancelOrder(o)
      PROVE  Reserved(g)' <= level'[g]
  <2>1. Reserved(g)' <= Reserved(g)
    BY <1>3, SettlingReservesNoMore DEF CancelOrder
  <2>2. level' = level
    BY <1>3 DEF CancelOrder
  <2>3. QED  BY <1>1, <2>1, <2>2
<1>4. ASSUME NEW i \in Items, CancelOrderItem(i)
      PROVE  Reserved(g)' <= level'[g]
  <2>1. Reserved(g)' <= Reserved(g)
    BY <1>4, SettlingReservesNoMore DEF CancelOrderItem
  <2>2. level' = level
    BY <1>4 DEF CancelOrderItem
  <2>3. QED  BY <1>1, <2>1, <2>2
<1>5. ASSUME NEW o \in Orders, CloseOrder(o)
      PROVE  Reserved(g)' <= level'[g]
  <2>1. \A i \in ActiveItems(o) : i \in Items
    BY DEF ActiveItems, Present, ItemsOf
  <2>2. \A i \in Items : Demand(i)[g] \in Nat
    BY DemandType
  <2>3. \A i \in ActiveItems(o) : Holds(i) \/ Demand(i)[g] = 0
    BY <1>5, <2>1, <2>2
  <2>4. QED  BY <1>5, <2>3, ClosingStaysWithinLevel
<1>6. ASSUME NEW o \in Orders, NEW S \in SUBSET Items, SendOrderToKitchen(o, S)
      PROVE  Reserved(g)' <= level'[g]
  <2>1. PICK sent \in SUBSET Items : ReserveStock(sent)
    BY <1>6 DEF SendOrderToKitchen, ItemsOf
  <2>2. level' = level
    BY <1>6 DEF SendOrderToKitchen
  <2>3. /\ Reserved(g)' >= Reserved(g)
        /\ Reserved(g)' > Reserved(g) => Reserved(g)' <= level[g]
    BY <2>1, SendStaysWithinLevel
  <2>4. QED  BY <1>1, <2>2, <2>3
<1>7. ASSUME NEW h \in Ingredients, NEW q \in Nat,
             RegisterPurchase(h, q) \/ DeductForTransformation(h, q)
      PROVE  UNCHANGED reservation /\ level'[g] >= level[g]
  <2>1. level \in [Ingredients -> Nat]
    BY DEF TypeOK
  <2>2. CASE RegisterPurchase(h, q)
    BY <1>1, <2>1, <2>2 DEF RegisterPurchase
  <2>3. CASE DeductForTransformation(h, q)
    <3>1. h # g
      BY <2>3
    <3>2. QED  BY <1>1, <2>1, <2>3, <3>1 DEF DeductForTransformation
  <2>4. QED  BY <1>7, <2>2, <2>3
<1>8. ASSUME NEW o \in Orders, NEW type, NEW t, OpenOrder(o, type, t)
      PROVE  UNCHANGED <<reservation, level>>
  BY <1>8 DEF OpenOrder, stockVars
<1>9. ASSUME NEW i \in Items,
             \/ \E q \in 1..MaxQuantity : AddOrderItem(i, q) \/ UpdateOrderItem(i, q)
             \/ RemoveOrderItem(i)
             \/ MarkOrderItemReady(i)
             \/ MarkOrderItemDelivered(i)
             \/ \E q \in Plans : ChangePlan(i, q)
      PROVE  UNCHANGED <<reservation, level>>
  BY <1>9 DEF AddOrderItem, UpdateOrderItem, RemoveOrderItem, MarkOrderItemReady,
              MarkOrderItemDelivered, ChangePlan, stockVars
<1>10. ASSUME \/ \E t \in Tables, st \in ManualStatuses : ChangeTableStatus(t, st)
              \/ UNCHANGED vars
       PROVE  UNCHANGED <<reservation, level>>
  BY <1>10 DEF ChangeTableStatus, vars, stockVars
<1>11. CASE UNCHANGED <<reservation, level>>
  BY <1>1, <1>2, <1>11
<1>12. QED
  BY <1>2, <1>3, <1>4, <1>5, <1>6, <1>7, <1>8, <1>9, <1>10, <1>11,
     OrderLifecycleAssumption DEF Next

\* Sends never promise stock twice: what is reserved comes to exceed the level only
\* through the closing of an item without a reservation, or a transformation.
THEOREM StockIsNotPromisedTwice == Spec => OverbookedOnlyByUnreservedUse
<1> DEFINE Kept == \A g \in Ingredients :
          Reserved(g) <= level[g] /\ Reserved(g)' > level'[g] =>
              \/ \E o \in Orders :
                    /\ closings'[o] > closings[o]
                    /\ \E i \in ActiveItems(o) : ~Holds(i) /\ Demand(i)[g] > 0
              \/ UNCHANGED <<orderVars, reservation>>
<1>1. ASSUME TypeOK, TypeOK', [Next]_vars
      PROVE  Kept
  <2> SUFFICES ASSUME NEW g \in Ingredients, Reserved(g) <= level[g],
                      Reserved(g)' > level'[g]
               PROVE  \/ \E o \in Orders :
                            /\ closings'[o] > closings[o]
                            /\ \E i \in ActiveItems(o) : ~Holds(i) /\ Demand(i)[g] > 0
                      \/ UNCHANGED <<orderVars, reservation>>
    OBVIOUS
  <2>1. level'[g] \in Nat /\ Reserved(g)' \in Nat
    BY <1>1, ReservedSum, HeldType, ZenonT(60) DEF TypeOK
  <2>2. \/ \E q \in Nat : DeductForTransformation(g, q)
        \/ \E o \in Orders : /\ CloseOrder(o)
                            /\ \E i \in ActiveItems(o) : ~Holds(i) /\ Demand(i)[g] > 0
    BY <1>1, <2>1, StepStaysWithinLevel
  <2>3. ASSUME NEW o \in Orders, CloseOrder(o)
        PROVE  closings'[o] > closings[o]
    BY <1>1, <2>3 DEF CloseOrder, TypeOK
  <2>4. ASSUME NEW q \in Nat, DeductForTransformation(g, q)
        PROVE  UNCHANGED <<orderVars, reservation>>
    BY <2>4 DEF DeductForTransformation
  <2>5. QED  BY <2>2, <2>3, <2>4
<1>2. TypeOK /\ TypeOK' /\ [Next]_vars => [Kept]_vars
  BY <1>1
<1>3. QED
  BY <1>2, TypeCorrect, PTL DEF Spec, OverbookedOnlyByUnreservedUse

\* What an ingredient's reservations promise is in stock until somebody uses the
\* ingredient without having reserved it.
PromisesAreBacked == \A g \in Ingredients \ drawn : Reserved(g) <= level[g]

LEMMA PromisesBackedNext ==
    TypeOK /\ TypeOK' /\ PromisesAreBacked /\ [Next]_vars => PromisesAreBacked'
<1> SUFFICES ASSUME TypeOK, TypeOK', PromisesAreBacked, [Next]_vars,
                    NEW g \in Ingredients, g \notin drawn'
             PROVE  Reserved(g)' <= level'[g]
  BY DEF PromisesAreBacked
<1>1. drawn \subseteq drawn'
  <2>1. ASSUME NEW o \in Orders, NEW type, NEW t, OpenOrder(o, type, t)
        PROVE  UNCHANGED drawn
    BY <2>1 DEF OpenOrder
  <2>2. ASSUME NEW i \in Items,
               \/ \E q \in 1..MaxQuantity : AddOrderItem(i, q) \/ UpdateOrderItem(i, q)
               \/ RemoveOrderItem(i)
               \/ MarkOrderItemReady(i)
               \/ MarkOrderItemDelivered(i)
               \/ CancelOrderItem(i)
               \/ \E q \in Plans : ChangePlan(i, q)
        PROVE  UNCHANGED drawn
    BY <2>2 DEF AddOrderItem, UpdateOrderItem, RemoveOrderItem, MarkOrderItemReady,
                MarkOrderItemDelivered, CancelOrderItem, ChangePlan, history
  <2>3. ASSUME NEW o \in Orders,
               CancelOrder(o) \/ \E S \in SUBSET Items : SendOrderToKitchen(o, S)
        PROVE  UNCHANGED drawn
    BY <2>3 DEF CancelOrder, SendOrderToKitchen, history
  <2>4. ASSUME NEW o \in Orders, CloseOrder(o)
        PROVE  drawn \subseteq drawn'
    BY <2>4 DEF CloseOrder
  <2>5. ASSUME NEW h \in Ingredients, NEW q \in Nat,
               RegisterPurchase(h, q) \/ DeductForTransformation(h, q)
        PROVE  drawn \subseteq drawn'
    BY <2>5 DEF RegisterPurchase, DeductForTransformation, history
  <2>6. ASSUME \/ \E t \in Tables, st \in ManualStatuses : ChangeTableStatus(t, st)
               \/ UNCHANGED vars
        PROVE  UNCHANGED drawn
    BY <2>6 DEF ChangeTableStatus, vars, history
  <2>7. QED
    BY <2>1, <2>2, <2>3, <2>4, <2>5, <2>6, OrderLifecycleAssumption DEF Next
<1>2. Reserved(g) <= level[g]
  BY <1>1 DEF PromisesAreBacked
<1>3. ASSUME NEW q \in Nat, DeductForTransformation(g, q)
      PROVE  FALSE
  BY <1>3 DEF DeductForTransformation
<1>4. ASSUME NEW o \in Orders, CloseOrder(o),
             \E i \in ActiveItems(o) : ~Holds(i) /\ Demand(i)[g] > 0
      PROVE  FALSE
  BY <1>4 DEF CloseOrder
<1>5. QED  BY <1>2, <1>3, <1>4, StepStaysWithinLevel

\* The point of reserving: an order whose items all hold their stock finds it when it
\* is closed, after whatever requests, unless somebody used the ingredient without
\* reserving it.
THEOREM ReservedOrdersCanClose == Spec => []FullyReservedOrderCanClose
<1>1. Init /\ TypeOK => PromisesAreBacked
  <2> SUFFICES ASSUME Init, TypeOK, NEW g \in Ingredients
               PROVE  Reserved(g) <= level[g]
    BY DEF PromisesAreBacked
  <2>1. PICK h : h = Held(reservation, g)
    OBVIOUS
  <2>2. \A i \in Items : h[i] = 0
    BY <2>1 DEF Init, NoReservation, Held
  <2>3. SumFunctionOnSet(h, {}) = SumFunctionOnSet(h, Items)
    BY <2>2, SumOfPart, FS_EmptySet, OrderLifecycleAssumption
  <2>4. SumFunctionOnSet(h, {}) = 0
    BY SumOfNothing
  <2>5. Reserved(g) = 0
    BY <2>1, <2>3, <2>4, ReservedSum
  <2>6. QED  BY <2>5 DEF Init, Nothing
<1>2. TypeOK /\ PromisesAreBacked => FullyReservedOrderCanClose
  <2> SUFFICES ASSUME TypeOK, PromisesAreBacked, NEW o \in Orders,
                      \A i \in ActiveItems(o) : Holds(i),
                      NEW g \in Ingredients \ drawn
               PROVE  TotalCharge(o, g) <= level[g]
    BY DEF FullyReservedOrderCanClose
  <2>1. PICK A : A = ActiveItems(o)
    OBVIOUS
  <2>2. PICK h : h = Held(reservation, g)
    OBVIOUS
  <2>3. A \in SUBSET Items /\ IsFiniteSet(Items) /\ IsFiniteSet(A)
    <3>1. A \in SUBSET Items
      BY <2>1 DEF ActiveItems, Present, ItemsOf
    <3>2. QED  BY <3>1, FS_Subset, OrderLifecycleAssumption
  <2>4. \A i \in Items : h[i] \in Nat
    BY <2>2, HeldType DEF TypeOK
  <2>5. TotalCharge(o, g) = SumFunctionOnSet(h, A)
    BY <2>1, <2>2, ChargeOfHolders
  <2>6. Reserved(g) = SumFunctionOnSet(h, Items)
    BY <2>2, ReservedSum
  <2>7. SumFunctionOnSet(h, A) <= SumFunctionOnSet(h, Items)
    BY <2>3, <2>4, SumOfPart
  <2>8. /\ SumFunctionOnSet(h, A) \in Nat
        /\ SumFunctionOnSet(h, Items) \in Nat
        /\ level[g] \in Nat
    BY <2>3, <2>4, SumIsNatural DEF TypeOK
  <2>9. Reserved(g) <= level[g]
    BY DEF PromisesAreBacked
  <2>10. QED  BY <2>5, <2>6, <2>7, <2>8, <2>9
<1>3. QED
  BY <1>1, <1>2, PromisesBackedNext, TypeCorrect, PTL DEF Spec

-----------------------------------------------------------------------------
(***************************************************************************)
(* Whole requests, too, treat the stock as StockPromises says.             *)
(***************************************************************************)
Promises ==
    INSTANCE StockPromises WITH
        reserved <- [g \in Ingredients |-> Reserved(g)],
        Demands <- [Ingredients -> Nat]

LEMMA ReservedType ==
    /\ TypeOK => \A g \in Ingredients : Reserved(g) \in Nat
    /\ TypeOK' => \A g \in Ingredients : Reserved(g)' \in Nat
  BY ReservedSum, HeldType, ZenonT(60) DEF TypeOK

\* What all reserve can be compared ingredient by ingredient, before and after.
LEMMA SettlingSettles ==
    ASSUME TypeOK, TypeOK', NEW S, NEW status \in {"RELEASED", "CONSUMED"}, Settle(S, status)
    PROVE  Promises!Next
<1>1. PICK need \in [Ingredients -> Nat] :
          need = [g \in Ingredients |-> Reserved(g) - Reserved(g)']
  <2>1. \A g \in Ingredients : Reserved(g) - Reserved(g)' \in Nat
    BY SettlingReservesNoMore, ReservedType
  <2>2. QED  BY <2>1
<1>2. \A g \in Ingredients : Reserved(g)' = Reserved(g) - need[g]
  BY <1>1, ReservedType
<1>3. level' \in [Ingredients -> Int]
  BY DEF TypeOK
<1>4. Promises!Settle(need)
  BY <1>2, <1>3 DEF Promises!Settle
<1>5. QED  BY <1>4 DEF Promises!Next

LEMMA SendingReserves ==
    ASSUME TypeOK, TypeOK', NEW S \in SUBSET Items, ReserveStock(S), UNCHANGED level
    PROVE  Promises!Next
<1>1. PICK need \in [Ingredients -> Nat] :
          need = [g \in Ingredients |-> Reserved(g)' - Reserved(g)]
  <2>1. \A g \in Ingredients : Reserved(g)' - Reserved(g) \in Nat
    BY SendStaysWithinLevel, ReservedType
  <2>2. QED  BY <2>1
<1>2. \A g \in Ingredients : Reserved(g)' = Reserved(g) + need[g]
  BY <1>1, ReservedType
<1>3. ASSUME NEW g \in Ingredients, need[g] > 0
      PROVE  Reserved(g) + need[g] <= level[g]
  <2>1. Reserved(g)' > Reserved(g)
    BY <1>2, <1>3, ReservedType
  <2>2. QED  BY <1>2, <2>1, SendStaysWithinLevel
<1>4. Promises!Reserve(need)
  BY <1>2, <1>3 DEF Promises!Reserve
<1>5. QED  BY <1>4 DEF Promises!Next

LEMMA RequestKeepsPromises ==
    TypeOK /\ TypeOK' /\ [Next]_vars => [Promises!Next]_(Promises!promiseVars)
<1> SUFFICES ASSUME TypeOK, TypeOK', [Next]_vars
             PROVE  Promises!Next \/ UNCHANGED Promises!promiseVars
  OBVIOUS
<1>1. CASE UNCHANGED <<reservation, level>>
  <2>1. \A g \in Ingredients : Reserved(g)' = Reserved(g)
    BY <1>1 DEF Reserved, isActive
  <2>2. QED  BY <1>1, <2>1 DEF Promises!promiseVars
<1>2. ASSUME NEW o \in Orders, CancelOrder(o) \/ CloseOrder(o)
      PROVE  Promises!Next
  BY <1>2, SettlingSettles DEF CancelOrder, CloseOrder, DeductIngredients
<1>3. ASSUME NEW i \in Items, CancelOrderItem(i)
      PROVE  Promises!Next
  BY <1>3, SettlingSettles DEF CancelOrderItem
<1>4. ASSUME NEW o \in Orders, NEW S \in SUBSET Items, SendOrderToKitchen(o, S)
      PROVE  Promises!Next
  <2>1. PICK sent \in SUBSET Items : ReserveStock(sent)
    BY <1>4 DEF SendOrderToKitchen, ItemsOf
  <2>2. UNCHANGED level
    BY <1>4 DEF SendOrderToKitchen
  <2>3. QED  BY <2>1, <2>2, SendingReserves
<1>5. ASSUME NEW g \in Ingredients, NEW q \in Nat,
             RegisterPurchase(g, q) \/ DeductForTransformation(g, q)
      PROVE  Promises!Next
  <2>1. UNCHANGED reservation
    BY <1>5 DEF RegisterPurchase, DeductForTransformation
  <2>2. \A h \in Ingredients : Reserved(h)' = Reserved(h)
    BY <2>1 DEF Reserved, isActive
  <2>3. level' \in [Ingredients -> Int]
    BY DEF TypeOK
  <2>4. QED  BY <2>2, <2>3 DEF Promises!Next, Promises!ChangeLevel
<1>6. ASSUME NEW o \in Orders, NEW type, NEW t, OpenOrder(o, type, t)
      PROVE  UNCHANGED <<reservation, level>>
  BY <1>6 DEF OpenOrder, stockVars
<1>7. ASSUME NEW i \in Items,
             \/ \E q \in 1..MaxQuantity : AddOrderItem(i, q) \/ UpdateOrderItem(i, q)
             \/ RemoveOrderItem(i)
             \/ MarkOrderItemReady(i)
             \/ MarkOrderItemDelivered(i)
             \/ \E q \in Plans : ChangePlan(i, q)
      PROVE  UNCHANGED <<reservation, level>>
  BY <1>7 DEF AddOrderItem, UpdateOrderItem, RemoveOrderItem, MarkOrderItemReady,
              MarkOrderItemDelivered, ChangePlan, stockVars
<1>8. ASSUME \E t \in Tables, st \in ManualStatuses : ChangeTableStatus(t, st)
      PROVE  UNCHANGED <<reservation, level>>
  BY <1>8 DEF ChangeTableStatus, stockVars
<1>9. CASE UNCHANGED vars
  BY <1>1, <1>9 DEF vars, stockVars
<1>10. QED
  BY <1>1, <1>2, <1>3, <1>4, <1>5, <1>6, <1>7, <1>8, <1>9 DEF Next

\* Every behaviour of orders, one request after the other, is one of StockPromises: a
\* send reserves all it asks for within what is in stock then, and every other request
\* gives reservations back or moves levels.
THEOREM OrdersKeepPromises == Spec => Promises!Spec
<1>1. Init /\ TypeOK => Promises!Init
  <2> SUFFICES ASSUME Init, TypeOK  PROVE Promises!Init
    OBVIOUS
  <2>1. \A g \in Ingredients : Reserved(g) \in Int
    BY ReservedType
  <2>2. level \in [Ingredients -> Int]
    BY DEF TypeOK
  <2>3. QED  BY <2>1, <2>2 DEF Promises!Init
<1>2. QED
  BY <1>1, TypeCorrect, RequestKeepsPromises, PTL DEF Spec, Promises!Spec
==============================================================================
