------------------------------ MODULE OrderMoney ------------------------------
(***************************************************************************)
(* The money of an order, src/contexts/orders/order: what its items,       *)
(* discounts, delivery fee, tip and tax come to, what is paid when it is   *)
(* closed and what the OrderClosed event tells the billing.                *)
(*                                                                         *)
(* Every request reads the whole order, changes its copy and saves the     *)
(* copy whole, the totals computed anew in a row of their own.  The save   *)
(* is four statements: TypeORM selects the row again and updates the       *)
(* columns that differ from what it just selected, items that are not in   *)
(* the copy are deleted, and those of the copy are written.  Nothing is    *)
(* locked before the update.  All requests run in a transaction, except    *)
(* the two that set and remove the discount of the whole order: each of    *)
(* their statements commits by itself.                                     *)
(*                                                                         *)
(* addItems() does not look for the ids it is sent among the items: after  *)
(* a repeated POST the copy has two lines of one id, the totals are those  *)
(* of both and the save turns the row of the id into the new line.         *)
(*                                                                         *)
(* Amounts are in cents and rates in percent, so Math.round(x * 100) / 100 *)
(* rounds to an integer; the last bits of floating point are left out.  An *)
(* item is PENDING, SENT (to the kitchen, READY and DELIVERED included) or *)
(* CANCELLED.                                                              *)
(***************************************************************************)
EXTENDS Integers, FiniteSets, FiniteSetsExt, Functions, Tables

CONSTANTS Waiters,        \* the clients, each with one request at a time
          OrderItemIds,
          Prices,         \* unit prices
          Adjustments,    \* sums of the price adjustments of an item's modifiers
          Quantities,
          Discounts,      \* discounts a request may carry
          TaxRate,        \* the rate of the order's tax; 0 when it is exempt
          TipRates,       \* the tip suggestions
          NoDiscount, NotPaid,
          Begun,          \* bound: fee and items an order may begin with
          MaxServed       \* bound: the requests of a behaviour

VARIABLES bill,     \* the committed row of the order
          dishes,   \* its committed items, by id
          waiter,   \* the request of each client
          receipt,  \* what the last OrderClosed event says
          served,   \* requests so far
          replaced, \* history: the lines that the last save replaced by new ones
          torn      \* history: a save overlapped another one, or ended halfway

moneyVars == <<bill, dishes, waiter, receipt, served, replaced, torn>>

Dish == [unitPrice : Nat, modifiers : Nat, quantity : Nat \ {0},
         discount : Discounts \cup {NoDiscount}, status : {"PENDING", "SENT", "CANCELLED"}]

ASSUME OrderMoneyAssumption ==
    /\ Prices \cup Adjustments \cup TipRates \subseteq Nat
    /\ Quantities \subseteq Nat \ {0}
    /\ Discounts \subseteq [method : {"PERCENTAGE", "FIXED"}, value : Nat \ {0}]
    /\ \A d \in Discounts : d.method = "PERCENTAGE" => d.value <= 100
    /\ NoDiscount \notin Discounts /\ NotPaid \notin Nat
    /\ TaxRate \in 0..100
    /\ \A o \in Begun :
          /\ o.fee \in Nat /\ DOMAIN o.items \subseteq OrderItemIds
          /\ IsFiniteSet(DOMAIN o.items)
          /\ o.items \in [DOMAIN o.items -> Dish]
          /\ o.items # << >> => \E i \in DOMAIN o.items : o.items[i].status = "SENT"
    /\ MaxServed \in Nat

AtTable == [at |-> "table"]
NoLines == << >>
NoReceipt == [total |-> NotPaid]

-----------------------------------------------------------------------------
(* What an order comes to *)

\* Math.round of n / d, both of them positive.
Rounded(n, d) == (2 * n + d) \div (2 * d)

LineTotal(dish) == (dish.unitPrice + dish.modifiers) * dish.quantity

\* Faulty variant: a fixed discount may exceed what it is taken from.
AmountOnUncapped(discount, base) ==
    CASE discount = NoDiscount -> 0
      [] discount # NoDiscount /\ discount.method = "PERCENTAGE" ->
            Rounded(base * discount.value, 100)
      [] OTHER -> discount.value

AmountOn(discount, base) ==
    CASE discount = NoDiscount -> 0
      [] discount # NoDiscount /\ discount.method = "PERCENTAGE" ->
            Rounded(base * discount.value, 100)
      [] OTHER -> Min({discount.value, base})

ActiveItems(items) == {i \in DOMAIN items : items[i].status # "CANCELLED"}

Subtotal(items) ==
    SumFunctionOnSet([i \in DOMAIN items |-> LineTotal(items[i])], ActiveItems(items))

ItemDiscountTotal(items) ==
    SumFunctionOnSet([i \in DOMAIN items |-> AmountOn(items[i].discount, LineTotal(items[i]))],
                     ActiveItems(items))

\* The price includes the tax, whatever the settings say.
TaxBase(net) == IF TaxRate = 0 THEN net ELSE Rounded(net * 100, 100 + TaxRate)

\* The totals of an order; fee and tip are not taxed.  Besides its items it may have
\* the lines whose ids a request repeats.
OrderTotals(row, items, repeated) ==
    LET gross  == Subtotal(items) + Subtotal(repeated)
        before == gross - (ItemDiscountTotal(items) + ItemDiscountTotal(repeated))
        net    == before - AmountOn(row.discount, before)
        base   == TaxBase(net) IN
    [subtotal |-> gross, discountTotal |-> gross - net, taxBase |-> base,
     taxAmount |-> net - base, total |-> net + row.fee + row.tip]

\* The item's own changes.
NewDish(p, a, q) == [unitPrice |-> p, modifiers |-> a, quantity |-> q,
                     discount |-> NoDiscount, status |-> "PENDING"]
WithQuantity(dish, q) == [dish EXCEPT !.quantity = q]
SentDish(dish) == [dish EXCEPT !.status = "SENT"]
CancelledDish(dish) == [dish EXCEPT !.status = "CANCELLED"]
WithDiscount(dish, d) == [dish EXCEPT !.discount = d]

\* The row as save() writes it, with the totals of the copy.
Priced(row, items, repeated) == WrittenOver(OrderTotals(row, items, repeated), row)

NewBill(fee) ==
    Priced([status |-> "OPEN", discount |-> NoDiscount, fee |-> fee, tip |-> 0, paid |-> NotPaid,
            subtotal |-> 0, discountTotal |-> 0, taxBase |-> 0, taxAmount |-> 0, total |-> 0],
           NoLines, NoLines)

-----------------------------------------------------------------------------
(* The bodies of the requests *)

AddOrderItemsRequest ==
    [id : OrderItemIds, price : Prices, adjustment : Adjustments, quantity : Quantities]

ApplyDiscountRequest == Discounts

\* The tip is one of the suggestions or none; a payment may be a cent off.
Matches(paid, due) == paid - due \in -1..1

CloseOrderRequest(t) ==
    UNION {LET tip == Rounded((t.subtotal - t.discountTotal) * rate, 100) IN
           {[tip |-> tip, paid |-> n] : n \in {n \in 0 .. t.total + tip + 1 :
                                                   Matches(n, t.total + tip)}} :
              rate \in TipRates \cup {0}}

-----------------------------------------------------------------------------
(* Requests: each reads the order and is about to save its copy. *)

\* findById: the row and its items.
LoadedOrder == <<bill, dishes>>

Serve(w, row, items, repeated, atomic, event) ==
    /\ waiter[w] = AtTable
    /\ served < MaxServed      \* bound
    /\ waiter' = [waiter EXCEPT ![w] =
          [at |-> "select", row |-> Priced(row, items, repeated), items |-> items,
           repeated |-> repeated, atomic |-> atomic, event |-> event, seen |-> LoadedOrder]]
    /\ served' = served + 1
    /\ UNCHANGED <<bill, dishes, receipt, replaced, torn>>

ServeItems(w, items) == Serve(w, bill, items, NoLines, TRUE, NoReceipt)

CanBeModified == bill.status \notin {"CLOSED", "CANCELLED"}

\* A new line for each id, whether the order has an item of that id or not.
AddOrderItems(w) ==
    \E r \in AddOrderItemsRequest :
        /\ CanBeModified
        /\ Serve(w, bill,
                 WrittenOver(OneRow(r.id, NewDish(r.price, r.adjustment, r.quantity)), dishes),
                 [i \in DOMAIN dishes \cap {r.id} |-> dishes[i]], TRUE, NoReceipt)

UpdateOrderItem(w) ==
    \E i \in DOMAIN dishes, q \in Quantities :
        /\ CanBeModified /\ dishes[i].status = "PENDING"
        /\ ServeItems(w, [dishes EXCEPT ![i] = WithQuantity(@, q)])

RemoveOrderItem(w) ==
    \E i \in DOMAIN dishes :
        /\ CanBeModified /\ dishes[i].status = "PENDING"
        /\ ServeItems(w, [j \in DOMAIN dishes \ {i} |-> dishes[j]])

SendOrderToKitchen(w) ==
    \E s \in SUBSET {i \in DOMAIN dishes : dishes[i].status = "PENDING"} :
        /\ CanBeModified /\ s # {}
        /\ Serve(w, [bill EXCEPT !.status = "IN_PROGRESS"],
                 [i \in DOMAIN dishes |-> IF i \in s THEN SentDish(dishes[i]) ELSE dishes[i]],
                 NoLines, TRUE, NoReceipt)

CancelOrderItem(w) ==
    \E i \in DOMAIN dishes :
        /\ CanBeModified
        /\ ServeItems(w, [dishes EXCEPT ![i] = CancelledDish(@)])

CancelOrder(w) ==
    /\ CanBeModified
    /\ Serve(w, [bill EXCEPT !.status = "CANCELLED"], dishes, NoLines, TRUE, NoReceipt)

ApplyItemDiscount(w) ==
    \E i \in DOMAIN dishes, d \in ApplyDiscountRequest :
        /\ CanBeModified
        /\ ServeItems(w, [dishes EXCEPT ![i] = WithDiscount(@, d)])

RemoveItemDiscount(w) ==
    \E i \in DOMAIN dishes :
        /\ CanBeModified
        /\ ServeItems(w, [dishes EXCEPT ![i] = WithDiscount(@, NoDiscount)])

WithOrderDiscount(d) == [bill EXCEPT !.discount = d]

\* PATCH and DELETE /orders/:id/discount: no transaction, and publish() throws
\* after the save.
ApplyOrderDiscount(w) ==
    \E d \in ApplyDiscountRequest :
        /\ CanBeModified
        /\ Serve(w, WithOrderDiscount(d), dishes, NoLines, FALSE, NoReceipt)

RemoveOrderDiscount(w) ==
    /\ CanBeModified
    /\ Serve(w, WithOrderDiscount(NoDiscount), dishes, NoLines, FALSE, NoReceipt)

\* The tax of an item in the event: its share is that of its price without modifiers
\* and discounts in what is paid with the fee.
ProportionalTax(i, t) ==
    IF t.total = 0 THEN 0
    ELSE Rounded(dishes[i].unitPrice * dishes[i].quantity * t.taxAmount, t.total)

OrderClosed(t, tip) ==
    WrittenOver(
        [tip |-> tip,
         items |-> [i \in ActiveItems(dishes) |->
                       [lineTotal |-> LineTotal(dishes[i]), taxAmount |-> ProportionalTax(i, t)]]],
        t)

CloseOrder(w) ==
    /\ bill.status = "IN_PROGRESS"
    /\ \E t \in {OrderTotals(bill, dishes, NoLines)} : \E r \in CloseOrderRequest(t) :
          Serve(w, [bill EXCEPT !.status = "CLOSED", !.tip = r.tip, !.paid = r.paid],
                dishes, NoLines, TRUE, OrderClosed(t, r.tip))

-----------------------------------------------------------------------------
(* save() *)

\* The columns that differ from what was selected are written into the row.
Overwritten(w) ==
    LET seen == waiter[w].seen[1] IN
    [c \in DOMAIN bill |-> IF waiter[w].row[c] = seen[c] THEN bill[c] ELSE waiter[w].row[c]]

Saved(w, at) ==
    waiter' = [waiter EXCEPT ![w].at = at, ![w].seen = LoadedOrder']

\* Something was written since the last statement of this save.
Interrupted(w) == waiter[w].seen # LoadedOrder

SelectOrder(w) ==
    /\ waiter[w].at = "select"
    /\ torn' = (torn \/ (waiter[w].repeated # NoLines /\ Interrupted(w)))
    /\ UNCHANGED <<bill, dishes, receipt, served, replaced>>
    /\ Saved(w, IF waiter[w].atomic THEN "commit" ELSE "row")

\* Faulty variant: items that are not in the copy stay.
SavedItemsAndOthers(w) == WrittenOver(waiter[w].items, dishes)

\* Of two lines with one id each updates the columns of the row that differ from its
\* own, the new line after the one that was read.
Merged(new, old, row) == [c \in DOMAIN new |-> IF new[c] # row[c] THEN new[c] ELSE old[c]]

SavedItems(w) ==
    LET items == waiter[w].items  repeated == waiter[w].repeated IN
    [i \in DOMAIN items |-> IF i \in DOMAIN repeated
                            THEN Merged(items[i], repeated[i], dishes[i]) ELSE items[i]]

\* In a transaction: the other statements and the event.  Two lines of an id that has
\* no row any more are two inserts of one key.
CommitOrder(w) ==
    /\ waiter[w].at = "commit"
    /\ DOMAIN waiter[w].repeated \subseteq DOMAIN dishes
    /\ bill' = Overwritten(w)
    /\ dishes' = SavedItems(w)
    /\ receipt' = IF waiter[w].event = NoReceipt THEN receipt ELSE waiter[w].event
    /\ replaced' = waiter[w].repeated
    /\ torn' = (torn \/ Interrupted(w))
    /\ waiter' = [waiter EXCEPT ![w] = AtTable]
    /\ UNCHANGED served

\* Outside of one: the row, the items to delete, the items to write.
UpdateRow(w) ==
    /\ waiter[w].at = "row"
    /\ bill' = Overwritten(w)
    /\ UNCHANGED <<dishes, receipt, served, replaced>>
    /\ torn' = (torn \/ Interrupted(w))
    /\ Saved(w, "delete")

DeleteItems(w) ==
    /\ waiter[w].at = "delete"
    /\ dishes' = [i \in DOMAIN dishes \cap DOMAIN waiter[w].items |-> dishes[i]]
    /\ UNCHANGED <<bill, receipt, served, replaced>>
    /\ torn' = (torn \/ Interrupted(w))
    /\ Saved(w, "items")

SaveItems(w) ==
    /\ waiter[w].at = "items"
    /\ dishes' = WrittenOver(waiter[w].items, dishes)
    /\ replaced' = waiter[w].repeated
    /\ torn' = (torn \/ Interrupted(w))
    /\ waiter' = [waiter EXCEPT ![w] = AtTable]
    /\ UNCHANGED <<bill, receipt, served>>

\* A statement is refused, or the process ends.
ServingStops(w) ==
    /\ waiter[w] # AtTable
    /\ waiter' = [waiter EXCEPT ![w] = AtTable]
    /\ torn' = (torn \/ waiter[w].at \in {"delete", "items"})
    /\ UNCHANGED <<bill, dishes, receipt, served, replaced>>

-----------------------------------------------------------------------------
MoneyInit ==
    /\ \E o \in Begun :
          /\ dishes = o.items
          /\ bill = Priced(IF o.items = << >> THEN NewBill(o.fee)
                           ELSE [NewBill(o.fee) EXCEPT !.status = "IN_PROGRESS"],
                           o.items, NoLines)
    /\ waiter = [w \in Waiters |-> AtTable]
    /\ receipt = NoReceipt
    /\ served = 0
    /\ replaced = NoLines
    /\ torn = FALSE

MoneyNext ==
    \E w \in Waiters :
        \/ AddOrderItems(w)
        \/ UpdateOrderItem(w)
        \/ RemoveOrderItem(w)
        \/ SendOrderToKitchen(w)
        \/ CancelOrderItem(w)
        \/ CancelOrder(w)
        \/ ApplyItemDiscount(w)
        \/ RemoveItemDiscount(w)
        \/ ApplyOrderDiscount(w)
        \/ RemoveOrderDiscount(w)
        \/ CloseOrder(w)
        \/ SelectOrder(w)
        \/ CommitOrder(w)
        \/ UpdateRow(w)
        \/ DeleteItems(w)
        \/ SaveItems(w)
        \/ ServingStops(w)

MoneySpec == MoneyInit /\ [][MoneyNext]_moneyVars

-----------------------------------------------------------------------------
(* Properties *)

\* Type correctness of the committed row and items.
MoneyTypeOK ==
    /\ bill.status \in {"OPEN", "IN_PROGRESS", "CLOSED", "CANCELLED"}
    /\ bill.discount \in Discounts \cup {NoDiscount}
    /\ \A c \in {"fee", "tip", "subtotal", "discountTotal", "taxBase", "taxAmount", "total"} :
          bill[c] \in Nat
    /\ bill.paid \in Nat \cup {NotPaid}
    /\ \A rows \in {dishes, replaced} :
          DOMAIN rows \subseteq OrderItemIds /\ \A i \in DOMAIN rows : rows[i] \in Dish
    /\ served \in 0..MaxServed
    /\ torn \in BOOLEAN

\* The order's discount is between the statements of its save.
BeingSaved == \E w \in Waiters : waiter[w].at \in {"delete", "items"}

\* The stored totals are those of the stored items, and, until the next save, of the
\* line that a repeated POST replaced.
TotalsFollowTheItems ==
    /\ bill = Priced(bill, dishes, replaced)
    /\ bill.taxBase + bill.taxAmount = bill.subtotal - bill.discountTotal

\* A closed order was paid what it comes to with its tip, and its last event told the
\* same amounts; without modifiers, discounts and fee the items' taxes are the order's,
\* half a cent of rounding for each item aside.
ClosedOrderIsPaid ==
    bill.status = "CLOSED" =>
        LET sold  == DOMAIN receipt.items
            taxes == SumFunctionOnSet([i \in sold |-> receipt.items[i].taxAmount], sold) IN
        /\ Matches(bill.paid, bill.total)
        /\ receipt.total + receipt.tip = bill.total
        /\ receipt.subtotal = SumFunctionOnSet([i \in sold |-> receipt.items[i].lineTotal], sold)
        /\ (/\ bill.fee = 0 /\ bill.discountTotal = 0
            /\ \A i \in DOMAIN dishes : dishes[i].modifiers = 0)
           => 2 * (taxes - receipt.taxAmount) \in -Cardinality(sold)..Cardinality(sold)

\* Through requests that read the same order and overwrite each other's: totals, items
\* and payments stay those of one order, unless two saves overlapped statement by
\* statement or the discount of the order was saved in part.
OrderMoneyAddsUp ==
    ~torn => (BeingSaved \/ TotalsFollowTheItems) /\ ClosedOrderIsPaid
=============================================================================
