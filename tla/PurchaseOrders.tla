--------------------------- MODULE PurchaseOrders ---------------------------
(***************************************************************************)
(* One purchase order of src/contexts/procurement/purchase-order: the      *)
(* aggregate and its status machine, the nine commands of the controller,  *)
(* the repository that saves an order with several statements, and         *)
(* inventory's reaction to a received item.                                *)
(*                                                                         *)
(* A command loads the whole order, changes its copy in memory and saves   *)
(* the copy: first the order row, then the lines that left the order are   *)
(* deleted, then the others are upserted, and then the events are          *)
(* published.  Only `receive' opens a transaction, and only the order row  *)
(* is written in it: the repository writes the lines with the repository   *)
(* it was constructed with, on a connection of their own.                  *)
(***************************************************************************)
EXTENDS Naturals

CONSTANTS Clerks,       \* the clients of the API, each with one request at a time
          Crews,        \* bound: who may be at work together, and on which items
          Lines,        \* ids of order items
          Units,        \* units of measure an amount may be given in
          Requested,    \* amounts an item may be ordered in
          Shipped,      \* amounts that may arrive of an item at a time
          MaxStock      \* bound: amounts received or registered are capped here

ASSUME PurchaseAssumption ==
    /\ Requested \subseteq Nat \ {0}
    /\ Shipped \subseteq Nat \ {0}
    /\ MaxStock \in Nat
    /\ Crews \subseteq [clerks : SUBSET Clerks, lines : SUBSET Lines, units : SUBSET Units]

VARIABLES crew,     \* the clerks at work in this behaviour, and what they name
          order,    \* the committed row of the order, NoOrder before it exists
          lines,    \* the committed rows of its items, by id
          desk,     \* the request each clerk is running
          received, \* what inventory has registered for each line
          done,     \* history: the milestones an order row was committed for
          disturbed \* history: clerks overlap, or a creation was sent again

purchaseVars == <<crew, order, lines, desk, received, done, disturbed>>

Status == {"DRAFT", "PENDING_APPROVAL", "APPROVED", "ORDERED",
           "PARTIALLY_RECEIVED", "CLOSED", "REJECTED", "CANCELLED"}

\* The table of PurchaseOrderStatusTransitions.
ValidTransitions ==
    [s \in Status |->
        CASE s = "DRAFT"              -> {"PENDING_APPROVAL", "CANCELLED"}
          [] s = "PENDING_APPROVAL"   -> {"APPROVED", "REJECTED", "CANCELLED"}
          [] s = "APPROVED"           -> {"ORDERED", "CANCELLED"}
          [] s = "ORDERED"            -> {"PARTIALLY_RECEIVED", "CLOSED", "CANCELLED"}
          [] s = "PARTIALLY_RECEIVED" -> {"CLOSED"}
          [] OTHER                    -> {}]

CanTransition(from, to) == to \in ValidTransitions[from]
CanBeEdited(status) == status = "DRAFT"

\* The part of the order row the commands read: its status, and whether
\* receivedDate was set by a first reception.
OrderRow == [status : Status, receivedDate : BOOLEAN]
NoOrder == [status |-> "ABSENT", receivedDate |-> FALSE]

\* An item.  got = 0 stands for "nothing received yet" (a null quantity): a
\* reception is of a positive amount, so no other line has got = 0.
LineRow == [requested : Requested, unit : Units, got : 0..MaxStock,
            gotUnit : Units, cancelled : BOOLEAN]

NewLine(n, u) ==
    [requested |-> n, unit |-> u, got |-> 0, gotUnit |-> u, cancelled |-> FALSE]

\* What toDomain makes of the rows: a function from the ids of the order's items to
\* the items, which may be empty.
LineRows == UNION {[S -> LineRow] : S \in SUBSET crew.lines}

HasBeenReceived(l) == l.got > 0
HasBeenProcessed(l) == HasBeenReceived(l) \/ l.cancelled
IsFullyReceived(l) == l.got >= l.requested /\ l.gotUnit = l.unit

AllItemsProcessed(ls) == \A i \in DOMAIN ls : HasBeenProcessed(ls[i])
AllItemsFullyReceived(ls) == \A i \in DOMAIN ls : IsFullyReceived(ls[i])
HasItems(ls) == DOMAIN ls # {}

\* What a creation or an update says of the items: their amounts.
Wishes == UNION {[S -> Requested] : S \in (SUBSET crew.lines) \ {{}}}

\* createOrderItems: new items for every wish.
CreateOrderItems(w, u) == [i \in DOMAIN w |-> NewLine(w[i], u)]

\* An item is updated in place: what was received of it or cancelled stays.
HasItemChanged(l, n, u) == l.requested # n \/ l.unit # u
UpdatedLine(l, n, u) == [l EXCEPT !.requested = n, !.unit = u]

\* synchronizeItems and confirmAddItems: items that are not wished for leave the
\* order, items whose data changed are updated, new items are added.
SynchronizeItems(ls, w, u) ==
    [i \in DOMAIN w |->
        IF i \notin DOMAIN ls THEN NewLine(w[i], u)
        ELSE IF HasItemChanged(ls[i], w[i], u) THEN UpdatedLine(ls[i], w[i], u)
        ELSE ls[i]]

-----------------------------------------------------------------------------
(* A request: what it is doing and its copy of the order. *)

Idle == [at |-> "idle"]

\* The commands the history remembers.
Milestones == {"submit", "approve", "order"}

\* The request holds its copy of the order (toPrimitives) and starts to save it.
Saving(op, copy, ls, parcels) ==
    [at |-> "row", op |-> op, copy |-> copy, lines |-> ls, parcels |-> parcels,
     locks |-> FALSE]

\* The order row is locked by a transaction that wrote it and is not over.
Locked(c) == \E d \in crew.clerks \ {c} : desk[d].at # "idle" /\ desk[d].locks

\* The controller reads the request and loads the order; findById returns the
\* committed row and items.
Ready(c) == c \in crew.clerks /\ desk[c].at = "idle"
Loaded(c) == Ready(c) /\ order # NoOrder

Begin(c, op, copy, ls, parcels) ==
    /\ desk' = [desk EXCEPT ![c] = Saving(op, copy, ls, parcels)]
    /\ UNCHANGED <<crew, order, lines, received, done>>

\* What the methods of the aggregate make of the row.
TransitionTo(row, status) == [row EXCEPT !.status = status]
NewOrder == [status |-> "DRAFT", receivedDate |-> FALSE]
Submitted(row) == TransitionTo(row, "PENDING_APPROVAL")
Approved(row) == TransitionTo(row, "APPROVED")
Sent(row) == TransitionTo(row, "ORDERED")
Rejected(row) == TransitionTo(row, "REJECTED")
Closed(row) == TransitionTo(row, "CLOSED")

NoParcels == [i \in crew.lines |-> 0]

\* The bodies of the requests: the items an order should have; an item that is to be
\* cancelled; what came of each item, which ones did not come, and whether to close.
CreatePurchaseOrderRequest == [items : Wishes, unit : crew.units]
UpdatePurchaseOrderRequest == [items : Wishes, unit : crew.units]
CancelPurchaseOrderItemsRequest == [itemIds : {{i} : i \in crew.lines}]
ReceivePurchaseOrderRequest ==
    {q \in [parcels : [crew.lines -> Shipped \cup {0}], notReceived : SUBSET crew.lines,
            unit : crew.units, closeOrder : BOOLEAN] :
        \A i \in q.notReceived : q.parcels[i] = 0}

\* The amount in the PurchaseOrderItemReceivedEvent of each item; 0 when none is
\* recorded for it.
ItemReceivedEvents(q) == q.parcels

-----------------------------------------------------------------------------
(* The commands.  Each loads the order, applies the method of the aggregate
   and goes on to save; a method that throws leaves nothing behind, so its
   conditions are guards. *)

\* POST /purchase-orders.  The id comes with the request and is not looked up.
CreatePurchaseOrder(c) ==
    /\ Ready(c)
    /\ \E q \in CreatePurchaseOrderRequest :
          Begin(c, "other", NewOrder, CreateOrderItems(q.items, q.unit), NoParcels)
    /\ disturbed' = (disturbed \/ order # NoOrder)

\* PUT /purchase-orders/:id: the complete list of items the order should have.
UpdatePurchaseOrder(c) ==
    /\ Loaded(c)
    /\ CanBeEdited(order.status)
    /\ \E q \in UpdatePurchaseOrderRequest :
          Begin(c, "other", order, SynchronizeItems(lines, q.items, q.unit), NoParcels)
    /\ UNCHANGED disturbed

\* PUT /purchase-orders/:id/submit.
SubmitForApproval(c) ==
    /\ Loaded(c)
    /\ HasItems(lines)
    /\ CanTransition(order.status, "PENDING_APPROVAL")
    /\ Begin(c, "submit", Submitted(order), lines, NoParcels)
    /\ UNCHANGED disturbed

\* PUT /purchase-orders/:id/approve.
ApprovePurchaseOrder(c) ==
    /\ Loaded(c)
    /\ CanTransition(order.status, "APPROVED")
    /\ Begin(c, "approve", Approved(order), lines, NoParcels)
    /\ UNCHANGED disturbed

\* PUT /purchase-orders/:id/reject.
RejectPurchaseOrder(c) ==
    /\ Loaded(c)
    /\ CanTransition(order.status, "REJECTED")
    /\ Begin(c, "other", Rejected(order), lines, NoParcels)
    /\ UNCHANGED disturbed

\* PUT /purchase-orders/:id/order.
OrderPurchaseOrder(c) ==
    /\ Loaded(c)
    /\ CanTransition(order.status, "ORDERED")
    /\ Begin(c, "order", Sent(order), lines, NoParcels)
    /\ UNCHANGED disturbed

\* cancelItem, for a set of items: an item of which something was received is
\* refused, whatever the status of the order; an order of which nothing was ever
\* received and whose items are now all processed closes by itself.
CancelledLines(ls, out) ==
    [i \in DOMAIN ls |-> [ls[i] EXCEPT !.cancelled = @ \/ i \in out]]

AutoClosesOnCancel(row, ls, out) ==
    /\ out # {}
    /\ AllItemsProcessed(CancelledLines(ls, out))
    /\ ~row.receivedDate

\* Items are cancelled one at a time, in the order of the request: one that follows
\* the item that closed the order would close it again, which throws.
MayCancel(row, ls, out) ==
    /\ \A i \in out : i \in DOMAIN ls /\ ~HasBeenReceived(ls[i])
    /\ AutoClosesOnCancel(row, ls, out) =>
          /\ CanTransition(row.status, "CLOSED")
          /\ \E i \in out : out = {i} \/ ~AllItemsProcessed(CancelledLines(ls, out \ {i}))

AfterCancel(row, ls, out) ==
    IF AutoClosesOnCancel(row, ls, out) THEN Closed(row) ELSE row

\* PUT /purchase-orders/:id/cancel-items: one item per request.
CancelPurchaseOrderItems(c) ==
    /\ Loaded(c)
    /\ \E q \in CancelPurchaseOrderItemsRequest :
          /\ MayCancel(order, lines, q.itemIds)
          /\ Begin(c, "other", AfterCancel(order, lines, q.itemIds),
                   CancelledLines(lines, q.itemIds), NoParcels)
    /\ UNCHANGED disturbed

\* PUT /purchase-orders/:id/close: whatever is still missing.
ClosePurchaseOrder(c) ==
    /\ Loaded(c)
    /\ CanTransition(order.status, "CLOSED")
    /\ Begin(c, "other", Closed(order), lines, NoParcels)
    /\ UNCHANGED disturbed

\* registerReception on each item of a batch: the amount adds up with what came
\* before, and Quantity.add refuses another unit.
MayReceive(ls, ps, u) ==
    \A i \in DOMAIN ps : ps[i] > 0 =>
        /\ i \in DOMAIN ls
        /\ HasBeenReceived(ls[i]) => ls[i].gotUnit = u
        /\ ls[i].got + ps[i] <= MaxStock        \* bound

\* Faulty variant: the amount that came is not added to the item.
AfterReceptionUncounted(ls, ps, u) ==
    [i \in DOMAIN ls |-> IF ps[i] > 0 THEN [ls[i] EXCEPT !.gotUnit = u] ELSE ls[i]]

AfterReception(ls, ps, u) ==
    [i \in DOMAIN ls |->
        IF ps[i] > 0 THEN [ls[i] EXCEPT !.got = @ + ps[i], !.gotUnit = u] ELSE ls[i]]

\* Faulty variant: goods are accepted in every status of the order.
StatusAfterReceptionAnywhere(row, ls, closeOrder) ==
    IF AllItemsFullyReceived(ls) THEN "CLOSED" ELSE "PARTIALLY_RECEIVED"

\* registerBatchReception: the status the order ends in; it throws instead when
\* goods do not belong to this status, and when it is asked to close an order of
\* which an item was neither received nor cancelled.
StatusAfterReception(row, ls, closeOrder) ==
    IF \/ row.status \notin {"ORDERED", "PARTIALLY_RECEIVED"}
       \/ closeOrder /\ ~AllItemsProcessed(ls)
    THEN "refused"
    ELSE IF closeOrder \/ AllItemsFullyReceived(ls) THEN "CLOSED" ELSE "PARTIALLY_RECEIVED"

\* What a reception makes of the row and the items: those that did not come are
\* cancelled first, which may close the order.
RowOfReception(q) == AfterCancel(order, lines, q.notReceived)
LinesKept(q) == CancelledLines(lines, q.notReceived)
LinesReceived(q) == AfterReception(LinesKept(q), q.parcels, q.unit)
IsBatch(q) == \E i \in crew.lines : q.parcels[i] > 0

\* Without a batch the order may be closed, unless the cancellations did that.
StatusOfReception(q) ==
    CASE IsBatch(q) -> StatusAfterReception(RowOfReception(q), LinesReceived(q), q.closeOrder)
      [] ~IsBatch(q) /\ ~q.closeOrder -> RowOfReception(q).status
      [] ~IsBatch(q) /\ q.closeOrder ->
            IF CanTransition(RowOfReception(q).status, "CLOSED") THEN "CLOSED" ELSE "refused"

\* PUT /purchase-orders/:id/receive: items that did not come are cancelled, and what
\* came is received.
RegisterItemReception(c) ==
    /\ Loaded(c)
    /\ \E q \in ReceivePurchaseOrderRequest :
          /\ MayCancel(order, lines, q.notReceived)
          /\ MayReceive(LinesKept(q), q.parcels, q.unit)
          /\ StatusOfReception(q) # "refused"
          /\ Begin(c, "receive",
                   [status |-> StatusOfReception(q),
                    receivedDate |-> RowOfReception(q).receivedDate \/ IsBatch(q)],
                   LinesReceived(q), ItemReceivedEvents(q))
    /\ UNCHANGED disturbed

-----------------------------------------------------------------------------
(* Saving: typeorm-purchase-order.repository.ts *)

\* The order row.  TypeORM's save() selects it and writes what differs, taken
\* here as one step: the row becomes the copy.  In the transaction of `receive'
\* a row that differs stays locked, and unseen by others, until the end; every
\* other command commits it at once.
SaveOrderRow(c) ==
    LET r == desk[c] IN
    /\ c \in crew.clerks /\ r.at = "row"
    /\ r.copy # order => ~Locked(c)
    /\ desk' = [desk EXCEPT
          ![c].at = IF DOMAIN lines \subseteq DOMAIN r.lines THEN "items" ELSE "orphans",
          ![c].locks = (r.op = "receive" /\ r.copy # order)]
    /\ IF r.op = "receive" THEN UNCHANGED <<order, done>>
       ELSE /\ order' = r.copy
            /\ done' = done \cup ({r.op} \cap Milestones)
    /\ UNCHANGED <<crew, lines, received, disturbed>>

\* deleteOrphanedItems: on a connection of its own.
DeleteOrphanedItems(c) ==
    /\ c \in crew.clerks /\ desk[c].at = "orphans"
    /\ lines' = [i \in DOMAIN lines \cap DOMAIN desk[c].lines |-> lines[i]]
    /\ desk' = [desk EXCEPT ![c].at = "items"]
    /\ UNCHANGED <<crew, order, received, done, disturbed>>

\* The upsert of the items: on a connection of its own as well.
Upserted(new, old) ==
    [i \in DOMAIN new \cup DOMAIN old |-> IF i \in DOMAIN new THEN new[i] ELSE old[i]]

UpsertItems(c) ==
    /\ c \in crew.clerks /\ desk[c].at = "items"
    /\ lines' = Upserted(desk[c].lines, lines)
    /\ desk' = [desk EXCEPT ![c].at = "publish"]
    /\ UNCHANGED <<crew, order, received, done, disturbed>>

\* RegisterPurchaseOnItemReceived runs in the transaction of the request: what it
\* registers is committed with the order row.
Publish(c) ==
    LET r == desk[c] IN
    /\ c \in crew.clerks /\ r.at = "publish"
    /\ r.op = "receive" => \A i \in crew.lines : received[i] + r.parcels[i] <= MaxStock
    /\ IF r.op = "receive"
         THEN /\ order' = IF r.locks THEN r.copy ELSE order
              /\ received' = [i \in crew.lines |-> received[i] + r.parcels[i]]
         ELSE UNCHANGED <<order, received>>
    /\ desk' = [desk EXCEPT ![c] = Idle]
    /\ UNCHANGED <<crew, lines, done, disturbed>>

\* A statement fails, a subscriber throws (no conversion to the unit of the
\* ingredient), or the process dies: what the transaction wrote is rolled back.
Abort(c) ==
    /\ c \in crew.clerks /\ desk[c].at # "idle"
    /\ desk' = [desk EXCEPT ![c] = Idle]
    /\ UNCHANGED <<crew, order, lines, received, done, disturbed>>

-----------------------------------------------------------------------------
PurchaseInit ==
    /\ crew \in Crews
    /\ order = NoOrder
    /\ lines = << >>
    /\ desk = [c \in Clerks |-> Idle]
    /\ received = NoParcels
    /\ done = {}
    /\ disturbed = \E c, d \in crew.clerks : c # d

\* The commands up to the decision on the order, and those that follow it.
Command(c) ==
    \/ CreatePurchaseOrder(c)
    \/ UpdatePurchaseOrder(c)
    \/ SubmitForApproval(c)
    \/ ApprovePurchaseOrder(c)
    \/ RejectPurchaseOrder(c)

Fulfilment(c) ==
    \/ OrderPurchaseOrder(c)
    \/ CancelPurchaseOrderItems(c)
    \/ ClosePurchaseOrder(c)
    \/ RegisterItemReception(c)

Save(c) ==
    \/ SaveOrderRow(c)
    \/ DeleteOrphanedItems(c)
    \/ UpsertItems(c)
    \/ Publish(c)
    \/ Abort(c)

PurchaseNext == \E c \in Clerks : Command(c) \/ Fulfilment(c) \/ Save(c)

PurchaseSpec == PurchaseInit /\ [][PurchaseNext]_purchaseVars

-----------------------------------------------------------------------------
(* Properties *)

Request == [at : {"row", "orphans", "items", "publish"},
            op : Milestones \cup {"receive", "other"}, copy : OrderRow,
            lines : LineRows,
            parcels : [crew.lines -> Shipped \cup {0}],
            locks : BOOLEAN]

\* Type correctness of the committed rows, the requests and the history.
PurchaseTypeOK ==
    /\ crew \in Crews
    /\ order \in OrderRow \cup {NoOrder}
    /\ lines \in LineRows
    /\ desk \in [Clerks -> Request \cup {Idle}]
    /\ received \in [crew.lines -> 0..MaxStock]
    /\ done \in SUBSET Milestones
    /\ disturbed \in BOOLEAN

\* Whatever requests overlap, fail halfway or are sent again: stock comes into
\* inventory for this order, and amounts are recorded on its items, only after
\* some request had approved it and, after that, some request had sent it.
GoodsComeAfterApprovalAndSending ==
    (\/ \E i \in crew.lines : received[i] > 0
     \/ \E i \in DOMAIN lines : lines[i].got > 0)
        => done = Milestones

\* With one request at a time and no creation sent twice, inventory never holds
\* more for an item than the order says was received of it, in whichever
\* statement a request failed.
StockIsBackedByTheOrder ==
    ~disturbed =>
        \A i \in crew.lines : received[i] > 0 =>
            i \in DOMAIN lines /\ received[i] <= lines[i].got

\* What register-item-reception.ts promises: the reception of an order and the
\* stock it brings are one transaction, so that, while no request is at work, an
\* order whose reception was not interrupted by another one says of each item
\* what inventory registered.
ReceptionIsAtomic ==
    (~disturbed /\ \A c \in crew.clerks : desk[c].at = "idle") =>
        \A i \in DOMAIN lines : lines[i].got = received[i]
=============================================================================
