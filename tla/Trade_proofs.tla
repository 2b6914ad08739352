----------------------------- MODULE Trade_proofs -----------------------------
(***************************************************************************)
(* Theorems about what the restaurant buys (PurchaseOrders), transforms    *)
(* (Transformations) and bills (Billing), to whom (Customers), and about   *)
(* the books of its stock (Inventory), for any number of clients, of ids,  *)
(* of ingredients and of amounts.                                          *)
(***************************************************************************)
EXTENDS PurchaseOrders, Transformations, Billing, Customers, Inventory, DataTheorems,
        TLAPS

-------------------------------------------------------------------------------
(* Purchase orders and their receptions: module PurchaseOrders. *)

(* The items of an order, and the table of its status *)

LEMMA LineRowsElim ==
    ASSUME NEW ls \in LineRows
    PROVE  /\ DOMAIN ls \subseteq crew.lines
           /\ ls = [i \in DOMAIN ls |-> ls[i]]
           /\ \A i \in DOMAIN ls : ls[i] \in LineRow
  BY DEF LineRows

LEMMA LineRowsIntro ==
    ASSUME NEW S \in SUBSET crew.lines, NEW f \in [S -> LineRow]
    PROVE  f \in LineRows
  BY DEF LineRows

\* What the aggregate's methods make of the items are items.
LEMMA NewLineType ==
    ASSUME NEW n \in Requested, NEW u \in Units
    PROVE  NewLine(n, u) \in LineRow
  BY PurchaseAssumption DEF NewLine, LineRow

LEMMA SynchronizeItemsType ==
    ASSUME NEW ls \in LineRows, NEW S \in SUBSET crew.lines, NEW w \in [S -> Requested],
           NEW u \in Units
    PROVE  SynchronizeItems(ls, w, u) \in LineRows /\ CreateOrderItems(w, u) \in LineRows
<1>1. ASSUME NEW i \in S
      PROVE  (IF i \notin DOMAIN ls THEN NewLine(w[i], u)
              ELSE IF HasItemChanged(ls[i], w[i], u) THEN UpdatedLine(ls[i], w[i], u)
              ELSE ls[i]) \in LineRow
  <2>1. NewLine(w[i], u) \in LineRow
    BY NewLineType
  <2>2. i \in DOMAIN ls => ls[i] \in LineRow
    BY LineRowsElim
  <2>3. \A l \in LineRow : UpdatedLine(l, w[i], u) \in LineRow
    BY DEF UpdatedLine, LineRow
  <2> QED
    BY <2>1, <2>2, <2>3
<1>2. SynchronizeItems(ls, w, u) \in [S -> LineRow]
  BY <1>1 DEF SynchronizeItems
<1>3. CreateOrderItems(w, u) \in [S -> LineRow]
  BY NewLineType DEF CreateOrderItems
<1> QED
  BY <1>2, <1>3, LineRowsIntro

LEMMA CancelledLinesType ==
    ASSUME NEW ls \in LineRows, NEW out
    PROVE  /\ CancelledLines(ls, out) \in LineRows
           /\ DOMAIN CancelledLines(ls, out) = DOMAIN ls
           /\ \A i \in DOMAIN ls : CancelledLines(ls, out)[i].got = ls[i].got
<1>1. CancelledLines(ls, out) \in [DOMAIN ls -> LineRow]
  <2>1. ASSUME NEW i \in DOMAIN ls
        PROVE  [ls[i] EXCEPT !.cancelled = @ \/ i \in out] \in LineRow
    <3>1. ls[i] \in LineRow
      BY LineRowsElim
    <3>2. (ls[i].cancelled \/ i \in out) \in BOOLEAN
      OBVIOUS
    <3> QED
      BY <3>1, <3>2 DEF LineRow
  <2> QED
    BY <2>1 DEF CancelledLines
<1>2. DOMAIN ls \in SUBSET crew.lines
  BY LineRowsElim
<1>3. \A i \in DOMAIN ls : CancelledLines(ls, out)[i].got = ls[i].got
  BY LineRowsElim DEF CancelledLines, LineRow
<1> QED
  BY <1>1, <1>2, <1>3, LineRowsIntro

LEMMA AfterReceptionType ==
    ASSUME NEW ls \in LineRows, NEW ps, NEW u \in Units, MayReceive(ls, ps, u),
           \A i \in DOMAIN ps : ps[i] \in Nat, DOMAIN ls \subseteq DOMAIN ps
    PROVE  AfterReception(ls, ps, u) \in LineRows
<1>1. ASSUME NEW i \in DOMAIN ls
      PROVE  (IF ps[i] > 0 THEN [ls[i] EXCEPT !.got = @ + ps[i], !.gotUnit = u]
              ELSE ls[i]) \in LineRow
  <2>1. ls[i] \in LineRow /\ ps[i] \in Nat
    BY LineRowsElim
  <2>2. ps[i] > 0 => ls[i].got + ps[i] \in 0..MaxStock
    BY <2>1, PurchaseAssumption DEF MayReceive, LineRow
  <2> QED
    BY <2>1, <2>2 DEF LineRow
<1>2. AfterReception(ls, ps, u) \in [DOMAIN ls -> LineRow]
  BY <1>1 DEF AfterReception
<1>3. DOMAIN ls \in SUBSET crew.lines
  BY LineRowsElim
<1> QED
  BY <1>2, <1>3, LineRowsIntro

\* PurchaseOrderStatusTransitions: where a transition may come from.
LEMMA Transitions ==
    ASSUME NEW s \in Status
    PROVE  /\ CanTransition(s, "PENDING_APPROVAL") => s = "DRAFT"
           /\ CanTransition(s, "APPROVED") => s = "PENDING_APPROVAL"
           /\ CanTransition(s, "ORDERED") => s = "APPROVED"
           /\ CanTransition(s, "CLOSED") => s \in {"ORDERED", "PARTIALLY_RECEIVED"}
  BY DEF CanTransition, ValidTransitions, Status

-----------------------------------------------------------------------------
(* Types *)

\* A request that was begun, in the state of PurchaseTypeOK.
LEMMA BeginType ==
    ASSUME PurchaseTypeOK, NEW c \in Clerks, NEW op \in Milestones \cup {"receive", "other"},
           NEW copy \in OrderRow, NEW ls \in LineRows,
           NEW ps \in [crew.lines -> Shipped \cup {0}],
           Begin(c, op, copy, ls, ps), disturbed' \in BOOLEAN
    PROVE  PurchaseTypeOK'
<1>1. Saving(op, copy, ls, ps) \in Request
  BY DEF Saving, Request
<1>2. Request' = Request /\ LineRows' = LineRows
  BY DEF Begin, Request, LineRows
<1>3. desk' \in [Clerks -> Request \cup {Idle}]
  BY <1>1 DEF Begin, PurchaseTypeOK
<1> QED
  BY <1>2, <1>3 DEF Begin, PurchaseTypeOK

\* What the request may name.
LEMMA CrewFacts ==
    ASSUME PurchaseTypeOK
    PROVE  /\ crew.lines \subseteq Lines /\ crew.units \subseteq Units
           /\ crew.clerks \subseteq Clerks
           /\ NoParcels \in [crew.lines -> Shipped \cup {0}]
           /\ \A w \in Wishes : \E S \in SUBSET crew.lines : w \in [S -> Requested]
  BY PurchaseAssumption DEF PurchaseTypeOK, NoParcels, Wishes

\* The copies that the commands make of the row are rows.
LEMMA CopyTypes ==
    ASSUME NEW row \in OrderRow
    PROVE  /\ NewOrder \in OrderRow /\ Submitted(row) \in OrderRow
           /\ Approved(row) \in OrderRow /\ Sent(row) \in OrderRow
           /\ Rejected(row) \in OrderRow /\ Closed(row) \in OrderRow
           /\ \A ls, out : AfterCancel(row, ls, out) \in OrderRow
  BY DEF NewOrder, Submitted, Approved, Sent, Rejected, Closed, TransitionTo, OrderRow, Status,
         AfterCancel

\* What comes of each item is a number.
LEMMA ParcelsAreNat ==
    ASSUME NEW ps \in [crew.lines -> Shipped \cup {0}]
    PROVE  \A i \in crew.lines : ps[i] \in Nat
<1>1. \A n \in Shipped \cup {0} : n \in Nat
  BY PurchaseAssumption
<1> QED
  BY <1>1

LEMMA CommandType ==
    ASSUME PurchaseTypeOK, NEW c \in Clerks, Command(c)
    PROVE  PurchaseTypeOK'
<1> USE CrewFacts
<1>1. order # NoOrder => order \in OrderRow
  BY DEF PurchaseTypeOK
<1>2. lines \in LineRows /\ disturbed \in BOOLEAN
  BY DEF PurchaseTypeOK
<1>3. "other" \in Milestones \cup {"receive", "other"} /\ {"submit", "approve"} \subseteq Milestones
  BY DEF Milestones
<1>4. CASE CreatePurchaseOrder(c)
  <2>1. PICK q \in CreatePurchaseOrderRequest :
            Begin(c, "other", NewOrder, CreateOrderItems(q.items, q.unit), NoParcels)
    BY <1>4 DEF CreatePurchaseOrder
  <2>2. q.items \in Wishes /\ q.unit \in Units
    BY DEF CreatePurchaseOrderRequest
  <2>3. CreateOrderItems(q.items, q.unit) \in LineRows
    BY <1>2, <2>2, SynchronizeItemsType
  <2>4. NewOrder \in OrderRow
    BY DEF NewOrder, OrderRow, Status
  <2>5. disturbed' \in BOOLEAN
    BY <1>4 DEF CreatePurchaseOrder
  <2> QED
    BY <1>3, <2>1, <2>3, <2>4, <2>5, BeginType
<1>5. CASE UpdatePurchaseOrder(c)
  <2>1. PICK q \in UpdatePurchaseOrderRequest :
            Begin(c, "other", order, SynchronizeItems(lines, q.items, q.unit), NoParcels)
    BY <1>5 DEF UpdatePurchaseOrder
  <2>2. q.items \in Wishes /\ q.unit \in Units
    BY DEF UpdatePurchaseOrderRequest
  <2>3. SynchronizeItems(lines, q.items, q.unit) \in LineRows
    BY <1>2, <2>2, SynchronizeItemsType
  <2> QED
    BY <1>1, <1>2, <1>3, <1>5, <2>1, <2>3, BeginType DEF UpdatePurchaseOrder, Loaded
<1>6. CASE SubmitForApproval(c)
  BY <1>1, <1>2, <1>3, <1>6, CopyTypes, BeginType DEF SubmitForApproval, Loaded
<1>7. CASE ApprovePurchaseOrder(c)
  BY <1>1, <1>2, <1>3, <1>7, CopyTypes, BeginType DEF ApprovePurchaseOrder, Loaded
<1>8. CASE RejectPurchaseOrder(c)
  BY <1>1, <1>2, <1>3, <1>8, CopyTypes, BeginType DEF RejectPurchaseOrder, Loaded
<1> QED
  BY <1>4, <1>5, <1>6, <1>7, <1>8 DEF Command

\* The reception's request, its copies, and what it adds.
LEMMA ReceptionType ==
    ASSUME PurchaseTypeOK, NEW c \in Clerks, RegisterItemReception(c)
    PROVE  PurchaseTypeOK'
<1> USE CrewFacts
<1>1. order \in OrderRow /\ lines \in LineRows /\ disturbed' \in BOOLEAN
  BY DEF PurchaseTypeOK, RegisterItemReception, Loaded
<1>2. PICK q \in ReceivePurchaseOrderRequest :
        /\ MayReceive(LinesKept(q), q.parcels, q.unit)
        /\ StatusOfReception(q) # "refused"
        /\ Begin(c, "receive",
                 [status |-> StatusOfReception(q),
                  receivedDate |-> RowOfReception(q).receivedDate \/ IsBatch(q)],
                 LinesReceived(q), ItemReceivedEvents(q))
  BY DEF RegisterItemReception
<1> DEFINE copy == [status |-> StatusOfReception(q),
                    receivedDate |-> RowOfReception(q).receivedDate \/ IsBatch(q)]
<1>3. q.parcels \in [crew.lines -> Shipped \cup {0}] /\ q.unit \in Units
  BY DEF ReceivePurchaseOrderRequest
<1>4. RowOfReception(q) \in OrderRow
  BY <1>1, CopyTypes DEF RowOfReception
<1>5. LinesKept(q) \in LineRows
  BY <1>1, CancelledLinesType DEF LinesKept
<1>6. LinesReceived(q) \in LineRows
  <2>1. \A i \in DOMAIN q.parcels : q.parcels[i] \in Nat
    BY <1>3, ParcelsAreNat
  <2>2. DOMAIN LinesKept(q) \subseteq DOMAIN q.parcels
    BY <1>3, <1>5, LineRowsElim
  <2> QED
    BY <1>2, <1>3, <1>5, <2>1, <2>2, AfterReceptionType DEF LinesReceived
<1>7. StatusOfReception(q) \in Status
  <2>1. StatusAfterReception(RowOfReception(q), LinesReceived(q), q.closeOrder)
            \in {"refused", "CLOSED", "PARTIALLY_RECEIVED"}
    BY DEF StatusAfterReception
  <2>2. RowOfReception(q).status \in Status
    BY <1>4 DEF OrderRow
  <2>3. q.closeOrder \in BOOLEAN /\ IsBatch(q) \in BOOLEAN
    BY DEF ReceivePurchaseOrderRequest, IsBatch
  <2> QED
    BY <1>2, <2>1, <2>2, <2>3 DEF Status, StatusOfReception
<1>8. copy \in OrderRow
  BY <1>4, <1>7 DEF OrderRow, IsBatch
<1>9. Begin(c, "receive", copy, LinesReceived(q), q.parcels)
  BY <1>2 DEF ItemReceivedEvents
<1> HIDE DEF copy
<1> QED
  BY <1>1, <1>3, <1>6, <1>8, <1>9, BeginType

LEMMA FulfilmentType ==
    ASSUME PurchaseTypeOK, NEW c \in Clerks, Fulfilment(c)
    PROVE  PurchaseTypeOK'
<1> USE CrewFacts
<1>1. order # NoOrder => order \in OrderRow
  BY DEF PurchaseTypeOK
<1>2. lines \in LineRows /\ disturbed \in BOOLEAN
  BY DEF PurchaseTypeOK
<1>3. {"other", "order"} \subseteq Milestones \cup {"receive", "other"}
  BY DEF Milestones
<1>4. CASE OrderPurchaseOrder(c)
  BY <1>1, <1>2, <1>3, <1>4, CopyTypes, BeginType DEF OrderPurchaseOrder, Loaded
<1>5. CASE CancelPurchaseOrderItems(c)
  <2>1. PICK q \in CancelPurchaseOrderItemsRequest :
            Begin(c, "other", AfterCancel(order, lines, q.itemIds),
                  CancelledLines(lines, q.itemIds), NoParcels)
    BY <1>5 DEF CancelPurchaseOrderItems
  <2>2. AfterCancel(order, lines, q.itemIds) \in OrderRow
    BY <1>1, <1>5, CopyTypes DEF CancelPurchaseOrderItems, Loaded
  <2>3. CancelledLines(lines, q.itemIds) \in LineRows
    BY <1>2, CancelledLinesType
  <2>4. disturbed' \in BOOLEAN
    BY <1>2, <1>5 DEF CancelPurchaseOrderItems
  <2> QED
    BY <1>3, <2>1, <2>2, <2>3, <2>4, BeginType
<1>6. CASE ClosePurchaseOrder(c)
  BY <1>1, <1>2, <1>3, <1>6, CopyTypes, BeginType DEF ClosePurchaseOrder, Loaded
<1>7. CASE RegisterItemReception(c)
  BY <1>7, ReceptionType
<1> QED
  BY <1>4, <1>5, <1>6, <1>7 DEF Fulfilment

\* A request at work holds a copy of the order.
LEMMA BusyIsRequest ==
    ASSUME PurchaseTypeOK, NEW c \in Clerks, desk[c].at # "idle"
    PROVE  /\ desk[c] \in Request
           /\ desk[c].copy \in OrderRow /\ desk[c].lines \in LineRows
           /\ desk[c].parcels \in [crew.lines -> Shipped \cup {0}]
           /\ desk[c].op \in Milestones \cup {"receive", "other"}
<1>1. desk[c] \in Request
  BY DEF PurchaseTypeOK, Idle
<1> QED
  BY <1>1 DEF Request

\* A later statement of a request.
LEMMA NextStatementType ==
    ASSUME PurchaseTypeOK, NEW c \in Clerks, desk[c].at # "idle",
           NEW at \in {"row", "orphans", "items", "publish"}, NEW locks \in BOOLEAN
    PROVE  /\ [desk EXCEPT ![c].at = at, ![c].locks = locks] \in [Clerks -> Request \cup {Idle}]
           /\ [desk EXCEPT ![c].at = at] \in [Clerks -> Request \cup {Idle}]
<1>1. desk[c] \in Request
  BY BusyIsRequest
<1>2. [desk[c] EXCEPT !.at = at, !.locks = locks] \in Request
  BY <1>1 DEF Request
<1>3. [desk[c] EXCEPT !.at = at] \in Request
  BY <1>1 DEF Request
<1> QED
  BY <1>2, <1>3 DEF PurchaseTypeOK

\* The upsert: the items of the copy over those of the table.
LEMMA UpsertLines ==
    ASSUME NEW f \in LineRows, NEW g \in LineRows
    PROVE  /\ Upserted(f, g) \in LineRows
           /\ \A i \in DOMAIN Upserted(f, g) :
                 \/ i \in DOMAIN f /\ Upserted(f, g)[i] = f[i]
                 \/ i \in DOMAIN g /\ Upserted(f, g)[i] = g[i]
<1>1. Upserted(f, g) \in [DOMAIN f \cup DOMAIN g -> LineRow]
  BY LineRowsElim DEF Upserted
<1>2. DOMAIN f \cup DOMAIN g \in SUBSET crew.lines
  BY LineRowsElim
<1> QED
  BY <1>1, <1>2, LineRowsIntro DEF Upserted

\* The rows that are left when the orphans are deleted.
LEMMA LinesLeft ==
    ASSUME NEW f \in LineRows, NEW S
    PROVE  [i \in DOMAIN f \cap S |-> f[i]] \in LineRows
<1>1. [i \in DOMAIN f \cap S |-> f[i]] \in [DOMAIN f \cap S -> LineRow]
  BY LineRowsElim
<1>2. DOMAIN f \cap S \in SUBSET crew.lines
  BY LineRowsElim
<1> QED
  BY <1>1, <1>2, LineRowsIntro

LEMMA SaveType ==
    ASSUME PurchaseTypeOK, NEW c \in Clerks, Save(c)
    PROVE  PurchaseTypeOK'
<1>1. CASE SaveOrderRow(c)
  <2>1. desk[c].copy \in OrderRow
    BY <1>1, BusyIsRequest DEF SaveOrderRow
  <2>2. desk' \in [Clerks -> Request \cup {Idle}]
    <3> DEFINE at == IF DOMAIN lines \subseteq DOMAIN desk[c].lines THEN "items" ELSE "orphans"
               locks == desk[c].op = "receive" /\ desk[c].copy # order
    <3>1. at \in {"row", "orphans", "items", "publish"} /\ locks \in BOOLEAN
      OBVIOUS
    <3>2. desk[c].at # "idle" /\ desk' = [desk EXCEPT ![c].at = at, ![c].locks = locks]
      BY <1>1 DEF SaveOrderRow
    <3> HIDE DEF at, locks
    <3> QED
      BY <3>1, <3>2, NextStatementType
  <2>3. order' \in OrderRow \cup {NoOrder} /\ done' \in SUBSET Milestones
    BY <1>1, <2>1 DEF SaveOrderRow, PurchaseTypeOK
  <2>4. UNCHANGED <<crew, lines, received, disturbed>>
    BY <1>1 DEF SaveOrderRow
  <2> QED
    BY <2>2, <2>3, <2>4 DEF PurchaseTypeOK, Request, LineRows
<1>2. CASE DeleteOrphanedItems(c)
  <2>1. desk' \in [Clerks -> Request \cup {Idle}]
    BY <1>2, NextStatementType DEF DeleteOrphanedItems
  <2>2. lines' \in LineRows
    BY <1>2, LinesLeft DEF DeleteOrphanedItems, PurchaseTypeOK
  <2>3. UNCHANGED <<crew, order, received, done, disturbed>>
    BY <1>2 DEF DeleteOrphanedItems
  <2> QED
    BY <2>1, <2>2, <2>3 DEF PurchaseTypeOK, Request, LineRows
<1>3. CASE UpsertItems(c)
  <2>1. desk' \in [Clerks -> Request \cup {Idle}]
    BY <1>3, NextStatementType DEF UpsertItems
  <2>2. lines' \in LineRows
    BY <1>3, UpsertLines, BusyIsRequest DEF UpsertItems, PurchaseTypeOK
  <2>3. UNCHANGED <<crew, order, received, done, disturbed>>
    BY <1>3 DEF UpsertItems
  <2> QED
    BY <2>1, <2>2, <2>3 DEF PurchaseTypeOK, Request, LineRows
<1>4. CASE Publish(c)
  <2>1. desk' \in [Clerks -> Request \cup {Idle}]
    BY <1>4 DEF Publish, PurchaseTypeOK
  <2>2. desk[c].copy \in OrderRow /\ desk[c].parcels \in [crew.lines -> Shipped \cup {0}]
    BY <1>4, BusyIsRequest DEF Publish
  <2>3. order' \in OrderRow \cup {NoOrder}
    BY <1>4, <2>2 DEF Publish, PurchaseTypeOK
  <2>4. received' \in [crew.lines -> 0..MaxStock]
    <3>1. CASE desk[c].op = "receive"
      <4>1. ASSUME NEW i \in crew.lines
            PROVE  received[i] + desk[c].parcels[i] \in 0..MaxStock
        <5>1. received[i] \in Nat
          BY DEF PurchaseTypeOK
        <5>2. desk[c].parcels[i] \in Nat
          BY <2>2, ParcelsAreNat
        <5>3. received[i] + desk[c].parcels[i] <= MaxStock
          BY <1>4, <3>1 DEF Publish
        <5> QED
          BY <5>1, <5>2, <5>3, PurchaseAssumption
      <4> QED
        BY <1>4, <3>1, <4>1 DEF Publish
    <3>2. CASE desk[c].op # "receive"
      BY <1>4, <3>2 DEF Publish, PurchaseTypeOK
    <3> QED
      BY <3>1, <3>2
  <2>5. UNCHANGED <<crew, lines, done, disturbed>>
    BY <1>4 DEF Publish
  <2> QED
    BY <2>1, <2>3, <2>4, <2>5 DEF PurchaseTypeOK, Request, LineRows
<1>5. CASE Abort(c)
  BY <1>5 DEF Abort, PurchaseTypeOK, Request, LineRows
<1> QED
  BY <1>1, <1>2, <1>3, <1>4, <1>5 DEF Save

LEMMA StepType ==
    ASSUME PurchaseTypeOK, [PurchaseNext]_purchaseVars
    PROVE  PurchaseTypeOK'
<1>1. CASE PurchaseNext
  BY <1>1, CommandType, FulfilmentType, SaveType DEF PurchaseNext
<1>2. CASE UNCHANGED purchaseVars
  BY <1>2 DEF purchaseVars, PurchaseTypeOK, Request, LineRows
<1> QED
  BY <1>1, <1>2

\* Every reachable state is well typed: an order has no status outside the table of
\* PurchaseOrderStatusTransitions, no item is counted past the amounts registered.
THEOREM PurchasesTypeCorrect == PurchaseSpec => []PurchaseTypeOK
<1>1. PurchaseInit => PurchaseTypeOK
  <2> SUFFICES ASSUME PurchaseInit PROVE PurchaseTypeOK
    OBVIOUS
  <2>1. << >> \in LineRows
    <3>1. << >> \in [{} -> LineRow]
      OBVIOUS
    <3> QED
      BY <3>1, LineRowsIntro
  <2>2. received \in [crew.lines -> 0..MaxStock]
    BY PurchaseAssumption DEF PurchaseInit, NoParcels
  <2> QED
    BY <2>1, <2>2 DEF PurchaseInit, PurchaseTypeOK
<1> QED
  BY <1>1, StepType, PTL DEF PurchaseSpec

-----------------------------------------------------------------------------
(* Goods come after approval and sending *)

\* The milestones that must be behind an order of a status.
Behind(status) ==
    CASE status = "PENDING_APPROVAL" -> {"submit"}
      [] status = "APPROVED"         -> {"submit", "approve"}
      [] status \in {"ORDERED", "PARTIALLY_RECEIVED", "CLOSED"} -> Milestones
      [] OTHER                       -> {}

HasGoods(ls) == \E i \in DOMAIN ls : ls[i].got > 0
Brings(ps) == \E i \in crew.lines : ps[i] > 0

\* What a request at work may commit later: its own milestone is not behind it yet.
RequestIsDue(r) ==
    /\ Behind(r.copy.status) \ {r.op} \subseteq done
    /\ HasGoods(r.lines) \/ Brings(r.parcels) => done = Milestones

\* The invariant is about the copies of the requests as well: a request that read the
\* order long ago may overwrite what others did since, but what it read stays behind it.
GoodsInv ==
    /\ Behind(order.status) \subseteq done
    /\ \A c \in Clerks : desk[c].at # "idle" => RequestIsDue(desk[c])
    /\ GoodsComeAfterApprovalAndSending

LEMMA BehindFacts ==
    /\ \A s \in Status \cup {"ABSENT"} : Behind(s) \subseteq Milestones
    /\ Behind("ABSENT") = {} /\ Behind("DRAFT") = {} /\ Behind("REJECTED") = {}
    /\ Behind("PENDING_APPROVAL") = {"submit"} /\ Behind("APPROVED") = {"submit", "approve"}
    /\ \A s \in {"ORDERED", "PARTIALLY_RECEIVED", "CLOSED"} : Behind(s) = Milestones
    /\ Milestones = {"submit", "approve", "order"}
  BY DEF Behind, Milestones, Status

\* A request that is begun keeps the invariant when what it may commit is due.
LEMMA BeginIsDue ==
    ASSUME PurchaseTypeOK, GoodsInv, NEW c \in Clerks, NEW op, NEW copy, NEW ls, NEW ps,
           Begin(c, op, copy, ls, ps),
           Behind(copy.status) \ {op} \subseteq done,
           HasGoods(ls) \/ Brings(ps) => done = Milestones
    PROVE  GoodsInv'
<1>1. UNCHANGED <<crew, order, lines, received, done>>
  BY DEF Begin
<1>2. ASSUME NEW d \in Clerks, desk'[d].at # "idle"
      PROVE  RequestIsDue(desk[d])'
  <2>1. CASE d = c
    <3>1. desk'[d] = Saving(op, copy, ls, ps)
      BY <2>1 DEF Begin, PurchaseTypeOK
    <3>2. desk'[d].op = op /\ desk'[d].copy = copy /\ desk'[d].lines = ls /\ desk'[d].parcels = ps
      BY <3>1 DEF Saving
    <3> QED
      BY <1>1, <3>2 DEF RequestIsDue, HasGoods, Brings
  <2>2. CASE d # c
    BY <1>1, <1>2, <2>2 DEF GoodsInv, Begin, PurchaseTypeOK, RequestIsDue, HasGoods, Brings
  <2> QED
    BY <2>1, <2>2
<1> QED
  BY <1>1, <1>2 DEF GoodsInv, GoodsComeAfterApprovalAndSending

LEMMA NothingBrought == ~Brings(NoParcels)
  BY DEF Brings, NoParcels

\* The methods of the aggregate add no goods to the items, a reception excepted.
LEMMA NoNewGoods ==
    ASSUME NEW ls \in LineRows
    PROVE  /\ \A out : HasGoods(CancelledLines(ls, out)) => HasGoods(ls)
           /\ \A w, u : HasGoods(SynchronizeItems(ls, w, u)) => HasGoods(ls)
           /\ \A w, u : ~HasGoods(CreateOrderItems(w, u))
<1>1. \A out : HasGoods(CancelledLines(ls, out)) => HasGoods(ls)
  BY CancelledLinesType DEF HasGoods
<1>2. ASSUME NEW w, NEW u, NEW i \in DOMAIN SynchronizeItems(ls, w, u),
             SynchronizeItems(ls, w, u)[i].got > 0
      PROVE  HasGoods(ls)
  <2>1. \A n : NewLine(n, u).got = 0
    BY DEF NewLine
  <2>2. i \in DOMAIN ls
    BY <1>2, <2>1 DEF SynchronizeItems
  <2>3. ls[i] \in LineRow
    BY <2>2, LineRowsElim
  <2>4. \A n : UpdatedLine(ls[i], n, u).got = ls[i].got
    BY <2>3 DEF UpdatedLine, LineRow
  <2> QED
    BY <1>2, <2>2, <2>4 DEF SynchronizeItems, HasGoods
<1>3. ASSUME NEW w, NEW u
      PROVE  ~HasGoods(CreateOrderItems(w, u))
  <2>1. \A n : NewLine(n, u).got = 0
    BY DEF NewLine
  <2>2. \A i \in DOMAIN CreateOrderItems(w, u) : CreateOrderItems(w, u)[i].got = 0
    BY <2>1 DEF CreateOrderItems
  <2> QED
    BY <2>2 DEF HasGoods
<1> QED
  BY <1>1, <1>2, <1>3 DEF HasGoods

\* Cancelling items leaves the status, or closes an order that was sent.
LEMMA CancelStatus ==
    ASSUME NEW row \in OrderRow, NEW ls, NEW out, MayCancel(row, ls, out)
    PROVE  \/ AfterCancel(row, ls, out) = row
           \/ /\ row.status \in {"ORDERED", "PARTIALLY_RECEIVED"}
              /\ AfterCancel(row, ls, out).status = "CLOSED"
<1>1. row.status \in Status
  BY DEF OrderRow
<1>2. Closed(row).status = "CLOSED"
  BY DEF Closed, TransitionTo, OrderRow
<1> QED
  BY <1>1, <1>2, Transitions DEF AfterCancel, MayCancel

LEMMA CommandIsDue ==
    ASSUME PurchaseTypeOK, GoodsInv, NEW c \in Clerks, Command(c)
    PROVE  GoodsInv'
<1> USE BehindFacts, NothingBrought
<1>1. order # NoOrder => order \in OrderRow /\ order.status \in Status
  BY DEF PurchaseTypeOK, OrderRow
<1>2. lines \in LineRows
  BY DEF PurchaseTypeOK
<1>3. HasGoods(lines) => done = Milestones
  BY DEF GoodsInv, GoodsComeAfterApprovalAndSending, HasGoods
<1>4. Behind(order.status) \subseteq done
  BY DEF GoodsInv
<1>5. CASE CreatePurchaseOrder(c)
  <2>1. PICK q \in CreatePurchaseOrderRequest :
            Begin(c, "other", NewOrder, CreateOrderItems(q.items, q.unit), NoParcels)
    BY <1>5 DEF CreatePurchaseOrder
  <2>2. NewOrder.status = "DRAFT"
    BY DEF NewOrder
  <2>3. ~HasGoods(CreateOrderItems(q.items, q.unit))
    BY <1>2, NoNewGoods
  <2> QED
    BY <2>1, <2>2, <2>3, BeginIsDue
<1>6. CASE UpdatePurchaseOrder(c)
  <2>1. PICK q \in UpdatePurchaseOrderRequest :
            Begin(c, "other", order, SynchronizeItems(lines, q.items, q.unit), NoParcels)
    BY <1>6 DEF UpdatePurchaseOrder
  <2>2. HasGoods(SynchronizeItems(lines, q.items, q.unit)) => done = Milestones
    BY <1>2, <1>3, NoNewGoods
  <2> QED
    BY <1>4, <2>1, <2>2, BeginIsDue
<1>7. CASE SubmitForApproval(c)
  <2>1. order \in OrderRow /\ Begin(c, "submit", Submitted(order), lines, NoParcels)
    BY <1>1, <1>7 DEF SubmitForApproval, Loaded
  <2>2. Submitted(order).status = "PENDING_APPROVAL"
    BY <2>1 DEF Submitted, TransitionTo, OrderRow
  <2> QED
    BY <1>3, <2>1, <2>2, BeginIsDue
<1>8. CASE ApprovePurchaseOrder(c)
  <2>1. order \in OrderRow /\ Begin(c, "approve", Approved(order), lines, NoParcels)
    BY <1>1, <1>8 DEF ApprovePurchaseOrder, Loaded
  <2>2. Approved(order).status = "APPROVED"
    BY <2>1 DEF Approved, TransitionTo, OrderRow
  <2>3. order.status = "PENDING_APPROVAL"
    BY <1>1, <1>8, Transitions DEF ApprovePurchaseOrder, Loaded
  <2>4. Behind(Approved(order).status) \ {"approve"} \subseteq done
    BY <1>4, <2>2, <2>3
  <2> QED
    BY <1>3, <2>1, <2>4, BeginIsDue
<1>9. CASE RejectPurchaseOrder(c)
  <2>1. order \in OrderRow /\ Begin(c, "other", Rejected(order), lines, NoParcels)
    BY <1>1, <1>9 DEF RejectPurchaseOrder, Loaded
  <2>2. Rejected(order).status = "REJECTED"
    BY <2>1 DEF Rejected, TransitionTo, OrderRow
  <2> QED
    BY <1>3, <2>1, <2>2, BeginIsDue
<1> QED
  BY <1>5, <1>6, <1>7, <1>8, <1>9 DEF Command

\* A batch is received only by an order that was sent; without a batch the order may
\* close, which an order that was sent may.
LEMMA ReceptionIsDue ==
    ASSUME PurchaseTypeOK, GoodsInv, NEW c \in Clerks, RegisterItemReception(c)
    PROVE  GoodsInv'
<1> USE BehindFacts
<1>1. order \in OrderRow /\ order.status \in Status /\ lines \in LineRows
  BY DEF PurchaseTypeOK, OrderRow, RegisterItemReception, Loaded
<1>2. PICK q \in ReceivePurchaseOrderRequest :
        /\ MayCancel(order, lines, q.notReceived)
        /\ StatusOfReception(q) # "refused"
        /\ Begin(c, "receive",
                 [status |-> StatusOfReception(q),
                  receivedDate |-> RowOfReception(q).receivedDate \/ IsBatch(q)],
                 LinesReceived(q), q.parcels)
  BY DEF RegisterItemReception, ItemReceivedEvents
<1>3. q.closeOrder \in BOOLEAN /\ q.parcels \in [crew.lines -> Shipped \cup {0}]
  BY DEF ReceivePurchaseOrderRequest
<1>4. \/ RowOfReception(q) = order
      \/ /\ order.status \in {"ORDERED", "PARTIALLY_RECEIVED"}
         /\ RowOfReception(q).status = "CLOSED"
  BY <1>1, <1>2, CancelStatus DEF RowOfReception
<1>5. CASE IsBatch(q)
  <2>1. StatusOfReception(q)
            = StatusAfterReception(RowOfReception(q), LinesReceived(q), q.closeOrder)
    BY <1>5 DEF StatusOfReception
  <2>2. RowOfReception(q).status \in {"ORDERED", "PARTIALLY_RECEIVED"}
    <3>1. StatusAfterReception(RowOfReception(q), LinesReceived(q), q.closeOrder) # "refused"
      BY <1>2, <2>1
    <3> QED
      BY <3>1 DEF StatusAfterReception
  <2>3. order.status \in {"ORDERED", "PARTIALLY_RECEIVED"}
    BY <1>4, <2>2
  <2>4. done = Milestones
    BY <2>3 DEF GoodsInv, PurchaseTypeOK
  <2>5. StatusOfReception(q) \in {"CLOSED", "PARTIALLY_RECEIVED"}
    BY <1>2, <2>1 DEF StatusAfterReception
  <2> QED
    BY <1>2, <2>4, <2>5, BeginIsDue
<1>6. CASE ~IsBatch(q)
  <2>1. Behind(StatusOfReception(q)) \subseteq done
    <3>1. CASE ~q.closeOrder
      <4>1. StatusOfReception(q) = RowOfReception(q).status
        BY <1>6, <3>1 DEF StatusOfReception
      <4> QED
        BY <1>4, <4>1 DEF GoodsInv
    <3>2. CASE q.closeOrder
      <4>1. StatusOfReception(q) = "CLOSED" /\ CanTransition(RowOfReception(q).status, "CLOSED")
        BY <1>2, <1>6, <3>2 DEF StatusOfReception
      <4>2. order.status \in {"ORDERED", "PARTIALLY_RECEIVED"}
        BY <1>1, <1>4, <4>1, Transitions
      <4> QED
        BY <4>1, <4>2 DEF GoodsInv
    <3> QED
      BY <1>3, <3>1, <3>2
  <2>2. \A i \in crew.lines : ~(q.parcels[i] > 0)
    BY <1>6 DEF IsBatch
  <2>3. ~Brings(q.parcels)
    BY <2>2 DEF Brings
  <2>4. HasGoods(LinesReceived(q)) => HasGoods(lines)
    <3>1. HasGoods(LinesKept(q)) => HasGoods(lines)
      BY <1>1, NoNewGoods DEF LinesKept
    <3>2. DOMAIN LinesKept(q) \subseteq crew.lines
      BY <1>1, CancelledLinesType, LineRowsElim DEF LinesKept
    <3>3. \A i \in DOMAIN LinesReceived(q) :
              i \in DOMAIN LinesKept(q) /\ LinesReceived(q)[i] = LinesKept(q)[i]
      BY <2>2, <3>2 DEF LinesReceived, AfterReception
    <3> QED
      BY <3>1, <3>3 DEF HasGoods
  <2>5. HasGoods(LinesReceived(q)) \/ Brings(q.parcels) => done = Milestones
    BY <2>3, <2>4 DEF GoodsInv, GoodsComeAfterApprovalAndSending, HasGoods
  <2> QED
    BY <1>2, <2>1, <2>5, BeginIsDue
<1> QED
  BY <1>5, <1>6

LEMMA FulfilmentIsDue ==
    ASSUME PurchaseTypeOK, GoodsInv, NEW c \in Clerks, Fulfilment(c)
    PROVE  GoodsInv'
<1> USE BehindFacts, NothingBrought
<1>1. order # NoOrder => order \in OrderRow /\ order.status \in Status
  BY DEF PurchaseTypeOK, OrderRow
<1>2. lines \in LineRows
  BY DEF PurchaseTypeOK
<1>3. HasGoods(lines) => done = Milestones
  BY DEF GoodsInv, GoodsComeAfterApprovalAndSending, HasGoods
<1>4. Behind(order.status) \subseteq done
  BY DEF GoodsInv
<1>5. CASE OrderPurchaseOrder(c)
  <2>1. order \in OrderRow /\ Begin(c, "order", Sent(order), lines, NoParcels)
    BY <1>1, <1>5 DEF OrderPurchaseOrder, Loaded
  <2>2. Sent(order).status = "ORDERED"
    BY <2>1 DEF Sent, TransitionTo, OrderRow
  <2>3. order.status = "APPROVED"
    BY <1>1, <1>5, Transitions DEF OrderPurchaseOrder, Loaded
  <2>4. Behind(Sent(order).status) \ {"order"} \subseteq done
    BY <1>4, <2>2, <2>3
  <2> QED
    BY <1>3, <2>1, <2>4, BeginIsDue
<1>6. CASE CancelPurchaseOrderItems(c)
  <2>1. PICK q \in CancelPurchaseOrderItemsRequest :
            /\ MayCancel(order, lines, q.itemIds)
            /\ Begin(c, "other", AfterCancel(order, lines, q.itemIds),
                     CancelledLines(lines, q.itemIds), NoParcels)
    BY <1>6 DEF CancelPurchaseOrderItems
  <2>2. order \in OrderRow
    BY <1>1, <1>6 DEF CancelPurchaseOrderItems, Loaded
  <2>3. Behind(AfterCancel(order, lines, q.itemIds).status) \subseteq done
    BY <1>4, <2>1, <2>2, CancelStatus
  <2>4. HasGoods(CancelledLines(lines, q.itemIds)) => done = Milestones
    BY <1>2, <1>3, NoNewGoods
  <2> QED
    BY <2>1, <2>3, <2>4, BeginIsDue
<1>7. CASE ClosePurchaseOrder(c)
  <2>1. order \in OrderRow /\ Begin(c, "other", Closed(order), lines, NoParcels)
    BY <1>1, <1>7 DEF ClosePurchaseOrder, Loaded
  <2>2. Closed(order).status = "CLOSED"
    BY <2>1 DEF Closed, TransitionTo, OrderRow
  <2>3. order.status \in {"ORDERED", "PARTIALLY_RECEIVED"}
    BY <1>1, <1>7, Transitions DEF ClosePurchaseOrder, Loaded
  <2>4. Behind(Closed(order).status) \subseteq done
    BY <1>4, <2>2, <2>3
  <2> QED
    BY <1>3, <2>1, <2>4, BeginIsDue
<1>8. CASE RegisterItemReception(c)
  BY <1>8, ReceptionIsDue
<1> QED
  BY <1>5, <1>6, <1>7, <1>8 DEF Fulfilment

\* A statement of a request other than its last one.
LEMMA StatementKeepsDue ==
    ASSUME PurchaseTypeOK, GoodsInv, NEW c \in Clerks, desk[c].at # "idle",
           UNCHANGED crew, done \subseteq done', done' \subseteq Milestones,
           \A d \in Clerks \ {c} : desk'[d] = desk[d],
           /\ desk'[c].op = desk[c].op /\ desk'[c].copy = desk[c].copy
           /\ desk'[c].lines = desk[c].lines /\ desk'[c].parcels = desk[c].parcels
    PROVE  \A d \in Clerks : desk'[d].at # "idle" => RequestIsDue(desk[d])'
<1>1. ASSUME NEW d \in Clerks, desk'[d].at # "idle"
      PROVE  RequestIsDue(desk[d])'
  <2>1. RequestIsDue(desk[d])
    BY <1>1 DEF GoodsInv
  <2>2. /\ desk'[d].op = desk[d].op /\ desk'[d].copy = desk[d].copy
        /\ desk'[d].lines = desk[d].lines /\ desk'[d].parcels = desk[d].parcels
    OBVIOUS
  <2> QED
    BY <2>1, <2>2 DEF RequestIsDue, HasGoods, Brings
<1> QED
  BY <1>1

LEMMA SaveIsDue ==
    ASSUME PurchaseTypeOK, GoodsInv, NEW c \in Clerks, Save(c)
    PROVE  GoodsInv'
<1> USE BehindFacts
<1>1. done \subseteq Milestones /\ desk \in [Clerks -> Request \cup {Idle}]
  BY DEF PurchaseTypeOK
<1>2. HasGoods(lines) \/ Brings(received) => done = Milestones
  BY DEF GoodsInv, GoodsComeAfterApprovalAndSending, HasGoods, Brings
<1>3. ASSUME desk[c].at # "idle"
      PROVE  /\ desk[c] \in Request /\ RequestIsDue(desk[c])
             /\ desk[c].op \in Milestones \cup {"receive", "other"}
             /\ desk[c].copy.status \in Status
  BY <1>3, BusyIsRequest DEF GoodsInv, OrderRow
<1>4. CASE SaveOrderRow(c)
  <2>1. desk[c].at # "idle"
    BY <1>4 DEF SaveOrderRow
  <2>2. UNCHANGED <<crew, lines, received>> /\ done \subseteq done' /\ done' \subseteq Milestones
    BY <1>1, <1>4 DEF SaveOrderRow
  <2>3. /\ \A d \in Clerks \ {c} : desk'[d] = desk[d]
        /\ desk'[c].op = desk[c].op /\ desk'[c].copy = desk[c].copy
        /\ desk'[c].lines = desk[c].lines /\ desk'[c].parcels = desk[c].parcels
    <3>1. desk[c] \in Request
      BY <1>3, <2>1
    <3> QED
      BY <1>1, <1>4, <3>1 DEF SaveOrderRow, Request
  <2>4. Behind(order'.status) \subseteq done'
    <3>1. CASE desk[c].op = "receive"
      BY <1>4, <3>1 DEF SaveOrderRow, GoodsInv
    <3>2. CASE desk[c].op # "receive"
      <4>1. order' = desk[c].copy /\ done' = done \cup ({desk[c].op} \cap Milestones)
        BY <1>4, <3>2 DEF SaveOrderRow
      <4>2. Behind(desk[c].copy.status) \ {desk[c].op} \subseteq done
        BY <1>3, <2>1 DEF RequestIsDue
      <4>3. Behind(desk[c].copy.status) \subseteq Milestones
        BY <1>3, <2>1
      <4> QED
        BY <4>1, <4>2, <4>3
    <3> QED
      BY <3>1, <3>2
  <2> QED
    BY <2>1, <2>2, <2>3, <2>4, StatementKeepsDue DEF GoodsInv, GoodsComeAfterApprovalAndSending
<1>5. CASE DeleteOrphanedItems(c)
  <2>1. /\ desk[c].at # "idle" /\ UNCHANGED <<crew, order, received, done>>
        /\ lines' = [i \in DOMAIN lines \cap DOMAIN desk[c].lines |-> lines[i]]
    BY <1>5 DEF DeleteOrphanedItems
  <2>2. /\ \A d \in Clerks \ {c} : desk'[d] = desk[d]
        /\ desk'[c].op = desk[c].op /\ desk'[c].copy = desk[c].copy
        /\ desk'[c].lines = desk[c].lines /\ desk'[c].parcels = desk[c].parcels
    <3>1. desk[c] \in Request
      BY <1>3, <2>1
    <3> QED
      BY <1>1, <1>5, <3>1 DEF DeleteOrphanedItems, Request
  <2>3. \A d \in Clerks : desk'[d].at # "idle" => RequestIsDue(desk[d])'
    BY <1>1, <2>1, <2>2, StatementKeepsDue
  <2> QED
    BY <2>1, <2>3 DEF GoodsInv, GoodsComeAfterApprovalAndSending
<1>6. CASE UpsertItems(c)
  <2>1. /\ desk[c].at # "idle" /\ UNCHANGED <<crew, order, received, done>>
        /\ lines' = Upserted(desk[c].lines, lines)
    BY <1>6 DEF UpsertItems
  <2>2. /\ \A d \in Clerks \ {c} : desk'[d] = desk[d]
        /\ desk'[c].op = desk[c].op /\ desk'[c].copy = desk[c].copy
        /\ desk'[c].lines = desk[c].lines /\ desk'[c].parcels = desk[c].parcels
    <3>1. desk[c] \in Request
      BY <1>3, <2>1
    <3> QED
      BY <1>1, <1>6, <3>1 DEF UpsertItems, Request
  <2>3. \A d \in Clerks : desk'[d].at # "idle" => RequestIsDue(desk[d])'
    BY <1>1, <2>1, <2>2, StatementKeepsDue
  <2>4. HasGoods(lines') => HasGoods(desk[c].lines) \/ HasGoods(lines)
    <3>1. desk[c].lines \in LineRows /\ lines \in LineRows
      BY <2>1, BusyIsRequest DEF PurchaseTypeOK
    <3> QED
      BY <2>1, <3>1, UpsertLines DEF HasGoods
  <2>5. HasGoods(lines') => done = Milestones
    BY <1>2, <1>3, <2>1, <2>4 DEF RequestIsDue
  <2> QED
    BY <2>1, <2>3, <2>5 DEF GoodsInv, GoodsComeAfterApprovalAndSending, HasGoods
<1>7. CASE Publish(c)
  <2>1. /\ desk[c].at # "idle" /\ UNCHANGED <<crew, lines, done>>
        /\ desk' = [desk EXCEPT ![c] = Idle]
    BY <1>7 DEF Publish
  <2>2. \A d \in Clerks : desk'[d].at # "idle" => desk'[d] = desk[d]
    BY <1>1, <2>1 DEF Idle
  <2>3. \A d \in Clerks : desk'[d].at # "idle" => RequestIsDue(desk[d])'
    BY <2>1, <2>2 DEF GoodsInv, RequestIsDue, HasGoods, Brings
  <2>4. Behind(order'.status) \subseteq done
    <3>1. order' \in {order, desk[c].copy} /\ (order' = desk[c].copy => order' = order \/ desk[c].op = "receive")
      BY <1>7 DEF Publish
    <3> QED
      BY <1>3, <2>1, <3>1 DEF GoodsInv, RequestIsDue
  <2>5. \A i \in crew.lines : received'[i] > 0 => done = Milestones
    <3>1. CASE desk[c].op = "receive"
      <4>1. ASSUME NEW i \in crew.lines, received'[i] > 0
            PROVE  received[i] > 0 \/ desk[c].parcels[i] > 0
        <5>1. received'[i] = received[i] + desk[c].parcels[i]
          BY <1>7, <3>1 DEF Publish
        <5>2. received[i] \in Nat
          BY DEF PurchaseTypeOK
        <5>3. desk[c].parcels[i] \in Nat
          BY <2>1, BusyIsRequest, ParcelsAreNat
        <5> QED
          BY <4>1, <5>1, <5>2, <5>3
      <4>2. Brings(received) \/ Brings(desk[c].parcels) => done = Milestones
        BY <1>2, <1>3, <2>1 DEF RequestIsDue
      <4> QED
        BY <4>1, <4>2 DEF Brings
    <3>2. CASE desk[c].op # "receive"
      BY <1>2, <1>7, <3>2 DEF Publish, Brings
    <3> QED
      BY <3>1, <3>2
  <2> QED
    BY <1>2, <2>1, <2>3, <2>4, <2>5 DEF GoodsInv, GoodsComeAfterApprovalAndSending, HasGoods
<1>8. CASE Abort(c)
  <2>1. desk' = [desk EXCEPT ![c] = Idle] /\ UNCHANGED <<crew, order, lines, received, done>>
    BY <1>8 DEF Abort
  <2>2. \A d \in Clerks : desk'[d].at # "idle" => desk'[d] = desk[d]
    BY <1>1, <2>1 DEF Idle
  <2> QED
    BY <2>1, <2>2 DEF GoodsInv, RequestIsDue, HasGoods, Brings, GoodsComeAfterApprovalAndSending
<1> QED
  BY <1>4, <1>5, <1>6, <1>7, <1>8 DEF Save

LEMMA StepIsDue ==
    ASSUME PurchaseTypeOK, GoodsInv, [PurchaseNext]_purchaseVars
    PROVE  GoodsInv'
<1>1. CASE PurchaseNext
  BY <1>1, CommandIsDue, FulfilmentIsDue, SaveIsDue DEF PurchaseNext
<1>2. CASE UNCHANGED purchaseVars
  BY <1>2 DEF purchaseVars, GoodsInv, RequestIsDue, HasGoods, Brings,
              GoodsComeAfterApprovalAndSending
<1> QED
  BY <1>1, <1>2

\* Whatever commands overlap, fail halfway or are sent again, stock comes into inventory
\* and amounts are recorded on the items only after some request had approved the order
\* and some request had sent it, in the sense of the statuses the code checks.
THEOREM NoGoodsBeforeApproval == PurchaseSpec => []GoodsComeAfterApprovalAndSending
<1>1. PurchaseInit => GoodsInv
  <2> SUFFICES ASSUME PurchaseInit PROVE GoodsInv
    OBVIOUS
  <2>1. order.status = "ABSENT" /\ DOMAIN lines = {}
    BY DEF PurchaseInit, NoOrder
  <2>2. \A c \in Clerks : desk[c].at = "idle"
    BY DEF PurchaseInit, Idle
  <2>3. \A i \in crew.lines : received[i] = 0
    BY DEF PurchaseInit, NoParcels
  <2> QED
    BY <2>1, <2>2, <2>3, BehindFacts DEF GoodsInv, GoodsComeAfterApprovalAndSending
<1>2. GoodsInv => GoodsComeAfterApprovalAndSending
  BY DEF GoodsInv
<1> QED
  BY <1>1, <1>2, StepIsDue, PurchasesTypeCorrect, PTL DEF PurchaseSpec

-----------------------------------------------------------------------------
(* Stock is backed by the order *)

\* The items account for these amounts.
Accounts(ls, amounts) ==
    \A i \in crew.lines : amounts[i] > 0 => i \in DOMAIN ls /\ amounts[i] <= ls[i].got

\* What inventory will have registered when these parcels are.
After(ps) == [i \in crew.lines |-> received[i] + ps[i]]
IsEmpty(amounts) == \A i \in crew.lines : amounts[i] = 0

\* A request at work, the only one: its copy of the items accounts for what it brings, and
\* so does the table once the copy is upserted; its copy is a draft only when there is
\* nothing to account for; a reception that found nothing to write in the row leaves it.
RequestIsBacked(r) ==
    /\ Accounts(IF r.at = "publish" THEN lines ELSE r.lines, After(r.parcels))
    /\ r.copy.status = "DRAFT" => IsEmpty(After(r.parcels))
    /\ r.op = "receive" /\ r.at # "row" /\ ~r.locks => order = r.copy

\* An order that was not sent has no stock.  An update of a draft may therefore drop or
\* replace items, and every later command keeps the amounts.
OnlyOneClerk == \A c, d \in crew.clerks : c = d
StockIsDue ==
    /\ Accounts(lines, received)
    /\ order.status \in {"DRAFT", "ABSENT"} => IsEmpty(received)
    /\ \A c \in crew.clerks : desk[c].at # "idle" => RequestIsBacked(desk[c])
StockInv == ~disturbed => OnlyOneClerk /\ StockIsDue

LEMMA AmountFacts ==
    ASSUME PurchaseTypeOK
    PROVE  /\ After(NoParcels) = received
           /\ \A i \in crew.lines : received[i] \in Nat
           /\ \A ls, amounts : IsEmpty(amounts) => Accounts(ls, amounts)
<1>1. received \in [crew.lines -> 0..MaxStock]
  BY DEF PurchaseTypeOK
<1>2. \A i \in crew.lines : received[i] \in Nat
  BY <1>1
<1>3. \A i \in crew.lines : received[i] + NoParcels[i] = received[i]
  BY <1>2 DEF NoParcels
<1>4. After(NoParcels) = received
  BY <1>1, <1>3 DEF After
<1> QED
  BY <1>2, <1>4 DEF IsEmpty, Accounts

\* Items that keep their amounts account for the same.
LEMMA AccountsKept ==
    ASSUME NEW old, NEW new, NEW amounts, Accounts(old, amounts),
           \A i \in DOMAIN old : i \in DOMAIN new /\ new[i].got = old[i].got
    PROVE  Accounts(new, amounts)
  BY DEF Accounts

\* A request that is begun, by the only clerk.
LEMMA BeginKeepsStock ==
    ASSUME PurchaseTypeOK, OnlyOneClerk, StockIsDue, NEW c \in Clerks, c \in crew.clerks,
           NEW op, NEW copy, NEW ls, NEW ps, Begin(c, op, copy, ls, ps),
           Accounts(ls, After(ps)),
           copy.status = "DRAFT" => IsEmpty(After(ps))
    PROVE  OnlyOneClerk' /\ StockIsDue'
<1>1. UNCHANGED <<crew, order, lines, received>>
  BY DEF Begin
<1>2. desk'[c] = Saving(op, copy, ls, ps)
  BY DEF Begin, PurchaseTypeOK
<1>3. /\ desk'[c].at = "row" /\ desk'[c].copy = copy
      /\ desk'[c].lines = ls /\ desk'[c].parcels = ps
  BY <1>2 DEF Saving
<1>4. RequestIsBacked(desk[c])'
  BY <1>1, <1>3 DEF RequestIsBacked, Accounts, After, IsEmpty
<1>5. \A d \in crew'.clerks : d = c
  BY <1>1 DEF OnlyOneClerk
<1>6. OnlyOneClerk'
  BY <1>1 DEF OnlyOneClerk
<1>7. \A d \in crew'.clerks : desk'[d].at # "idle" => RequestIsBacked(desk[d])'
  BY <1>4, <1>5
<1>8. Accounts(lines, received)' /\ (order.status \in {"DRAFT", "ABSENT"} => IsEmpty(received))'
  BY <1>1 DEF StockIsDue, Accounts, IsEmpty
<1> QED
  BY <1>6, <1>7, <1>8 DEF StockIsDue

\* The commands that bring nothing.
LEMMA BeginWithoutParcels ==
    ASSUME PurchaseTypeOK, OnlyOneClerk, StockIsDue, NEW c \in Clerks, c \in crew.clerks,
           NEW op, NEW copy, NEW ls, Begin(c, op, copy, ls, NoParcels),
           Accounts(ls, received),
           copy.status = "DRAFT" => IsEmpty(received)
    PROVE  OnlyOneClerk' /\ StockIsDue'
  BY AmountFacts, BeginKeepsStock

LEMMA CommandKeepsStock ==
    ASSUME PurchaseTypeOK, OnlyOneClerk, StockIsDue, ~disturbed', NEW c \in Clerks, Command(c)
    PROVE  OnlyOneClerk' /\ StockIsDue'
<1>1. order # NoOrder => order \in OrderRow
  BY DEF PurchaseTypeOK
<1>2. /\ Accounts(lines, received)
      /\ order.status \in {"DRAFT", "ABSENT"} => IsEmpty(received)
  BY DEF StockIsDue
<1>3. CASE CreatePurchaseOrder(c)
  <2>1. PICK q \in CreatePurchaseOrderRequest :
            Begin(c, "other", NewOrder, CreateOrderItems(q.items, q.unit), NoParcels)
    BY <1>3 DEF CreatePurchaseOrder
  <2>2. order = NoOrder /\ c \in crew.clerks
    BY <1>3 DEF CreatePurchaseOrder, Ready
  <2>3. IsEmpty(received)
    BY <1>2, <2>2 DEF NoOrder
  <2> QED
    BY <2>1, <2>2, <2>3, AmountFacts, BeginWithoutParcels
<1>4. CASE UpdatePurchaseOrder(c)
  <2>1. PICK q \in UpdatePurchaseOrderRequest :
            Begin(c, "other", order, SynchronizeItems(lines, q.items, q.unit), NoParcels)
    BY <1>4 DEF UpdatePurchaseOrder
  <2>2. order.status = "DRAFT" /\ c \in crew.clerks
    BY <1>4 DEF UpdatePurchaseOrder, CanBeEdited, Loaded, Ready
  <2>3. IsEmpty(received)
    BY <1>2, <2>2
  <2> QED
    BY <2>1, <2>2, <2>3, AmountFacts, BeginWithoutParcels
<1>5. CASE SubmitForApproval(c)
  <2>1. order \in OrderRow /\ Begin(c, "submit", Submitted(order), lines, NoParcels)
    BY <1>1, <1>5 DEF SubmitForApproval, Loaded
  <2>2. Submitted(order).status = "PENDING_APPROVAL" /\ c \in crew.clerks
    BY <1>5, <2>1 DEF Submitted, TransitionTo, OrderRow, SubmitForApproval, Loaded, Ready
  <2> QED
    BY <1>2, <2>1, <2>2, BeginWithoutParcels
<1>6. CASE ApprovePurchaseOrder(c)
  <2>1. order \in OrderRow /\ Begin(c, "approve", Approved(order), lines, NoParcels)
    BY <1>1, <1>6 DEF ApprovePurchaseOrder, Loaded
  <2>2. Approved(order).status = "APPROVED" /\ c \in crew.clerks
    BY <1>6, <2>1 DEF Approved, TransitionTo, OrderRow, ApprovePurchaseOrder, Loaded, Ready
  <2> QED
    BY <1>2, <2>1, <2>2, BeginWithoutParcels
<1>7. CASE RejectPurchaseOrder(c)
  <2>1. order \in OrderRow /\ Begin(c, "other", Rejected(order), lines, NoParcels)
    BY <1>1, <1>7 DEF RejectPurchaseOrder, Loaded
  <2>2. Rejected(order).status = "REJECTED" /\ c \in crew.clerks
    BY <1>7, <2>1 DEF Rejected, TransitionTo, OrderRow, RejectPurchaseOrder, Loaded, Ready
  <2> QED
    BY <1>2, <2>1, <2>2, BeginWithoutParcels
<1> QED
  BY <1>3, <1>4, <1>5, <1>6, <1>7 DEF Command

\* What is received of an item is added to what the item says.
LEMMA ReceivedLinesAccount ==
    ASSUME PurchaseTypeOK, NEW ls \in LineRows, NEW ps \in [crew.lines -> Shipped \cup {0}],
           NEW u, MayReceive(ls, ps, u), Accounts(ls, received)
    PROVE  Accounts(AfterReception(ls, ps, u), After(ps))
<1> SUFFICES ASSUME NEW i \in crew.lines, After(ps)[i] > 0
             PROVE  /\ i \in DOMAIN AfterReception(ls, ps, u)
                    /\ After(ps)[i] <= AfterReception(ls, ps, u)[i].got
  BY DEF Accounts
<1>1. received[i] \in Nat /\ ps[i] \in Nat /\ After(ps)[i] = received[i] + ps[i]
  BY AmountFacts, ParcelsAreNat DEF After
<1>2. i \in DOMAIN ls
  <2>1. CASE ps[i] > 0
    BY <2>1 DEF MayReceive
  <2>2. CASE ~(ps[i] > 0)
    BY <1>1, <2>2 DEF Accounts
  <2> QED
    BY <2>1, <2>2
<1>3. ls[i] \in LineRow /\ ls[i].got \in Nat
  <2>1. ls[i] \in LineRow
    BY <1>2, LineRowsElim
  <2> QED
    BY <2>1 DEF LineRow
<1>4. received[i] <= ls[i].got
  <2>1. CASE received[i] > 0
    BY <2>1 DEF Accounts
  <2>2. CASE ~(received[i] > 0)
    BY <1>1, <1>3, <2>2
  <2> QED
    BY <2>1, <2>2
<1>5. AfterReception(ls, ps, u)[i].got = ls[i].got + ps[i]
  <2>1. AfterReception(ls, ps, u)[i]
            = IF ps[i] > 0 THEN [ls[i] EXCEPT !.got = @ + ps[i], !.gotUnit = u] ELSE ls[i]
    BY <1>2 DEF AfterReception
  <2>2. CASE ps[i] > 0
    BY <1>3, <2>1, <2>2 DEF LineRow
  <2>3. CASE ~(ps[i] > 0)
    BY <1>1, <1>3, <2>1, <2>3
  <2> QED
    BY <2>2, <2>3
<1>6. i \in DOMAIN AfterReception(ls, ps, u)
  BY <1>2 DEF AfterReception
<1> QED
  BY <1>1, <1>3, <1>4, <1>5, <1>6

LEMMA ReceptionKeepsStock ==
    ASSUME PurchaseTypeOK, OnlyOneClerk, StockIsDue, NEW c \in Clerks, RegisterItemReception(c)
    PROVE  OnlyOneClerk' /\ StockIsDue'
<1>1. order \in OrderRow /\ lines \in LineRows /\ c \in crew.clerks
  BY DEF PurchaseTypeOK, RegisterItemReception, Loaded, Ready
<1>2. PICK q \in ReceivePurchaseOrderRequest :
        /\ MayCancel(order, lines, q.notReceived)
        /\ MayReceive(LinesKept(q), q.parcels, q.unit)
        /\ StatusOfReception(q) # "refused"
        /\ Begin(c, "receive",
                 [status |-> StatusOfReception(q),
                  receivedDate |-> RowOfReception(q).receivedDate \/ IsBatch(q)],
                 LinesReceived(q), q.parcels)
  BY DEF RegisterItemReception, ItemReceivedEvents
<1>3. q.closeOrder \in BOOLEAN /\ q.parcels \in [crew.lines -> Shipped \cup {0}]
  BY DEF ReceivePurchaseOrderRequest
<1>4. Accounts(LinesReceived(q), After(q.parcels))
  <2>1. LinesKept(q) \in LineRows /\ Accounts(LinesKept(q), received)
    <3>1. /\ LinesKept(q) \in LineRows
          /\ \A i \in DOMAIN lines : i \in DOMAIN LinesKept(q)
                                     /\ LinesKept(q)[i].got = lines[i].got
      BY <1>1, CancelledLinesType DEF LinesKept
    <3> QED
      BY <3>1, AccountsKept DEF StockIsDue
  <2> QED
    BY <1>2, <1>3, <2>1, ReceivedLinesAccount DEF LinesReceived
<1>5. StatusOfReception(q) = "DRAFT" => IsEmpty(After(q.parcels))
  <2> SUFFICES ASSUME StatusOfReception(q) = "DRAFT" PROVE IsEmpty(After(q.parcels))
    OBVIOUS
  <2>1. ~IsBatch(q)
    BY DEF StatusOfReception, StatusAfterReception
  <2>2. RowOfReception(q).status = "DRAFT"
    BY <1>3, <2>1 DEF StatusOfReception
  <2>3. order.status = "DRAFT"
    BY <1>1, <1>2, <2>2, CancelStatus DEF RowOfReception
  <2>4. \A i \in crew.lines : received[i] = 0 /\ q.parcels[i] = 0
    BY <1>3, <2>1, <2>3, ParcelsAreNat DEF StockIsDue, IsEmpty, IsBatch
  <2> QED
    BY <2>4 DEF IsEmpty, After
<1> QED
  BY <1>1, <1>2, <1>4, <1>5, BeginKeepsStock

LEMMA FulfilmentKeepsStock ==
    ASSUME PurchaseTypeOK, OnlyOneClerk, StockIsDue, NEW c \in Clerks, Fulfilment(c)
    PROVE  OnlyOneClerk' /\ StockIsDue'
<1>1. order # NoOrder => order \in OrderRow
  BY DEF PurchaseTypeOK
<1>2. /\ Accounts(lines, received) /\ lines \in LineRows
      /\ order.status \in {"DRAFT", "ABSENT"} => IsEmpty(received)
  BY DEF StockIsDue, PurchaseTypeOK
<1>3. CASE OrderPurchaseOrder(c)
  <2>1. order \in OrderRow /\ Begin(c, "order", Sent(order), lines, NoParcels)
    BY <1>1, <1>3 DEF OrderPurchaseOrder, Loaded
  <2>2. Sent(order).status = "ORDERED" /\ c \in crew.clerks
    BY <1>3, <2>1 DEF Sent, TransitionTo, OrderRow, OrderPurchaseOrder, Loaded, Ready
  <2> QED
    BY <1>2, <2>1, <2>2, BeginWithoutParcels
<1>4. CASE CancelPurchaseOrderItems(c)
  <2>1. PICK q \in CancelPurchaseOrderItemsRequest :
            /\ MayCancel(order, lines, q.itemIds)
            /\ Begin(c, "other", AfterCancel(order, lines, q.itemIds),
                     CancelledLines(lines, q.itemIds), NoParcels)
    BY <1>4 DEF CancelPurchaseOrderItems
  <2>2. order \in OrderRow /\ c \in crew.clerks
    BY <1>1, <1>4 DEF CancelPurchaseOrderItems, Loaded, Ready
  <2>3. AfterCancel(order, lines, q.itemIds).status = "DRAFT" => IsEmpty(received)
    BY <1>2, <2>1, <2>2, CancelStatus
  <2>4. Accounts(CancelledLines(lines, q.itemIds), received)
    <3>1. \A i \in DOMAIN lines : i \in DOMAIN CancelledLines(lines, q.itemIds)
                                  /\ CancelledLines(lines, q.itemIds)[i].got = lines[i].got
      BY <1>2, CancelledLinesType
    <3> QED
      BY <1>2, <3>1, AccountsKept
  <2> QED
    BY <2>1, <2>2, <2>3, <2>4, BeginWithoutParcels
<1>5. CASE ClosePurchaseOrder(c)
  <2>1. order \in OrderRow /\ Begin(c, "other", Closed(order), lines, NoParcels)
    BY <1>1, <1>5 DEF ClosePurchaseOrder, Loaded
  <2>2. Closed(order).status = "CLOSED" /\ c \in crew.clerks
    BY <1>5, <2>1 DEF Closed, TransitionTo, OrderRow, ClosePurchaseOrder, Loaded, Ready
  <2> QED
    BY <1>2, <2>1, <2>2, BeginWithoutParcels
<1>6. CASE RegisterItemReception(c)
  BY <1>6, ReceptionKeepsStock
<1> QED
  BY <1>3, <1>4, <1>5, <1>6 DEF Fulfilment

LEMMA SaveKeepsStock ==
    ASSUME PurchaseTypeOK, OnlyOneClerk, StockIsDue, NEW c \in Clerks, Save(c)
    PROVE  OnlyOneClerk' /\ StockIsDue'
<1> DEFINE r == desk[c]
<1>1. c \in crew.clerks /\ desk[c].at # "idle" /\ crew' = crew
  BY DEF Save, SaveOrderRow, DeleteOrphanedItems, UpsertItems, Publish, Abort
<1>2. /\ \A d \in crew'.clerks : d = c
      /\ OnlyOneClerk'
  BY <1>1 DEF OnlyOneClerk
<1>3. /\ desk[c] \in Request /\ RequestIsBacked(desk[c])
      /\ desk[c].copy.status \in Status
      /\ desk[c].lines \in LineRows /\ lines \in LineRows
      /\ desk \in [Clerks -> Request \cup {Idle}]
      /\ \A i \in crew.lines : desk[c].parcels[i] \in Nat /\ received[i] \in Nat
  BY <1>1, BusyIsRequest, AmountFacts, ParcelsAreNat DEF StockIsDue, PurchaseTypeOK, OrderRow
<1>4. /\ Accounts(lines, received)
      /\ order.status \in {"DRAFT", "ABSENT"} => IsEmpty(received)
  BY DEF StockIsDue
<1>5. After(desk[c].parcels) = [i \in crew.lines |-> received[i] + desk[c].parcels[i]]
  BY DEF After
<1>6. CASE SaveOrderRow(c)
  <2>1. UNCHANGED <<crew, lines, received>> /\ desk[c].at = "row"
    BY <1>6 DEF SaveOrderRow
  <2>2. /\ desk'[c].op = desk[c].op /\ desk'[c].copy = desk[c].copy
        /\ desk'[c].lines = desk[c].lines /\ desk'[c].parcels = desk[c].parcels
        /\ desk'[c].at \in {"items", "orphans"}
        /\ desk'[c].locks = (desk[c].op = "receive" /\ desk[c].copy # order)
    BY <1>3, <1>6 DEF SaveOrderRow, Request
  <2>3. desk[c].op = "receive" => order' = order
    BY <1>6 DEF SaveOrderRow
  <2>4. desk[c].op # "receive" => order' = desk[c].copy
    BY <1>6 DEF SaveOrderRow
  <2>5. RequestIsBacked(desk[c])'
    <3>1. desk[c].op = "receive" /\ ~desk'[c].locks => order' = desk'[c].copy
      BY <2>2, <2>3
    <3>2. After(desk[c].parcels)' = After(desk[c].parcels)
      BY <2>1, <2>2 DEF After
    <3> QED
      BY <1>3, <2>1, <2>2, <3>1, <3>2 DEF RequestIsBacked, Accounts, IsEmpty
  <2>6. order'.status \in {"DRAFT", "ABSENT"} => IsEmpty(received)
    <3>1. CASE desk[c].op = "receive"
      BY <1>4, <2>3, <3>1
    <3>2. CASE desk[c].op # "receive"
      <4>1. order'.status = "ABSENT" => FALSE
        BY <1>3, <2>4, <3>2 DEF Status
      <4>2. order'.status = "DRAFT" => IsEmpty(After(desk[c].parcels))
        BY <1>3, <2>4, <3>2 DEF RequestIsBacked
      <4>3. IsEmpty(After(desk[c].parcels)) => IsEmpty(received)
        <5>1. \A i \in crew.lines : After(desk[c].parcels)[i] = 0 => received[i] = 0
          BY <1>3 DEF After
        <5> QED
          BY <5>1 DEF IsEmpty
      <4> QED
        BY <4>1, <4>2, <4>3
    <3> QED
      BY <3>1, <3>2
  <2> QED
    BY <1>2, <1>4, <2>1, <2>5, <2>6 DEF StockIsDue, Accounts, IsEmpty
<1>7. CASE DeleteOrphanedItems(c)
  <2>1. /\ UNCHANGED <<crew, order, received>> /\ desk[c].at = "orphans"
        /\ lines' = [i \in DOMAIN lines \cap DOMAIN desk[c].lines |-> lines[i]]
    BY <1>7 DEF DeleteOrphanedItems
  <2>2. /\ desk'[c].op = desk[c].op /\ desk'[c].copy = desk[c].copy
        /\ desk'[c].lines = desk[c].lines /\ desk'[c].parcels = desk[c].parcels
        /\ desk'[c].at = "items" /\ desk'[c].locks = desk[c].locks
    BY <1>3, <1>7 DEF DeleteOrphanedItems, Request
  <2>3. RequestIsBacked(desk[c])'
    <3>1. After(desk[c].parcels)' = After(desk[c].parcels)
      BY <2>1, <2>2 DEF After
    <3> QED
      BY <1>3, <2>1, <2>2, <3>1 DEF RequestIsBacked, Accounts, IsEmpty
  <2>4. Accounts(lines', received)
    <3> SUFFICES ASSUME NEW i \in crew.lines, received[i] > 0
                 PROVE  i \in DOMAIN lines' /\ received[i] <= lines'[i].got
      BY DEF Accounts
    <3>1. i \in DOMAIN lines /\ received[i] <= lines[i].got
      BY <1>4 DEF Accounts
    <3>2. After(desk[c].parcels)[i] > 0
      BY <1>3, <1>5
    <3>3. i \in DOMAIN desk[c].lines
      BY <1>3, <2>1, <3>2 DEF RequestIsBacked, Accounts
    <3> QED
      BY <2>1, <3>1, <3>3
  <2> QED
    BY <1>2, <1>4, <2>1, <2>3, <2>4 DEF StockIsDue, Accounts, IsEmpty
<1>8. CASE UpsertItems(c)
  <2>1. /\ UNCHANGED <<crew, order, received>> /\ desk[c].at = "items"
        /\ lines' = Upserted(desk[c].lines, lines)
    BY <1>8 DEF UpsertItems
  <2>2. /\ desk'[c].op = desk[c].op /\ desk'[c].copy = desk[c].copy
        /\ desk'[c].lines = desk[c].lines /\ desk'[c].parcels = desk[c].parcels
        /\ desk'[c].at = "publish" /\ desk'[c].locks = desk[c].locks
    BY <1>3, <1>8 DEF UpsertItems, Request
  <2>3. Accounts(lines', After(desk[c].parcels))
    <3>1. Accounts(desk[c].lines, After(desk[c].parcels))
      BY <1>3, <2>1 DEF RequestIsBacked
    <3>2. \A i \in DOMAIN desk[c].lines :
              i \in DOMAIN lines' /\ lines'[i].got = desk[c].lines[i].got
      BY <2>1 DEF Upserted
    <3> QED
      BY <3>1, <3>2, AccountsKept
  <2>4. RequestIsBacked(desk[c])'
    <3>1. After(desk[c].parcels)' = After(desk[c].parcels)
      BY <2>1, <2>2 DEF After
    <3> QED
      BY <1>3, <2>1, <2>2, <2>3, <3>1 DEF RequestIsBacked, Accounts, IsEmpty
  <2>5. Accounts(lines', received)
    <3> SUFFICES ASSUME NEW i \in crew.lines, received[i] > 0
                 PROVE  i \in DOMAIN lines' /\ received[i] <= lines'[i].got
      BY DEF Accounts
    <3>1. After(desk[c].parcels)[i] \in Nat /\ After(desk[c].parcels)[i] >= received[i]
      BY <1>3, <1>5
    <3>2. i \in DOMAIN lines' /\ After(desk[c].parcels)[i] <= lines'[i].got
      BY <1>3, <2>3, <3>1 DEF Accounts
    <3>3. lines'[i].got \in Nat
      <4>1. lines' \in LineRows
        BY <1>3, <2>1, UpsertLines
      <4>2. lines'[i] \in LineRow
        BY <2>1, <3>2, <4>1, LineRowsElim
      <4> QED
        BY <4>2 DEF LineRow
    <3> QED
      BY <1>3, <3>1, <3>2, <3>3
  <2> QED
    BY <1>2, <1>4, <2>1, <2>4, <2>5 DEF StockIsDue, Accounts, IsEmpty
<1>9. CASE Publish(c)
  <2>1. UNCHANGED <<crew, lines>> /\ desk[c].at = "publish" /\ desk'[c] = Idle
    BY <1>3, <1>9 DEF Publish
  <2>2. \A d \in crew'.clerks : desk'[d].at = "idle"
    BY <1>2, <2>1 DEF Idle
  <2>3. CASE desk[c].op # "receive"
    <3>1. UNCHANGED <<order, received>>
      BY <1>9, <2>3 DEF Publish
    <3> QED
      BY <1>2, <1>4, <2>1, <2>2, <3>1 DEF StockIsDue, Accounts, IsEmpty
  <2>4. CASE desk[c].op = "receive"
    <3>1. received' = After(desk[c].parcels)
      BY <1>5, <1>9, <2>4 DEF Publish
    <3>2. order' = desk[c].copy
      BY <1>3, <1>9, <2>1, <2>4 DEF Publish, RequestIsBacked
    <3>3. order'.status \in {"DRAFT", "ABSENT"} => IsEmpty(After(desk[c].parcels))
      BY <1>3, <3>2 DEF RequestIsBacked, Status
    <3>4. Accounts(lines, After(desk[c].parcels))
      BY <1>3, <2>1 DEF RequestIsBacked
    <3> QED
      BY <1>2, <2>1, <2>2, <3>1, <3>3, <3>4 DEF StockIsDue, Accounts, IsEmpty
  <2> QED
    BY <2>3, <2>4
<1>10. CASE Abort(c)
  <2>1. UNCHANGED <<crew, order, lines, received>> /\ desk'[c] = Idle
    BY <1>3, <1>10 DEF Abort
  <2>2. \A d \in crew'.clerks : desk'[d].at = "idle"
    BY <1>2, <2>1 DEF Idle
  <2> QED
    BY <1>2, <1>4, <2>1, <2>2 DEF StockIsDue, Accounts, IsEmpty
<1> QED
  BY <1>6, <1>7, <1>8, <1>9, <1>10 DEF Save

LEMMA StepKeepsStock ==
    ASSUME PurchaseTypeOK, StockInv, [PurchaseNext]_purchaseVars
    PROVE  StockInv'
<1> SUFFICES ASSUME ~disturbed' PROVE OnlyOneClerk' /\ StockIsDue'
  BY DEF StockInv
<1>1. CASE PurchaseNext
  <2>1. PICK c \in Clerks : Command(c) \/ Fulfilment(c) \/ Save(c)
    BY <1>1 DEF PurchaseNext
  <2>2. ~disturbed
    BY <2>1 DEF PurchaseTypeOK, Command, CreatePurchaseOrder, UpdatePurchaseOrder,
         SubmitForApproval, ApprovePurchaseOrder, RejectPurchaseOrder, Fulfilment,
         OrderPurchaseOrder, CancelPurchaseOrderItems, ClosePurchaseOrder,
         RegisterItemReception, Save, SaveOrderRow, DeleteOrphanedItems, UpsertItems, Publish,
         Abort
  <2> QED
    BY <2>1, <2>2, CommandKeepsStock, FulfilmentKeepsStock, SaveKeepsStock DEF StockInv
<1>2. CASE UNCHANGED purchaseVars
  BY <1>2 DEF purchaseVars, StockInv, OnlyOneClerk, StockIsDue, RequestIsBacked, Accounts,
              After, IsEmpty
<1> QED
  BY <1>1, <1>2

\* With one request at a time and no creation sent twice, inventory never holds more of an
\* item than the order says was received of it: whichever of the statements of a request
\* fails, and although the items are written outside the transaction of the reception.
THEOREM StockIsBacked == PurchaseSpec => []StockIsBackedByTheOrder
<1>1. PurchaseInit => StockInv
  <2> SUFFICES ASSUME PurchaseInit, ~disturbed PROVE OnlyOneClerk /\ StockIsDue
    BY DEF StockInv
  <2>1. OnlyOneClerk
    BY DEF PurchaseInit, OnlyOneClerk
  <2>2. \A i \in crew.lines : received[i] = 0
    BY DEF PurchaseInit, NoParcels
  <2>3. \A c \in crew.clerks : desk[c].at = "idle"
    BY PurchaseAssumption DEF PurchaseInit, Idle
  <2> QED
    BY <2>1, <2>2, <2>3 DEF StockIsDue, Accounts, IsEmpty
<1>2. StockInv => StockIsBackedByTheOrder
  BY DEF StockInv, StockIsDue, Accounts, StockIsBackedByTheOrder
<1> QED
  BY <1>1, <1>2, StepKeepsStock, PurchasesTypeCorrect, PTL DEF PurchaseSpec

-------------------------------------------------------------------------------
(* Kitchen transformations: module Transformations. *)

(* The invariant *)

\* The statements of a transformation that needs the ingredients of N.
Takes(N) == {[do |-> "take", of |-> rows, good |-> g] : rows \in {"batches", "stored"}, g \in N}
Produces == [do |-> "produce", of |-> "batches", good |-> Prepared]
Puts == [do |-> "put", of |-> "stored", good |-> Prepared]
Records == [do |-> "record", of |-> "batches", good |-> Prepared]
StatementsOf(N) == Takes({Base} \cup N) \cup {Produces, Puts, Records}

\* The requests that have a transaction.
Opened == {"work", "waits", "commit", "rollback"}

\* Committed rows are what transformations that succeeded made of the first ones.
CommittedRows ==
    /\ needs \subseteq Additionals
    /\ batches \in [Goods -> Int] /\ stored \in [Goods -> Int] /\ effect \in [Goods -> Int]
    /\ TransformationsAreAtomic
    /\ announced \subseteq registered

RecipeStatements == [do : {"row", "delete"}] \cup [do : {"insert"}, items : SUBSET Additionals]

IsRequest(x) ==
    x \in [at : Opened \cup {"ready", "committed"}, q : RegisterTransformationRequest,
           extras : SUBSET Additionals,
           seen : Int, todo : Seq(StatementsOf(x.extras))]

\* What a client's request knows: a recipe's, or a transformation's.
IsTransformation(x) ==
    /\ IsRequest(x)
    /\ IsInjective(x.todo)
    /\ x.at = "ready" => Range(x.todo) = StatementsOf(x.extras)
    /\ x.at = "commit" => x.todo = << >>
    /\ x.at = "waits" => x.todo # << >>
    /\ x.at = "committed" => x.q.id \in registered

RequestIs(k) ==
    \/ kitchen[k] = NoTransformation
    \/ kitchen[k] \in [at : {"recipe"}, todo : Seq(RecipeStatements) \ {<< >>}]
    \/ IsTransformation(kitchen[k])

\* One request at a time has a transaction; the manager is that one's.
OneManager ==
    /\ DOMAIN kitchen = Kitchens /\ DOMAIN tx = Kitchens
    /\ pending \in [Kitchens -> Kitchens \cup {Nobody}]
    /\ \A k \in Kitchens : tx[k].open <=> kitchen[k].at \in Opened
    /\ \A j, k \in Kitchens : kitchen[j].at \in Opened /\ kitchen[k].at \in Opened => j = k
    /\ \A k \in Kitchens : kitchen[k].at \in {"work", "waits"} => manager = k
    /\ \A t \in Kitchens : pending[t] # Nobody => pending[t] = t /\ kitchen[t].at = "waits"

IsTx(x) ==
    \E o, b, s, m, r : x = [open |-> o, batches |-> b, stored |-> s, made |-> m, records |-> r]

\* What the transaction x of request y wrote, over the committed rows c of batches and
\* levels, is what those of its statements that were run say.
Wrote(x, y, c) ==
    LET left == Range(y.todo)
        taken == {Base} \cup y.extras IN
    /\ IsTx(x)
    /\ DOMAIN x.batches
         = {g \in taken : [do |-> "take", of |-> "batches", good |-> g] \notin left}
    /\ DOMAIN x.stored
         = {g \in taken : [do |-> "take", of |-> "stored", good |-> g] \notin left}
              \cup {g \in {Prepared} : Puts \notin left}
    /\ \A g \in DOMAIN x.batches : x.batches[g] = c[g] - y.q.input
    /\ \A g \in DOMAIN x.stored :
          x.stored[g] = IF g = Prepared THEN c[g] + y.q.output ELSE c[g] - y.q.input
    /\ x.made = IF Produces \in left THEN 0 ELSE y.q.output
    /\ x.records = IF Records \in left THEN {} ELSE {y.q.id}

\* The row a waiting statement writes was read as the transaction sees it.
ReadBefore(k) ==
    kitchen[k].at = "waits" =>
        kitchen[k].seen = SeenIn(k, Head(kitchen[k].todo).of, Head(kitchen[k].todo).good)

WorkInv(k) ==
    /\ RequestIs(k)
    /\ ReadBefore(k)
    /\ kitchen[k].at \in {"work", "waits", "commit"} => Wrote(tx[k], kitchen[k], batches)

WholeInv == CommittedRows /\ OneManager /\ \A k \in Kitchens : WorkInv(k)

TransformationsInv == ~mixed => WholeInv

-----------------------------------------------------------------------------
(* Programs *)

LEMMA GoodsDiffer ==
    ASSUME NEW N \in SUBSET Additionals
    PROVE  /\ Base \in Goods /\ Prepared \in Goods /\ N \subseteq Goods
           /\ Prepared \notin {Base} \cup N /\ Base \notin N
BY TransformationsAssumption DEF Goods

\* What is left of a program when its first statement was run.
LEMMA TailOfDistinct ==
    ASSUME NEW X, NEW s \in Seq(X), IsInjective(s), s # << >>
    PROVE  /\ Head(s) \in X /\ Head(s) \in Range(s)
           /\ Tail(s) \in Seq(X) /\ IsInjective(Tail(s))
           /\ Range(Tail(s)) = Range(s) \ {Head(s)}
<1>1. /\ Len(s) \in Nat \ {0} /\ DOMAIN s = 1 .. Len(s) /\ Head(s) = s[1]
      /\ Tail(s) \in Seq(X) /\ Head(s) \in X
      /\ DOMAIN Tail(s) = 1 .. (Len(s) - 1)
      /\ \A i \in 1 .. (Len(s) - 1) : Tail(s)[i] = s[i + 1]
  OBVIOUS
<1>2. Head(s) \in Range(s)
  BY <1>1 DEF Range
<1>3. IsInjective(Tail(s))
  <2> SUFFICES ASSUME NEW i \in 1 .. (Len(s) - 1), NEW j \in 1 .. (Len(s) - 1),
                      Tail(s)[i] = Tail(s)[j]
               PROVE  i = j
    BY <1>1 DEF IsInjective
  <2>1. i + 1 \in 1 .. Len(s) /\ j + 1 \in 1 .. Len(s) /\ s[i + 1] = s[j + 1]
    BY <1>1
  <2>2. i + 1 = j + 1
    BY <1>1, <2>1 DEF IsInjective
  <2> QED
    BY <2>2
<1>4. ASSUME NEW y \in Range(Tail(s))
      PROVE  y \in Range(s) \ {Head(s)}
  <2>1. PICK i \in 1 .. (Len(s) - 1) : y = s[i + 1]
    BY <1>1 DEF Range
  <2>2. i + 1 \in 1 .. Len(s) /\ 1 \in 1 .. Len(s) /\ i + 1 # 1
    BY <1>1
  <2>3. s[i + 1] # s[1]
    BY <1>1, <2>2 DEF IsInjective
  <2> QED
    BY <1>1, <2>1, <2>2, <2>3 DEF Range
<1>5. ASSUME NEW y \in Range(s) \ {Head(s)}
      PROVE  y \in Range(Tail(s))
  <2>1. PICK i \in 1 .. Len(s) : y = s[i]
    BY <1>1 DEF Range
  <2>2. i # 1
    BY <1>1, <2>1
  <2>3. i - 1 \in 1 .. (Len(s) - 1) /\ (i - 1) + 1 = i
    BY <1>1, <2>2
  <2>4. Tail(s)[i - 1] = y
    BY <1>1, <2>1, <2>3
  <2> QED
    BY <1>1, <2>3, <2>4 DEF Range
<1> QED
  BY <1>1, <1>2, <1>3, <1>4, <1>5

LEMMA TailOfLonger ==
    ASSUME NEW X, NEW s \in Seq(X), s # << >>, Len(s) # 1
    PROVE  Tail(s) \in Seq(X) /\ Tail(s) # << >>
<1>1. Len(s) \in Nat \ {0}
  OBVIOUS
<1>2. Tail(s) \in Seq(X) /\ Len(Tail(s)) = Len(s) - 1
  BY <1>1
<1> QED
  BY <1>1, <1>2

LEMMA ConcatOfDistinct ==
    ASSUME NEW X, NEW s \in Seq(X), NEW t \in Seq(X), IsInjective(s), IsInjective(t),
           Range(s) \cap Range(t) = {}
    PROVE  /\ s \o t \in Seq(X) /\ IsInjective(s \o t)
           /\ Range(s \o t) = Range(s) \cup Range(t)
<1>1. /\ Len(s) \in Nat /\ DOMAIN s = 1 .. Len(s) /\ Len(t) \in Nat /\ DOMAIN t = 1 .. Len(t)
      /\ s \o t \in Seq(X) /\ DOMAIN (s \o t) = 1 .. (Len(s) + Len(t))
      /\ \A k \in 1 .. (Len(s) + Len(t)) :
            (s \o t)[k] = IF k <= Len(s) THEN s[k] ELSE t[k - Len(s)]
  OBVIOUS
<1>2. ASSUME NEW k \in 1 .. (Len(s) + Len(t))
      PROVE  \/ k \in 1 .. Len(s) /\ (s \o t)[k] = s[k]
             \/ k > Len(s) /\ k - Len(s) \in 1 .. Len(t) /\ (s \o t)[k] = t[k - Len(s)]
  BY <1>1
<1>3. \A a \in 1 .. Len(s), b \in 1 .. Len(t) : s[a] # t[b]
  BY <1>1 DEF Range
<1>4. IsInjective(s \o t)
  <2> SUFFICES ASSUME NEW i \in 1 .. (Len(s) + Len(t)), NEW j \in 1 .. (Len(s) + Len(t)),
                      (s \o t)[i] = (s \o t)[j]
               PROVE  i = j
    BY <1>1 DEF IsInjective
  <2>1. CASE i \in 1 .. Len(s) /\ j \in 1 .. Len(s)
    BY <1>1, <2>1 DEF IsInjective
  <2>2. CASE i > Len(s) /\ j > Len(s)
    <3>1. i - Len(s) \in 1 .. Len(t) /\ j - Len(s) \in 1 .. Len(t)
      BY <1>1, <2>2
    <3>2. t[i - Len(s)] = t[j - Len(s)]
      BY <1>1, <2>2
    <3>3. i - Len(s) = j - Len(s)
      BY <1>1, <3>1, <3>2 DEF IsInjective
    <3> QED
      BY <1>1, <3>3
  <2> QED
    BY <1>1, <1>2, <1>3, <2>1, <2>2
<1>5. ASSUME NEW y \in Range(s \o t)
      PROVE  y \in Range(s) \cup Range(t)
  <2>1. PICK k \in 1 .. (Len(s) + Len(t)) : y = (s \o t)[k]
    BY <1>1 DEF Range
  <2> QED
    BY <1>1, <1>2, <2>1 DEF Range
<1>6. ASSUME NEW y \in Range(s) \cup Range(t)
      PROVE  y \in Range(s \o t)
  <2>1. CASE y \in Range(s)
    <3>1. PICK k \in 1 .. Len(s) : y = s[k]
      BY <1>1, <2>1 DEF Range
    <3>2. k \in 1 .. (Len(s) + Len(t)) /\ (s \o t)[k] = y
      BY <1>1, <3>1
    <3> QED
      BY <1>1, <3>2 DEF Range
  <2>2. CASE y \in Range(t)
    <3>1. PICK k \in 1 .. Len(t) : y = t[k]
      BY <1>1, <2>2 DEF Range
    <3>2. /\ Len(s) + k \in 1 .. (Len(s) + Len(t)) /\ ~ (Len(s) + k <= Len(s))
          /\ (Len(s) + k) - Len(s) = k
      BY <1>1
    <3>3. (s \o t)[Len(s) + k] = y
      BY <1>1, <3>1, <3>2
    <3> QED
      BY <1>1, <3>2, <3>3 DEF Range
  <2> QED
    BY <1>6, <2>1, <2>2
<1> QED
  BY <1>1, <1>4, <1>5, <1>6

\* The sequence s of members of X has each member of R once.
Lists(s, X, R) == s \in Seq(X) /\ IsInjective(s) /\ Range(s) = R

LEMMA ListsJoin ==
    ASSUME NEW X, NEW s, NEW t, NEW R, NEW Q, Lists(s, X, R), Lists(t, X, Q), R \cap Q = {}
    PROVE  Lists(s \o t, X, R \cup Q)
<1>1. /\ s \in Seq(X) /\ t \in Seq(X) /\ IsInjective(s) /\ IsInjective(t)
      /\ Range(s) \cap Range(t) = {} /\ Range(s) = R /\ Range(t) = Q
  BY DEF Lists
<1>2. s \o t \in Seq(X) /\ IsInjective(s \o t) /\ Range(s \o t) = Range(s) \cup Range(t)
  BY <1>1, ConcatOfDistinct
<1> QED
  BY <1>1, <1>2 DEF Lists

\* deductIngredient takes from the batches and from the level.
LEMMA DeductIngredientTakes ==
    ASSUME NEW g
    PROVE  /\ DeductIngredient(g) \in Seq(Takes({g})) /\ IsInjective(DeductIngredient(g))
           /\ Range(DeductIngredient(g)) = Takes({g})
<1> DEFINE a == [do |-> "take", of |-> "batches", good |-> g]
           b == [do |-> "take", of |-> "stored", good |-> g]
<1>1. a # b
  OBVIOUS
<1>2. DeductIngredient(g) = << a, b >>
  BY DEF DeductIngredient
<1>3. Takes({g}) = {a, b}
  BY DEF Takes
<1> HIDE DEF a, b
<1>4. << a, b >> \in Seq({a, b}) /\ DOMAIN << a, b >> = {1, 2}
  OBVIOUS
<1>5. IsInjective(<< a, b >>) /\ Range(<< a, b >>) = {a, b}
  BY <1>1, <1>4 DEF IsInjective, Range
<1> QED
  BY <1>2, <1>3, <1>4, <1>5

LEMMA TakesOfUnion == \A M, N : Takes(M \cup N) = Takes(M) \cup Takes(N)
BY DEF Takes

LEMMA TakesOfSubset == \A M, N : M \subseteq N => Takes(M) \subseteq Takes(N)
BY DEF Takes

LEMMA TakesOfOthers ==
    ASSUME NEW M, NEW N, M \cap N = {}
    PROVE  Takes(M) \cap Takes(N) = {}
<1> SUFFICES ASSUME NEW s \in Takes(M), s \in Takes(N) PROVE FALSE
  OBVIOUS
<1>1. s.good \in M /\ s.good \in N
  BY DEF Takes
<1> QED
  BY <1>1

\* The additional ingredients, one after the other.
LEMMA AdditionalsAreTaken ==
    ASSUME NEW N, NEW m \in Nat, NEW extras \in [1 .. m -> N], IsInjective(extras)
    PROVE  LET s == FlattenSeq([i \in DOMAIN extras |-> DeductIngredient(extras[i])])
           IN  s \in Seq(Takes(N)) /\ IsInjective(s) /\ Range(s) = Takes(Range(extras))
<1> DEFINE D == [i \in DOMAIN extras |-> DeductIngredient(extras[i])]
           Upto(n) == {extras[i] : i \in 1 .. n}
           Good(n) == /\ FlatUpTo(D, n) \in Seq(Takes(N)) /\ IsInjective(FlatUpTo(D, n))
                      /\ Range(FlatUpTo(D, n)) = Takes(Upto(n))
           G == {n \in Nat : n <= m => Good(n)}
<1>1. \A i \in 1 .. m : /\ DeductIngredient(extras[i]) \in Seq(Takes(N))
                        /\ IsInjective(DeductIngredient(extras[i]))
                        /\ Range(DeductIngredient(extras[i])) = Takes({extras[i]})
  <2> SUFFICES ASSUME NEW i \in 1 .. m
               PROVE  /\ DeductIngredient(extras[i]) \in Seq(Takes(N))
                      /\ IsInjective(DeductIngredient(extras[i]))
                      /\ Range(DeductIngredient(extras[i])) = Takes({extras[i]})
    OBVIOUS
  <2>1. Takes({extras[i]}) \subseteq Takes(N)
    BY TakesOfSubset
  <2>2. DeductIngredient(extras[i]) \in Seq(Takes({extras[i]}))
    BY DeductIngredientTakes
  <2>3. DeductIngredient(extras[i]) \in Seq(Takes(N))
    BY <2>1, <2>2
  <2> QED
    BY <2>3, DeductIngredientTakes
<1>2. D \in Seq(Seq(Takes(N))) /\ Len(D) = m /\ \A i \in 1 .. m : D[i] = DeductIngredient(extras[i])
  <2>1. D \in [1 .. m -> Seq(Takes(N))]
    BY <1>1
  <2> QED
    BY <2>1
<1> HIDE DEF D
<1>3. 0 \in G
  <2>1. FlatUpTo(D, 0) = << >>
    BY <1>2, FlattensOneByOne
  <2>2. Upto(0) = {} /\ Takes({}) = {}
    BY DEF Takes
  <2>3. << >> \in Seq(Takes(N)) /\ IsInjective(<< >>) /\ Range(<< >>) = {}
    BY DEF IsInjective, Range
  <2> QED
    BY <2>1, <2>2, <2>3
<1>4. ASSUME NEW n \in G
      PROVE  n + 1 \in G
  <2> SUFFICES ASSUME n + 1 <= m PROVE Good(n + 1)
    OBVIOUS
  <2>1. Good(n) /\ n < Len(D) /\ n + 1 \in 1 .. m /\ n \in Nat
    BY <1>2
  <2>2. FlatUpTo(D, n + 1) = FlatUpTo(D, n) \o DeductIngredient(extras[n + 1])
    BY <1>2, <2>1, FlattensOneByOne
  <2>3. Upto(n + 1) = Upto(n) \cup {extras[n + 1]}
    <3>1. 1 .. (n + 1) = (1 .. n) \cup {n + 1}
      BY <2>1
    <3> QED
      BY <3>1
  <2>4. Upto(n) \cap {extras[n + 1]} = {}
    <3>1. \A i \in 1 .. n : i \in 1 .. m /\ i # n + 1
      BY <2>1
    <3>2. \A i \in 1 .. n : extras[i] # extras[n + 1]
      BY <2>1, <3>1 DEF IsInjective
    <3> QED
      BY <3>2
  <2> DEFINE M == Upto(n)
             x == extras[n + 1]
             f == FlatUpTo(D, n)
             d == DeductIngredient(x)
  <2>5. f \in Seq(Takes(N)) /\ IsInjective(f) /\ Range(f) = Takes(M)
    BY <2>1
  <2>6. d \in Seq(Takes(N)) /\ IsInjective(d) /\ Range(d) = Takes({x})
    BY <1>1, <2>1
  <2>7. Takes(M \cup {x}) = Takes(M) \cup Takes({x}) /\ Takes(M) \cap Takes({x}) = {}
    <3> HIDE DEF M, x
    <3>1. M \cap {x} = {}
      BY <2>4 DEF M, x
    <3> QED
      BY <3>1, TakesOfUnion, TakesOfOthers
  <2>8. f \o d \in Seq(Takes(N)) /\ IsInjective(f \o d) /\ Range(f \o d) = Takes(M \cup {x})
    <3> HIDE DEF f, d, M, x
    <3>2. Lists(f, Takes(N), Takes(M)) /\ Lists(d, Takes(N), Takes({x}))
      BY <2>5, <2>6 DEF Lists
    <3>3. Lists(f \o d, Takes(N), Takes(M) \cup Takes({x}))
      BY <2>7, <3>2, ListsJoin
    <3> QED
      BY <2>7, <3>3 DEF Lists
  <2> QED
    BY <2>2, <2>3, <2>8
<1>5. \A n \in Nat : n \in G
  <2> HIDE DEF G
  <2>1. G \in SUBSET Nat
    BY DEF G
  <2> QED
    BY <1>3, <1>4, <2>1, NumberInduction
<1>6. Good(m)
  BY <1>5
<1>7. Upto(m) = Range(extras)
  BY DEF Range
<1>8. FlattenSeq(D) = FlatUpTo(D, m)
  BY <1>2, FlattensOneByOne
<1> QED
  BY <1>6, <1>7, <1>8 DEF D

\* The work of a transformation that needs the ingredients of N: every statement once.
LEMMA WorkIsProgram ==
    ASSUME NEW N \in SUBSET Additionals, NEW m \in Nat, NEW extras \in [1 .. m -> N],
           IsInjective(extras), Range(extras) = N
    PROVE  /\ Work(extras) \in Seq(StatementsOf(N)) /\ IsInjective(Work(extras))
           /\ Range(Work(extras)) = StatementsOf(N)
<1> DEFINE X == StatementsOf(N)
           a == DeductIngredient(Base)
           b == FlattenSeq([i \in DOMAIN extras |-> DeductIngredient(extras[i])])
           c == AddProducedStock
           d == << Records >>
<1>1. Takes({Base} \cup N) = Takes({Base}) \cup Takes(N) /\ Takes({Base}) \cap Takes(N) = {}
  <2>1. {Base} \cap N = {}
    BY GoodsDiffer
  <2> QED
    BY <2>1, TakesOfUnion, TakesOfOthers
<1>2. a \in Seq(X) /\ IsInjective(a) /\ Range(a) = Takes({Base})
  <2>1. Takes({Base}) \subseteq X
    BY <1>1 DEF StatementsOf
  <2> HIDE DEF X
  <2> QED
    BY <2>1, DeductIngredientTakes
<1>3. b \in Seq(X) /\ IsInjective(b) /\ Range(b) = Takes(N)
  <2>1. Takes(N) \subseteq X
    BY <1>1 DEF StatementsOf
  <2>2. b \in Seq(Takes(N)) /\ IsInjective(b) /\ Range(b) = Takes(N)
    BY AdditionalsAreTaken
  <2> HIDE DEF X, b
  <2> QED
    BY <2>1, <2>2
<1>4. Produces # Puts /\ Puts # Records /\ Produces # Records
  BY DEF Produces, Puts, Records
<1>5. \A K : Produces \notin Takes(K) /\ Puts \notin Takes(K) /\ Records \notin Takes(K)
  <2>1. \A K : \A s \in Takes(K) : s.do = "take"
    BY DEF Takes
  <2>2. Produces.do # "take" /\ Puts.do # "take" /\ Records.do # "take"
    BY DEF Produces, Puts, Records
  <2> QED
    BY <2>1, <2>2
<1>6. c \in Seq(X) /\ IsInjective(c) /\ Range(c) = {Produces, Puts}
  <2>1. c = << Produces, Puts >>
    BY DEF AddProducedStock, Produces, Puts
  <2>2. DOMAIN << Produces, Puts >> = {1, 2}
    OBVIOUS
  <2>3. Produces \in X /\ Puts \in X
    BY DEF StatementsOf
  <2> HIDE DEF X
  <2> QED
    BY <1>4, <2>1, <2>2, <2>3 DEF IsInjective, Range
<1>7. d \in Seq(X) /\ IsInjective(d) /\ Range(d) = {Records}
  <2>1. Records \in X /\ DOMAIN << Records >> = {1}
    BY DEF StatementsOf
  <2> HIDE DEF X
  <2> QED
    BY <2>1 DEF IsInjective, Range
<1>8. Work(extras) = ((a \o b) \o c) \o d
  BY DEF Work, Records
<1>9. X = ((Takes({Base}) \cup Takes(N)) \cup {Produces, Puts}) \cup {Records}
  BY <1>1 DEF StatementsOf
<1> HIDE DEF X, a, b, c, d
<1>10. /\ Lists(a, X, Takes({Base})) /\ Lists(b, X, Takes(N))
       /\ Lists(c, X, {Produces, Puts}) /\ Lists(d, X, {Records})
  BY <1>2, <1>3, <1>6, <1>7 DEF Lists
<1>11. Lists(a \o b, X, Takes({Base}) \cup Takes(N))
  BY <1>1, <1>10, ListsJoin
<1>12. Lists((a \o b) \o c, X, (Takes({Base}) \cup Takes(N)) \cup {Produces, Puts})
  <2>1. (Takes({Base}) \cup Takes(N)) \cap {Produces, Puts} = {}
    BY <1>5
  <2> QED
    BY <1>10, <1>11, <2>1, ListsJoin
<1>13. Lists(((a \o b) \o c) \o d, X, X)
  <2>1. ((Takes({Base}) \cup Takes(N)) \cup {Produces, Puts}) \cap {Records} = {}
    BY <1>4, <1>5
  <2> QED
    BY <1>9, <1>10, <1>12, <2>1, ListsJoin
<1> QED
  BY <1>8, <1>13 DEF X, Lists

\* scaleIngredients lists what the recipe needs, each ingredient once.
LEMMA ListsAreDistinct ==
    ASSUME needs \subseteq Additionals, NEW extras \in ScaleIngredients
    PROVE  \E m \in Nat : /\ extras \in [1 .. m -> needs] /\ IsInjective(extras)
                          /\ Range(extras) = needs
<1> DEFINE m == Cardinality(needs)
<1>1. IsFiniteSet(needs) /\ m \in Nat
  BY FS_Subset, FS_CardinalityType, TransformationsAssumption
<1>2. extras \in [1 .. m -> needs] /\ Range(extras) = needs
  BY DEF ScaleIngredients
<1> HIDE DEF m
<1>3. IsFiniteSet(1 .. m) /\ Cardinality(1 .. m) = m
  <2>1. m \in Int /\ 1 \in Int /\ (1 > m => m = 0) /\ (~ (1 > m) => m - 1 + 1 = m)
    BY <1>1
  <2> QED
    BY <2>1, FS_Interval
<1>4. extras \in Surjection(1 .. m, needs)
  BY <1>2 DEF Surjection, Range
<1>5. extras \in Injection(1 .. m, needs)
  BY <1>3, <1>4, FS_SurjSameCardinalityImpliesInj DEF m
<1> QED
  BY <1>1, <1>2, <1>5 DEF Injection, IsInjective

-----------------------------------------------------------------------------
(* Steps *)

LEMMA FreshRequest ==
    ASSUME NEW N \in SUBSET Additionals, NEW q \in RegisterTransformationRequest,
           NEW w \in Seq(StatementsOf(N))
    PROVE  IsRequest([at |-> "ready", q |-> q, extras |-> N, seen |-> 0, todo |-> w])
<1> DEFINE x == [at |-> "ready", q |-> q, extras |-> N, seen |-> 0, todo |-> w]
<1>1. x \in [at : Opened \cup {"ready", "committed"}, q : RegisterTransformationRequest,
             extras : SUBSET Additionals,
             seen : Int, todo : Seq(StatementsOf(N))]
  <2>1. "ready" \in Opened \cup {"ready", "committed"} /\ 0 \in Int
    OBVIOUS
  <2> DEFINE As == Opened \cup {"ready", "committed"}
             Todos == Seq(StatementsOf(N))
  <2> HIDE DEF As, Todos
  <2>2. w \in Todos /\ "ready" \in As
    BY <2>1 DEF As, Todos
  <2>3. x \in [at : As, q : RegisterTransformationRequest, extras : SUBSET Additionals,
               seen : Int, todo : Todos]
    BY <2>1, <2>2
  <2> QED
    BY <2>3 DEF As, Todos
<1>2. x.extras = N
  OBVIOUS
<1> QED
  BY <1>1, <1>2 DEF IsRequest

LEMMA RecipeRequest ==
    \A x, td, e : x = [at |-> "recipe", todo |-> td]
        => [x EXCEPT !.todo = e] = [at |-> "recipe", todo |-> e]
OBVIOUS

\* The clients that do not step keep what they know.
LEMMA OthersKeepWork ==
    ASSUME TransformationsAssumption, WholeInv, NEW k \in Kitchens,
           DOMAIN kitchen' = Kitchens, DOMAIN tx' = Kitchens,
           \A j \in Kitchens \ {k} : kitchen'[j] = kitchen[j] /\ tx'[j] = tx[j],
           registered \subseteq registered',
           \/ batches' = batches /\ stored' = stored
           \/ kitchen[k].at \in Opened
    PROVE  \A j \in Kitchens \ {k} : WorkInv(j)'
<1> SUFFICES ASSUME NEW j \in Kitchens \ {k}
             PROVE  WorkInv(j)'
  OBVIOUS
<1>1. WorkInv(j) /\ kitchen'[j] = kitchen[j] /\ tx'[j] = tx[j]
  BY DEF WholeInv
<1>2. RequestIs(j)'
  BY <1>1 DEF WorkInv, RequestIs, IsTransformation, IsRequest
<1>3. CASE batches' = batches /\ stored' = stored
  BY <1>1, <1>2, <1>3 DEF WorkInv, ReadBefore, SeenIn
<1>4. CASE kitchen[k].at \in Opened
  <2>1. kitchen[j].at \notin Opened
    BY <1>4 DEF WholeInv, OneManager
  <2> QED
    BY <1>1, <1>2, <2>1 DEF WorkInv, ReadBefore, Opened
<1> QED
  BY <1>3, <1>4

LEMMA SubmitPreparationRecipeKeeps ==
    ASSUME WholeInv, NEW k \in Kitchens, NEW items \in SUBSET Additionals,
           SubmitPreparationRecipe(k, items)
    PROVE  WholeInv'
<1> USE DEF SubmitPreparationRecipe
<1>1. /\ kitchen'[k] = [at |-> "recipe", todo |-> SavePreparationRecipe(items)]
      /\ DOMAIN kitchen' = Kitchens
      /\ \A j \in Kitchens \ {k} : kitchen'[j] = kitchen[j]
  BY DEF WholeInv, OneManager
<1>2. CommittedRows'
  BY DEF WholeInv, CommittedRows, TransformationsAreAtomic
<1>3. OneManager'
  <2>1. kitchen[k].at \notin Opened /\ kitchen'[k].at \notin Opened
        /\ kitchen[k].at # "waits" /\ kitchen'[k].at \notin {"work", "waits"}
    BY <1>1 DEF NoTransformation, Opened
  <2> QED
    BY <1>1, <2>1 DEF WholeInv, OneManager
<1>4. WorkInv(k)'
  <2>1. SavePreparationRecipe(items) \in Seq(RecipeStatements) \ {<< >>}
    <3>1. [do |-> "row"] \in RecipeStatements /\ [do |-> "delete"] \in RecipeStatements
          /\ [do |-> "insert", items |-> items] \in RecipeStatements
      BY DEF RecipeStatements
    <3> QED
      BY <3>1 DEF SavePreparationRecipe
  <2> QED
    BY <1>1, <2>1 DEF WorkInv, RequestIs, ReadBefore
<1>5. \A j \in Kitchens \ {k} : WorkInv(j)'
  BY <1>1, OthersKeepWork, TransformationsAssumption DEF WholeInv, OneManager
<1> QED
  BY <1>2, <1>3, <1>4, <1>5 DEF WholeInv

LEMMA RecipeStatementKeeps ==
    ASSUME WholeInv, NEW k \in Kitchens, RecipeStatement(k)
    PROVE  WholeInv'
<1> USE DEF RecipeStatement
<1> DEFINE todo == kitchen[k].todo
           s == Head(todo)
<1>1. kitchen[k] = [at |-> "recipe", todo |-> todo] /\ todo \in Seq(RecipeStatements) \ {<< >>}
  <2>1. kitchen[k] \in [at : {"recipe"}, todo : Seq(RecipeStatements) \ {<< >>}]
    <3>1. ~ IsTransformation(kitchen[k])
      BY DEF IsTransformation, IsRequest, Opened
    <3> QED
      BY <3>1 DEF WholeInv, WorkInv, RequestIs, NoTransformation
  <2> QED
    BY <2>1
<1>2. s \in RecipeStatements
  BY <1>1
<1>3. /\ DOMAIN kitchen' = Kitchens
      /\ \A j \in Kitchens \ {k} : kitchen'[j] = kitchen[j]
      /\ kitchen'[k] = IF Len(todo) = 1 THEN NoTransformation
                       ELSE [at |-> "recipe", todo |-> Tail(todo)]
  <2>1. [kitchen[k] EXCEPT !.todo = Tail(kitchen[k].todo)] = [at |-> "recipe", todo |-> Tail(todo)]
    <3>1. PICK x, td : x = kitchen[k] /\ td = todo
      OBVIOUS
    <3>2. x = [at |-> "recipe", todo |-> td] /\ Tail(kitchen[k].todo) = Tail(td)
      BY <1>1, <3>1
    <3>3. [x EXCEPT !.todo = Tail(td)] = [at |-> "recipe", todo |-> Tail(td)]
      BY <3>2, RecipeRequest
    <3>4. [x EXCEPT !.todo = Tail(td)] = [kitchen[k] EXCEPT !.todo = Tail(kitchen[k].todo)]
      BY <3>1
    <3> QED
      BY <3>1, <3>3, <3>4
  <2> QED
    BY <1>1, <2>1 DEF WholeInv, OneManager
<1>4. needs' \subseteq Additionals
  BY <1>2 DEF RecipeStatements, WholeInv, CommittedRows
<1>5. CommittedRows'
  BY <1>4 DEF WholeInv, CommittedRows, TransformationsAreAtomic
<1>6. OneManager'
  <2>1. kitchen[k].at \notin Opened /\ kitchen'[k].at \notin Opened
        /\ kitchen[k].at # "waits" /\ kitchen'[k].at \notin {"work", "waits"}
    BY <1>3 DEF NoTransformation, Opened
  <2> QED
    BY <1>3, <2>1 DEF WholeInv, OneManager
<1>7. WorkInv(k)'
  <2>1. CASE Len(todo) = 1
    BY <1>3, <2>1 DEF WorkInv, RequestIs, ReadBefore, NoTransformation
  <2>2. CASE Len(todo) # 1
    <3>1. Tail(todo) \in Seq(RecipeStatements) /\ Tail(todo) # << >>
      <4>1. todo \in Seq(RecipeStatements) /\ todo # << >> /\ Len(todo) # 1
        BY <1>1, <2>2
      <4> HIDE DEF todo
      <4> QED
        BY <4>1, TailOfLonger
    <3> QED
      <4>1. PICK td : td = Tail(todo)
        OBVIOUS
      <4>2. kitchen'[k] = [at |-> "recipe", todo |-> td]
        BY <1>3, <2>2, <4>1
      <4>3. td \in Seq(RecipeStatements) \ {<< >>}
        BY <3>1, <4>1
      <4>4. /\ kitchen'[k] \in [at : {"recipe"}, todo : Seq(RecipeStatements) \ {<< >>}]
            /\ kitchen'[k].at = "recipe"
        BY <4>2, <4>3
      <4> HIDE DEF todo
      <4> QED
        BY <4>4 DEF WorkInv, RequestIs, ReadBefore
  <2> QED
    BY <2>1, <2>2
<1>8. \A j \in Kitchens \ {k} : WorkInv(j)'
  BY <1>3, OthersKeepWork, TransformationsAssumption DEF WholeInv, OneManager
<1> QED
  BY <1>5, <1>6, <1>7, <1>8 DEF WholeInv

LEMMA RegisterTransformationKeeps ==
    ASSUME WholeInv, NEW k \in Kitchens, RegisterTransformation(k)
    PROVE  WholeInv'
<1> USE DEF RegisterTransformation
<1>1. PICK q \in RegisterTransformationRequest, extras \in ScaleIngredients :
          kitchen' = [kitchen EXCEPT ![k] =
              [at |-> "ready", q |-> q, extras |-> Range(extras), seen |-> 0,
               todo |-> Work(extras)]]
  OBVIOUS
<1>2. /\ kitchen'[k] = [at |-> "ready", q |-> q, extras |-> Range(extras), seen |-> 0,
                        todo |-> Work(extras)]
      /\ DOMAIN kitchen' = Kitchens
      /\ \A j \in Kitchens \ {k} : kitchen'[j] = kitchen[j]
  BY <1>1 DEF WholeInv, OneManager
<1>3. CommittedRows'
  BY DEF WholeInv, CommittedRows, TransformationsAreAtomic
<1>4. OneManager'
  <2>1. kitchen[k].at \notin Opened /\ kitchen'[k].at \notin Opened
        /\ kitchen[k].at # "waits" /\ kitchen'[k].at \notin {"work", "waits"}
    BY <1>2 DEF NoTransformation, Opened
  <2> QED
    BY <1>2, <2>1 DEF WholeInv, OneManager
<1>5. WorkInv(k)'
  <2>1. needs \in SUBSET Additionals
    BY DEF WholeInv, CommittedRows
  <2>2. PICK m \in Nat : extras \in [1 .. m -> needs] /\ IsInjective(extras) /\ Range(extras) = needs
    BY <2>1, ListsAreDistinct
  <2>3. /\ Work(extras) \in Seq(StatementsOf(needs)) /\ IsInjective(Work(extras))
        /\ Range(Work(extras)) = StatementsOf(needs)
    BY <2>1, <2>2, WorkIsProgram
  <2> DEFINE w == Work(extras)
  <2>4. PICK x : x = [at |-> "ready", q |-> q, extras |-> needs, seen |-> 0, todo |-> w]
    OBVIOUS
  <2>6. kitchen'[k] = x
    BY <1>2, <2>2, <2>4
  <2>5. IsTransformation(x)'
    <3> HIDE DEF w
    <3>1. /\ w \in Seq(StatementsOf(needs)) /\ IsInjective(w) /\ Range(w) = StatementsOf(needs)
      BY <2>3 DEF w
    <3>2. IsRequest(x)
      BY <2>1, <2>4, <3>1, FreshRequest
    <3>3. IsTransformation(x)
      BY <2>4, <3>1, <3>2 DEF IsTransformation, Opened
    <3> QED
      BY <2>4, <3>3 DEF IsTransformation
  <2> QED
    BY <2>4, <2>5, <2>6 DEF WorkInv, RequestIs, ReadBefore
<1>6. \A j \in Kitchens \ {k} : WorkInv(j)'
  BY <1>2, OthersKeepWork, TransformationsAssumption DEF WholeInv, OneManager
<1> QED
  BY <1>3, <1>4, <1>5, <1>6 DEF WholeInv

\* A request that has a transaction, or is about to, is a transformation's.
LEMMA TransformationRequest ==
    ASSUME WholeInv, NEW k \in Kitchens,
           kitchen[k].at \in Opened \cup {"ready", "committed"}
    PROVE  IsTransformation(kitchen[k])
<1>1. kitchen[k] # NoTransformation
      /\ kitchen[k] \notin [at : {"recipe"}, todo : Seq(RecipeStatements) \ {<< >>}]
  BY DEF NoTransformation, Opened
<1> QED
  BY <1>1 DEF WholeInv, WorkInv, RequestIs

LEMMA RequestMoves ==
    ASSUME NEW x, IsRequest(x), NEW a \in Opened \cup {"ready", "committed"}, NEW y,
           y = [x EXCEPT !.at = a]
    PROVE  /\ IsRequest(y) /\ y.at = a
           /\ y.q = x.q /\ y.extras = x.extras /\ y.seen = x.seen /\ y.todo = x.todo
<1> DEFINE As == Opened \cup {"ready", "committed"}
           Todos == Seq(StatementsOf(x.extras))
<1>1. x \in [at : As, q : RegisterTransformationRequest, extras : SUBSET Additionals,
             seen : Int, todo : Todos]
  BY DEF IsRequest
<1> HIDE DEF As, Todos
<1>2. y \in [at : As, q : RegisterTransformationRequest, extras : SUBSET Additionals,
             seen : Int, todo : Todos]
  BY <1>1 DEF As
<1>3. y.at = a /\ y.q = x.q /\ y.extras = x.extras /\ y.seen = x.seen /\ y.todo = x.todo
  BY <1>1
<1> QED
  BY <1>2, <1>3 DEF IsRequest, As, Todos

LEMMA CommitWorkKeeps ==
    ASSUME WholeInv, NEW k \in Kitchens, CommitWork(k), ~mixed'
    PROVE  WholeInv'
<1> USE DEF CommitWork
<1>1. IsTransformation(kitchen[k]) /\ IsRequest(kitchen[k])
  BY TransformationRequest DEF IsTransformation
<1>2. PICK y : y = [kitchen[k] EXCEPT !.at = "work"]
  OBVIOUS
<1>3. /\ IsRequest(y) /\ y.at = "work" /\ y.q = kitchen[k].q /\ y.extras = kitchen[k].extras
      /\ y.todo = kitchen[k].todo
  <2>1. "work" \in Opened \cup {"ready", "committed"}
    BY DEF Opened
  <2> QED
    BY <1>1, <1>2, <2>1, RequestMoves
<1>4. /\ kitchen'[k] = y /\ DOMAIN kitchen' = Kitchens
      /\ \A j \in Kitchens \ {k} : kitchen'[j] = kitchen[j]
      /\ tx'[k] = NewTx /\ DOMAIN tx' = Kitchens
      /\ \A j \in Kitchens \ {k} : tx'[j] = tx[j]
  BY <1>2 DEF WholeInv, OneManager
<1>5. CommittedRows'
  BY DEF WholeInv, CommittedRows, TransformationsAreAtomic
<1>6. \A j \in Kitchens : ~ tx[j].open /\ kitchen[j].at \notin Opened
  BY DEF WholeInv, OneManager
<1>7. OneManager'
  <2>1. kitchen'[k].at \in Opened /\ tx'[k].open
    BY <1>3, <1>4 DEF Opened, NewTx
  <2>2. \A j \in Kitchens \ {k} :
           ~ tx'[j].open /\ kitchen'[j].at \notin Opened /\ kitchen'[j].at \notin {"work", "waits"}
    BY <1>4, <1>6 DEF Opened
  <2>3. \A t \in Kitchens : pending[t] = Nobody
    BY <1>6 DEF WholeInv, OneManager, Opened
  <2> QED
    BY <1>4, <2>1, <2>2, <2>3 DEF WholeInv, OneManager
<1>8. WorkInv(k)'
  <2>1. IsTransformation(y)'
    BY <1>1, <1>3 DEF IsTransformation
  <2>2. Wrote(NewTx, y, batches)
    <3>1. NewTx.batches = << >> /\ NewTx.stored = << >> /\ NewTx.made = 0 /\ NewTx.records = {}
          /\ DOMAIN << >> = {}
      BY DEF NewTx
    <3>5. IsTx(NewTx)
      BY Zenon DEF NewTx, IsTx
    <3>2. Range(y.todo) = StatementsOf(y.extras)
      BY <1>1, <1>3 DEF IsTransformation
    <3>3. /\ Produces \in Range(y.todo) /\ Puts \in Range(y.todo) /\ Records \in Range(y.todo)
          /\ Takes({Base} \cup y.extras) \subseteq Range(y.todo)
      BY <3>2 DEF StatementsOf
    <3>4. \A g \in {Base} \cup y.extras :
             /\ [do |-> "take", of |-> "batches", good |-> g] \in Range(y.todo)
             /\ [do |-> "take", of |-> "stored", good |-> g] \in Range(y.todo)
      BY <3>3 DEF Takes
    <3> QED
      BY <3>1, <3>3, <3>4, <3>5 DEF Wrote
  <2> QED
    BY <1>3, <1>4, <2>1, <2>2 DEF WorkInv, RequestIs, ReadBefore
<1>9. \A j \in Kitchens \ {k} : WorkInv(j)'
  BY <1>4, OthersKeepWork, TransformationsAssumption
<1> QED
  BY <1>5, <1>7, <1>8, <1>9 DEF WholeInv

LEMMA LeaveWorkKeeps ==
    ASSUME WholeInv, NEW k \in Kitchens, LeaveWork(k)
    PROVE  WholeInv'
<1> USE DEF LeaveWork
<1>1. IsTransformation(kitchen[k]) /\ IsRequest(kitchen[k])
  BY TransformationRequest DEF IsTransformation, Opened
<1>2. PICK a \in {"commit", "rollback"} :
          /\ a = "commit" => kitchen[k].todo = << >>
          /\ kitchen' = [kitchen EXCEPT ![k].at = a]
  OBVIOUS
<1>3. PICK y : y = [kitchen[k] EXCEPT !.at = a]
  OBVIOUS
<1>4. /\ IsRequest(y) /\ y.at = a /\ y.q = kitchen[k].q /\ y.extras = kitchen[k].extras
      /\ y.todo = kitchen[k].todo
  <2>1. a \in Opened \cup {"ready", "committed"}
    BY DEF Opened
  <2> QED
    BY <1>1, <1>3, <2>1, RequestMoves
<1>5. /\ kitchen'[k] = y /\ DOMAIN kitchen' = Kitchens
      /\ \A j \in Kitchens \ {k} : kitchen'[j] = kitchen[j]
  BY <1>2, <1>3 DEF WholeInv, OneManager
<1>6. CommittedRows'
  BY DEF WholeInv, CommittedRows, TransformationsAreAtomic
<1>7. OneManager'
  <2>1. kitchen[k].at \in Opened /\ y.at \in Opened /\ y.at \notin {"work", "waits"}
    BY <1>4 DEF Opened
  <2>2. \A j \in Kitchens \ {k} : kitchen[j].at \notin Opened /\ kitchen[j].at \notin {"work", "waits"}
    BY <2>1 DEF WholeInv, OneManager, Opened
  <2>3. \A t \in Kitchens : pending[t] = Nobody
    BY <2>2 DEF WholeInv, OneManager
  <2> QED
    BY <1>5, <2>1, <2>2, <2>3 DEF WholeInv, OneManager
<1>8. WorkInv(k)'
  <2>1. IsTransformation(y)'
    BY <1>1, <1>2, <1>4 DEF IsTransformation
  <2>2. Wrote(tx[k], y, batches)
    BY <1>4 DEF Wrote, WholeInv, WorkInv
  <2> QED
    BY <1>4, <1>5, <2>1, <2>2 DEF WorkInv, RequestIs, ReadBefore
<1>9. \A j \in Kitchens \ {k} : WorkInv(j)'
  BY <1>5, OthersKeepWork, TransformationsAssumption DEF WholeInv, OneManager
<1> QED
  BY <1>6, <1>7, <1>8, <1>9 DEF WholeInv

LEMMA RollBackTxKeeps ==
    ASSUME WholeInv, NEW k \in Kitchens, RollBackTx(k)
    PROVE  WholeInv'
<1> USE DEF RollBackTx
<1>1. /\ kitchen'[k] = NoTransformation /\ DOMAIN kitchen' = Kitchens
      /\ \A j \in Kitchens \ {k} : kitchen'[j] = kitchen[j]
      /\ tx'[k] = NoTx /\ DOMAIN tx' = Kitchens
      /\ \A j \in Kitchens \ {k} : tx'[j] = tx[j]
  BY DEF WholeInv, OneManager
<1>2. CommittedRows'
  BY DEF WholeInv, CommittedRows, TransformationsAreAtomic
<1>3. OneManager'
  <2>1. kitchen'[k].at \notin Opened /\ ~ tx'[k].open /\ kitchen'[k].at \notin {"work", "waits"}
    BY <1>1 DEF Opened, NoTransformation, NoTx
  <2> QED
    BY <1>1, <2>1 DEF WholeInv, OneManager
<1>4. WorkInv(k)'
  BY <1>1 DEF WorkInv, RequestIs, ReadBefore, NoTransformation
<1>5. \A j \in Kitchens \ {k} : WorkInv(j)'
  BY <1>1, OthersKeepWork, TransformationsAssumption
<1> QED
  BY <1>2, <1>3, <1>4, <1>5 DEF WholeInv

LEMMA PublishTransformedKeeps ==
    ASSUME WholeInv, NEW k \in Kitchens, PublishTransformed(k)
    PROVE  WholeInv'
<1> USE DEF PublishTransformed
<1>1. /\ kitchen'[k] = NoTransformation /\ DOMAIN kitchen' = Kitchens
      /\ \A j \in Kitchens \ {k} : kitchen'[j] = kitchen[j]
  BY DEF WholeInv, OneManager
<1>2. kitchen[k].q.id \in registered
  BY TransformationRequest DEF IsTransformation
<1>3. CommittedRows'
  BY <1>2 DEF WholeInv, CommittedRows, TransformationsAreAtomic
<1>4. OneManager'
  <2>1. /\ kitchen'[k].at \notin Opened /\ kitchen'[k].at \notin {"work", "waits"}
        /\ kitchen[k].at \notin Opened /\ kitchen[k].at # "waits"
    BY <1>1 DEF Opened, NoTransformation
  <2> QED
    BY <1>1, <2>1 DEF WholeInv, OneManager
<1>5. WorkInv(k)'
  BY <1>1 DEF WorkInv, RequestIs, ReadBefore, NoTransformation
<1>6. \A j \in Kitchens \ {k} : WorkInv(j)'
  BY <1>1, OthersKeepWork, TransformationsAssumption DEF WholeInv, OneManager
<1> QED
  BY <1>3, <1>4, <1>5, <1>6 DEF WholeInv

LEMMA KitchenStopsKeeps ==
    ASSUME WholeInv, KitchenStops
    PROVE  WholeInv'
<1> USE DEF KitchenStops
<1>1. CommittedRows'
  BY DEF WholeInv, CommittedRows, TransformationsAreAtomic
<1>2. OneManager'
  BY DEF WholeInv, OneManager, NoTransformation, NoTx, Opened
<1>3. \A k \in Kitchens : WorkInv(k)'
  BY DEF WorkInv, RequestIs, ReadBefore, NoTransformation
<1> QED
  BY <1>1, <1>2, <1>3 DEF WholeInv

-----------------------------------------------------------------------------
(* Statements *)

Take(rows, g) == [do |-> "take", of |-> rows, good |-> g]

LEMMA StatementKinds ==
    ASSUME NEW N \in SUBSET Additionals, NEW s \in StatementsOf(N)
    PROVE  /\ s.good \in Goods
           /\ \/ s.good \in {Base} \cup N /\ s = Take("batches", s.good)
              \/ s.good \in {Base} \cup N /\ s = Take("stored", s.good)
              \/ s.good = Prepared /\ s \in {Produces, Puts, Records}
<1>1. CASE s \in Takes({Base} \cup N)
  <2>1. PICK rows \in {"batches", "stored"}, g \in {Base} \cup N : s = Take(rows, g)
    BY <1>1 DEF Takes, Take
  <2>2. s.good = g
    BY <2>1 DEF Take
  <2> QED
    BY <2>1, <2>2, GoodsDiffer
<1>2. CASE s \in {Produces, Puts, Records}
  <2>1. s.good = Prepared
    BY <1>2 DEF Produces, Puts, Records
  <2> QED
    BY <1>2, <2>1, GoodsDiffer
<1> QED
  BY <1>1, <1>2 DEF StatementsOf

\* What the next statement reads is the committed row.
LEMMA SeesCommitted ==
    ASSUME WholeInv, NEW k \in Kitchens, kitchen[k].at \in {"work", "waits"},
           kitchen[k].todo # << >>
    PROVE  LET s == Head(kitchen[k].todo) IN
           /\ s.good \in Goods /\ batches[s.good] \in Int
           /\ SeenIn(k, s.of, s.good) = batches[s.good]
<1> DEFINE y == kitchen[k]
           s == Head(y.todo)
           N == y.extras
<1>1. IsTransformation(y) /\ IsRequest(y)
  BY TransformationRequest DEF IsTransformation, Opened
<1>2. /\ N \in SUBSET Additionals /\ y.todo \in Seq(StatementsOf(N)) /\ IsInjective(y.todo)
      /\ y.todo # << >>
  BY <1>1 DEF IsRequest, IsTransformation
<1>3. s \in StatementsOf(N) /\ s \in Range(y.todo)
  BY <1>2, TailOfDistinct
<1>4. /\ s.good \in Goods
      /\ \/ s.good \in {Base} \cup N /\ s = Take("batches", s.good)
         \/ s.good \in {Base} \cup N /\ s = Take("stored", s.good)
         \/ s.good = Prepared /\ s \in {Produces, Puts, Records}
  BY <1>2, <1>3, StatementKinds
<1>5. /\ batches \in [Goods -> Int] /\ \A g \in Goods : stored[g] = batches[g]
      /\ Wrote(tx[k], y, batches)
  BY DEF WholeInv, CommittedRows, TransformationsAreAtomic, WorkInv
<1> DEFINE x == tx[k]
           left == Range(y.todo)
<1>6. /\ DOMAIN x.batches = {g \in {Base} \cup N : Take("batches", g) \notin left}
      /\ DOMAIN x.stored = {g \in {Base} \cup N : Take("stored", g) \notin left}
                              \cup {g \in {Prepared} : Puts \notin left}
  BY <1>5 DEF Wrote, Take
<1>7. Prepared \notin {Base} \cup N /\ Prepared \in Goods
  BY <1>2, GoodsDiffer
<1>8. CASE s.good \in {Base} \cup N /\ s = Take("batches", s.good)
  <2>1. s.of = "batches"
    BY <1>8 DEF Take
  <2>2. s.good \notin DOMAIN x.batches
    BY <1>3, <1>6, <1>8
  <2> QED
    BY <1>4, <1>5, <2>1, <2>2 DEF SeenIn
<1>9. CASE s.good \in {Base} \cup N /\ s = Take("stored", s.good)
  <2>1. s.of = "stored"
    BY <1>9 DEF Take
  <2>2. s.good \notin DOMAIN x.stored
    BY <1>3, <1>6, <1>7, <1>9
  <2> QED
    BY <1>4, <1>5, <2>1, <2>2 DEF SeenIn
<1>10. CASE s.good = Prepared /\ s = Puts
  <2>1. s.of = "stored"
    BY <1>10 DEF Puts
  <2>2. s.good \notin DOMAIN x.stored
    BY <1>3, <1>6, <1>7, <1>10
  <2> QED
    BY <1>4, <1>5, <2>1, <2>2 DEF SeenIn
<1>11. CASE s.good = Prepared /\ s \in {Produces, Records}
  <2>1. s.of = "batches"
    BY <1>11 DEF Produces, Records
  <2>2. s.good \notin DOMAIN x.batches
    BY <1>6, <1>7, <1>11
  <2> QED
    BY <1>4, <1>5, <2>1, <2>2 DEF SeenIn
<1> QED
  BY <1>4, <1>8, <1>9, <1>10, <1>11

LEMMA IssueWorkKeeps ==
    ASSUME WholeInv, NEW k \in Kitchens, IssueWork(k)
    PROVE  WholeInv'
<1> USE DEF IssueWork
<1>1. IsTransformation(kitchen[k]) /\ IsRequest(kitchen[k]) /\ manager = k
  BY TransformationRequest DEF IsTransformation, Opened, WholeInv, OneManager
<1>2. PICK v : v = SeenIn(k, Head(kitchen[k].todo).of, Head(kitchen[k].todo).good)
  OBVIOUS
<1>3. v \in Int
  BY <1>2, SeesCommitted
<1>4. PICK y : y = [kitchen[k] EXCEPT !.at = "waits", !.seen = v]
  OBVIOUS
<1>5. /\ IsRequest(y) /\ y.at = "waits" /\ y.q = kitchen[k].q /\ y.extras = kitchen[k].extras
      /\ y.todo = kitchen[k].todo /\ y.seen = v
  <2> DEFINE As == Opened \cup {"ready", "committed"}
             x == kitchen[k]
             Todos == Seq(StatementsOf(x.extras))
  <2>1. /\ x \in [at : As, q : RegisterTransformationRequest, extras : SUBSET Additionals,
                   seen : Int, todo : Todos]
        /\ "waits" \in As
    BY <1>1 DEF IsRequest, Opened
  <2>2. y = [x EXCEPT !.at = "waits", !.seen = v]
    BY <1>4
  <2> HIDE DEF As, Todos, x
  <2>3. y \in [at : As, q : RegisterTransformationRequest, extras : SUBSET Additionals,
               seen : Int, todo : Todos]
    BY <1>3, <2>1, <2>2
  <2>4. y.at = "waits" /\ y.q = x.q /\ y.extras = x.extras /\ y.seen = v /\ y.todo = x.todo
    BY <2>1, <2>2
  <2> QED
    BY <2>3, <2>4 DEF IsRequest, As, Todos, x
<1>6. /\ kitchen'[k] = y /\ DOMAIN kitchen' = Kitchens
      /\ \A j \in Kitchens \ {k} : kitchen'[j] = kitchen[j]
  BY <1>1, <1>2, <1>4 DEF WholeInv, OneManager
<1>7. CommittedRows'
  BY DEF WholeInv, CommittedRows, TransformationsAreAtomic
<1>8. OneManager'
  <2>1. kitchen[k].at \in Opened /\ y.at \in Opened /\ y.at = "waits"
    BY <1>5 DEF Opened
  <2>2. \A j \in Kitchens \ {k} : kitchen[j].at \notin Opened /\ kitchen[j].at \notin {"work", "waits"}
    BY <2>1 DEF WholeInv, OneManager, Opened
  <2>3. /\ pending' \in [Kitchens -> Kitchens \cup {Nobody}] /\ pending'[k] = k
        /\ \A t \in Kitchens \ {k} : pending'[t] = Nobody
    BY <1>1, <2>2 DEF WholeInv, OneManager
  <2> QED
    BY <1>1, <1>6, <2>1, <2>2, <2>3 DEF WholeInv, OneManager
<1>9. WorkInv(k)'
  <2>1. IsTransformation(y)'
    BY <1>1, <1>5 DEF IsTransformation
  <2>2. Wrote(tx[k], y, batches)
    BY <1>5 DEF Wrote, WholeInv, WorkInv
  <2>3. ReadBefore(k)'
    <3>1. PICK s : s = Head(kitchen[k].todo)
      OBVIOUS
    <3>2. Head(kitchen'[k].todo) = s /\ kitchen'[k].seen = v
      BY <1>5, <1>6, <3>1
    <3>3. v = SeenIn(k, s.of, s.good)
      BY <1>2, <3>1
    <3>4. SeenIn(k, s.of, s.good)' = SeenIn(k, s.of, s.good)
      BY DEF SeenIn
    <3> QED
      BY <3>2, <3>3, <3>4 DEF ReadBefore
  <2> QED
    BY <1>5, <1>6, <2>1, <2>2, <2>3 DEF WorkInv, RequestIs
<1>10. \A j \in Kitchens \ {k} : WorkInv(j)'
  BY <1>6, OthersKeepWork, TransformationsAssumption DEF WholeInv, OneManager
<1> QED
  BY <1>7, <1>8, <1>9, <1>10 DEF WholeInv

\* Transaction x of request y once statement s was run.
Ran(x, y, s) ==
    CASE s.do = "take"    -> WritingRow(x, s, y.seen - y.q.input)
      [] s.do = "put"     -> WritingRow(x, s, y.seen + y.q.output)
      [] s.do = "produce" -> [x EXCEPT !.made = @ + y.q.output]
      [] s.do = "record"  -> [x EXCEPT !.records = @ \cup {y.q.id}]

\* One more statement of the program was run.
LEMMA WroteGoesOn ==
    ASSUME NEW c \in [Goods -> Int], NEW x, NEW y, IsTransformation(y), Wrote(x, y, c),
           y.todo # << >>, y.seen = c[Head(y.todo).good],
           NEW z, z.q = y.q, z.extras = y.extras, z.todo = Tail(y.todo),
           NEW w, w = Ran(x, y, Head(y.todo))
    PROVE  Wrote(w, z, c) /\ w.open = x.open
<1> DEFINE s == Head(y.todo)
           N == y.extras
           left == Range(y.todo)
           rest == Range(z.todo)
<1>1. /\ N \in SUBSET Additionals /\ y.todo \in Seq(StatementsOf(N)) /\ IsInjective(y.todo)
      /\ y.q \in RegisterTransformationRequest
  BY DEF IsRequest, IsTransformation
<1>2. s \in StatementsOf(N) /\ s \in left /\ rest = left \ {s}
  BY <1>1, TailOfDistinct
<1>3. /\ s.good \in Goods
      /\ \/ s.good \in {Base} \cup N /\ s = Take("batches", s.good)
         \/ s.good \in {Base} \cup N /\ s = Take("stored", s.good)
         \/ s.good = Prepared /\ s \in {Produces, Puts, Records}
  BY <1>1, <1>2, StatementKinds
<1>4. Prepared \notin {Base} \cup N /\ Prepared \in Goods
  BY <1>1, GoodsDiffer
<1>5. /\ \A g, h : Take("batches", g) # Take("stored", h)
      /\ \A g, h : Take("batches", g) = Take("batches", h) => g = h
      /\ \A g, h : Take("stored", g) = Take("stored", h) => g = h
      /\ \A rows, g : Take(rows, g) \notin {Produces, Puts, Records}
      /\ Produces # Puts /\ Puts # Records /\ Produces # Records
  <2>1. \A rows, g : Take(rows, g).do = "take" /\ Take(rows, g).of = rows /\ Take(rows, g).good = g
    BY DEF Take
  <2>2. Produces.do = "produce" /\ Puts.do = "put" /\ Records.do = "record"
    BY DEF Produces, Puts, Records
  <2> QED
    BY <2>1, <2>2
<1>6. /\ IsTx(x)
      /\ DOMAIN x.batches = {g \in {Base} \cup N : Take("batches", g) \notin left}
      /\ DOMAIN x.stored = {g \in {Base} \cup N : Take("stored", g) \notin left}
                              \cup {g \in {Prepared} : Puts \notin left}
      /\ \A g \in DOMAIN x.batches : x.batches[g] = c[g] - y.q.input
      /\ \A g \in DOMAIN x.stored :
            x.stored[g] = IF g = Prepared THEN c[g] + y.q.output ELSE c[g] - y.q.input
      /\ x.made = IF Produces \in left THEN 0 ELSE y.q.output
      /\ x.records = IF Records \in left THEN {} ELSE {y.q.id}
  BY DEF Wrote, Take
<1>7. /\ y.q.output \in Int
      /\ w = CASE s.do = "take"    -> WritingRow(x, s, y.seen - y.q.input)
               [] s.do = "put"     -> WritingRow(x, s, y.seen + y.q.output)
               [] s.do = "produce" -> [x EXCEPT !.made = @ + y.q.output]
               [] s.do = "record"  -> [x EXCEPT !.records = @ \cup {y.q.id}]
  BY <1>1, TransformationsAssumption DEF RegisterTransformationRequest, Ran
<1>8. x = [open |-> x.open, batches |-> x.batches, stored |-> x.stored, made |-> x.made,
            records |-> x.records]
  <2>1. PICK o, b, u, m, r :
            x = [open |-> o, batches |-> b, stored |-> u, made |-> m, records |-> r]
    BY <1>6 DEF IsTx
  <2>2. x.open = o /\ x.batches = b /\ x.stored = u /\ x.made = m /\ x.records = r
    BY <2>1
  <2> QED
    BY <2>1, <2>2
<1> SUFFICES /\ IsTx(w) /\ w.open = x.open
             /\ DOMAIN w.batches = {g \in {Base} \cup N : Take("batches", g) \notin rest}
             /\ DOMAIN w.stored = {g \in {Base} \cup N : Take("stored", g) \notin rest}
                                     \cup {g \in {Prepared} : Puts \notin rest}
             /\ \A g \in DOMAIN w.batches : w.batches[g] = c[g] - y.q.input
             /\ \A g \in DOMAIN w.stored :
                   w.stored[g] = IF g = Prepared THEN c[g] + y.q.output ELSE c[g] - y.q.input
             /\ w.made = IF Produces \in rest THEN 0 ELSE y.q.output
             /\ w.records = IF Records \in rest THEN {} ELSE {y.q.id}
  BY DEF Wrote, Take
<1> HIDE DEF s, left, rest, N
<1>9. CASE s.good \in {Base} \cup N /\ s = Take("batches", s.good)
  <2>1. s.do = "take" /\ s.of = "batches"
    BY <1>9 DEF Take
  <2>2. PICK row : row = WrittenOver(OneRow(s.good, y.seen - y.q.input), x.batches)
    OBVIOUS
  <2>3. w = WritingRow(x, s, y.seen - y.q.input)
    BY <1>7, <2>1
  <2>4. w = [open |-> x.open, batches |-> row, stored |-> x.stored, made |-> x.made,
             records |-> x.records]
    BY <1>8, <2>1, <2>2, <2>3 DEF WritingRow
  <2>5. w.open = x.open /\ w.batches = row /\ w.stored = x.stored /\ w.made = x.made /\ w.records = x.records
    BY <2>4
  <2>10. IsTx(w)
    BY <2>4, Zenon DEF IsTx
  <2>6. /\ DOMAIN row = DOMAIN x.batches \cup {s.good}
        /\ \A g \in DOMAIN row : row[g] = IF g = s.good THEN y.seen - y.q.input ELSE x.batches[g]
    BY <2>2 DEF WrittenOver, OneRow
  <2>7. DOMAIN row = {g \in {Base} \cup N : Take("batches", g) \notin rest}
    BY <1>2, <1>5, <1>6, <1>9, <2>6
  <2>8. \A g \in DOMAIN row : row[g] = c[g] - y.q.input
    BY <1>6, <2>6 DEF s
  <2>9. /\ \A g : (Take("stored", g) \in rest) <=> (Take("stored", g) \in left)
        /\ (Puts \in rest <=> Puts \in left)
        /\ (Produces \in rest <=> Produces \in left) /\ (Records \in rest <=> Records \in left)
    BY <1>2, <1>5, <1>9
  <2> QED
    BY <1>6, <2>10, <2>5, <2>7, <2>8, <2>9
<1>10. CASE s.good \in {Base} \cup N /\ s = Take("stored", s.good)
  <2>1. s.do = "take" /\ s.of = "stored"
    BY <1>10 DEF Take
  <2>2. PICK row : row = WrittenOver(OneRow(s.good, y.seen - y.q.input), x.stored)
    OBVIOUS
  <2>3. w = WritingRow(x, s, y.seen - y.q.input)
    BY <1>7, <2>1
  <2>4. w = [open |-> x.open, batches |-> x.batches, stored |-> row, made |-> x.made,
             records |-> x.records]
    BY <1>8, <2>1, <2>2, <2>3 DEF WritingRow
  <2>5. w.open = x.open /\ w.batches = x.batches /\ w.stored = row /\ w.made = x.made /\ w.records = x.records
    BY <2>4
  <2>10. IsTx(w)
    BY <2>4, Zenon DEF IsTx
  <2>6. /\ DOMAIN row = DOMAIN x.stored \cup {s.good}
        /\ \A g \in DOMAIN row : row[g] = IF g = s.good THEN y.seen - y.q.input ELSE x.stored[g]
    BY <2>2 DEF WrittenOver, OneRow
  <2>7. DOMAIN row = {g \in {Base} \cup N : Take("stored", g) \notin rest}
                        \cup {g \in {Prepared} : Puts \notin rest}
    BY <1>2, <1>5, <1>6, <1>10, <2>6
  <2>8. \A g \in DOMAIN row :
           row[g] = IF g = Prepared THEN c[g] + y.q.output ELSE c[g] - y.q.input
    BY <1>4, <1>6, <1>10, <2>6 DEF s
  <2>9. /\ \A g : (Take("batches", g) \in rest) <=> (Take("batches", g) \in left)
        /\ (Produces \in rest <=> Produces \in left) /\ (Records \in rest <=> Records \in left)
    BY <1>2, <1>5, <1>10
  <2> QED
    BY <1>6, <2>10, <2>5, <2>7, <2>8, <2>9
<1>11. CASE s.good = Prepared /\ s = Puts
  <2>1. s.do = "put" /\ s.of = "stored"
    BY <1>11 DEF Puts
  <2>2. PICK row : row = WrittenOver(OneRow(s.good, y.seen + y.q.output), x.stored)
    OBVIOUS
  <2>3. w = WritingRow(x, s, y.seen + y.q.output)
    BY <1>7, <2>1
  <2>4. w = [open |-> x.open, batches |-> x.batches, stored |-> row, made |-> x.made,
             records |-> x.records]
    BY <1>8, <2>1, <2>2, <2>3 DEF WritingRow
  <2>5. w.open = x.open /\ w.batches = x.batches /\ w.stored = row /\ w.made = x.made /\ w.records = x.records
    BY <2>4
  <2>10. IsTx(w)
    BY <2>4, Zenon DEF IsTx
  <2>6. /\ DOMAIN row = DOMAIN x.stored \cup {s.good}
        /\ \A g \in DOMAIN row : row[g] = IF g = s.good THEN y.seen + y.q.output ELSE x.stored[g]
    BY <2>2 DEF WrittenOver, OneRow
  <2>7. DOMAIN row = {g \in {Base} \cup N : Take("stored", g) \notin rest}
                        \cup {g \in {Prepared} : Puts \notin rest}
    BY <1>2, <1>5, <1>6, <1>11, <2>6
  <2>8. \A g \in DOMAIN row :
           row[g] = IF g = Prepared THEN c[g] + y.q.output ELSE c[g] - y.q.input
    BY <1>4, <1>6, <1>11, <2>6 DEF s
  <2>9. /\ \A g : (Take("batches", g) \in rest) <=> (Take("batches", g) \in left)
        /\ (Produces \in rest <=> Produces \in left) /\ (Records \in rest <=> Records \in left)
    BY <1>2, <1>5, <1>11
  <2> QED
    BY <1>6, <2>10, <2>5, <2>7, <2>8, <2>9
<1>12. CASE s.good = Prepared /\ s = Produces
  <2>1. s.do = "produce" /\ x.made = 0
    BY <1>2, <1>6, <1>12 DEF Produces
  <2>2. w = [open |-> x.open, batches |-> x.batches, stored |-> x.stored, made |-> y.q.output,
             records |-> x.records]
    BY <1>7, <1>8, <2>1
  <2>3. w.open = x.open /\ w.batches = x.batches /\ w.stored = x.stored /\ w.made = y.q.output
        /\ w.records = x.records
    BY <2>2
  <2>10. IsTx(w)
    BY <2>2, Zenon DEF IsTx
  <2>4. /\ \A rows, g : (Take(rows, g) \in rest) <=> (Take(rows, g) \in left)
        /\ (Puts \in rest <=> Puts \in left) /\ (Records \in rest <=> Records \in left)
        /\ Produces \notin rest
    BY <1>2, <1>5, <1>12
  <2> QED
    BY <1>6, <2>10, <2>3, <2>4
<1>13. CASE s.good = Prepared /\ s = Records
  <2>1. s.do = "record" /\ x.records = {}
    BY <1>2, <1>6, <1>13 DEF Records
  <2>2. w = [open |-> x.open, batches |-> x.batches, stored |-> x.stored, made |-> x.made,
             records |-> {y.q.id}]
    BY <1>7, <1>8, <2>1
  <2>3. w.open = x.open /\ w.batches = x.batches /\ w.stored = x.stored /\ w.made = x.made
        /\ w.records = {y.q.id}
    BY <2>2
  <2>10. IsTx(w)
    BY <2>2, Zenon DEF IsTx
  <2>4. /\ \A rows, g : (Take(rows, g) \in rest) <=> (Take(rows, g) \in left)
        /\ (Puts \in rest <=> Puts \in left) /\ (Produces \in rest <=> Produces \in left)
        /\ Records \notin rest
    BY <1>2, <1>5, <1>13
  <2> QED
    BY <1>6, <2>10, <2>3, <2>4
<1> QED
  BY <1>3, <1>9, <1>10, <1>11, <1>12, <1>13

\* What a statement had read is of no use to the next one.
LEMMA SeenIsForgotten ==
    ASSUME NEW As, NEW Qs, NEW Xs, NEW Todos,
           NEW b \in [at : As, q : Qs, extras : Xs, seen : Int, todo : Todos]
    PROVE  [b EXCEPT !.seen = 0] \in [at : As, q : Qs, extras : Xs, seen : Int, todo : Todos]
OBVIOUS

LEMMA RunStatementKeeps ==
    ASSUME WholeInv, NEW t \in Kitchens, RunStatement(t)
    PROVE  WholeInv'
<1> USE DEF RunStatement
<1>1. pending[t] = t /\ kitchen[t].at = "waits"
  BY DEF WholeInv, OneManager
<1> DEFINE x == tx[t]
           y == kitchen[t]
           s == Head(y.todo)
<1>2. IsTransformation(y) /\ IsRequest(y) /\ y.todo # << >>
  BY <1>1, TransformationRequest DEF IsTransformation, Opened
<1>3. /\ batches \in [Goods -> Int] /\ Wrote(x, y, batches)
      /\ y.seen = SeenIn(t, s.of, s.good) /\ x.open
  BY <1>1 DEF WholeInv, CommittedRows, WorkInv, ReadBefore, OneManager, Opened
<1>4. y.seen = batches[s.good]
  BY <1>1, <1>2, <1>3, SeesCommitted
<1>5. PICK z : z = [kitchen[t] EXCEPT !.at = "work", !.todo = Tail(kitchen[t].todo), !.seen = 0]
  OBVIOUS
<1>6. PICK w : w = Ran(x, y, s)
  OBVIOUS
<1>7. /\ kitchen'[t] = z /\ DOMAIN kitchen' = Kitchens
      /\ \A j \in Kitchens \ {t} : kitchen'[j] = kitchen[j]
  <2>1. kitchen' = [kitchen EXCEPT ![t].at = "work", ![t].todo = Tail(kitchen[t].todo), ![t].seen = 0]
    BY <1>1
  <2> QED
    BY <1>5, <2>1 DEF WholeInv, OneManager
<1>8. /\ tx'[t] = w /\ DOMAIN tx' = Kitchens
      /\ \A j \in Kitchens \ {t} : tx'[j] = tx[j]
  BY <1>1, <1>6 DEF WholeInv, OneManager, Ran
<1>9. Tail(y.todo) \in Seq(StatementsOf(y.extras)) /\ IsInjective(Tail(y.todo))
  BY <1>2, TailOfDistinct DEF IsRequest, IsTransformation
<1>10. /\ IsRequest(z) /\ z.at = "work" /\ z.q = y.q /\ z.extras = y.extras
       /\ z.todo = Tail(y.todo)
  <2> DEFINE As == Opened \cup {"ready", "committed"}
             Todos == Seq(StatementsOf(y.extras))
             rest == Tail(y.todo)
  <2>1. /\ y \in [at : As, q : RegisterTransformationRequest, extras : SUBSET Additionals,
                   seen : Int, todo : Todos]
        /\ "work" \in As /\ rest \in Todos
    BY <1>2, <1>9 DEF IsRequest, Opened
  <2>2. z = [y EXCEPT !.at = "work", !.todo = rest, !.seen = 0]
    BY <1>5
  <2> HIDE DEF As, Todos, y, rest
  <2>3. z \in [at : As, q : RegisterTransformationRequest, extras : SUBSET Additionals,
               seen : Int, todo : Todos]
    <3>1. PICK a : a = [y EXCEPT !.at = "work"]
      OBVIOUS
    <3>2. a \in [at : As, q : RegisterTransformationRequest, extras : SUBSET Additionals,
                 seen : Int, todo : Todos]
      BY <2>1, <3>1
    <3>3. PICK b : b = [a EXCEPT !.todo = rest]
      OBVIOUS
    <3>4. b \in [at : As, q : RegisterTransformationRequest, extras : SUBSET Additionals,
                 seen : Int, todo : Todos]
      BY <2>1, <3>2, <3>3
    <3>5. [b EXCEPT !.seen = 0]
             \in [at : As, q : RegisterTransformationRequest, extras : SUBSET Additionals,
                  seen : Int, todo : Todos]
      BY <3>4, SeenIsForgotten
    <3> QED
      BY <2>2, <3>1, <3>3, <3>5
  <2>4. z.at = "work" /\ z.q = y.q /\ z.extras = y.extras /\ z.todo = rest
    BY <2>1, <2>2
  <2> QED
    BY <2>3, <2>4 DEF IsRequest, As, Todos, y, rest
<1>11. CommittedRows'
  BY DEF WholeInv, CommittedRows, TransformationsAreAtomic
<1>12. Wrote(w, z, batches) /\ w.open = x.open
  BY <1>2, <1>3, <1>4, <1>6, <1>10, WroteGoesOn
<1>13. OneManager'
  <2>1. kitchen[t].at \in Opened /\ z.at \in Opened /\ w.open /\ manager = t
    BY <1>1, <1>3, <1>10, <1>12 DEF Opened, WholeInv, OneManager
  <2>2. \A j \in Kitchens \ {t} : kitchen[j].at \notin Opened /\ kitchen[j].at \notin {"work", "waits"}
    BY <2>1 DEF WholeInv, OneManager, Opened
  <2>3. /\ pending' \in [Kitchens -> Kitchens \cup {Nobody}]
        /\ \A j \in Kitchens : pending'[j] = Nobody
    BY <2>2 DEF WholeInv, OneManager
  <2> QED
    BY <1>7, <1>8, <2>1, <2>2, <2>3 DEF WholeInv, OneManager
<1>14. WorkInv(t)'
  <2>1. IsTransformation(z)'
    BY <1>9, <1>10 DEF IsTransformation
  <2> QED
    BY <1>7, <1>8, <1>10, <1>12, <2>1 DEF WorkInv, RequestIs, ReadBefore
<1>15. \A j \in Kitchens \ {t} : WorkInv(j)'
  BY <1>7, <1>8, OthersKeepWork, TransformationsAssumption
<1> QED
  BY <1>11, <1>13, <1>14, <1>15 DEF WholeInv

LEMMA CommitTxKeeps ==
    ASSUME WholeInv, NEW k \in Kitchens, CommitTx(k)
    PROVE  WholeInv'
<1> USE DEF CommitTx
<1>1. PICK y : y = kitchen[k]
  OBVIOUS
<1>2. IsTransformation(y) /\ IsRequest(y) /\ y.at = "commit" /\ y.todo = << >>
  BY <1>1, TransformationRequest DEF IsTransformation, Opened
<1>3. PICK x : x = tx[k]
  OBVIOUS
<1> DEFINE taken == {Base} \cup y.extras
<1>4. /\ DOMAIN x.batches = taken /\ DOMAIN x.stored = taken \cup {Prepared}
      /\ \A g \in taken : x.batches[g] = batches[g] - y.q.input
      /\ \A g \in taken \cup {Prepared} :
            x.stored[g] = IF g = Prepared THEN batches[g] + y.q.output
                          ELSE batches[g] - y.q.input
      /\ x.made = y.q.output /\ x.records = {y.q.id}
  <2>1. Range(y.todo) = {}
    BY <1>2 DEF Range
  <2>2. Wrote(x, y, batches)
    BY <1>1, <1>2, <1>3 DEF WholeInv, WorkInv
  <2> QED
    BY <2>1, <2>2 DEF Wrote
<1>5. /\ taken \subseteq Goods /\ Prepared \in Goods /\ Prepared \notin taken
      /\ y.q.input \in Int /\ y.q.output \in Int
  <2>1. y.extras \in SUBSET Additionals /\ y.q \in RegisterTransformationRequest
    BY <1>2 DEF IsRequest
  <2> QED
    <3>1. PICK N \in SUBSET Additionals : N = y.extras
      BY <2>1
    <3>2. Base \in Goods /\ Prepared \in Goods /\ N \subseteq Goods /\ Prepared \notin {Base} \cup N
      BY GoodsDiffer
    <3>3. y.q.input \in Nat /\ y.q.output \in Nat
      BY <2>1, TransformationsAssumption DEF RegisterTransformationRequest
    <3> QED
      BY <3>1, <3>2, <3>3
<1>6. /\ kitchen'[k] = [y EXCEPT !.at = "committed"] /\ DOMAIN kitchen' = Kitchens
      /\ \A j \in Kitchens \ {k} : kitchen'[j] = kitchen[j]
      /\ tx'[k] = NoTx /\ DOMAIN tx' = Kitchens
      /\ \A j \in Kitchens \ {k} : tx'[j] = tx[j]
  BY <1>1 DEF WholeInv, OneManager
<1>7. PICK z : z = [y EXCEPT !.at = "committed"]
  OBVIOUS
<1>8. IsRequest(z) /\ z.at = "committed" /\ z.q = y.q /\ z.extras = y.extras /\ z.todo = y.todo
  BY <1>2, <1>7, RequestMoves
<1>9. /\ batches \in [Goods -> Int] /\ effect \in [Goods -> Int]
      /\ \A g \in Goods : batches[g] = Stock[g] + effect[g] /\ stored[g] = batches[g]
  BY DEF WholeInv, CommittedRows, TransformationsAreAtomic
<1>10. \A g \in Goods :
          /\ batches'[g] = (IF g = Prepared THEN y.q.output ELSE 0)
                              + IF g \in taken THEN x.batches[g] ELSE batches[g]
          /\ stored'[g] = IF g \in taken \cup {Prepared} THEN x.stored[g] ELSE stored[g]
          /\ effect'[g] = effect[g] + (CASE g = Prepared -> y.q.output
                                         [] g \in taken -> -y.q.input
                                         [] OTHER -> 0)
  BY <1>1, <1>3, <1>4 DEF WrittenBy, Transformed
<1>11. \A g \in Goods :
          /\ batches'[g] \in Int /\ effect'[g] \in Int
          /\ batches'[g] = Stock[g] + effect'[g] /\ stored'[g] = batches'[g]
  <2> SUFFICES ASSUME NEW g \in Goods
               PROVE  /\ batches'[g] \in Int /\ effect'[g] \in Int
                      /\ batches'[g] = Stock[g] + effect'[g] /\ stored'[g] = batches'[g]
    OBVIOUS
  <2>1. batches[g] \in Int /\ effect[g] \in Int /\ Stock[g] \in Int
    BY <1>9, TransformationsAssumption
  <2> HIDE DEF taken
  <2>2. CASE g = Prepared
    <3>1. g \notin taken /\ batches'[g] = y.q.output + batches[g]
          /\ stored'[g] = batches[g] + y.q.output /\ effect'[g] = effect[g] + y.q.output
      BY <1>4, <1>5, <1>10, <2>2
    <3> QED
      BY <1>5, <1>9, <2>1, <3>1
  <2>3. CASE g \in taken
    <3>1. g # Prepared
      BY <1>5, <2>3
    <3>2. batches'[g] = 0 + (batches[g] - y.q.input) /\ stored'[g] = batches[g] - y.q.input
          /\ effect'[g] = effect[g] + (-y.q.input)
      BY <1>4, <1>10, <2>3, <3>1
    <3> QED
      BY <1>5, <1>9, <2>1, <3>2
  <2>4. CASE g # Prepared /\ g \notin taken
    <3>1. batches'[g] = 0 + batches[g] /\ stored'[g] = stored[g] /\ effect'[g] = effect[g] + 0
      BY <1>10, <2>4
    <3> QED
      BY <1>9, <2>1, <3>1
  <2> QED
    BY <2>2, <2>3, <2>4
<1>12. registered' = registered \cup {y.q.id}
  BY <1>3, <1>4 DEF WrittenBy
<1>13. CommittedRows'
  <2>1. \E f, h, e : batches' = [g \in Goods |-> f[g]] /\ stored' = [g \in Goods |-> h[g]]
                     /\ effect' = [g \in Goods |-> e[g]]
    <3>1. /\ batches' = [g \in Goods |-> batches'[g]]
          /\ stored' = [g \in Goods |-> stored'[g]]
          /\ effect' = [g \in Goods |-> effect'[g]]
      BY DEF WrittenBy
    <3> QED
      BY <3>1
  <2>2. batches' \in [Goods -> Int] /\ stored' \in [Goods -> Int] /\ effect' \in [Goods -> Int]
    BY <1>11, <2>1
  <2> QED
    BY <1>11, <1>12, <2>2 DEF WholeInv, CommittedRows, TransformationsAreAtomic
<1>14. OneManager'
  <2>1. /\ z.at \notin Opened /\ z.at \notin {"work", "waits"} /\ ~ NoTx.open
        /\ kitchen[k].at # "waits"
    BY <1>1, <1>2, <1>8 DEF Opened, NoTx
  <2> QED
    BY <1>6, <1>7, <2>1 DEF WholeInv, OneManager
<1>15. WorkInv(k)'
  <2>1. IsTransformation(z)'
    BY <1>2, <1>8, <1>12 DEF IsTransformation
  <2> QED
    BY <1>6, <1>7, <1>8, <2>1 DEF WorkInv, RequestIs, ReadBefore
<1>16. \A j \in Kitchens \ {k} : WorkInv(j)'
  <2>1. kitchen[k].at \in Opened /\ registered \subseteq registered'
    BY <1>12 DEF Opened
  <2> QED
    BY <1>6, <2>1, OthersKeepWork, TransformationsAssumption
<1> QED
  BY <1>13, <1>14, <1>15, <1>16 DEF WholeInv

-----------------------------------------------------------------------------
(* The theorems *)

\* The inductive invariant: one transaction at a time, which wrote what the statements
\* of its request that were run say.
THEOREM TransformationsInvariance == TransformationsSpec => []TransformationsInv
<1>1. TransformationsInit => TransformationsInv
  <2> SUFFICES ASSUME TransformationsInit
               PROVE  WholeInv
    BY DEF TransformationsInv
  <2> USE DEF TransformationsInit
  <2>1. CommittedRows
    <3>1. Stock \in [Goods -> Int]
      BY TransformationsAssumption
    <3> QED
      BY <3>1 DEF CommittedRows, TransformationsAreAtomic
  <2>2. OneManager
    BY DEF OneManager, NoTransformation, NoTx, Opened
  <2>3. \A k \in Kitchens : WorkInv(k)
    BY DEF WorkInv, RequestIs, ReadBefore, NoTransformation
  <2> QED
    BY <2>1, <2>2, <2>3 DEF WholeInv
<1>2. TransformationsInv /\ [TransformationsNext]_transformationVars => TransformationsInv'
  <2> SUFFICES ASSUME TransformationsInv, [TransformationsNext]_transformationVars, ~mixed'
               PROVE  WholeInv'
    BY DEF TransformationsInv
  <2>1. CASE UNCHANGED transformationVars
    <3>1. WholeInv
      BY <2>1 DEF TransformationsInv, transformationVars
    <3>2. CommittedRows'
      BY <2>1, <3>1 DEF transformationVars, WholeInv, CommittedRows, TransformationsAreAtomic
    <3>3. OneManager'
      BY <2>1, <3>1 DEF transformationVars, WholeInv, OneManager
    <3>4. \A k \in Kitchens : WorkInv(k)'
      BY <2>1, <3>1 DEF transformationVars, WholeInv, WorkInv, RequestIs, IsTransformation,
                        ReadBefore, SeenIn
    <3> QED
      BY <3>2, <3>3, <3>4 DEF WholeInv
  <2>2. CASE TransformationsNext
    <3>1. ~mixed
      BY <2>2 DEF TransformationsNext, CreatePreparationRecipe, UpdatePreparationRecipe,
                  SubmitPreparationRecipe, RecipeStatement, RegisterTransformation, CommitWork,
                  IssueWork, RunStatement, LeaveWork, CommitTx, RollBackTx, PublishTransformed,
                  KitchenStops
    <3>2. WholeInv
      BY <3>1 DEF TransformationsInv
    <3>3. CASE KitchenStops
      BY <3>2, <3>3, KitchenStopsKeeps
    <3>4. ASSUME NEW k \in Kitchens,
                 CreatePreparationRecipe(k) \/ UpdatePreparationRecipe(k)
          PROVE  WholeInv'
      BY <3>2, <3>4, SubmitPreparationRecipeKeeps
         DEF CreatePreparationRecipe, UpdatePreparationRecipe, CreatePreparationRecipeRequest,
             UpdatePreparationRecipeRequest
    <3>5. ASSUME NEW k \in Kitchens,
                 \/ RecipeStatement(k) \/ RegisterTransformation(k) \/ CommitWork(k)
                 \/ IssueWork(k) \/ RunStatement(k) \/ LeaveWork(k) \/ CommitTx(k)
                 \/ RollBackTx(k) \/ PublishTransformed(k)
          PROVE  WholeInv'
      BY <3>2, <3>5, RecipeStatementKeeps, RegisterTransformationKeeps, CommitWorkKeeps,
         IssueWorkKeeps, RunStatementKeeps, LeaveWorkKeeps, CommitTxKeeps, RollBackTxKeeps,
         PublishTransformedKeeps
    <3> QED
      BY <2>2, <3>3, <3>4, <3>5 DEF TransformationsNext
  <2> QED
    BY <2>1, <2>2
<1> QED
  BY <1>1, <1>2, PTL DEF TransformationsSpec

\* Unless two commits overlapped, what is left of every ingredient is what the
\* transformations that succeeded made of it, in the batches and in the level, and
\* events are of registered ones.
THEOREM TransformationsStayWhole == TransformationsSpec => []TransformationsAreWhole
<1>1. TransformationsInv => TransformationsAreWhole
  BY DEF TransformationsInv, WholeInv, CommittedRows, TransformationsAreWhole
<1> QED
  BY <1>1, TransformationsInvariance, PTL

-----------------------------------------------------------------------------
(* Types *)

\* Rows of some ingredients.
SomeRows == UNION {[D -> Nat] : D \in SUBSET Goods}

OpenTx == [open : {TRUE}, batches : SomeRows, stored : SomeRows, made : Nat,
           records : SUBSET TransformationIds]

\* A statement that waits takes no more than what was read for it, so that what it
\* writes is a quantity, whatever the row has become.
TakesWhatIsThere(y) ==
    y.at = "waits" => /\ y.todo # << >>
                      /\ Head(y.todo).do = "take" => y.seen >= y.q.input

IsWork(y) == IsRequest(y) /\ y.seen \in Nat /\ TakesWhatIsThere(y)

IsAsked(y) ==
    \/ y = NoTransformation
    \/ y \in [at : {"recipe"}, todo : Seq(RecipeStatements) \ {<< >>}]
    \/ IsWork(y)

RowTypes ==
    /\ needs \subseteq Additionals
    /\ batches \in [Goods -> Nat] /\ stored \in [Goods -> Nat]
    /\ registered \subseteq TransformationIds /\ announced \subseteq TransformationIds
    /\ effect \in [Goods -> Int]
    /\ mixed \in BOOLEAN

\* Transactions are open as long as their requests are at work, the one in the
\* manager and those that run a statement among them; no client has two statements
\* on connections.
WorkTypes ==
    /\ DOMAIN kitchen = Kitchens /\ \A k \in Kitchens : IsAsked(kitchen[k])
    /\ tx \in [Kitchens -> OpenTx \cup {NoTx}]
    /\ \A k \in Kitchens : tx[k].open <=> kitchen[k].at \in Opened
    /\ manager \in Kitchens \cup {Nobody}
    /\ manager # Nobody => kitchen[manager].at \in {"work", "waits"}
    /\ pending \in [Kitchens -> Kitchens \cup {Nobody}]
    /\ \A t \in Kitchens :
          pending[t] # Nobody => tx[t].open /\ kitchen[pending[t]].at = "waits"
    /\ \A t, u \in Kitchens : pending[t] = pending[u] /\ pending[t] # Nobody => t = u

TypesInv == RowTypes /\ WorkTypes

LEMMA NaturalsGiven ==
    ASSUME NEW q \in RegisterTransformationRequest
    PROVE  q.input \in Nat /\ q.output \in Nat /\ q.id \in TransformationIds
BY TransformationsAssumption DEF RegisterTransformationRequest

LEMMA RowsOverRows ==
    ASSUME NEW f \in SomeRows, NEW g \in Goods, NEW v \in Nat
    PROVE  WrittenOver(OneRow(g, v), f) \in SomeRows
<1>1. PICK D \in SUBSET Goods : f \in [D -> Nat]
  BY DEF SomeRows
<1>2. D \cup {g} \in SUBSET Goods
  OBVIOUS
<1>3. WrittenOver(OneRow(g, v), f) \in [D \cup {g} -> Nat]
  <2>1. DOMAIN OneRow(g, v) = {g} /\ OneRow(g, v)[g] = v
    BY DEF OneRow
  <2>2. WrittenOver(OneRow(g, v), f)
          = [i \in {g} \cup D |-> IF i \in {g} THEN OneRow(g, v)[i] ELSE f[i]]
    BY <1>1, <2>1 DEF WrittenOver
  <2>3. \A i \in D \cup {g} : (IF i \in {g} THEN OneRow(g, v)[i] ELSE f[i]) \in Nat
    BY <1>1, <2>1
  <2>4. {g} \cup D = D \cup {g}
    OBVIOUS
  <2> QED
    BY <2>2, <2>3, <2>4
<1> QED
  BY <1>2, <1>3 DEF SomeRows

LEMMA RowsAreNatural ==
    ASSUME NEW f \in SomeRows, NEW g \in DOMAIN f
    PROVE  f[g] \in Nat
BY DEF SomeRows

\* What a transaction sees of a row is a quantity.
LEMMA SeesQuantities ==
    ASSUME RowTypes, WorkTypes, NEW t \in Kitchens, tx[t].open,
           NEW N \in SUBSET Additionals, NEW s \in StatementsOf(N)
    PROVE  SeenIn(t, s.of, s.good) \in Nat
<1>1. s.good \in Goods
  BY StatementKinds
<1>2. s.of \in {"batches", "stored"}
  <2>1. \/ s = Take("batches", s.good) \/ s = Take("stored", s.good)
        \/ s \in {Produces, Puts, Records}
    BY StatementKinds
  <2> QED
    BY <2>1 DEF Take, Produces, Puts, Records
<1>3. tx[t] \in OpenTx
  BY DEF WorkTypes, NoTx
<1>4. /\ tx[t]["batches"] \in SomeRows /\ tx[t]["stored"] \in SomeRows
  BY <1>3 DEF OpenTx
<1>5. batches[s.good] \in Nat /\ stored[s.good] \in Nat
  BY <1>1 DEF RowTypes
<1>6. CASE s.of = "batches"
  BY <1>4, <1>5, <1>6, RowsAreNatural DEF SeenIn
<1>7. CASE s.of = "stored"
  BY <1>4, <1>5, <1>7, RowsAreNatural DEF SeenIn
<1> QED
  BY <1>2, <1>6, <1>7

\* A request at work, or about to be, is a transformation's.
LEMMA WorkIsAsked ==
    ASSUME WorkTypes, NEW k \in Kitchens,
           kitchen[k].at \in Opened \cup {"ready", "committed"}
    PROVE  IsWork(kitchen[k])
<1>1. kitchen[k] # NoTransformation
      /\ kitchen[k] \notin [at : {"recipe"}, todo : Seq(RecipeStatements) \ {<< >>}]
  BY DEF NoTransformation, Opened
<1> QED
  BY <1>1 DEF WorkTypes, IsAsked

\* A client whose statement is on no connection goes on, and nobody else's request
\* or transaction changes.
LEMMA ClientGoesOn ==
    ASSUME WorkTypes, NEW k \in Kitchens, NEW y, NEW x,
           kitchen' = [kitchen EXCEPT ![k] = y], tx' = [tx EXCEPT ![k] = x],
           pending' = pending,
           IsAsked(y), x \in OpenTx \cup {NoTx}, x.open <=> y.at \in Opened,
           kitchen[k].at # "waits", y.at # "waits",
           x.open \/ pending[k] = Nobody,
           \/ manager' = Nobody
           \/ manager' = k /\ y.at = "work"
           \/ manager' = manager /\ manager # k
    PROVE  WorkTypes'
<1>1. /\ kitchen'[k] = y /\ DOMAIN kitchen' = Kitchens
      /\ \A j \in Kitchens \ {k} : kitchen'[j] = kitchen[j]
      /\ tx'[k] = x /\ DOMAIN tx' = Kitchens
      /\ \A j \in Kitchens \ {k} : tx'[j] = tx[j]
  BY DEF WorkTypes
<1>2. \A j \in Kitchens : IsAsked(kitchen'[j])
  BY <1>1 DEF WorkTypes
<1>3. tx' \in [Kitchens -> OpenTx \cup {NoTx}]
  BY <1>1 DEF WorkTypes
<1>4. \A j \in Kitchens : tx'[j].open <=> kitchen'[j].at \in Opened
  BY <1>1 DEF WorkTypes
<1>5. manager' \in Kitchens \cup {Nobody} /\ (manager' # Nobody => kitchen'[manager'].at \in {"work", "waits"})
  BY <1>1 DEF WorkTypes
<1>6. \A t \in Kitchens : pending'[t] # Nobody => tx'[t].open /\ kitchen'[pending'[t]].at = "waits"
  <2> SUFFICES ASSUME NEW t \in Kitchens, pending[t] # Nobody
               PROVE  tx'[t].open /\ kitchen'[pending[t]].at = "waits"
    OBVIOUS
  <2>1. tx[t].open /\ pending[t] \in Kitchens /\ kitchen[pending[t]].at = "waits"
    BY DEF WorkTypes
  <2>2. pending[t] # k
    BY <2>1
  <2>3. tx'[t].open
    BY <1>1, <2>1
  <2> QED
    BY <1>1, <2>1, <2>2, <2>3
<1>7. /\ pending' \in [Kitchens -> Kitchens \cup {Nobody}]
      /\ \A t, u \in Kitchens : pending'[t] = pending'[u] /\ pending'[t] # Nobody => t = u
  BY DEF WorkTypes
<1>8. \A j \in Kitchens : IsAsked(kitchen[j])'
  BY <1>2 DEF IsAsked, IsWork, IsRequest, TakesWhatIsThere
<1> QED
  BY <1>1, <1>3, <1>4, <1>5, <1>6, <1>7, <1>8 DEF WorkTypes

\* Likewise when it leaves the transactions alone.
LEMMA ClientWrites ==
    ASSUME WorkTypes, NEW k \in Kitchens, NEW y,
           kitchen' = [kitchen EXCEPT ![k] = y], tx' = tx, pending' = pending,
           IsAsked(y), y.at \in Opened <=> kitchen[k].at \in Opened,
           kitchen[k].at # "waits", y.at # "waits",
           \/ manager' = Nobody
           \/ manager' = manager /\ kitchen[k].at # "work"
    PROVE  WorkTypes'
<1>1. tx' = [tx EXCEPT ![k] = tx[k]]
  BY DEF WorkTypes
<1>2. tx[k] \in OpenTx \cup {NoTx} /\ (tx[k].open <=> y.at \in Opened)
  BY DEF WorkTypes
<1>3. manager' = manager => manager' = Nobody \/ manager # k \/ kitchen[k].at = "work"
  BY DEF WorkTypes
<1>4. tx[k].open \/ pending[k] = Nobody
  BY DEF WorkTypes
<1>5. PICK x : x = tx[k]
  OBVIOUS
<1> QED
  BY <1>1, <1>2, <1>3, <1>4, <1>5, ClientGoesOn

LEMMA WorkMoves ==
    ASSUME NEW x, IsWork(x), NEW a \in Opened \cup {"ready", "committed"}, a # "waits", NEW y,
           y = [x EXCEPT !.at = a]
    PROVE  IsWork(y) /\ y.at = a
<1>1. IsRequest(y) /\ y.at = a /\ y.seen = x.seen
  <2>1. IsRequest(x)
    BY DEF IsWork
  <2> QED
    BY <2>1, RequestMoves
<1> QED
  BY <1>1 DEF IsWork, TakesWhatIsThere

LEMMA SubmitTypes ==
    ASSUME TypesInv, NEW k \in Kitchens, NEW items \in SUBSET Additionals,
           SubmitPreparationRecipe(k, items)
    PROVE  TypesInv'
<1> USE DEF SubmitPreparationRecipe
<1>1. RowTypes'
  BY DEF TypesInv, RowTypes
<1>2. PICK y : y = [at |-> "recipe", todo |-> SavePreparationRecipe(items)]
  OBVIOUS
<1>3. SavePreparationRecipe(items) \in Seq(RecipeStatements) \ {<< >>}
  <2>1. [do |-> "row"] \in RecipeStatements /\ [do |-> "delete"] \in RecipeStatements
        /\ [do |-> "insert", items |-> items] \in RecipeStatements
    BY DEF RecipeStatements
  <2> QED
    BY <2>1 DEF SavePreparationRecipe
<1>4. IsAsked(y) /\ y.at = "recipe"
  BY <1>2, <1>3 DEF IsAsked
<1>5. y.at \notin Opened /\ kitchen[k].at \notin Opened /\ y.at # "waits"
      /\ kitchen[k].at \notin {"work", "waits"}
  BY <1>4 DEF NoTransformation, Opened
<1>6. WorkTypes /\ kitchen' = [kitchen EXCEPT ![k] = y] /\ tx' = tx /\ pending' = pending
      /\ manager' = manager
  BY <1>2 DEF TypesInv
<1>7. WorkTypes'
  BY <1>4, <1>5, <1>6, ClientWrites
<1> QED
  BY <1>1, <1>7 DEF TypesInv

LEMMA RecipeStatementTypes ==
    ASSUME TypesInv, NEW k \in Kitchens, RecipeStatement(k)
    PROVE  TypesInv'
<1> USE DEF RecipeStatement
<1>1. PICK todo : todo = kitchen[k].todo
  OBVIOUS
<1>2. kitchen[k] = [at |-> "recipe", todo |-> todo] /\ todo \in Seq(RecipeStatements) \ {<< >>}
  <2>1. kitchen[k] \in [at : {"recipe"}, todo : Seq(RecipeStatements) \ {<< >>}]
    <3>1. ~ IsWork(kitchen[k])
      BY DEF IsWork, IsRequest, Opened
    <3> QED
      BY <3>1 DEF TypesInv, WorkTypes, IsAsked, NoTransformation
  <2> QED
    BY <1>1, <2>1
<1>3. PICK y : y = IF Len(todo) = 1 THEN NoTransformation
                   ELSE [at |-> "recipe", todo |-> Tail(todo)]
  OBVIOUS
<1>4. kitchen' = [kitchen EXCEPT ![k] = y]
  <2>1. [kitchen[k] EXCEPT !.todo = Tail(todo)] = [at |-> "recipe", todo |-> Tail(todo)]
    <3>1. PICK x : x = kitchen[k]
      OBVIOUS
    <3>2. [x EXCEPT !.todo = Tail(todo)] = [at |-> "recipe", todo |-> Tail(todo)]
      BY <1>2, <3>1, RecipeRequest
    <3> QED
      BY <3>1, <3>2
  <2>2. kitchen' = [kitchen EXCEPT ![k] = IF Len(kitchen[k].todo) = 1 THEN NoTransformation
                      ELSE [kitchen[k] EXCEPT !.todo = Tail(kitchen[k].todo)]]
    OBVIOUS
  <2> QED
    BY <1>1, <1>3, <2>1, <2>2
<1>5. IsAsked(y) /\ y.at \notin Opened
  <2>1. CASE Len(todo) = 1
    BY <1>3, <2>1 DEF IsAsked, NoTransformation, Opened
  <2>2. CASE Len(todo) # 1
    <3>1. Tail(todo) \in Seq(RecipeStatements) \ {<< >>}
      BY <1>2, <2>2, TailOfLonger
    <3>2. PICK rest : rest = Tail(todo)
      OBVIOUS
    <3>3. y = [at |-> "recipe", todo |-> rest] /\ rest \in Seq(RecipeStatements) \ {<< >>}
      BY <1>3, <2>2, <3>1, <3>2
    <3>4. y \in [at : {"recipe"}, todo : Seq(RecipeStatements) \ {<< >>}] /\ y.at = "recipe"
      BY <3>3
    <3> QED
      BY <3>4 DEF IsAsked, Opened
  <2> QED
    BY <2>1, <2>2
<1>6. kitchen[k].at \notin Opened /\ kitchen[k].at \notin {"work", "waits"} /\ y.at # "waits"
  BY <1>2, <1>5 DEF Opened
<1>7. RowTypes'
  <2>1. needs' \subseteq Additionals
    <3>1. PICK s : s = Head(kitchen[k].todo)
      OBVIOUS
    <3>2. s \in RecipeStatements
      BY <1>1, <1>2, <3>1
    <3>3. needs \subseteq Additionals
      BY DEF TypesInv, RowTypes
    <3>4. needs' = CASE s.do = "row"    -> needs
                     [] s.do = "delete" -> {}
                     [] s.do = "insert" -> needs \cup s.items
      BY <3>1
    <3> QED
      BY <3>2, <3>3, <3>4 DEF RecipeStatements
  <2> QED
    BY <2>1 DEF TypesInv, RowTypes
<1>8. WorkTypes /\ tx' = tx /\ pending' = pending /\ manager' = manager
  BY DEF TypesInv
<1>9. WorkTypes'
  BY <1>4, <1>5, <1>6, <1>8, ClientWrites
<1> QED
  BY <1>7, <1>9 DEF TypesInv

LEMMA RegisterTypes ==
    ASSUME TypesInv, NEW k \in Kitchens, RegisterTransformation(k)
    PROVE  TypesInv'
<1> USE DEF RegisterTransformation
<1>1. PICK q \in RegisterTransformationRequest, extras \in ScaleIngredients :
          kitchen' = [kitchen EXCEPT ![k] =
              [at |-> "ready", q |-> q, extras |-> Range(extras), seen |-> 0,
               todo |-> Work(extras)]]
  OBVIOUS
<1>2. needs \in SUBSET Additionals
  BY DEF TypesInv, RowTypes
<1>3. PICK m \in Nat : extras \in [1 .. m -> needs] /\ IsInjective(extras) /\ Range(extras) = needs
  BY <1>2, ListsAreDistinct
<1>4. PICK w : w = Work(extras)
  OBVIOUS
<1>5. w \in Seq(StatementsOf(needs))
  BY <1>2, <1>3, <1>4, WorkIsProgram
<1>6. PICK y : y = [at |-> "ready", q |-> q, extras |-> needs, seen |-> 0, todo |-> w]
  OBVIOUS
<1>7. IsAsked(y) /\ y.at = "ready"
  BY <1>2, <1>5, <1>6, FreshRequest DEF IsAsked, IsWork, TakesWhatIsThere
<1>8. y.at \notin Opened /\ kitchen[k].at \notin Opened /\ y.at # "waits"
      /\ kitchen[k].at \notin {"work", "waits"}
  BY <1>7 DEF NoTransformation, Opened
<1>9. WorkTypes /\ kitchen' = [kitchen EXCEPT ![k] = y] /\ tx' = tx /\ pending' = pending
      /\ manager' = manager
  BY <1>1, <1>3, <1>4, <1>6 DEF TypesInv
<1>10. WorkTypes'
  BY <1>7, <1>8, <1>9, ClientWrites
<1>11. RowTypes'
  BY DEF TypesInv, RowTypes
<1> QED
  BY <1>10, <1>11 DEF TypesInv

LEMMA CommitWorkTypes ==
    ASSUME TypesInv, NEW k \in Kitchens, CommitWork(k)
    PROVE  TypesInv'
<1> USE DEF CommitWork
<1>1. WorkTypes /\ RowTypes
  BY DEF TypesInv
<1>2. PICK y : y = [kitchen[k] EXCEPT !.at = "work"]
  OBVIOUS
<1>3. IsWork(y) /\ y.at = "work"
  <2>1. IsWork(kitchen[k]) /\ "work" \in Opened \cup {"ready", "committed"}
    BY <1>1, WorkIsAsked DEF Opened
  <2> QED
    BY <1>2, <2>1, WorkMoves
<1>4. NewTx \in OpenTx /\ NewTx.open
  <2>1. << >> \in SomeRows
    <3>1. << >> \in [{} -> Nat] /\ {} \in SUBSET Goods
      OBVIOUS
    <3> QED
      BY <3>1 DEF SomeRows
  <2> QED
    BY <2>1 DEF NewTx, OpenTx
<1>5. kitchen' = [kitchen EXCEPT ![k] = y]
  BY <1>2
<1>6. WorkTypes'
  <2>1. IsAsked(y) /\ y.at \in Opened /\ y.at # "waits" /\ kitchen[k].at # "waits"
    BY <1>3 DEF IsAsked, Opened
  <2> QED
    BY <1>1, <1>3, <1>4, <1>5, <2>1, ClientGoesOn
<1>7. mixed' \in BOOLEAN
  BY <1>1, Zenon DEF RowTypes
<1> QED
  BY <1>1, <1>6, <1>7 DEF TypesInv, RowTypes

LEMMA LeaveWorkTypes ==
    ASSUME TypesInv, NEW k \in Kitchens, LeaveWork(k)
    PROVE  TypesInv'
<1> USE DEF LeaveWork
<1>1. WorkTypes /\ RowTypes
  BY DEF TypesInv
<1>2. PICK a \in {"commit", "rollback"} : kitchen' = [kitchen EXCEPT ![k].at = a]
  OBVIOUS
<1>3. PICK y : y = [kitchen[k] EXCEPT !.at = a]
  OBVIOUS
<1>4. IsWork(y) /\ y.at = a /\ kitchen[k].at \in Opened
  <2>1. IsWork(kitchen[k]) /\ a \in Opened \cup {"ready", "committed"} /\ a # "waits"
        /\ kitchen[k].at \in Opened
    BY <1>1, WorkIsAsked DEF Opened
  <2> QED
    BY <1>3, <2>1, WorkMoves
<1>5. kitchen' = [kitchen EXCEPT ![k] = y] /\ tx' = tx /\ pending' = pending /\ manager' = Nobody
  BY <1>2, <1>3
<1>6. WorkTypes'
  <2>1. IsAsked(y) /\ y.at \in Opened /\ y.at # "waits" /\ kitchen[k].at # "waits"
    BY <1>4 DEF IsAsked, Opened
  <2> QED
    BY <1>1, <1>4, <1>5, <2>1, ClientWrites
<1> QED
  BY <1>1, <1>6 DEF TypesInv, RowTypes

LEMMA RollBackTypes ==
    ASSUME TypesInv, NEW k \in Kitchens, RollBackTx(k)
    PROVE  TypesInv'
<1> USE DEF RollBackTx
<1>1. WorkTypes /\ RowTypes
  BY DEF TypesInv
<1>2. IsAsked(NoTransformation) /\ NoTransformation.at = "idle" /\ ~ NoTx.open
  BY DEF IsAsked, NoTransformation, NoTx
<1>3. WorkTypes'
  <2>1. "idle" \notin Opened
    BY DEF Opened
  <2>2. manager # k
    BY <1>1, TransformationsAssumption DEF WorkTypes
  <2>3. manager' = manager /\ pending' = pending /\ pending[k] = Nobody
        /\ kitchen' = [kitchen EXCEPT ![k] = NoTransformation] /\ tx' = [tx EXCEPT ![k] = NoTx]
        /\ kitchen[k].at # "waits" /\ NoTx \in OpenTx \cup {NoTx}
    OBVIOUS
  <2> QED
    BY <1>1, <1>2, <2>1, <2>2, <2>3, ClientGoesOn
<1> QED
  BY <1>1, <1>3 DEF TypesInv, RowTypes

LEMMA PublishTypes ==
    ASSUME TypesInv, NEW k \in Kitchens, PublishTransformed(k)
    PROVE  TypesInv'
<1> USE DEF PublishTransformed
<1>1. WorkTypes /\ RowTypes
  BY DEF TypesInv
<1>2. IsAsked(NoTransformation) /\ NoTransformation.at = "idle"
  BY DEF IsAsked, NoTransformation
<1>3. WorkTypes'
  <2>1. "idle" \notin Opened /\ "committed" \notin Opened
    BY DEF Opened
  <2> QED
    BY <1>1, <1>2, <2>1, ClientWrites
<1>4. kitchen[k].q.id \in TransformationIds
  <2>1. IsWork(kitchen[k])
    BY <1>1, WorkIsAsked
  <2>2. kitchen[k].q \in RegisterTransformationRequest
    BY <2>1 DEF IsWork, IsRequest
  <2> QED
    BY <2>2, NaturalsGiven
<1>5. announced' \subseteq TransformationIds
  BY <1>1, <1>4 DEF RowTypes
<1> QED
  BY <1>1, <1>3, <1>5 DEF TypesInv, RowTypes

LEMMA CommitTxTypes ==
    ASSUME TypesInv, NEW k \in Kitchens, CommitTx(k)
    PROVE  TypesInv'
<1> USE DEF CommitTx
<1>1. WorkTypes /\ RowTypes
  BY DEF TypesInv
<1>2. PICK y : y = kitchen[k]
  OBVIOUS
<1>3. IsWork(y) /\ kitchen[k].at = "commit"
  BY <1>1, <1>2, WorkIsAsked DEF Opened
<1>4. PICK z : z = [kitchen[k] EXCEPT !.at = "committed"]
  OBVIOUS
<1>5. IsWork(z) /\ z.at = "committed"
  BY <1>2, <1>3, <1>4, WorkMoves
<1>6. WorkTypes'
  <2>1. "committed" \notin Opened /\ ~ NoTx.open
    BY DEF Opened, NoTx
  <2>2. manager # k
    BY <1>1, <1>3, TransformationsAssumption DEF WorkTypes
  <2>3. /\ manager' = manager /\ pending' = pending /\ pending[k] = Nobody
        /\ kitchen' = [kitchen EXCEPT ![k] = z] /\ tx' = [tx EXCEPT ![k] = NoTx]
        /\ kitchen[k].at # "waits" /\ NoTx \in OpenTx \cup {NoTx}
    BY <1>3, <1>4
  <2>4. IsAsked(z) /\ z.at # "waits"
    BY <1>5 DEF IsAsked
  <2> QED
    BY <1>1, <1>5, <2>1, <2>2, <2>3, <2>4, ClientGoesOn
<1>7. PICK x : x = tx[k]
  OBVIOUS
<1>8. x \in OpenTx
  <2>1. x.open
    BY <1>1, <1>3, <1>7 DEF WorkTypes, Opened
  <2> QED
    BY <1>1, <1>7, <2>1 DEF WorkTypes, NoTx
<1>9. /\ x.batches \in SomeRows /\ x.stored \in SomeRows /\ x.made \in Nat
      /\ x.records \subseteq TransformationIds
  BY <1>8 DEF OpenTx
<1>10. y.q.input \in Int /\ y.q.output \in Int
  BY <1>3, NaturalsGiven DEF IsWork, IsRequest
<1>11. batches \in [Goods -> Nat] /\ stored \in [Goods -> Nat] /\ effect \in [Goods -> Int]
  BY <1>1 DEF RowTypes
<1>12. batches' \in [Goods -> Nat]
  <2>1. \A g \in DOMAIN x.batches : x.batches[g] \in Nat
    BY <1>9, RowsAreNatural
  <2>2. \A g \in Goods : (IF g = Prepared THEN x.made ELSE 0)
                            + (IF g \in DOMAIN x.batches THEN x.batches[g] ELSE batches[g]) \in Nat
    BY <1>9, <1>11, <2>1
  <2> QED
    BY <1>7, <2>2 DEF WrittenBy
<1>13. stored' \in [Goods -> Nat]
  <2>1. \A g \in DOMAIN x.stored : x.stored[g] \in Nat
    BY <1>9, RowsAreNatural
  <2> QED
    BY <1>7, <1>11, <2>1 DEF WrittenBy
<1>14. effect' \in [Goods -> Int]
  <2>1. \A g \in Goods : Transformed(k)[g] \in Int
    <3>1. \A g \in Goods : Transformed(k)[g] \in {y.q.output, -y.q.input, 0}
      BY <1>2 DEF Transformed
    <3> QED
      BY <1>10, <3>1
  <2> QED
    BY <1>11, <2>1
<1>15. registered' \subseteq TransformationIds
  BY <1>1, <1>7, <1>9 DEF RowTypes, WrittenBy
<1> QED
  BY <1>1, <1>6, <1>12, <1>13, <1>14, <1>15 DEF TypesInv, RowTypes

\* What was read for the next statement is remembered, and forgotten.
LEMMA SeenMoves ==
    ASSUME NEW As, NEW Qs, NEW Xs, NEW Todos, NEW a \in As, NEW v \in Int, NEW td \in Todos,
           NEW b \in [at : As, q : Qs, extras : Xs, seen : Int, todo : Todos]
    PROVE  LET c == [b EXCEPT !.at = a, !.todo = td, !.seen = v] IN
           /\ c \in [at : As, q : Qs, extras : Xs, seen : Int, todo : Todos]
           /\ c.at = a /\ c.q = b.q /\ c.extras = b.extras /\ c.seen = v /\ c.todo = td
OBVIOUS

LEMMA IssueWorkTypes ==
    ASSUME TypesInv, NEW k \in Kitchens, IssueWork(k)
    PROVE  TypesInv'
<1> USE DEF IssueWork
<1>1. WorkTypes /\ RowTypes
  BY DEF TypesInv
<1>2. IsWork(kitchen[k]) /\ IsRequest(kitchen[k])
  BY <1>1, WorkIsAsked DEF Opened, IsWork
<1>3. PICK s : s = Head(kitchen[k].todo)
  OBVIOUS
<1>4. kitchen[k].extras \in SUBSET Additionals /\ s \in StatementsOf(kitchen[k].extras)
  BY <1>2, <1>3 DEF IsRequest
<1>5. manager \in Kitchens /\ tx[manager].open
  BY <1>1 DEF WorkThrows, WorkTypes, Opened
<1>6. PICK v : v = SeenIn(manager, s.of, s.good)
  OBVIOUS
<1>7. v \in Nat
  BY <1>1, <1>4, <1>5, <1>6, SeesQuantities
<1>8. kitchen[k].q.input \in Nat
  BY <1>2, NaturalsGiven DEF IsRequest
<1>9. s.do = "take" => v >= kitchen[k].q.input
  <2>1. s.do = "take" => ~ (v < kitchen[k].q.input)
    BY <1>3, <1>5, <1>6, TransformationsAssumption DEF WorkThrows
  <2> QED
    BY <1>7, <1>8, <2>1
<1>10. PICK y : y = [kitchen[k] EXCEPT !.at = "waits", !.seen = v]
  OBVIOUS
<1>11. IsRequest(y) /\ y.at = "waits" /\ y.q = kitchen[k].q /\ y.todo = kitchen[k].todo /\ y.seen = v
  <2> DEFINE As == Opened \cup {"ready", "committed"}
             x == kitchen[k]
             Todos == Seq(StatementsOf(x.extras))
  <2>1. /\ x \in [at : As, q : RegisterTransformationRequest, extras : SUBSET Additionals,
                   seen : Int, todo : Todos]
        /\ "waits" \in As /\ v \in Int
    BY <1>2, <1>7 DEF IsRequest, Opened
  <2>2. y = [x EXCEPT !.at = "waits", !.seen = v]
    BY <1>10
  <2> HIDE DEF As, Todos, x
  <2>3. y \in [at : As, q : RegisterTransformationRequest, extras : SUBSET Additionals,
               seen : Int, todo : Todos]
    BY <2>1, <2>2
  <2>4. y.at = "waits" /\ y.q = x.q /\ y.extras = x.extras /\ y.seen = v /\ y.todo = x.todo
    BY <2>1, <2>2
  <2> QED
    BY <2>3, <2>4 DEF IsRequest, As, Todos, x
<1>12. IsAsked(y)
  BY <1>3, <1>7, <1>9, <1>11 DEF IsAsked, IsWork, TakesWhatIsThere
<1>13. /\ kitchen'[k] = y /\ DOMAIN kitchen' = Kitchens
       /\ \A j \in Kitchens \ {k} : kitchen'[j] = kitchen[j]
  BY <1>1, <1>3, <1>6, <1>10 DEF WorkTypes
<1>14. \A t \in Kitchens : pending[t] # k
  BY <1>1, TransformationsAssumption DEF WorkTypes
<1>15. /\ pending' \in [Kitchens -> Kitchens \cup {Nobody}] /\ pending'[manager] = k
       /\ \A t \in Kitchens \ {manager} : pending'[t] = pending[t]
  BY <1>1, <1>5 DEF WorkTypes
<1>16. WorkTypes'
  <2>1. \A j \in Kitchens : IsAsked(kitchen[j])'
    <3>1. \A j \in Kitchens : IsAsked(kitchen'[j])
      BY <1>1, <1>12, <1>13 DEF WorkTypes
    <3> QED
      BY <3>1 DEF IsAsked, IsWork, IsRequest, TakesWhatIsThere
  <2>2. \A j \in Kitchens : tx'[j].open <=> kitchen'[j].at \in Opened
    <3>1. kitchen[k].at \in Opened /\ y.at \in Opened
      BY <1>11 DEF Opened
    <3> QED
      BY <1>1, <1>13, <3>1 DEF WorkTypes
  <2>3. /\ manager' \in Kitchens \cup {Nobody}
        /\ manager' # Nobody => kitchen'[manager'].at \in {"work", "waits"}
    BY <1>1, <1>11, <1>13 DEF WorkTypes
  <2>4. \A t \in Kitchens :
           pending'[t] # Nobody => tx'[t].open /\ kitchen'[pending'[t]].at = "waits"
    <3> SUFFICES ASSUME NEW t \in Kitchens, pending'[t] # Nobody
                 PROVE  tx'[t].open /\ kitchen'[pending'[t]].at = "waits"
      OBVIOUS
    <3>1. CASE t = manager
      BY <1>5, <1>11, <1>13, <1>15, <3>1
    <3>2. CASE t # manager
      <4>1. pending'[t] = pending[t] /\ pending[t] \in Kitchens /\ pending[t] # k
        BY <1>1, <1>14, <1>15, <3>2 DEF WorkTypes
      <4> QED
        BY <1>1, <1>13, <4>1 DEF WorkTypes
    <3> QED
      BY <3>1, <3>2
  <2>5. \A t, u \in Kitchens : pending'[t] = pending'[u] /\ pending'[t] # Nobody => t = u
    BY <1>1, <1>14, <1>15 DEF WorkTypes
  <2>6. tx' \in [Kitchens -> OpenTx \cup {NoTx}]
    BY <1>1 DEF WorkTypes
  <2> QED
    BY <1>13, <1>15, <2>1, <2>2, <2>3, <2>4, <2>5, <2>6 DEF WorkTypes
<1>17. RowTypes'
  BY <1>1 DEF RowTypes
<1> QED
  BY <1>16, <1>17 DEF TypesInv

\* A statement that is run writes quantities.
LEMMA RunsWrite ==
    ASSUME NEW x \in OpenTx, NEW y, IsWork(y), y.at = "waits"
    PROVE  Ran(x, y, Head(y.todo)) \in OpenTx
<1>1. PICK s : s = Head(y.todo)
  OBVIOUS
<1>2. /\ y.q \in RegisterTransformationRequest /\ y.extras \in SUBSET Additionals
      /\ s \in StatementsOf(y.extras) /\ y.seen \in Nat
      /\ s.do = "take" => y.seen >= y.q.input
  BY <1>1 DEF IsWork, IsRequest, TakesWhatIsThere
<1>3. y.q.input \in Nat /\ y.q.output \in Nat /\ y.q.id \in TransformationIds
  BY <1>2, NaturalsGiven
<1>4. /\ s.good \in Goods
      /\ \/ s = Take("batches", s.good) \/ s = Take("stored", s.good)
         \/ s \in {Produces, Puts, Records}
  BY <1>2, StatementKinds
<1>5. /\ x.open = TRUE /\ x.batches \in SomeRows /\ x.stored \in SomeRows /\ x.made \in Nat
      /\ x.records \subseteq TransformationIds
  BY DEF OpenTx
<1>6. PICK w : w = Ran(x, y, s)
  OBVIOUS
<1>7. w \in OpenTx
  <2>1. CASE s = Take("batches", s.good)
    <3>1. s.do = "take" /\ s.of = "batches"
      BY <2>1 DEF Take
    <3>2. PICK row : row = WrittenOver(OneRow(s.good, y.seen - y.q.input), x.batches)
      OBVIOUS
    <3>3. row \in SomeRows
      <4>1. y.seen - y.q.input \in Nat
        BY <1>2, <1>3, <3>1
      <4> QED
        BY <1>4, <1>5, <3>2, <4>1, RowsOverRows
    <3>4. w = [x EXCEPT !.batches = row]
      BY <1>6, <3>1, <3>2 DEF Ran, WritingRow
    <3> QED
      BY <3>3, <3>4 DEF OpenTx
  <2>2. CASE s = Take("stored", s.good)
    <3>1. s.do = "take" /\ s.of = "stored"
      BY <2>2 DEF Take
    <3>2. PICK row : row = WrittenOver(OneRow(s.good, y.seen - y.q.input), x.stored)
      OBVIOUS
    <3>3. row \in SomeRows
      <4>1. y.seen - y.q.input \in Nat
        BY <1>2, <1>3, <3>1
      <4> QED
        BY <1>4, <1>5, <3>2, <4>1, RowsOverRows
    <3>4. w = [x EXCEPT !.stored = row]
      BY <1>6, <3>1, <3>2 DEF Ran, WritingRow
    <3> QED
      BY <3>3, <3>4 DEF OpenTx
  <2>3. CASE s = Puts
    <3>1. s.do = "put" /\ s.of = "stored"
      BY <2>3 DEF Puts
    <3>2. PICK row : row = WrittenOver(OneRow(s.good, y.seen + y.q.output), x.stored)
      OBVIOUS
    <3>3. row \in SomeRows
      <4>1. y.seen + y.q.output \in Nat
        BY <1>2, <1>3
      <4> QED
        BY <1>4, <1>5, <3>2, <4>1, RowsOverRows
    <3>4. w = [x EXCEPT !.stored = row]
      BY <1>6, <3>1, <3>2 DEF Ran, WritingRow
    <3> QED
      BY <3>3, <3>4 DEF OpenTx
  <2>4. CASE s = Produces
    <3>1. s.do = "produce"
      BY <2>4 DEF Produces
    <3>2. w = [x EXCEPT !.made = x.made + y.q.output]
      BY <1>6, <3>1 DEF Ran
    <3>3. x.made + y.q.output \in Nat
      BY <1>3, <1>5
    <3> QED
      BY <3>2, <3>3 DEF OpenTx
  <2>5. CASE s = Records
    <3>1. s.do = "record"
      BY <2>5 DEF Records
    <3>2. w = [x EXCEPT !.records = x.records \cup {y.q.id}]
      BY <1>6, <3>1 DEF Ran
    <3>3. x.records \cup {y.q.id} \in SUBSET TransformationIds
      BY <1>3, <1>5
    <3> QED
      BY <3>2, <3>3 DEF OpenTx
  <2> QED
    BY <1>4, <2>1, <2>2, <2>3, <2>4, <2>5
<1> QED
  BY <1>1, <1>6, <1>7

LEMMA RunStatementTypes ==
    ASSUME TypesInv, NEW t \in Kitchens, RunStatement(t)
    PROVE  TypesInv'
<1> USE DEF RunStatement
<1>1. WorkTypes /\ RowTypes
  BY DEF TypesInv
<1>2. PICK k : k = pending[t]
  OBVIOUS
<1>3. k \in Kitchens /\ kitchen[k].at = "waits" /\ tx[t].open
  BY <1>1, <1>2 DEF WorkTypes
<1>4. IsWork(kitchen[k]) /\ IsRequest(kitchen[k]) /\ kitchen[k].todo # << >>
  BY <1>1, <1>3, WorkIsAsked DEF Opened, IsWork, TakesWhatIsThere
<1>5. PICK w : w = Ran(tx[t], kitchen[k], Head(kitchen[k].todo))
  OBVIOUS
<1>6. w \in OpenTx
  <2>1. tx[t] \in OpenTx
    BY <1>1, <1>3 DEF WorkTypes, NoTx
  <2> QED
    BY <1>3, <1>4, <1>5, <2>1, RunsWrite
<1>7. PICK y : y = [kitchen[k] EXCEPT !.at = "work", !.todo = Tail(kitchen[k].todo), !.seen = 0]
  OBVIOUS
<1>8. IsRequest(y) /\ y.at = "work" /\ y.seen = 0
  <2> DEFINE As == Opened \cup {"ready", "committed"}
             x == kitchen[k]
             Todos == Seq(StatementsOf(x.extras))
             td == Tail(kitchen[k].todo)
  <2>1. /\ x \in [at : As, q : RegisterTransformationRequest, extras : SUBSET Additionals,
                   seen : Int, todo : Todos]
        /\ "work" \in As /\ 0 \in Int
    BY <1>4 DEF IsRequest, Opened
  <2>2. td \in Todos
    <3>1. PICK S, todo : S = StatementsOf(x.extras) /\ todo = x.todo
      OBVIOUS
    <3>2. todo \in Seq(S) /\ todo # << >>
      BY <1>4, <3>1 DEF IsRequest
    <3>3. Tail(todo) \in Seq(S)
      BY <3>2
    <3> QED
      BY <3>1, <3>3
  <2>3. y = [x EXCEPT !.at = "work", !.todo = td, !.seen = 0]
    BY <1>7
  <2> HIDE DEF As, Todos, x, td
  <2>4. /\ y \in [at : As, q : RegisterTransformationRequest, extras : SUBSET Additionals,
                  seen : Int, todo : Todos]
        /\ y.at = "work" /\ y.extras = x.extras /\ y.seen = 0
    BY <2>1, <2>2, <2>3, SeenMoves
  <2> QED
    BY <2>4 DEF IsRequest, As, Todos, x
<1>9. IsAsked(y)
  BY <1>8 DEF IsAsked, IsWork, TakesWhatIsThere
<1>10. /\ kitchen'[k] = y /\ DOMAIN kitchen' = Kitchens
       /\ \A j \in Kitchens \ {k} : kitchen'[j] = kitchen[j]
  <2>1. kitchen' = [kitchen EXCEPT ![k].at = "work", ![k].todo = Tail(kitchen[k].todo), ![k].seen = 0]
    BY <1>2
  <2> QED
    BY <1>1, <1>3, <1>7, <2>1 DEF WorkTypes
<1>11. tx' = [tx EXCEPT ![t] = w]
  BY <1>2, <1>5 DEF Ran
<1>12. tx' \in [Kitchens -> OpenTx \cup {NoTx}]
  BY <1>1, <1>6, <1>11 DEF WorkTypes
<1>13. \A j \in Kitchens : tx'[j].open <=> tx[j].open
  <2>1. w.open
    BY <1>6 DEF OpenTx
  <2> QED
    BY <1>1, <1>3, <1>11, <2>1 DEF WorkTypes
<1>14. /\ pending' \in [Kitchens -> Kitchens \cup {Nobody}]
       /\ \A u \in Kitchens : pending'[u] # Nobody => u # t /\ pending'[u] = pending[u]
  BY <1>1 DEF WorkTypes
<1>15. WorkTypes'
  <2>1. \A j \in Kitchens : IsAsked(kitchen[j])'
    <3>1. \A j \in Kitchens : IsAsked(kitchen'[j])
      BY <1>1, <1>9, <1>10 DEF WorkTypes
    <3> QED
      BY <3>1 DEF IsAsked, IsWork, IsRequest, TakesWhatIsThere
  <2>2. \A j \in Kitchens : tx'[j].open <=> kitchen'[j].at \in Opened
    <3>1. kitchen[k].at \in Opened /\ y.at \in Opened
      BY <1>3, <1>8 DEF Opened
    <3> QED
      BY <1>1, <1>10, <1>13, <3>1 DEF WorkTypes
  <2>3. /\ manager' \in Kitchens \cup {Nobody}
        /\ manager' # Nobody => kitchen'[manager'].at \in {"work", "waits"}
    BY <1>1, <1>8, <1>10 DEF WorkTypes
  <2>4. \A u \in Kitchens :
           pending'[u] # Nobody => tx'[u].open /\ kitchen'[pending'[u]].at = "waits"
    <3> SUFFICES ASSUME NEW u \in Kitchens, pending'[u] # Nobody
                 PROVE  tx'[u].open /\ kitchen'[pending'[u]].at = "waits"
      OBVIOUS
    <3>1. /\ pending'[u] = pending[u] /\ pending[u] \in Kitchens /\ pending[u] # k
          /\ tx[u].open /\ kitchen[pending[u]].at = "waits"
      BY <1>1, <1>2, <1>3, <1>14 DEF WorkTypes
    <3> QED
      BY <1>10, <1>13, <3>1
  <2>5. \A u, r \in Kitchens : pending'[u] = pending'[r] /\ pending'[u] # Nobody => u = r
    BY <1>1, <1>14 DEF WorkTypes
  <2> QED
    BY <1>10, <1>12, <1>14, <2>1, <2>2, <2>3, <2>4, <2>5 DEF WorkTypes
<1>16. RowTypes'
  BY <1>1 DEF RowTypes
<1> QED
  BY <1>15, <1>16 DEF TypesInv

LEMMA NobodyAtWork ==
    ASSUME kitchen = [k \in Kitchens |-> NoTransformation],
           tx = [k \in Kitchens |-> NoTx], pending = [k \in Kitchens |-> Nobody],
           manager = Nobody
    PROVE  WorkTypes
BY DEF WorkTypes, IsAsked, NoTransformation, NoTx, Opened

LEMMA KitchenStopsTypes ==
    ASSUME TypesInv, KitchenStops
    PROVE  TypesInv'
<1>1. RowTypes'
  BY DEF TypesInv, RowTypes, KitchenStops
<1>2. WorkTypes'
  <2>1. \A k \in Kitchens : IsAsked(kitchen[k])'
    BY DEF KitchenStops, IsAsked
  <2> QED
    BY <2>1 DEF KitchenStops, WorkTypes, NoTransformation, NoTx, Opened
<1> QED
  BY <1>1, <1>2 DEF TypesInv

\* Quantities stay natural and transactions are open exactly as long as their requests
\* are at work, also after commits have overlapped: a statement writes no less than
\* nothing, because what it takes was compared with what had been read for it.
THEOREM TransformationsTypeCorrect == TransformationsSpec => []TransformationsTypeOK
<1>1. TransformationsInit => TypesInv
  <2> SUFFICES ASSUME TransformationsInit
               PROVE  TypesInv
    OBVIOUS
  <2>1. RowTypes
    <3>1. Stock \in [Goods -> Nat] /\ effect \in [Goods -> Int]
      BY TransformationsAssumption DEF TransformationsInit
    <3>2. mixed \in BOOLEAN
      BY Zenon DEF TransformationsInit
    <3> QED
      BY <3>1, <3>2 DEF TransformationsInit, RowTypes
  <2>2. WorkTypes
    BY NobodyAtWork DEF TransformationsInit
  <2> QED
    BY <2>1, <2>2 DEF TypesInv
<1>2. TypesInv /\ [TransformationsNext]_transformationVars => TypesInv'
  <2> SUFFICES ASSUME TypesInv, [TransformationsNext]_transformationVars
               PROVE  TypesInv'
    OBVIOUS
  <2>1. CASE UNCHANGED transformationVars
    <3>1. RowTypes'
      BY <2>1 DEF TypesInv, RowTypes, transformationVars
    <3>2. \A k \in Kitchens : IsAsked(kitchen[k])'
      BY <2>1 DEF TypesInv, WorkTypes, transformationVars, IsAsked, IsWork, IsRequest,
                  TakesWhatIsThere
    <3>3. WorkTypes'
      BY <2>1, <3>2 DEF TypesInv, WorkTypes, transformationVars
    <3> QED
      BY <3>1, <3>3 DEF TypesInv
  <2>2. CASE KitchenStops
    BY <2>2, KitchenStopsTypes
  <2>3. ASSUME NEW k \in Kitchens,
               CreatePreparationRecipe(k) \/ UpdatePreparationRecipe(k)
        PROVE  TypesInv'
    BY <2>3, SubmitTypes
       DEF CreatePreparationRecipe, UpdatePreparationRecipe, CreatePreparationRecipeRequest,
           UpdatePreparationRecipeRequest
  <2>4. ASSUME NEW k \in Kitchens,
               \/ RecipeStatement(k) \/ RegisterTransformation(k) \/ CommitWork(k)
               \/ IssueWork(k) \/ RunStatement(k) \/ LeaveWork(k) \/ CommitTx(k)
               \/ RollBackTx(k) \/ PublishTransformed(k)
        PROVE  TypesInv'
    BY <2>4, RecipeStatementTypes, RegisterTypes, CommitWorkTypes, IssueWorkTypes,
       RunStatementTypes, LeaveWorkTypes, CommitTxTypes, RollBackTypes, PublishTypes
  <2> QED
    BY <2>1, <2>2, <2>3, <2>4 DEF TransformationsNext
<1>3. TypesInv => TransformationsTypeOK
  BY DEF TypesInv, RowTypes, WorkTypes, TransformationsTypeOK, Opened
<1> QED
  BY <1>1, <1>2, <1>3, PTL DEF TransformationsSpec

-------------------------------------------------------------------------------
(* Invoices: module Billing. *)

(* The inductive invariant *)

\* A biller at work on an invoice.
Tasks == [at : {"pending", "call", "result", "publish", "mark"},
         task : {"deliver", "retry"}, id : InvoiceIds, copy : InvoiceRow]

Busy(b) == biller[b] # Resting

BillingTypes ==
    /\ DOMAIN invoices \in SUBSET InvoiceIds
    /\ invoices \in [DOMAIN invoices -> InvoiceRow]
    /\ dispatched \subseteq Sales
    /\ configured \in BOOLEAN
    /\ factus \in Seq(Sales)
    /\ biller \in [Billers -> Tasks \cup {Resting}]
    /\ orphaned \subseteq InvoiceIds

\* An issued invoice, or a copy of one, names a document of its order; any other
\* names none.
Documented(i) ==
    IF i.status = "ISSUED"
    THEN i.document \in DOMAIN factus /\ factus[i.document] = i.order
    ELSE i.document = NoDocumentYet

\* A delivery has made up an id and has not saved its invoice yet.
Making(b) == biller[b].task = "deliver" /\ biller[b].at = "pending"

\* A made-up id is nobody else's.
MadeUpIdsAreNew ==
    \A b \in Billers : Busy(b) /\ Making(b) =>
        /\ biller[b].id \notin DOMAIN invoices
        /\ \A c \in Billers \ {b} : Busy(c) => biller[c].id # biller[b].id

\* Everybody else works on a saved invoice, and on the order it is of.
CopiesAreOfTheirRows ==
    \A b \in Billers : Busy(b) /\ ~Making(b) =>
        /\ biller[b].id \in DOMAIN invoices
        /\ biller[b].copy.order = invoices[biller[b].id].order

\* What a copy says at each point of the work on it.
CopiesAreDocumented ==
    \A b \in Billers : Busy(b) =>
        /\ Documented(biller[b].copy)
        /\ biller[b].at \in {"pending", "call"} => biller[b].copy.status = "PENDING"
        /\ biller[b].at = "result" => biller[b].copy.status \in {"ISSUED", "FAILED"}

RowsAreDocumented == \A i \in DOMAIN invoices : Documented(invoices[i])

\* An answer carries a document.
Carries(b) == Busy(b) /\ biller[b].at = "result" /\ biller[b].copy.status = "ISSUED"

\* A document is named by one invoice, or by the answer for one.
DocumentsAreNamedOnce ==
    /\ \A i, j \in DOMAIN invoices :
          i # j /\ invoices[i].status = "ISSUED" => invoices[j].document # invoices[i].document
    /\ \A b \in Billers, i \in DOMAIN invoices :
          Carries(b) /\ i # biller[b].id => invoices[i].document # biller[b].copy.document
    /\ \A b, c \in Billers :
          Carries(b) /\ Carries(c) /\ biller[b].id # biller[c].id =>
              biller[b].copy.document # biller[c].copy.document

\* The invoice is issued or can be retried, some retry is about to say how it ended,
\* or one ended halfway.
Kept(i) ==
    \/ invoices[i].status \in {"ISSUED", "FAILED"}
    \/ \E b \in Billers : /\ Busy(b) /\ biller[b].task = "retry"
                          /\ biller[b].at \in {"call", "result"} /\ biller[b].id = i
    \/ i \in orphaned

\* Only a delivery is marked.
DeliveriesAreKept ==
    \A b \in Billers : Busy(b) /\ biller[b].at \in {"publish", "mark"} =>
        /\ biller[b].at = "mark" => biller[b].task = "deliver"
        /\ biller[b].task = "deliver" => Kept(biller[b].id)

DispatchedAreKept ==
    \A s \in dispatched : \E i \in DOMAIN invoices : invoices[i].order = s /\ Kept(i)

BillingIInv ==
    /\ BillingTypes
    /\ MadeUpIdsAreNew
    /\ CopiesAreOfTheirRows
    /\ CopiesAreDocumented
    /\ RowsAreDocumented
    /\ DocumentsAreNamedOnce
    /\ DeliveriesAreKept
    /\ DispatchedAreKept

-----------------------------------------------------------------------------
(* Rows, copies and requests *)

LEMMA BillingInvoiceFacts ==
    ASSUME NEW i \in InvoiceRow
    PROVE  /\ i.order \in Sales /\ i.status \in InvoiceStatus
           /\ MarkFailed(i) \in InvoiceRow /\ MarkFailed(i).order = i.order
           /\ MarkFailed(i).status = "FAILED" /\ MarkFailed(i).document = i.document
           /\ ResetToPending(i) \in InvoiceRow /\ ResetToPending(i).order = i.order
           /\ ResetToPending(i).status = "PENDING" /\ ResetToPending(i).document = i.document
           /\ \A n \in 1..MaxDocuments :
                 /\ MarkIssued(i, n) \in InvoiceRow /\ MarkIssued(i, n).order = i.order
                 /\ MarkIssued(i, n).status = "ISSUED" /\ MarkIssued(i, n).document = n
  BY DEF InvoiceRow, InvoiceStatus, MarkFailed, ResetToPending, MarkIssued

LEMMA BillingCreateFacts ==
    ASSUME NEW s \in Sales
    PROVE  /\ CreatePending(s) \in InvoiceRow /\ CreatePending(s).order = s
           /\ CreatePending(s).status = "PENDING" /\ CreatePending(s).document = NoDocumentYet
  BY DEF CreatePending, InvoiceRow, InvoiceStatus

LEMMA BillingWorkFacts ==
    ASSUME NEW w \in Tasks
    PROVE  /\ w # Resting
           /\ w.at \in {"pending", "call", "result", "publish", "mark"}
           /\ w.task \in {"deliver", "retry"} /\ w.id \in InvoiceIds /\ w.copy \in InvoiceRow
<1>1. Resting.at = "rest" /\ w.at # "rest"
  BY DEF Tasks, Resting
<1> QED
  BY <1>1 DEF Tasks

LEMMA BillingMoved ==
    ASSUME NEW w \in Tasks, NEW p \in {"pending", "call", "result", "publish", "mark"},
           NEW v, v = [w EXCEPT !.at = p]
    PROVE  v \in Tasks /\ v.at = p /\ v.task = w.task /\ v.id = w.id /\ v.copy = w.copy
  BY DEF Tasks

LEMMA BillingBusyFacts ==
    ASSUME BillingTypes, NEW b \in Billers
    PROVE  /\ Busy(b) => biller[b] \in Tasks
           /\ biller[b].at \in {"pending", "call", "result", "publish", "mark"} => Busy(b)
  BY DEF BillingTypes, Busy, Resting

\* A saved row, and every other row.
LEMMA BillingSaveFacts ==
    ASSUME BillingTypes, NEW b \in Billers, Busy(b), SaveInvoice(b)
    PROVE  /\ DOMAIN invoices' = DOMAIN invoices \cup {biller[b].id}
           /\ invoices'[biller[b].id] = biller[b].copy
           /\ \A i \in DOMAIN invoices : i # biller[b].id => invoices'[i] = invoices[i]
           /\ DOMAIN invoices' \in SUBSET InvoiceIds
           /\ invoices' \in [DOMAIN invoices' -> InvoiceRow]
<1>1. biller[b].id \in InvoiceIds /\ biller[b].copy \in InvoiceRow
  BY BillingBusyFacts, BillingWorkFacts
<1>2. invoices' = [i \in {biller[b].id} \cup DOMAIN invoices |->
                      IF i \in {biller[b].id} THEN biller[b].copy ELSE invoices[i]]
  BY DEF SaveInvoice, WrittenOver, OneRow
<1> QED
  BY <1>1, <1>2 DEF BillingTypes

-----------------------------------------------------------------------------
(* Steps that leave the rows and the documents alone *)

\* A biller ends, and the others go on.
LEMMA BillingEndPreserves ==
    ASSUME BillingIInv, NEW b \in Billers, Busy(b),
           biller' = [biller EXCEPT ![b] = Resting],
           UNCHANGED <<invoices, configured, factus>>,
           dispatched' \in SUBSET Sales, orphaned \subseteq orphaned',
           orphaned' \subseteq InvoiceIds,
           (biller[b].task = "retry" /\ biller[b].at \in {"call", "result"})
               => biller[b].id \in orphaned',
           \A s \in dispatched' \ dispatched :
               \E i \in DOMAIN invoices : invoices[i].order = s /\ Kept(i)
    PROVE  BillingIInv'
<1>1. BillingTypes
  BY DEF BillingIInv
<1>2. biller'[b] = Resting /\ \A c \in Billers \ {b} : biller'[c] = biller[c]
  BY <1>1 DEF BillingTypes
<1>3. \A c \in Billers : Busy(c)' => c # b /\ Busy(c) /\ biller'[c] = biller[c]
  BY <1>2 DEF Busy
<1>4. \A i \in DOMAIN invoices : Kept(i) => Kept(i)'
  BY <1>2 DEF Kept, Busy
<1>5. BillingTypes'
  BY <1>1 DEF BillingTypes
<1>6. MadeUpIdsAreNew'
  BY <1>3 DEF BillingIInv, MadeUpIdsAreNew, Making
<1>7. CopiesAreOfTheirRows'
  BY <1>3 DEF BillingIInv, CopiesAreOfTheirRows, Making
<1>8. CopiesAreDocumented' /\ RowsAreDocumented'
  BY <1>3 DEF BillingIInv, CopiesAreDocumented, RowsAreDocumented, Documented
<1>9. DocumentsAreNamedOnce'
  <2>1. \A c \in Billers : Carries(c)' => Carries(c) /\ biller'[c] = biller[c]
    BY <1>3 DEF Carries
  <2> QED
    BY <2>1 DEF BillingIInv, DocumentsAreNamedOnce
<1>10. DeliveriesAreKept'
  <2> SUFFICES ASSUME NEW c \in Billers, Busy(c)', biller'[c].at \in {"publish", "mark"}
               PROVE  /\ biller'[c].at = "mark" => biller'[c].task = "deliver"
                      /\ biller'[c].task = "deliver" => Kept(biller[c].id)'
    BY DEF DeliveriesAreKept
  <2>1. Busy(c) /\ biller'[c] = biller[c] /\ ~Making(c)
        /\ (biller[c].at = "mark" => biller[c].task = "deliver")
        /\ (biller[c].task = "deliver" => Kept(biller[c].id))
    BY <1>3 DEF BillingIInv, DeliveriesAreKept, Making
  <2>2. biller[c].id \in DOMAIN invoices
    BY <2>1 DEF BillingIInv, CopiesAreOfTheirRows
  <2>3. \A i : biller'[c].id = i => (Kept(biller[c].id)' <=> Kept(i)')
    BY DEF Kept
  <2> QED
    BY <2>1, <2>2, <2>3, <1>4
<1>11. DispatchedAreKept'
  BY <1>4 DEF BillingIInv, DispatchedAreKept
<1> QED
  BY <1>5, <1>6, <1>7, <1>8, <1>9, <1>10, <1>11 DEF BillingIInv
\* A biller begins, or goes on without saving; Factus may issue documents, and then
\* its answer may carry a new one.
LEMMA BillingGoesPreserves ==
    ASSUME BillingIInv, NEW b \in Billers, NEW w \in Tasks,
           biller' = [biller EXCEPT ![b] = w],
           UNCHANGED <<invoices, dispatched, configured, orphaned>>,
           factus' \in Seq(Sales),
           \A n \in DOMAIN factus : n \in DOMAIN factus' /\ factus'[n] = factus[n],
           IF w.copy.status = "ISSUED"
           THEN w.copy.document \in DOMAIN factus' /\ factus'[w.copy.document] = w.copy.order
           ELSE w.copy.document = NoDocumentYet,
           w.at \in {"pending", "call"} => w.copy.status = "PENDING",
           w.at = "result" => w.copy.status \in {"ISSUED", "FAILED"},
           w.at = "result" /\ w.copy.status = "ISSUED" => w.copy.document \notin DOMAIN factus,
           IF w.task = "deliver" /\ w.at = "pending"
           THEN /\ w.id \notin DOMAIN invoices
                /\ \A c \in Billers \ {b} : Busy(c) => biller[c].id # w.id
           ELSE w.id \in DOMAIN invoices /\ w.copy.order = invoices[w.id].order,
           Busy(b) => w.id = biller[b].id /\ w.task = biller[b].task,
           Busy(b) /\ biller[b].at \in {"call", "result"} /\ w.task = "retry"
               => w.at \in {"call", "result"},
           w.at = "mark" => w.task = "deliver",
           w.task = "deliver" /\ w.at \in {"publish", "mark"} => Kept(w.id)
    PROVE  BillingIInv'
<1>1. BillingTypes
  BY DEF BillingIInv
<1>2. /\ biller'[b] = w /\ Busy(b)'
      /\ \A c \in Billers \ {b} : biller'[c] = biller[c] /\ (Busy(c)' <=> Busy(c))
  <2>1. w # Resting
    BY BillingWorkFacts
  <2>2. biller'[b] = w /\ \A c \in Billers \ {b} : biller'[c] = biller[c]
    BY <1>1 DEF BillingTypes
  <2> QED
    BY <2>1, <2>2 DEF Busy
<1>3. \A i \in DOMAIN invoices : Kept(i) => Kept(i)'
  <2> SUFFICES ASSUME NEW i \in DOMAIN invoices, Kept(i)
               PROVE  Kept(i)'
    OBVIOUS
  <2>1. ASSUME NEW c \in Billers, Busy(c), biller[c].task = "retry",
               biller[c].at \in {"call", "result"}, biller[c].id = i
        PROVE  /\ Busy(c)' /\ biller'[c].task = "retry"
               /\ biller'[c].at \in {"call", "result"} /\ biller'[c].id = i
    BY <2>1, <1>2
  <2> QED
    BY <2>1 DEF Kept
<1>4. \A i \in InvoiceRow : Documented(i) => Documented(i)'
  BY DEF Documented
<1>5. Documented(w.copy)'
  BY DEF Documented
<1>6. BillingTypes'
  BY <1>1 DEF BillingTypes
<1>7. MadeUpIdsAreNew'
  <2> SUFFICES ASSUME NEW c \in Billers, Busy(c)', Making(c)'
               PROVE  /\ biller'[c].id \notin DOMAIN invoices
                      /\ \A d \in Billers \ {c} : Busy(d)' => biller'[d].id # biller'[c].id
    BY DEF MadeUpIdsAreNew
  <2>1. CASE c = b
    BY <2>1, <1>2 DEF Making
  <2>2. CASE c # b
    <3>1. Busy(c) /\ Making(c) /\ biller'[c] = biller[c]
      BY <2>2, <1>2 DEF Making
    <3>2. /\ biller[c].id \notin DOMAIN invoices
          /\ \A d \in Billers \ {c} : Busy(d) => biller[d].id # biller[c].id
      BY <3>1 DEF BillingIInv, MadeUpIdsAreNew
    <3>3. w.id # biller[c].id
      BY <2>2, <3>1, <3>2
    <3> QED
      BY <3>1, <3>2, <3>3, <1>2
  <2> QED
    BY <2>1, <2>2
<1>8. CopiesAreOfTheirRows'
  <2> SUFFICES ASSUME NEW c \in Billers, Busy(c)', ~Making(c)'
               PROVE  /\ biller'[c].id \in DOMAIN invoices
                      /\ biller'[c].copy.order = invoices[biller'[c].id].order
    BY DEF CopiesAreOfTheirRows
  <2>1. CASE c = b
    BY <2>1, <1>2 DEF Making
  <2>2. CASE c # b
    BY <2>2, <1>2 DEF Making, BillingIInv, CopiesAreOfTheirRows
  <2> QED
    BY <2>1, <2>2
<1>9. CopiesAreDocumented'
  <2> SUFFICES ASSUME NEW c \in Billers, Busy(c)'
               PROVE  /\ Documented(biller[c].copy)'
                      /\ biller'[c].at \in {"pending", "call"} =>
                            biller'[c].copy.status = "PENDING"
                      /\ biller'[c].at = "result" =>
                            biller'[c].copy.status \in {"ISSUED", "FAILED"}
    BY DEF CopiesAreDocumented
  <2>1. CASE c = b
    BY <2>1, <1>2, <1>5 DEF Documented
  <2>2. CASE c # b
    <3>1. Busy(c) /\ biller'[c] = biller[c]
      BY <2>2, <1>2
    <3>2. Documented(biller[c].copy)
      BY <3>1 DEF BillingIInv, CopiesAreDocumented
    <3>3. Documented(biller[c].copy)'
      BY <3>1, <3>2 DEF Documented
    <3> QED
      BY <3>1, <3>3 DEF BillingIInv, CopiesAreDocumented
  <2> QED
    BY <2>1, <2>2
<1>10. RowsAreDocumented'
  BY DEF BillingIInv, RowsAreDocumented, Documented
<1>11. DocumentsAreNamedOnce'
  <2>1. \A c \in Billers \ {b} : Carries(c)' => Carries(c) /\ biller'[c] = biller[c]
    BY <1>2 DEF Carries
  <2>2. NoDocumentYet \notin DOMAIN factus
    BY <1>1, BillingAssumption DEF BillingTypes
  <2>3. Carries(b)' => w.at = "result" /\ w.copy.status = "ISSUED"
    BY <1>2 DEF Carries
  <2>4. Carries(b)' => w.copy.document \notin DOMAIN factus
    BY <2>3
  <2>5. \A c \in Billers \ {b} : Carries(c) => biller[c].copy.document \in DOMAIN factus
    BY DEF BillingIInv, CopiesAreDocumented, Documented, Carries
  <2>6. Carries(b)' => w.copy.document # NoDocumentYet
    BY <2>3, BillingAssumption, <1>6 DEF BillingTypes
  <2>7. \A i \in DOMAIN invoices :
           invoices[i].document \in DOMAIN factus \cup {NoDocumentYet}
    BY DEF BillingIInv, RowsAreDocumented, Documented
  <2>8. \A c \in Billers, i \in DOMAIN invoices :
           Carries(c)' /\ i # biller'[c].id => invoices[i].document # biller'[c].copy.document
    <3> SUFFICES ASSUME NEW c \in Billers, NEW i \in DOMAIN invoices,
                        Carries(c)', i # biller'[c].id
                 PROVE  invoices[i].document # biller'[c].copy.document
      OBVIOUS
    <3>1. CASE c = b
      BY <3>1, <1>2, <2>4, <2>6, <2>7
    <3>2. CASE c # b
      BY <3>2, <2>1 DEF BillingIInv, DocumentsAreNamedOnce
    <3> QED
      BY <3>1, <3>2
  <2>9. \A c, d \in Billers :
           Carries(c)' /\ Carries(d)' /\ biller'[c].id # biller'[d].id =>
               biller'[c].copy.document # biller'[d].copy.document
    <3> SUFFICES ASSUME NEW c \in Billers, NEW d \in Billers, Carries(c)', Carries(d)',
                        biller'[c].id # biller'[d].id
                 PROVE  biller'[c].copy.document # biller'[d].copy.document
      OBVIOUS
    <3>1. CASE c = b
      BY <3>1, <1>2, <2>1, <2>4, <2>5
    <3>2. CASE d = b
      BY <3>2, <1>2, <2>1, <2>4, <2>5
    <3>3. CASE c # b /\ d # b
      BY <3>3, <2>1 DEF BillingIInv, DocumentsAreNamedOnce
    <3> QED
      BY <3>1, <3>2, <3>3
  <2> QED
    BY <2>8, <2>9 DEF BillingIInv, DocumentsAreNamedOnce
<1>12. DeliveriesAreKept'
  <2> SUFFICES ASSUME NEW c \in Billers, Busy(c)', biller'[c].at \in {"publish", "mark"}
               PROVE  /\ biller'[c].at = "mark" => biller'[c].task = "deliver"
                      /\ biller'[c].task = "deliver" => Kept(biller[c].id)'
    BY DEF DeliveriesAreKept
  <2>1. \A i : biller'[c].id = i => (Kept(biller[c].id)' <=> Kept(i)')
    BY DEF Kept
  <2>2. biller'[c].id \in DOMAIN invoices
    BY <1>8 DEF CopiesAreOfTheirRows, Making
  <2>3. /\ biller'[c].at = "mark" => biller'[c].task = "deliver"
        /\ biller'[c].task = "deliver" => Kept(biller'[c].id)
    BY <1>2 DEF BillingIInv, DeliveriesAreKept
  <2> QED
    BY <2>1, <2>2, <2>3, <1>3
<1>13. DispatchedAreKept'
  BY <1>3 DEF BillingIInv, DispatchedAreKept
<1> QED
  BY <1>6, <1>7, <1>8, <1>9, <1>10, <1>11, <1>12, <1>13 DEF BillingIInv

LEMMA BillingIssuePreserves ==
    ASSUME BillingIInv, NEW b \in Billers, IssueInvoice(b)
    PROVE  BillingIInv'
<1>1. PICK s \in Sales \ dispatched,
          id \in InvoiceIds \ (DOMAIN invoices
                   \cup {biller[c].id : c \in {d \in Billers : biller[d] # Resting}}) :
          Starting(b, "deliver", id, CreatePending(s))
  BY DEF IssueInvoice
<1> DEFINE w == [at |-> "pending", task |-> "deliver", id |-> id, copy |-> CreatePending(s)]
<1>2. w \in Tasks
  BY BillingCreateFacts DEF Tasks
<1>3. biller' = [biller EXCEPT ![b] = w] /\ ~Busy(b)
      /\ UNCHANGED <<invoices, dispatched, configured, factus, orphaned>>
  BY <1>1 DEF Starting, Busy
<1>4. \A c \in Billers : Busy(c) => biller[c].id # id
  BY DEF Busy
<1>5. factus \in Seq(Sales)
  BY DEF BillingIInv, BillingTypes
<1> QED
  BY <1>2, <1>3, <1>4, <1>5, BillingCreateFacts, BillingGoesPreserves

LEMMA BillingRetryPreserves ==
    ASSUME BillingIInv, NEW b \in Billers, RetryInvoice(b)
    PROVE  BillingIInv'
<1>1. PICK id \in DOMAIN invoices :
          EnsureRetryable(invoices[id]) /\ Starting(b, "retry", id, ResetToPending(invoices[id]))
  BY DEF RetryInvoice
<1>2. id \in InvoiceIds /\ invoices[id] \in InvoiceRow /\ factus \in Seq(Sales)
  BY DEF BillingIInv, BillingTypes
<1> DEFINE w == [at |-> "pending", task |-> "retry", id |-> id,
                 copy |-> ResetToPending(invoices[id])]
<1>3. w \in Tasks
  BY <1>2, BillingInvoiceFacts DEF Tasks
<1>4. biller' = [biller EXCEPT ![b] = w] /\ ~Busy(b)
      /\ UNCHANGED <<invoices, dispatched, configured, factus, orphaned>>
  BY <1>1 DEF Starting, Busy
<1>5. invoices[id].document = NoDocumentYet
  BY <1>1 DEF BillingIInv, RowsAreDocumented, Documented, EnsureRetryable
<1>6. w.copy.status = "PENDING" /\ w.copy.document = NoDocumentYet
      /\ w.copy.order = invoices[id].order
  BY <1>2, <1>5, BillingInvoiceFacts
<1> QED
  BY <1>2, <1>3, <1>4, <1>6, BillingGoesPreserves
\* A biller at work, in the terms of the lemma above.
LEMMA BillingAtWork ==
    ASSUME BillingIInv, NEW b \in Billers,
           biller[b].at \in {"pending", "call", "result", "publish", "mark"}
    PROVE  /\ BillingTypes /\ Busy(b) /\ biller[b] \in Tasks
           /\ biller[b].id \in InvoiceIds /\ biller[b].copy \in InvoiceRow
           /\ biller[b].at # "pending" => /\ biller[b].id \in DOMAIN invoices
                                          /\ biller[b].copy.order = invoices[biller[b].id].order
           /\ Documented(biller[b].copy)
           /\ biller[b].at = "call" => biller[b].copy.status = "PENDING"
           /\ biller[b].at = "result" => biller[b].copy.status \in {"ISSUED", "FAILED"}
<1>1. BillingTypes
  BY DEF BillingIInv
<1>2. Busy(b) /\ biller[b] \in Tasks
  BY <1>1, BillingBusyFacts
<1>3. biller[b].id \in InvoiceIds /\ biller[b].copy \in InvoiceRow
  BY <1>2, BillingWorkFacts
<1> QED
  BY <1>1, <1>2, <1>3 DEF BillingIInv, CopiesAreOfTheirRows, CopiesAreDocumented, Making

\* Factus answers, with a new document or without one.
LEMMA BillingAnswerPreserves ==
    ASSUME BillingIInv, NEW b \in Billers, biller[b].at = "call",
           NEW copy \in InvoiceRow, copy.order = biller[b].copy.order,
           Answered(b, copy), UNCHANGED <<invoices, dispatched, configured, orphaned>>,
           factus' \in Seq(Sales),
           \A n \in DOMAIN factus : n \in DOMAIN factus' /\ factus'[n] = factus[n],
           copy.status \in {"ISSUED", "FAILED"},
           IF copy.status = "ISSUED"
           THEN /\ copy.document \in DOMAIN factus' \ DOMAIN factus
                /\ factus'[copy.document] = copy.order
           ELSE copy.document = NoDocumentYet
    PROVE  BillingIInv'
<1>1. /\ Busy(b) /\ biller[b] \in Tasks /\ biller[b].id \in DOMAIN invoices
      /\ biller[b].copy.order = invoices[biller[b].id].order /\ BillingTypes
  BY BillingAtWork
<1>2. PICK w : w = [biller[b] EXCEPT !.at = "result", !.copy = copy]
  OBVIOUS
<1>3. w \in Tasks /\ w.at = "result" /\ w.task = biller[b].task /\ w.id = biller[b].id
      /\ w.copy = copy
  BY <1>1, <1>2 DEF Tasks
<1>4. biller' = [biller EXCEPT ![b] = w]
  BY <1>1, <1>2 DEF Answered, BillingTypes
<1> QED
  BY <1>1, <1>3, <1>4, BillingGoesPreserves

LEMMA BillingFactusPreserves ==
    ASSUME BillingIInv, NEW b \in Billers,
           FactusIssues(b) \/ FactusIssuesUnheard(b) \/ FactusRefuses(b)
    PROVE  BillingIInv'
<1>1. biller[b].at = "call" /\ UNCHANGED <<invoices, dispatched, configured, orphaned>>
  BY DEF FactusIssues, FactusIssuesUnheard, FactusRefuses
<1>2. /\ BillingTypes /\ biller[b].copy \in InvoiceRow /\ biller[b].copy.status = "PENDING"
      /\ Documented(biller[b].copy)
  BY <1>1, BillingAtWork
<1>3. /\ MarkFailed(biller[b].copy) \in InvoiceRow
      /\ MarkFailed(biller[b].copy).order = biller[b].copy.order
      /\ MarkFailed(biller[b].copy).status = "FAILED"
      /\ MarkFailed(biller[b].copy).document = NoDocumentYet
  BY <1>2, BillingInvoiceFacts DEF Documented
<1>4. factus \in Seq(Sales) /\ biller[b].copy.order \in Sales
  BY <1>2, BillingInvoiceFacts DEF BillingTypes
<1>5. ASSUME Len(factus) < MaxDocuments, factus' = Append(factus, biller[b].copy.order)
      PROVE  /\ factus' \in Seq(Sales)
             /\ \A n \in DOMAIN factus : n \in DOMAIN factus' /\ factus'[n] = factus[n]
             /\ Len(factus') \in 1..MaxDocuments
             /\ Len(factus') \in DOMAIN factus' \ DOMAIN factus
             /\ factus'[Len(factus')] = biller[b].copy.order
  BY <1>4, <1>5, BillingAssumption
<1>6. CASE FactusIssues(b)
  <2>1. Len(factus) < MaxDocuments /\ factus' = Append(factus, biller[b].copy.order)
        /\ Answered(b, MarkIssued(biller[b].copy, Len(factus')))
    BY <1>6 DEF FactusIssues
  <2>2. PICK n \in 1..MaxDocuments : n = Len(factus')
    BY <2>1, <1>5
  <2>3. PICK copy : copy = MarkIssued(biller[b].copy, n)
    OBVIOUS
  <2>4. /\ copy \in InvoiceRow /\ copy.order = biller[b].copy.order
        /\ copy.status = "ISSUED" /\ copy.document = n
    BY <1>2, <2>3, BillingInvoiceFacts
  <2>5. Answered(b, copy)
    BY <2>1, <2>2, <2>3
  <2> QED
    BY <1>1, <2>1, <1>5, <2>2, <2>4, <2>5, BillingAnswerPreserves
<1>7. CASE FactusIssuesUnheard(b)
  <2>1. Len(factus) < MaxDocuments /\ factus' = Append(factus, biller[b].copy.order)
        /\ Answered(b, MarkFailed(biller[b].copy))
    BY <1>7 DEF FactusIssuesUnheard
  <2> QED
    BY <1>1, <1>3, <1>5, <2>1, BillingAnswerPreserves
<1>8. CASE FactusRefuses(b)
  <2>1. UNCHANGED factus /\ Answered(b, MarkFailed(biller[b].copy))
    BY <1>8 DEF FactusRefuses
  <2> QED
    BY <1>1, <1>3, <1>4, <2>1, BillingAnswerPreserves
<1> QED
  BY <1>6, <1>7, <1>8

LEMMA BillingPublishPreserves ==
    ASSUME BillingIInv, NEW b \in Billers, PublishInvoice(b)
    PROVE  BillingIInv'
<1>1. biller[b].at = "publish" /\ UNCHANGED <<invoices, dispatched, configured, factus, orphaned>>
  BY DEF PublishInvoice
<1>2. /\ BillingTypes /\ Busy(b) /\ biller[b] \in Tasks
      /\ biller[b].id \in DOMAIN invoices
      /\ biller[b].copy.order = invoices[biller[b].id].order
      /\ Documented(biller[b].copy)
  BY <1>1, BillingAtWork
<1>3. CASE biller[b].task = "retry"
  <2>1. biller' = [biller EXCEPT ![b] = Resting]
    BY <1>2, <1>3 DEF PublishInvoice, BillingTypes
  <2>2. dispatched' \in SUBSET Sales /\ orphaned' \subseteq InvoiceIds
    BY <1>1, <1>2 DEF BillingTypes
  <2> QED
    BY <1>1, <1>2, <2>1, <2>2, BillingEndPreserves
<1>4. CASE biller[b].task # "retry"
  <2>1. PICK w : w = [biller[b] EXCEPT !.at = "mark"]
    OBVIOUS
  <2>2. /\ w \in Tasks /\ w.at = "mark" /\ w.task = biller[b].task /\ w.id = biller[b].id
        /\ w.copy = biller[b].copy
    BY <1>2, <2>1, BillingMoved
  <2>3. biller' = [biller EXCEPT ![b] = w]
    BY <1>2, <1>4, <2>1 DEF PublishInvoice, BillingTypes
  <2>4. factus' \in Seq(Sales)
    BY <1>1, <1>2 DEF BillingTypes
  <2>5. w.task = "deliver" => Kept(w.id)
    BY <1>1, <1>2, <2>2 DEF BillingIInv, DeliveriesAreKept
  <2>6. IF w.copy.status = "ISSUED"
        THEN w.copy.document \in DOMAIN factus' /\ factus'[w.copy.document] = w.copy.order
        ELSE w.copy.document = NoDocumentYet
    BY <1>1, <1>2, <2>2 DEF Documented
  <2>7. w.task = "deliver"
    BY <1>2, <1>4, <2>2, BillingWorkFacts
  <2> QED
    BY <1>1, <1>2, <2>2, <2>3, <2>4, <2>5, <2>6, <2>7, BillingGoesPreserves
<1> QED
  BY <1>3, <1>4

LEMMA BillingMarkPreserves ==
    ASSUME BillingIInv, NEW b \in Billers, MarkDispatched(b)
    PROVE  BillingIInv'
<1>1. biller[b].at = "mark" /\ UNCHANGED <<invoices, configured, factus, orphaned>>
      /\ biller' = [biller EXCEPT ![b] = Resting]
      /\ dispatched' = dispatched \cup {biller[b].copy.order}
  BY DEF MarkDispatched
<1>2. /\ BillingTypes /\ Busy(b) /\ biller[b] \in Tasks
      /\ biller[b].id \in DOMAIN invoices
      /\ biller[b].copy.order = invoices[biller[b].id].order
      /\ biller[b].copy \in InvoiceRow
  BY <1>1, BillingAtWork
<1>3. biller[b].task = "deliver" /\ Kept(biller[b].id)
  BY <1>1, <1>2 DEF BillingIInv, DeliveriesAreKept
<1>4. dispatched' \in SUBSET Sales /\ orphaned' \subseteq InvoiceIds
  BY <1>1, <1>2, BillingInvoiceFacts DEF BillingTypes
<1> QED
  BY <1>1, <1>2, <1>3, <1>4, BillingEndPreserves

LEMMA BillingStopsPreserves ==
    ASSUME BillingIInv, NEW b \in Billers, BillerStops(b)
    PROVE  BillingIInv'
<1>1. /\ Busy(b) /\ biller' = [biller EXCEPT ![b] = Resting]
      /\ UNCHANGED <<invoices, dispatched, configured, factus>>
      /\ orphaned' = IF biller[b].task = "retry" /\ biller[b].at \in {"call", "result"}
                     THEN orphaned \cup {biller[b].id} ELSE orphaned
  BY DEF BillerStops, Busy
<1>2. BillingTypes
  BY DEF BillingIInv
<1>3. biller[b].id \in InvoiceIds
  BY <1>1, <1>2, BillingBusyFacts, BillingWorkFacts
<1>4. dispatched' \in SUBSET Sales /\ orphaned' \subseteq InvoiceIds
  BY <1>1, <1>2, <1>3 DEF BillingTypes
<1> QED
  BY <1>1, <1>4, BillingEndPreserves
-----------------------------------------------------------------------------
(* Saves *)

LEMMA BillingSavePreserves ==
    ASSUME BillingIInv, NEW b \in Billers, SaveInvoice(b), NEW next,
           \/ biller[b].at = "pending" /\ next = "call"
           \/ biller[b].at = "result" /\ next = "publish",
           biller' = [biller EXCEPT ![b].at = next],
           UNCHANGED <<dispatched, configured, factus, orphaned>>
    PROVE  BillingIInv'
<1>1. /\ BillingTypes /\ Busy(b) /\ biller[b] \in Tasks
      /\ biller[b].id \in InvoiceIds /\ biller[b].copy \in InvoiceRow
      /\ Documented(biller[b].copy)
      /\ next \in {"call", "publish"}
  BY BillingAtWork
<1>2. PICK w : w = [biller[b] EXCEPT !.at = next]
  OBVIOUS
<1>3. /\ w \in Tasks /\ w.at = next /\ w.task = biller[b].task /\ w.id = biller[b].id
      /\ w.copy = biller[b].copy /\ w # Resting
  BY <1>1, <1>2, BillingMoved, BillingWorkFacts
<1>4. /\ biller' = [biller EXCEPT ![b] = w] /\ biller'[b] = w /\ Busy(b)'
      /\ \A c \in Billers \ {b} : biller'[c] = biller[c] /\ (Busy(c)' <=> Busy(c))
  BY <1>1, <1>2, <1>3 DEF BillingTypes, Busy
<1>5. /\ DOMAIN invoices' = DOMAIN invoices \cup {w.id}
      /\ invoices'[w.id] = w.copy
      /\ \A i \in DOMAIN invoices : i # w.id => invoices'[i] = invoices[i]
      /\ DOMAIN invoices' \in SUBSET InvoiceIds
      /\ invoices' \in [DOMAIN invoices' -> InvoiceRow]
  BY <1>1, <1>3, BillingSaveFacts
<1>6. \A c \in Billers : Making(c)' /\ Busy(c)' =>
          c # b /\ Busy(c) /\ Making(c) /\ biller'[c] = biller[c]
  BY <1>1, <1>3, <1>4 DEF Making
<1>7. w.id \in DOMAIN invoices => w.copy.order = invoices[w.id].order /\ ~Making(b)
  BY <1>1, <1>3 DEF BillingIInv, CopiesAreOfTheirRows, MadeUpIdsAreNew
<1>8. \A i \in DOMAIN invoices : invoices'[i].order = invoices[i].order
  BY <1>5, <1>7
<1>9. /\ next = "publish" => w.copy.status \in {"ISSUED", "FAILED"}
      /\ next = "call" => w.copy.status = "PENDING" /\ biller[b].at = "pending"
  BY <1>1, <1>3 DEF BillingIInv, CopiesAreDocumented
<1>10. \A i \in DOMAIN invoices : Kept(i) => Kept(i)'
  <2> SUFFICES ASSUME NEW i \in DOMAIN invoices, Kept(i)
               PROVE  Kept(i)'
    OBVIOUS
  <2>1. CASE i = w.id /\ next = "publish"
    BY <2>1, <1>5, <1>9 DEF Kept
  <2>2. CASE i = w.id /\ next = "call"
    <3>1. biller'[b].task = "retry"
      BY <2>2, <1>1, <1>3, <1>4, <1>7, <1>9, BillingWorkFacts DEF Making
    <3> QED
      BY <2>2, <3>1, <1>3, <1>4 DEF Kept
  <2>3. CASE i # w.id
    <3>1. invoices'[i] = invoices[i]
      BY <2>3, <1>5
    <3>2. ASSUME NEW c \in Billers, Busy(c), biller[c].task = "retry",
                 biller[c].at \in {"call", "result"}, biller[c].id = i
          PROVE  /\ Busy(c)' /\ biller'[c].task = "retry"
                 /\ biller'[c].at \in {"call", "result"} /\ biller'[c].id = i
      BY <3>2, <2>3, <1>3, <1>4
    <3> QED
      BY <3>1, <3>2 DEF Kept
  <2> QED
    BY <1>1, <2>1, <2>2, <2>3
<1>11. BillingTypes'
  BY <1>1, <1>3, <1>4, <1>5 DEF BillingTypes
<1>12. MadeUpIdsAreNew'
  <2> SUFFICES ASSUME NEW c \in Billers, Busy(c)', Making(c)'
               PROVE  /\ biller'[c].id \notin DOMAIN invoices'
                      /\ \A d \in Billers \ {c} : Busy(d)' => biller'[d].id # biller'[c].id
    BY DEF MadeUpIdsAreNew
  <2>1. c # b /\ Busy(c) /\ Making(c) /\ biller'[c] = biller[c]
    BY <1>6
  <2>2. /\ biller[c].id \notin DOMAIN invoices
        /\ \A d \in Billers \ {c} : Busy(d) => biller[d].id # biller[c].id
    BY <2>1 DEF BillingIInv, MadeUpIdsAreNew
  <2>3. w.id # biller[c].id
    BY <1>1, <1>3, <2>1, <2>2
  <2> QED
    BY <2>1, <2>2, <2>3, <1>4, <1>5
<1>13. CopiesAreOfTheirRows'
  <2> SUFFICES ASSUME NEW c \in Billers, Busy(c)', ~Making(c)'
               PROVE  /\ biller'[c].id \in DOMAIN invoices'
                      /\ biller'[c].copy.order = invoices'[biller'[c].id].order
    BY DEF CopiesAreOfTheirRows
  <2>1. CASE c = b
    BY <2>1, <1>4, <1>5
  <2>2. CASE c # b
    <3>1. Busy(c) /\ ~Making(c) /\ biller'[c] = biller[c]
      BY <2>2, <1>4 DEF Making
    <3>2. biller[c].id \in DOMAIN invoices /\ biller[c].copy.order = invoices[biller[c].id].order
      BY <3>1 DEF BillingIInv, CopiesAreOfTheirRows
    <3> QED
      BY <3>1, <3>2, <1>5, <1>8
  <2> QED
    BY <2>1, <2>2
<1>14. CopiesAreDocumented'
  <2> SUFFICES ASSUME NEW c \in Billers, Busy(c)'
               PROVE  /\ Documented(biller[c].copy)'
                      /\ biller'[c].at \in {"pending", "call"} =>
                            biller'[c].copy.status = "PENDING"
                      /\ biller'[c].at = "result" =>
                            biller'[c].copy.status \in {"ISSUED", "FAILED"}
    BY DEF CopiesAreDocumented
  <2>1. CASE c = b
    BY <2>1, <1>1, <1>3, <1>4, <1>9 DEF Documented
  <2>2. CASE c # b
    BY <2>2, <1>4 DEF BillingIInv, CopiesAreDocumented, Documented
  <2> QED
    BY <2>1, <2>2
<1>15. RowsAreDocumented'
  <2>1. \A i \in InvoiceRow : Documented(i)' <=> Documented(i)
    BY DEF Documented
  <2>2. \A i \in DOMAIN invoices' : Documented(invoices'[i])
    BY <1>1, <1>3, <1>5 DEF BillingIInv, RowsAreDocumented
  <2> QED
    BY <2>2 DEF RowsAreDocumented, Documented
<1>16. DocumentsAreNamedOnce'
  <2>1. w.copy.status = "ISSUED" => Carries(b)
    BY <1>1, <1>3, <1>9 DEF Carries
  <2>2. \A i \in DOMAIN invoices : i # w.id =>
            /\ invoices[i].status = "ISSUED" => invoices[i].document # w.copy.document
            /\ w.copy.status = "ISSUED" => invoices[i].document # w.copy.document
    <3> SUFFICES ASSUME NEW i \in DOMAIN invoices, i # w.id,
                        invoices[i].status = "ISSUED" \/ w.copy.status = "ISSUED"
                 PROVE  invoices[i].document # w.copy.document
      OBVIOUS
    <3>1. CASE w.copy.status = "ISSUED"
      BY <3>1, <2>1, <1>3 DEF BillingIInv, DocumentsAreNamedOnce
    <3>2. CASE w.copy.status # "ISSUED"
      <4>1. w.copy.document = NoDocumentYet
        BY <3>2, <1>1, <1>3 DEF Documented
      <4>2. invoices[i].document \in DOMAIN factus
        BY <3>2 DEF BillingIInv, RowsAreDocumented, Documented
      <4> QED
        BY <4>1, <4>2, <1>1, BillingAssumption DEF BillingTypes
    <3> QED
      BY <3>1, <3>2
  <2>3. \A c \in Billers : Carries(c)' => c # b /\ Carries(c) /\ biller'[c] = biller[c]
    BY <1>1, <1>3, <1>4 DEF Carries
  <2>4. \A c \in Billers : Carries(c) /\ c # b /\ biller[c].id # w.id =>
            w.copy.document # biller[c].copy.document
    <3> SUFFICES ASSUME NEW c \in Billers, Carries(c), c # b, biller[c].id # w.id
                 PROVE  w.copy.document # biller[c].copy.document
      OBVIOUS
    <3>1. CASE w.copy.status = "ISSUED"
      BY <3>1, <2>1, <1>3 DEF BillingIInv, DocumentsAreNamedOnce
    <3>2. CASE w.copy.status # "ISSUED"
      <4>1. w.copy.document = NoDocumentYet
        BY <3>2, <1>1, <1>3 DEF Documented
      <4>2. biller[c].copy.document \in DOMAIN factus
        BY DEF BillingIInv, CopiesAreDocumented, Documented, Carries
      <4> QED
        BY <4>1, <4>2, <1>1, BillingAssumption DEF BillingTypes
    <3> QED
      BY <3>1, <3>2
  <2>5. \A i, j \in DOMAIN invoices' :
           i # j /\ invoices'[i].status = "ISSUED" => invoices'[j].document # invoices'[i].document
    BY <2>2, <1>5 DEF BillingIInv, DocumentsAreNamedOnce
  <2>6. \A c \in Billers, i \in DOMAIN invoices' :
           Carries(c)' /\ i # biller'[c].id => invoices'[i].document # biller'[c].copy.document
    BY <2>3, <2>4, <1>5 DEF BillingIInv, DocumentsAreNamedOnce
  <2>7. \A c, d \in Billers :
           Carries(c)' /\ Carries(d)' /\ biller'[c].id # biller'[d].id =>
               biller'[c].copy.document # biller'[d].copy.document
    BY <2>3 DEF BillingIInv, DocumentsAreNamedOnce
  <2> QED
    BY <2>5, <2>6, <2>7 DEF DocumentsAreNamedOnce
<1>17. DeliveriesAreKept'
  <2> SUFFICES ASSUME NEW c \in Billers, Busy(c)', biller'[c].at \in {"publish", "mark"}
               PROVE  /\ biller'[c].at = "mark" => biller'[c].task = "deliver"
                      /\ biller'[c].task = "deliver" => Kept(biller[c].id)'
    BY DEF DeliveriesAreKept
  <2>1. \A i : biller'[c].id = i => (Kept(biller[c].id)' <=> Kept(i)')
    BY DEF Kept
  <2>2. CASE c = b
    BY <2>1, <2>2, <1>3, <1>4, <1>5, <1>9 DEF Kept
  <2>3. CASE c # b
    <3>1. Busy(c) /\ biller'[c] = biller[c] /\ ~Making(c)
      BY <2>3, <1>4 DEF Making
    <3>2. biller[c].id \in DOMAIN invoices
      BY <3>1 DEF BillingIInv, CopiesAreOfTheirRows
    <3>3. /\ biller[c].at = "mark" => biller[c].task = "deliver"
          /\ biller[c].task = "deliver" => Kept(biller[c].id)
      BY <3>1 DEF BillingIInv, DeliveriesAreKept
    <3> QED
      BY <2>1, <3>1, <3>2, <3>3, <1>10
  <2> QED
    BY <2>2, <2>3
<1>18. DispatchedAreKept'
  BY <1>5, <1>8, <1>10 DEF BillingIInv, DispatchedAreKept
<1> QED
  BY <1>11, <1>12, <1>13, <1>14, <1>15, <1>16, <1>17, <1>18 DEF BillingIInv

-----------------------------------------------------------------------------
(* The theorems *)

LEMMA BillingInitIInv == BillingInit => BillingIInv
<1> SUFFICES ASSUME BillingInit
             PROVE  BillingIInv
  OBVIOUS
<1>1. DOMAIN invoices = {} /\ factus \in Seq(Sales) /\ invoices \in [{} -> InvoiceRow]
  BY DEF BillingInit
<1>2. \A b \in Billers : ~Busy(b)
  BY DEF BillingInit, Busy
<1>3. BillingTypes
  BY <1>1 DEF BillingInit, BillingTypes
<1> QED
  BY <1>1, <1>2, <1>3
     DEF BillingInit, BillingIInv, MadeUpIdsAreNew, CopiesAreOfTheirRows,
         CopiesAreDocumented, RowsAreDocumented, DocumentsAreNamedOnce, DeliveriesAreKept,
         DispatchedAreKept, Carries

LEMMA BillingNextIInv == BillingIInv /\ [BillingNext]_billingVars => BillingIInv'
<1> SUFFICES ASSUME BillingIInv, [BillingNext]_billingVars
             PROVE  BillingIInv'
  OBVIOUS
<1>1. ASSUME NEW b \in Billers, IssueInvoice(b)
      PROVE  BillingIInv'
  BY <1>1, BillingIssuePreserves
<1>2. ASSUME NEW b \in Billers, RetryInvoice(b)
      PROVE  BillingIInv'
  BY <1>2, BillingRetryPreserves
<1>3. ASSUME NEW b \in Billers, SavePendingInvoice(b)
      PROVE  BillingIInv'
  BY <1>3, BillingSavePreserves DEF SavePendingInvoice, Step
<1>4. ASSUME NEW b \in Billers,
             FactusIssues(b) \/ FactusIssuesUnheard(b) \/ FactusRefuses(b)
      PROVE  BillingIInv'
  BY <1>4, BillingFactusPreserves
<1>5. ASSUME NEW b \in Billers, SaveResult(b)
      PROVE  BillingIInv'
  BY <1>5, BillingSavePreserves DEF SaveResult, Step
<1>6. ASSUME NEW b \in Billers, PublishInvoice(b)
      PROVE  BillingIInv'
  BY <1>6, BillingPublishPreserves
<1>7. ASSUME NEW b \in Billers, MarkDispatched(b)
      PROVE  BillingIInv'
  BY <1>7, BillingMarkPreserves
<1>8. ASSUME NEW b \in Billers, BillerStops(b)
      PROVE  BillingIInv'
  BY <1>8, BillingStopsPreserves
<1>9. ASSUME UNCHANGED <<invoices, dispatched, factus, biller, orphaned>>,
             configured' \in BOOLEAN
      PROVE  BillingIInv'
  BY <1>9 DEF BillingIInv, BillingTypes, MadeUpIdsAreNew, CopiesAreOfTheirRows,
         CopiesAreDocumented, RowsAreDocumented, DocumentsAreNamedOnce, DeliveriesAreKept,
         DispatchedAreKept, Busy, Carries, Making, Documented, Kept
<1>10. CASE Configure
  BY <1>9, <1>10 DEF Configure
<1>11. CASE UNCHANGED billingVars
  BY <1>9, <1>11 DEF billingVars, BillingIInv, BillingTypes
<1> QED
  BY <1>1, <1>2, <1>3, <1>4, <1>5, <1>6, <1>7, <1>8, <1>10, <1>11 DEF BillingNext

LEMMA BillingIInvImplies ==
    ASSUME BillingIInv
    PROVE  BillingTypeOK /\ OrdersAreInvoiced
<1>1. BillingTypeOK
  <2>1. \A b \in Billers : biller[b] # Resting => biller[b] \in Tasks
    BY DEF BillingIInv, BillingTypes
  <2> QED
    BY <2>1 DEF BillingIInv, BillingTypes, BillingTypeOK, Tasks
<1>2. DocumentsBelongToTheirInvoices
  BY DEF BillingIInv, RowsAreDocumented, DocumentsAreNamedOnce, Documented,
         DocumentsBelongToTheirInvoices
<1>3. \A i \in DOMAIN invoices : Kept(i) => i \in orphaned \/ InGoodHands(invoices[i].order)
  BY DEF Kept, InGoodHands, EnsureRetryable, Busy
<1>4. \A s \in dispatched : (\E i \in orphaned : invoices[i].order = s) \/ InGoodHands(s)
  BY <1>3 DEF BillingIInv, DispatchedAreKept
<1> QED
  BY <1>1, <1>2, <1>4 DEF OrdersAreInvoiced

THEOREM BillingInvariance == BillingSpec => []BillingIInv
  BY BillingInitIInv, BillingNextIInv, PTL DEF BillingSpec

\* The rows and the requests of the billers keep their types.
THEOREM BillingTypeCorrect == BillingSpec => []BillingTypeOK
<1>1. BillingIInv => BillingTypeOK
  BY BillingIInvImplies
<1> QED
  BY <1>1, BillingInvariance, PTL

\* Whatever deliveries are repeated, answers lost and retries overlap: a number
\* belongs to one invoice and was issued for its order, and an order whose event was
\* marked is issued or can be, unless a retry stopped between its two saves.
THEOREM BillingOrdersAreInvoiced == BillingSpec => []OrdersAreInvoiced
<1>1. BillingIInv => OrdersAreInvoiced
  BY BillingIInvImplies
<1> QED
  BY <1>1, BillingInvariance, PTL

-------------------------------------------------------------------------------
(* Customers, addresses and points: module Customers. *)

(* Customers: the inductive invariant *)

CustomersTypes ==
    /\ circle \in Circles
    /\ DOMAIN customers \in SUBSET People
    /\ customers \in [DOMAIN customers -> CustomerRow]
    /\ addresses \in AddressTable
    /\ IsFiniteSet(DOMAIN addresses)
    /\ counter \in [CrmClerks -> CustomerRequest \cup {AtCounter}]
    /\ spent \in [People -> 0..MaxLifetime]
    /\ stale \in BOOLEAN
    /\ misdirected \in BOOLEAN

OwnersAreCustomers == \A a \in DOMAIN addresses : addresses[a] \in DOMAIN customers

\* A lost update only loses: no lifetime value is above what was spent.
LifetimeIsSpent ==
    /\ \A p \in DOMAIN customers : customers[p].lifetimeValue <= spent[p]
    /\ \A p \in People \ DOMAIN customers : spent[p] = 0

\* The default address a customer with these addresses is to have.
Proper(d, as) == IF as = {} THEN d = NoAddress ELSE d \in as

\* A request that creates a customer.
Creates(r) ==
    /\ r.row \in CustomerRow
    /\ r.row.document = r.document
    /\ r.row.defaultAddressId = NoAddress /\ r.row.lifetimeValue = 0
    /\ r.put = {} /\ r.drop = {} /\ r.total = 0
    /\ ~stale => ~r.read.documentTaken

\* The addresses that a request read, and the row that it means to leave.
ReadAddresses(r) == {a \in DOMAIN r.read.addresses : r.read.addresses[a] = r.person}
Meant(r) == IF r.row = NoCustomer THEN r.read.row ELSE r.row

\* A request about a customer: what it makes of what it read, while it is what is there.
Alters(r) ==
    /\ r.person \in DOMAIN customers
    /\ r.row # NoCustomer => r.row.lifetimeValue <= spent[r.person] + r.total
    /\ ~stale => /\ r.read.row \in CustomerRow
                 /\ Meant(r).document = r.read.row.document
                 /\ Meant(r).lifetimeValue = r.read.row.lifetimeValue + r.total
    /\ ~stale /\ ~misdirected /\ Proper(r.read.row.defaultAddressId, ReadAddresses(r)) =>
           Proper(Meant(r).defaultAddressId, (ReadAddresses(r) \cup r.put) \ r.drop)

MakesSense(r) ==
    /\ IsFiniteSet(r.put)
    /\ r.put \cup r.drop \subseteq r.names
    /\ r.read.row # NoCustomer => r.person \in DOMAIN customers
    /\ r.account => Creates(r)
    /\ ~r.account => Alters(r)

RequestsMakeSense == \A c \in CrmClerks : counter[c] # AtCounter => MakesSense(counter[c])

CustomersIInv ==
    /\ CustomersTypes
    /\ OwnersAreCustomers
    /\ LifetimeIsSpent
    /\ RequestsMakeSense
    /\ CustomersAreConsistent

-----------------------------------------------------------------------------
(* Rows and requests *)

LEMMA CustomersCircleFacts ==
    ASSUME CustomersTypes
    PROVE  /\ \A c \in circle.clerks : c \in CrmClerks
           /\ \A q \in CreateCustomerRequest :
                 q \in [id : People, phone : Phones, document : Documents]
           /\ \A q \in UpdateCustomerRequest : q \in [phone : Phones]
           /\ \A q \in AddAddressRequest : q.id \in AddressIds
           /\ \A t \in circle.totals : t \in Totals /\ t \in Nat
<1>1. circle \in [clerks : SUBSET CrmClerks,
                  profiles : SUBSET [id : People, phone : Phones, document : Documents],
                  phones : SUBSET Phones, addresses : SUBSET AddressIds,
                  totals : SUBSET Totals]
  BY CustomersAssumption DEF CustomersTypes
<1>2. \A t \in Totals : t \in Nat
  BY CustomersAssumption
<1> QED
  BY <1>1, <1>2 DEF CreateCustomerRequest, UpdateCustomerRequest, AddAddressRequest

LEMMA CustomersAddressTable ==
    ASSUME NEW f
    PROVE  f \in AddressTable <=> DOMAIN f \in SUBSET AddressIds /\ f \in [DOMAIN f -> People]
  BY DEF AddressTable

LEMMA CustomersRowFacts ==
    ASSUME NEW row \in CustomerRow
    PROVE  /\ row # NoCustomer
           /\ row.phone \in Phones /\ row.document \in Documents
           /\ row.defaultAddressId \in AddressIds \cup {NoAddress}
           /\ row.lifetimeValue \in 0..MaxLifetime
           /\ \A a \in AddressIds \cup {NoAddress} :
                 /\ SetDefault(row, a) \in CustomerRow
                 /\ SetDefault(row, a).phone = row.phone
                 /\ SetDefault(row, a).document = row.document
                 /\ SetDefault(row, a).defaultAddressId = a
                 /\ SetDefault(row, a).lifetimeValue = row.lifetimeValue
           /\ \A q \in [phone : Phones] :
                 /\ EditedCustomer(row, q) \in CustomerRow
                 /\ EditedCustomer(row, q).document = row.document
                 /\ EditedCustomer(row, q).defaultAddressId = row.defaultAddressId
                 /\ EditedCustomer(row, q).lifetimeValue = row.lifetimeValue
           /\ \A t \in Nat : row.lifetimeValue + t <= MaxLifetime =>
                 /\ AddToLifetimeValue(row, t) \in CustomerRow
                 /\ AddToLifetimeValue(row, t).document = row.document
                 /\ AddToLifetimeValue(row, t).defaultAddressId = row.defaultAddressId
                 /\ AddToLifetimeValue(row, t).lifetimeValue = row.lifetimeValue + t
<1>1. row # NoCustomer
  BY CustomersAssumption DEF CustomerRow, NoCustomer
<1>2. \A t \in Nat : row.lifetimeValue + t <= MaxLifetime =>
         row.lifetimeValue + t \in 0..MaxLifetime
  BY CustomersAssumption DEF CustomerRow
<1>3. \A t \in Nat : row.lifetimeValue + t <= MaxLifetime =>
                 /\ AddToLifetimeValue(row, t) \in CustomerRow
                 /\ AddToLifetimeValue(row, t).document = row.document
                 /\ AddToLifetimeValue(row, t).defaultAddressId = row.defaultAddressId
                 /\ AddToLifetimeValue(row, t).lifetimeValue = row.lifetimeValue + t
  BY <1>2 DEF CustomerRow, AddToLifetimeValue
<1>4. \A a \in AddressIds \cup {NoAddress} :
                 /\ SetDefault(row, a) \in CustomerRow
                 /\ SetDefault(row, a).phone = row.phone
                 /\ SetDefault(row, a).document = row.document
                 /\ SetDefault(row, a).defaultAddressId = a
                 /\ SetDefault(row, a).lifetimeValue = row.lifetimeValue
  BY DEF CustomerRow, SetDefault
<1>5. \A q \in [phone : Phones] :
                 /\ EditedCustomer(row, q) \in CustomerRow
                 /\ EditedCustomer(row, q).document = row.document
                 /\ EditedCustomer(row, q).defaultAddressId = row.defaultAddressId
                 /\ EditedCustomer(row, q).lifetimeValue = row.lifetimeValue
  BY DEF CustomerRow, EditedCustomer
<1>6. /\ row.phone \in Phones /\ row.document \in Documents
      /\ row.defaultAddressId \in AddressIds \cup {NoAddress}
      /\ row.lifetimeValue \in 0..MaxLifetime
  BY DEF CustomerRow
<1> QED
  BY <1>1, <1>3, <1>4, <1>5, <1>6

\* What save() leaves of a row: of each column what it was given or what is there.
LEMMA CustomersColumns ==
    ASSUME NEW given \in CustomerRow, NEW read, NEW row \in CustomerRow,
           NEW left, left = ColumnsWritten(given, read, row)
    PROVE  /\ left \in CustomerRow
           /\ left.lifetimeValue \in {given.lifetimeValue, row.lifetimeValue}
           /\ read = row => left = given
<1>1. /\ DOMAIN row = {"phone", "document", "defaultAddressId", "lifetimeValue"}
      /\ DOMAIN given = {"phone", "document", "defaultAddressId", "lifetimeValue"}
  BY DEF CustomerRow
<1>2. left = [phone |-> left.phone, document |-> left.document,
              defaultAddressId |-> left.defaultAddressId, lifetimeValue |-> left.lifetimeValue]
  BY <1>1 DEF ColumnsWritten, WithColumns
<1>3. /\ left.phone \in {given.phone, row.phone}
      /\ left.document \in {given.document, row.document}
      /\ left.defaultAddressId \in {given.defaultAddressId, row.defaultAddressId}
      /\ left.lifetimeValue \in {given.lifetimeValue, row.lifetimeValue}
  BY <1>1 DEF ColumnsWritten, WithColumns
<1>4. left \in CustomerRow
  BY <1>2, <1>3 DEF CustomerRow
<1>5. ASSUME read = row
      PROVE  left = given
  <2>1. left = [c \in DOMAIN row |-> given[c]]
    BY <1>1, <1>5 DEF ColumnsWritten, WithColumns, Differing
  <2>2. given = [c \in DOMAIN given |-> given[c]]
    BY DEF CustomerRow
  <2> QED
    BY <1>1, <2>1, <2>2
<1> QED
  BY <1>3, <1>4, <1>5

SeenSet == [row : CustomerRow \cup {NoCustomer}, addresses : AddressTable,
            documentTaken : BOOLEAN]

LEMMA CustomersSeenFacts ==
    ASSUME CustomersTypes, NEW p, NEW names, NEW d, NEW s, s = Seen(p, names, d)
    PROVE  /\ s \in SeenSet
           /\ p \in DOMAIN customers => s.row = customers[p]
           /\ s.row # NoCustomer => p \in DOMAIN customers
           /\ s.documentTaken = ExistsByDocument(d)
           /\ DOMAIN s.addresses = AddressesOf(p) \cup (names \cap DOMAIN addresses)
           /\ \A a \in DOMAIN s.addresses : a \in DOMAIN addresses /\ s.addresses[a] = addresses[a]
           /\ {a \in DOMAIN s.addresses : s.addresses[a] = p} = AddressesOf(p)
<1>1. PICK f : f = [a \in AddressesOf(p) \cup (names \cap DOMAIN addresses) |-> addresses[a]]
  OBVIOUS
<1>2. PICK row : row = IF p \in DOMAIN customers THEN customers[p] ELSE NoCustomer
  OBVIOUS
<1>3. s = [row |-> row, addresses |-> f, documentTaken |-> ExistsByDocument(d)]
  BY <1>1, <1>2 DEF Seen
<1>4. /\ DOMAIN f = AddressesOf(p) \cup (names \cap DOMAIN addresses)
      /\ \A a \in DOMAIN f : a \in DOMAIN addresses /\ f[a] = addresses[a]
  BY <1>1 DEF AddressesOf
<1>5. /\ DOMAIN addresses \in SUBSET AddressIds /\ addresses \in [DOMAIN addresses -> People]
  BY CustomersAddressTable DEF CustomersTypes
<1>6. f \in [DOMAIN f -> People] /\ DOMAIN f \in SUBSET AddressIds
  BY <1>1, <1>4, <1>5
<1>7. f \in AddressTable
  BY <1>6, CustomersAddressTable
<1>8. row \in CustomerRow \cup {NoCustomer}
  BY <1>2 DEF CustomersTypes
<1>9. s \in SeenSet
  BY <1>3, <1>7, <1>8 DEF SeenSet, ExistsByDocument
<1>10. {a \in DOMAIN f : f[a] = p} = AddressesOf(p)
  BY <1>4 DEF AddressesOf
<1>11. s.row = row /\ s.addresses = f /\ s.documentTaken = ExistsByDocument(d)
  BY <1>3
<1> QED
  BY <1>2, <1>4, <1>9, <1>10, <1>11

\* What Writes is, field by field, for a customer that is there.
LEMMA CustomersWritesFacts ==
    ASSUME CustomersTypes, NEW p \in DOMAIN customers, NEW row \in CustomerRow \cup {NoCustomer},
           NEW names \in SUBSET AddressIds, NEW w, w = Writes(p, row, names)
    PROVE  /\ w \in CustomerRequest
           /\ w.person = p /\ w.row = row /\ w.names = names /\ w.put = {} /\ w.drop = {}
           /\ ~w.account /\ w.total = 0
           /\ w.read.row = customers[p] /\ ReadAddresses(w) = AddressesOf(p)
<1>1. PICK s : s = Seen(p, names, NoDocument)
  OBVIOUS
<1>2. /\ s \in SeenSet /\ s.row = customers[p]
      /\ {a \in DOMAIN s.addresses : s.addresses[a] = p} = AddressesOf(p)
  BY <1>1, CustomersSeenFacts
<1>3. w = [at |-> "select", person |-> p, document |-> NoDocument, read |-> s, row |-> row,
           names |-> names, put |-> {}, drop |-> {}, account |-> FALSE, total |-> 0]
  BY <1>1 DEF Writes
<1>4. p \in People
  BY DEF CustomersTypes
<1>5. w \in CustomerRequest
  BY <1>2, <1>3, <1>4 DEF CustomerRequest, SeenSet
<1>6. w.read = s /\ w.person = p
  BY <1>3
<1>7. ReadAddresses(w) = AddressesOf(p)
  BY <1>2, <1>6 DEF ReadAddresses
<1> QED
  BY <1>2, <1>3, <1>5, <1>6, <1>7

\* What makes sense goes on making sense: customers stay, what was spent grows, and
\* what excuses a request is not forgotten.
LEMMA CustomersSenseStays ==
    ASSUME CustomersTypes, CustomersTypes', NEW r \in CustomerRequest, MakesSense(r),
           DOMAIN customers \subseteq DOMAIN customers',
           \A p \in People : spent[p] <= spent'[p],
           stale => stale', misdirected => misdirected'
    PROVE  MakesSense(r)'
<1>1. /\ IsFiniteSet(r.put)
      /\ r.put \cup r.drop \subseteq r.names
      /\ r.read.row # NoCustomer => r.person \in DOMAIN customers
      /\ r.account => Creates(r)
      /\ ~r.account => Alters(r)
  BY DEF MakesSense
<1>2. Creates(r) => Creates(r)'
  BY DEF Creates
<1>3. Alters(r) => Alters(r)'
  <2> SUFFICES ASSUME Alters(r)
               PROVE  Alters(r)'
    OBVIOUS
  <2>1. r.person \in DOMAIN customers' /\ r.person \in People
    BY DEF Alters, CustomerRequest
  <2>2. ASSUME r.row # NoCustomer
        PROVE  r.row.lifetimeValue <= spent'[r.person] + r.total
    <3>1. r.row \in CustomerRow
      BY <2>2 DEF CustomerRequest
    <3>2. r.row.lifetimeValue \in 0..MaxLifetime
      BY <3>1, CustomersRowFacts
    <3>3. spent[r.person] \in 0..MaxLifetime /\ spent'[r.person] \in 0..MaxLifetime
      BY <2>1 DEF CustomersTypes
    <3>4. r.total \in Nat
      <4>1. r.total \in Totals \cup {0}
        BY DEF CustomerRequest
      <4>2. \A t \in Totals : t \in Nat
        BY CustomersAssumption
      <4> QED
        BY <4>1, <4>2
    <3>5. r.row.lifetimeValue <= spent[r.person] + r.total /\ spent[r.person] <= spent'[r.person]
      BY <2>1, <2>2 DEF Alters
    <3> QED
      BY <3>2, <3>3, <3>4, <3>5, CustomersAssumption
  <2>3. /\ ~stale' => /\ r.read.row \in CustomerRow
                      /\ Meant(r).document = r.read.row.document
                      /\ Meant(r).lifetimeValue = r.read.row.lifetimeValue + r.total
        /\ ~stale' /\ ~misdirected' /\ Proper(r.read.row.defaultAddressId, ReadAddresses(r)) =>
               Proper(Meant(r).defaultAddressId, (ReadAddresses(r) \cup r.put) \ r.drop)
    BY DEF Alters
  <2> QED
    BY <2>1, <2>2, <2>3 DEF Alters
<1> QED
  BY <1>1, <1>2, <1>3 DEF MakesSense

\* A step of one clerk, whose request makes sense afterwards.
LEMMA CustomersOthersMakeSense ==
    ASSUME CustomersIInv, CustomersTypes', NEW c \in CrmClerks,
           NEW w, counter' = [counter EXCEPT ![c] = w], w # AtCounter => MakesSense(w)',
           DOMAIN customers \subseteq DOMAIN customers',
           \A p \in People : spent[p] <= spent'[p],
           stale => stale', misdirected => misdirected'
    PROVE  RequestsMakeSense'
<1>1. CustomersTypes /\ RequestsMakeSense
  BY DEF CustomersIInv
<1> SUFFICES ASSUME NEW d \in CrmClerks, NEW r, r = counter'[d], r # AtCounter
             PROVE  MakesSense(r)'
  BY DEF RequestsMakeSense, MakesSense, Creates, Alters
<1>2. CASE d = c
  BY <1>1, <1>2 DEF CustomersTypes
<1>3. CASE d # c
  <2>1. r = counter[d]
    BY <1>1, <1>3 DEF CustomersTypes
  <2>2. r \in CustomerRequest /\ MakesSense(r)
    BY <1>1, <2>1 DEF CustomersTypes, RequestsMakeSense
  <2> QED
    BY <1>1, <2>2, CustomersSenseStays
<1> QED
  BY <1>2, <1>3

\* Steps that leave the rows alone: what the excuses weaken stays true.
LEMMA CustomersRowsStay ==
    ASSUME CustomersIInv, UNCHANGED <<customers, addresses, accounts, spent>>,
           stale => stale', misdirected => misdirected'
    PROVE  (OwnersAreCustomers /\ LifetimeIsSpent /\ CustomersAreConsistent)'
<1>1. OwnersAreCustomers' /\ LifetimeIsSpent'
  BY DEF CustomersIInv, OwnersAreCustomers, LifetimeIsSpent
<1>2. CustomersHaveLoyaltyAccounts' /\ LifetimeValueCountsClosedOrders'
  BY DEF CustomersIInv, CustomersAreConsistent, CustomersHaveLoyaltyAccounts,
         LifetimeValueCountsClosedOrders
<1>3. CustomersAreDistinct'
  BY DEF CustomersIInv, CustomersAreConsistent, CustomersAreDistinct
<1>4. CustomersKeepTheirDefaultAddress'
  BY DEF CustomersIInv, CustomersAreConsistent, CustomersKeepTheirDefaultAddress, AddressesOf
<1> QED
  BY <1>1, <1>2, <1>3, <1>4 DEF CustomersAreConsistent

LEMMA CustomersSubmitPreserves ==
    ASSUME CustomersIInv, NEW c \in CrmClerks, NEW w \in CustomerRequest, Submit(c, w),
           MakesSense(w)'
    PROVE  CustomersIInv'
<1>1. /\ counter' = [counter EXCEPT ![c] = w]
      /\ misdirected' = (misdirected \/ NamesAnothers(w))
      /\ UNCHANGED <<circle, customers, addresses, accounts, spent, stale>>
  BY DEF Submit
<1>2. CustomersTypes'
  BY <1>1 DEF CustomersIInv, CustomersTypes, NamesAnothers
<1>3. \A p \in People : spent[p] <= spent'[p]
  BY <1>1, CustomersAssumption DEF CustomersIInv, CustomersTypes
<1>4. RequestsMakeSense'
  BY <1>1, <1>2, <1>3, CustomersOthersMakeSense
<1>5. (OwnersAreCustomers /\ LifetimeIsSpent /\ CustomersAreConsistent)'
  BY <1>1, CustomersRowsStay
<1> QED
  BY <1>2, <1>4, <1>5 DEF CustomersIInv
-----------------------------------------------------------------------------
(* Submitted requests *)

\* A request about a customer that keeps the document, counts the total, and leaves a
\* proper default address if it found one and names no address of another customer.
LEMMA CustomersAboutPreserves ==
    ASSUME CustomersIInv, NEW c \in CrmClerks, NEW w \in CustomerRequest, Submit(c, w),
           NEW p \in DOMAIN customers, w.person = p, ~w.account,
           w.read.row = customers[p], ReadAddresses(w) = AddressesOf(p),
           IsFiniteSet(w.put), w.put \cup w.drop \subseteq w.names,
           NEW after, after = IF w.row = NoCustomer THEN customers[p] ELSE w.row,
           after.document = customers[p].document,
           after.lifetimeValue = customers[p].lifetimeValue + w.total,
           ~NamesAnothers(w) /\ Proper(customers[p].defaultAddressId, AddressesOf(p)) =>
               Proper(after.defaultAddressId, (AddressesOf(p) \cup w.put) \ w.drop)
    PROVE  CustomersIInv'
<1>1. customers[p] \in CustomerRow /\ customers[p].lifetimeValue <= spent[p] /\ p \in People
  BY DEF CustomersTypes, CustomersIInv, LifetimeIsSpent
<1>2. /\ misdirected' = (misdirected \/ NamesAnothers(w))
      /\ UNCHANGED <<customers, spent, stale>>
  BY DEF Submit
<1>3. w.total \in Nat
  <2>1. w.total \in Totals \cup {0}
    BY DEF CustomerRequest
  <2>2. \A t \in Totals : t \in Nat
    BY CustomersAssumption
  <2> QED
    BY <2>1, <2>2
<1>4. spent[p] \in 0..MaxLifetime /\ customers[p].lifetimeValue \in 0..MaxLifetime
  BY <1>1, CustomersRowFacts DEF CustomersTypes, CustomersIInv
<1>5. w.row # NoCustomer => w.row.lifetimeValue <= spent[p] + w.total
  BY <1>1, <1>3, <1>4, CustomersAssumption
<1>6. Meant(w) = after
  BY DEF Meant
<1>7. ~misdirected' => ~NamesAnothers(w)
  BY <1>2
<1>8. Alters(w)'
  BY <1>1, <1>2, <1>5, <1>6, <1>7 DEF Alters
<1>9. MakesSense(w)'
  BY <1>2, <1>8 DEF MakesSense
<1> QED
  BY <1>9, CustomersSubmitPreserves

LEMMA CustomersCreatePreserves ==
    ASSUME CustomersIInv, NEW c \in CrmClerks, CreateCustomer(c)
    PROVE  CustomersIInv'
<1>1. PICK q \in CreateCustomerRequest :
          /\ ~ExistsByDocument(q.document)
          /\ Submit(c, [Writes(q.id, NewCustomer(q), {}) EXCEPT
                          !.document = q.document, !.read = Seen(q.id, {}, q.document),
                          !.account = TRUE])
  BY DEF CreateCustomer
<1>2. CustomersTypes
  BY DEF CustomersIInv
<1>3. /\ q.id \in People /\ q.document \in Documents
      /\ NewCustomer(q) \in CustomerRow /\ NewCustomer(q).document = q.document
      /\ NewCustomer(q).defaultAddressId = NoAddress /\ NewCustomer(q).lifetimeValue = 0
  <2>1. 0 \in 0..MaxLifetime
    BY CustomersAssumption
  <2>2. q \in [id : People, phone : Phones, document : Documents]
    BY <1>2, CustomersCircleFacts
  <2> QED
    BY <2>1, <2>2 DEF NewCustomer, CustomerRow
<1>4. PICK s : s = Seen(q.id, {}, q.document)
  OBVIOUS
<1>5. /\ s \in SeenSet /\ ~s.documentTaken
      /\ s.row # NoCustomer => q.id \in DOMAIN customers
  BY <1>1, <1>2, <1>4, CustomersSeenFacts
<1>6. PICK r : r = Writes(q.id, NewCustomer(q), {})
  OBVIOUS
<1>7. PICK w : w = [r EXCEPT !.document = q.document, !.read = s, !.account = TRUE]
  OBVIOUS
<1>8. w = [at |-> "select", person |-> q.id, document |-> q.document, read |-> s,
           row |-> NewCustomer(q), names |-> {}, put |-> {}, drop |-> {}, account |-> TRUE,
           total |-> 0]
  BY <1>6, <1>7 DEF Writes
<1>9. w \in CustomerRequest
  BY <1>3, <1>5, <1>8 DEF CustomerRequest, SeenSet
<1>10. /\ w.row = NewCustomer(q) /\ w.document = q.document /\ w.person = q.id
       /\ w.put = {} /\ w.drop = {} /\ w.total = 0 /\ w.account /\ w.names = {}
       /\ w.read = s
  BY <1>8
<1>11. UNCHANGED <<customers, stale>>
  BY <1>1 DEF Submit
<1>12. MakesSense(w)'
  BY <1>3, <1>5, <1>10, <1>11, FS_EmptySet DEF MakesSense, Creates
<1> QED
  BY <1>1, <1>4, <1>6, <1>7, <1>9, <1>12, CustomersSubmitPreserves

LEMMA CustomersUpdatePreserves ==
    ASSUME CustomersIInv, NEW c \in CrmClerks, UpdateCustomer(c)
    PROVE  CustomersIInv'
<1>1. PICK p \in DOMAIN customers, q \in UpdateCustomerRequest :
          Submit(c, Writes(p, EditedCustomer(customers[p], q), {}))
  BY DEF UpdateCustomer
<1>2. CustomersTypes /\ customers[p] \in CustomerRow
  BY DEF CustomersIInv, CustomersTypes
<1>3. PICK row : row = EditedCustomer(customers[p], q)
  OBVIOUS
<1>4. /\ row \in CustomerRow /\ row # NoCustomer /\ row.document = customers[p].document
      /\ row.defaultAddressId = customers[p].defaultAddressId
      /\ row.lifetimeValue = customers[p].lifetimeValue + 0
  <2>1. q \in [phone : Phones]
    BY <1>2, CustomersCircleFacts
  <2>2. customers[p].lifetimeValue \in 0..MaxLifetime
    BY <1>2, CustomersRowFacts
  <2> QED
    BY <1>2, <1>3, <2>1, <2>2, CustomersRowFacts, CustomersAssumption
<1>5. PICK w : w = Writes(p, row, {})
  OBVIOUS
<1>6. /\ w \in CustomerRequest
      /\ w.person = p /\ w.row = row /\ w.names = {} /\ w.put = {} /\ w.drop = {}
      /\ ~w.account /\ w.total = 0
      /\ w.read.row = customers[p] /\ ReadAddresses(w) = AddressesOf(p)
  BY <1>2, <1>4, <1>5, CustomersWritesFacts
<1>7. /\ (AddressesOf(p) \cup w.put) \ w.drop = AddressesOf(p) /\ IsFiniteSet(w.put)
      /\ w.put \cup w.drop \subseteq w.names
  BY <1>6, FS_EmptySet
<1>8. Submit(c, w)
  BY <1>1, <1>3, <1>5
<1> QED
  BY <1>4, <1>6, <1>7, <1>8, CustomersAboutPreserves

LEMMA CustomersClosedPreserves ==
    ASSUME CustomersIInv, NEW c \in CrmClerks, UpdateLifetimeValueOnOrderClosed(c)
    PROVE  CustomersIInv'
<1>1. PICK p \in DOMAIN customers, t \in circle.totals :
          /\ spent[p] + t <= MaxLifetime
          /\ Submit(c, [Writes(p, AddToLifetimeValue(customers[p], t), {}) EXCEPT !.total = t])
  BY DEF UpdateLifetimeValueOnOrderClosed
<1>2. /\ CustomersTypes /\ customers[p] \in CustomerRow /\ p \in People
      /\ customers[p].lifetimeValue <= spent[p]
  BY DEF CustomersIInv, CustomersTypes, LifetimeIsSpent
<1>3. t \in Totals /\ t \in Nat /\ spent[p] \in 0..MaxLifetime
  BY <1>2, CustomersCircleFacts DEF CustomersTypes
<1>4. customers[p].lifetimeValue + t <= MaxLifetime
  BY <1>1, <1>2, <1>3, CustomersRowFacts, CustomersAssumption
<1>5. PICK row : row = AddToLifetimeValue(customers[p], t)
  OBVIOUS
<1>6. /\ row \in CustomerRow /\ row # NoCustomer /\ row.document = customers[p].document
      /\ row.defaultAddressId = customers[p].defaultAddressId
      /\ row.lifetimeValue = customers[p].lifetimeValue + t
  BY <1>2, <1>3, <1>4, <1>5, CustomersRowFacts
<1>7. PICK r : r = Writes(p, row, {})
  OBVIOUS
<1>8. /\ r \in CustomerRequest
      /\ r.person = p /\ r.row = row /\ r.names = {} /\ r.put = {} /\ r.drop = {} /\ ~r.account
      /\ r.read.row = customers[p] /\ ReadAddresses(r) = AddressesOf(p)
  BY <1>2, <1>6, <1>7, CustomersWritesFacts
<1>9. PICK w : w = [r EXCEPT !.total = t]
  OBVIOUS
<1>10. /\ w \in CustomerRequest
       /\ w.person = p /\ w.row = row /\ w.names = {} /\ w.put = {} /\ w.drop = {}
       /\ ~w.account /\ w.total = t /\ w.read = r.read
  BY <1>3, <1>8, <1>9 DEF CustomerRequest
<1>11. /\ (AddressesOf(p) \cup w.put) \ w.drop = AddressesOf(p) /\ IsFiniteSet(w.put)
       /\ w.put \cup w.drop \subseteq w.names
  BY <1>10, FS_EmptySet
<1>12. ReadAddresses(w) = AddressesOf(p) /\ w.read.row = customers[p]
  BY <1>8, <1>10 DEF ReadAddresses
<1>13. PICK after : after = IF w.row = NoCustomer THEN customers[p] ELSE w.row
  OBVIOUS
<1>14. /\ after.document = customers[p].document
       /\ after.lifetimeValue = customers[p].lifetimeValue + w.total
       /\ after.defaultAddressId = customers[p].defaultAddressId
  BY <1>6, <1>10, <1>13
<1>15. Submit(c, w)
  BY <1>1, <1>5, <1>7, <1>9
<1> QED
  BY <1>10, <1>11, <1>15, <1>12, <1>13, <1>14, CustomersAboutPreserves

\* Addresses of a customer are counted.
LEMMA CustomersAddressFacts ==
    ASSUME CustomersTypes, NEW p
    PROVE  /\ AddressesOf(p) \in SUBSET AddressIds
           /\ CountByCustomer(p) = 0 <=> AddressesOf(p) = {}
           /\ \A a \in AddressesOf(p) : CountByCustomer(p) <= 1 => AddressesOf(p) = {a}
           /\ \A a \in AddressesOf(p) : CountByCustomer(p) <= 1 => CountByCustomer(p) = 1
<1>1. IsFiniteSet(AddressesOf(p)) /\ AddressesOf(p) \in SUBSET AddressIds
  <2>1. AddressesOf(p) \subseteq DOMAIN addresses /\ IsFiniteSet(DOMAIN addresses)
    BY DEF CustomersTypes, AddressesOf
  <2>2. DOMAIN addresses \in SUBSET AddressIds
    BY CustomersAddressTable DEF CustomersTypes
  <2> QED
    BY <2>1, <2>2, FS_Subset
<1>2. CountByCustomer(p) \in Nat
  BY <1>1, FS_CardinalityType DEF CountByCustomer
<1>3. CountByCustomer(p) = 0 <=> AddressesOf(p) = {}
  BY <1>1, FS_EmptySet DEF CountByCustomer
<1>4. \A a \in AddressesOf(p) : CountByCustomer(p) <= 1 => CountByCustomer(p) = 1
  BY <1>2, <1>3
<1>5. CountByCustomer(p) = 1 => \E x : AddressesOf(p) = {x}
  BY <1>1, FS_Singleton DEF CountByCustomer
<1> QED
  BY <1>1, <1>3, <1>4, <1>5

\* An address there is, and whose it is.
LEMMA CustomersOwnerFacts ==
    ASSUME CustomersIInv, NEW a \in DOMAIN addresses
    PROVE  /\ a \in AddressIds
           /\ addresses[a] \in DOMAIN customers
           /\ a \in AddressesOf(addresses[a])
<1>1. a \in AddressIds
  BY CustomersAddressTable DEF CustomersIInv, CustomersTypes
<1> QED
  BY <1>1 DEF CustomersIInv, OwnersAreCustomers, AddressesOf

LEMMA CustomersAddAddressPreserves ==
    ASSUME CustomersIInv, NEW c \in CrmClerks, AddAddress(c)
    PROVE  CustomersIInv'
<1>1. PICK p \in DOMAIN customers, q \in AddAddressRequest :
          Submit(c, [Writes(p, IF CountByCustomer(p) = 0 THEN SetDefault(customers[p], q.id)
                               ELSE NoCustomer, {q.id}) EXCEPT !.put = NewAddress(q)])
  BY DEF AddAddress
<1>2. CustomersTypes /\ customers[p] \in CustomerRow /\ q.id \in AddressIds
  BY CustomersCircleFacts DEF CustomersIInv, CustomersTypes
<1>3. PICK row : row = IF CountByCustomer(p) = 0 THEN SetDefault(customers[p], q.id)
                       ELSE NoCustomer
  OBVIOUS
<1>4. row \in CustomerRow \cup {NoCustomer}
  BY <1>2, <1>3, CustomersRowFacts
<1>5. PICK after : after = IF row = NoCustomer THEN customers[p] ELSE row
  OBVIOUS
<1>6. /\ after.document = customers[p].document
      /\ after.lifetimeValue = customers[p].lifetimeValue + 0
      /\ IF AddressesOf(p) = {} THEN after.defaultAddressId = q.id
         ELSE after.defaultAddressId = customers[p].defaultAddressId
  <2>1. CASE AddressesOf(p) = {}
    <3>1. row = SetDefault(customers[p], q.id)
      BY <1>2, <1>3, <2>1, CustomersAddressFacts
    <3>2. row # NoCustomer
      BY <1>2, <3>1, CustomersRowFacts
    <3> QED
      BY <1>2, <1>5, <2>1, <3>1, <3>2, CustomersRowFacts
  <2>2. CASE AddressesOf(p) # {}
    <3>1. row = NoCustomer
      BY <1>2, <1>3, <2>2, CustomersAddressFacts
    <3> QED
      BY <1>2, <1>5, <2>2, <3>1, CustomersRowFacts
  <2> QED
    BY <2>1, <2>2
<1>7. Proper(customers[p].defaultAddressId, AddressesOf(p)) =>
          Proper(after.defaultAddressId, (AddressesOf(p) \cup {q.id}) \ {})
  BY <1>6 DEF Proper
<1>8. PICK r : r = Writes(p, row, {q.id})
  OBVIOUS
<1>9. /\ r \in CustomerRequest
      /\ r.person = p /\ r.row = row /\ r.names = {q.id} /\ r.drop = {} /\ r.total = 0
      /\ ~r.account /\ r.read.row = customers[p] /\ ReadAddresses(r) = AddressesOf(p)
  BY <1>2, <1>4, <1>8, CustomersWritesFacts
<1>10. PICK w : w = [r EXCEPT !.put = {q.id}]
  OBVIOUS
<1>11. /\ w \in CustomerRequest
       /\ w.person = p /\ w.row = row /\ w.names = {q.id} /\ w.put = {q.id} /\ w.drop = {}
       /\ ~w.account /\ w.total = 0 /\ w.read = r.read
  BY <1>2, <1>9, <1>10 DEF CustomerRequest
<1>12. Submit(c, w)
  BY <1>1, <1>3, <1>8, <1>10 DEF NewAddress
<1>13. /\ IsFiniteSet(w.put) /\ w.put \cup w.drop \subseteq w.names
       /\ ReadAddresses(w) = AddressesOf(p)
  <2>1. IsFiniteSet(w.put) /\ w.put \cup w.drop \subseteq w.names
    BY <1>11, FS_Singleton
  <2>2. ReadAddresses(w) = AddressesOf(p)
    BY <1>9, <1>11 DEF ReadAddresses
  <2> QED
    BY <2>1, <2>2
<1>14. /\ w.read.row = customers[p]
       /\ after = IF w.row = NoCustomer THEN customers[p] ELSE w.row
       /\ after.lifetimeValue = customers[p].lifetimeValue + w.total
  BY <1>5, <1>6, <1>9, <1>11
<1>15. Proper(customers[p].defaultAddressId, AddressesOf(p)) =>
           Proper(after.defaultAddressId, (AddressesOf(p) \cup w.put) \ w.drop)
  BY <1>7, <1>11
<1> QED
  BY <1>6, <1>11, <1>12, <1>13, <1>14, <1>15, CustomersAboutPreserves

LEMMA CustomersUpdateAddressPreserves ==
    ASSUME CustomersIInv, NEW c \in CrmClerks, UpdateAddress(c)
    PROVE  CustomersIInv'
<1>1. PICK a \in DOMAIN addresses :
          Submit(c, [Writes(addresses[a], NoCustomer, {a}) EXCEPT !.put = {a}])
  BY DEF UpdateAddress, EditedAddress
<1>2. PICK p \in DOMAIN customers : p = addresses[a]
  BY CustomersOwnerFacts
<1>3. CustomersTypes /\ customers[p] \in CustomerRow /\ a \in AddressIds /\ a \in AddressesOf(p)
  BY <1>2, CustomersOwnerFacts DEF CustomersIInv, CustomersTypes
<1>4. PICK r : r = Writes(p, NoCustomer, {a})
  OBVIOUS
<1>5. /\ r \in CustomerRequest
      /\ r.person = p /\ r.row = NoCustomer /\ r.names = {a} /\ r.drop = {} /\ r.total = 0
      /\ ~r.account /\ r.read.row = customers[p] /\ ReadAddresses(r) = AddressesOf(p)
  BY <1>3, <1>4, CustomersWritesFacts
<1>6. PICK w : w = [r EXCEPT !.put = {a}]
  OBVIOUS
<1>7. /\ w \in CustomerRequest
      /\ w.person = p /\ w.row = NoCustomer /\ w.names = {a} /\ w.put = {a} /\ w.drop = {}
      /\ ~w.account /\ w.total = 0 /\ w.read = r.read
  BY <1>3, <1>5, <1>6 DEF CustomerRequest
<1>8. Submit(c, w)
  BY <1>1, <1>2, <1>4, <1>6
<1>9. /\ IsFiniteSet(w.put) /\ w.put \cup w.drop \subseteq w.names
      /\ ReadAddresses(w) = AddressesOf(p)
  BY <1>5, <1>7, FS_Singleton DEF ReadAddresses
<1>10. (AddressesOf(p) \cup w.put) \ w.drop = AddressesOf(p)
  BY <1>3, <1>7
<1>11. customers[p].lifetimeValue = customers[p].lifetimeValue + w.total
  <2>1. customers[p].lifetimeValue \in 0..MaxLifetime
    BY <1>3, CustomersRowFacts
  <2> QED
    BY <1>7, <2>1, CustomersAssumption
<1> QED
  BY <1>5, <1>7, <1>8, <1>9, <1>10, <1>11, CustomersAboutPreserves

LEMMA CustomersSetDefaultPreserves ==
    ASSUME CustomersIInv, NEW c \in CrmClerks, SetDefaultAddress(c)
    PROVE  CustomersIInv'
<1>1. PICK p \in DOMAIN customers, a \in DOMAIN addresses :
          Submit(c, Writes(p, SetDefault(customers[p], a), {a}))
  BY DEF SetDefaultAddress
<1>2. CustomersTypes /\ customers[p] \in CustomerRow /\ a \in AddressIds
  BY CustomersOwnerFacts DEF CustomersIInv, CustomersTypes
<1>3. PICK row : row = SetDefault(customers[p], a)
  OBVIOUS
<1>4. /\ row \in CustomerRow /\ row # NoCustomer /\ row.document = customers[p].document
      /\ row.defaultAddressId = a
      /\ row.lifetimeValue = customers[p].lifetimeValue + 0
  <2>1. customers[p].lifetimeValue \in 0..MaxLifetime
    BY <1>2, CustomersRowFacts
  <2> QED
    BY <1>2, <1>3, <2>1, CustomersRowFacts, CustomersAssumption
<1>5. PICK w : w = Writes(p, row, {a})
  OBVIOUS
<1>6. /\ w \in CustomerRequest
      /\ w.person = p /\ w.row = row /\ w.names = {a} /\ w.put = {} /\ w.drop = {}
      /\ ~w.account /\ w.total = 0
      /\ w.read.row = customers[p] /\ ReadAddresses(w) = AddressesOf(p)
  BY <1>2, <1>4, <1>5, CustomersWritesFacts
<1>7. ~NamesAnothers(w) => Proper(row.defaultAddressId, (AddressesOf(p) \cup w.put) \ w.drop)
  <2> SUFFICES ASSUME ~NamesAnothers(w)
               PROVE  Proper(row.defaultAddressId, (AddressesOf(p) \cup w.put) \ w.drop)
    OBVIOUS
  <2>1. a \in AddressesOf(p)
    BY <1>6 DEF NamesAnothers, AddressesOf
  <2> QED
    BY <1>4, <1>6, <2>1 DEF Proper
<1>8. IsFiniteSet(w.put) /\ w.put \cup w.drop \subseteq w.names
  BY <1>6, FS_EmptySet
<1>9. Submit(c, w)
  BY <1>1, <1>3, <1>5
<1> QED
  BY <1>4, <1>6, <1>7, <1>8, <1>9, CustomersAboutPreserves

LEMMA CustomersRemoveAddressPreserves ==
    ASSUME CustomersIInv, NEW c \in CrmClerks, RemoveAddress(c)
    PROVE  CustomersIInv'
<1>1. PICK p \in DOMAIN customers, a \in DOMAIN addresses :
          /\ customers[p].defaultAddressId = a => CountByCustomer(p) <= 1
          /\ Submit(c, [Writes(p, IF customers[p].defaultAddressId = a /\ CountByCustomer(p) = 1
                                  THEN SetDefault(customers[p], NoAddress)
                                  ELSE NoCustomer, {a}) EXCEPT !.drop = {a}])
  BY DEF RemoveAddress
<1>2. CustomersTypes /\ customers[p] \in CustomerRow /\ a \in AddressIds
  BY CustomersOwnerFacts DEF CustomersIInv, CustomersTypes
<1>3. PICK row : row = IF customers[p].defaultAddressId = a /\ CountByCustomer(p) = 1
                       THEN SetDefault(customers[p], NoAddress) ELSE NoCustomer
  OBVIOUS
<1>4. row \in CustomerRow \cup {NoCustomer}
  BY <1>2, <1>3, CustomersRowFacts
<1>5. PICK after : after = IF row = NoCustomer THEN customers[p] ELSE row
  OBVIOUS
<1>6. /\ after.document = customers[p].document
      /\ after.lifetimeValue = customers[p].lifetimeValue
      /\ after.lifetimeValue = customers[p].lifetimeValue + 0
      /\ after.defaultAddressId \in {customers[p].defaultAddressId, NoAddress}
  <2>1. after = customers[p] \/ after = SetDefault(customers[p], NoAddress)
    BY <1>3, <1>5
  <2>2. customers[p].lifetimeValue \in 0..MaxLifetime
    BY <1>2, CustomersRowFacts
  <2> QED
    BY <1>2, <2>1, <2>2, CustomersRowFacts, CustomersAssumption
<1>7. a \in AddressesOf(p) /\ Proper(customers[p].defaultAddressId, AddressesOf(p)) =>
          Proper(after.defaultAddressId, (AddressesOf(p) \cup {}) \ {a})
  <2> SUFFICES ASSUME a \in AddressesOf(p), Proper(customers[p].defaultAddressId, AddressesOf(p))
               PROVE  Proper(after.defaultAddressId, (AddressesOf(p) \cup {}) \ {a})
    OBVIOUS
  <2>1. CASE customers[p].defaultAddressId = a
    <3>1. AddressesOf(p) = {a} /\ CountByCustomer(p) = 1
      BY <1>1, <1>2, <2>1, CustomersAddressFacts
    <3>2. row = SetDefault(customers[p], NoAddress) /\ row # NoCustomer /\ after = row
      BY <1>2, <1>3, <1>5, <2>1, <3>1, CustomersRowFacts
    <3>3. after.defaultAddressId = NoAddress
      BY <1>2, <3>2, CustomersRowFacts
    <3> QED
      BY <3>1, <3>3 DEF Proper
  <2>2. CASE customers[p].defaultAddressId # a
    <3>1. after = customers[p]
      BY <1>3, <1>5, <2>2
    <3> QED
      BY <2>2, <3>1 DEF Proper
  <2> QED
    BY <2>1, <2>2
<1>8. PICK r : r = Writes(p, row, {a})
  OBVIOUS
<1>9. /\ r \in CustomerRequest
      /\ r.person = p /\ r.row = row /\ r.names = {a} /\ r.put = {} /\ r.total = 0
      /\ ~r.account /\ r.read.row = customers[p] /\ ReadAddresses(r) = AddressesOf(p)
  BY <1>2, <1>4, <1>8, CustomersWritesFacts
<1>10. PICK w : w = [r EXCEPT !.drop = {a}]
  OBVIOUS
<1>11. /\ w \in CustomerRequest
       /\ w.person = p /\ w.row = row /\ w.names = {a} /\ w.put = {} /\ w.drop = {a}
       /\ ~w.account /\ w.total = 0 /\ w.read = r.read
  BY <1>2, <1>9, <1>10 DEF CustomerRequest
<1>12. Submit(c, w)
  BY <1>1, <1>3, <1>8, <1>10
<1>13. /\ IsFiniteSet(w.put) /\ w.put \cup w.drop \subseteq w.names
       /\ ReadAddresses(w) = AddressesOf(p)
       /\ w.read.row = customers[p]
       /\ after.lifetimeValue = customers[p].lifetimeValue + w.total
       /\ after = IF w.row = NoCustomer THEN customers[p] ELSE w.row
  BY <1>5, <1>6, <1>9, <1>11, FS_EmptySet DEF ReadAddresses
<1>14. ~NamesAnothers(w) => a \in AddressesOf(p)
  BY <1>11 DEF NamesAnothers, AddressesOf
<1>15. ~NamesAnothers(w) /\ Proper(customers[p].defaultAddressId, AddressesOf(p)) =>
           Proper(after.defaultAddressId, (AddressesOf(p) \cup w.put) \ w.drop)
  BY <1>7, <1>11, <1>14
<1> QED
  BY <1>6, <1>11, <1>12, <1>13, <1>15, CustomersAboutPreserves
-----------------------------------------------------------------------------
(* The two halves of save() *)

LEMMA CustomersSelectPreserves ==
    ASSUME CustomersIInv, NEW c \in CrmClerks, SelectCustomer(c)
    PROVE  CustomersIInv'
<1>1. PICK r : r = counter[c]
  OBVIOUS
<1>2. PICK s : s = Seen(r.person, r.names, r.document)
  OBVIOUS
<1>3. PICK w : w = [r EXCEPT !.at = "write", !.read = s]
  OBVIOUS
<1>4. /\ r.at = "select"
      /\ counter' = [counter EXCEPT ![c].at = "write", ![c].read = s]
      /\ stale' = (stale \/ s # r.read)
      /\ misdirected' = (misdirected \/ NamesAnothers(r))
      /\ UNCHANGED <<circle, customers, addresses, accounts, spent>>
  BY <1>1, <1>2 DEF SelectCustomer, SeenNow
<1>5. CustomersTypes /\ RequestsMakeSense
  BY DEF CustomersIInv
<1>6. r \in CustomerRequest /\ MakesSense(r)
  <2>1. r # AtCounter
    BY <1>4 DEF AtCounter
  <2> QED
    BY <1>1, <1>5, <2>1 DEF CustomersTypes, RequestsMakeSense
<1>7. counter' = [counter EXCEPT ![c] = w]
  BY <1>1, <1>3, <1>4, <1>5 DEF CustomersTypes
<1>8. s \in SeenSet /\ (s.row # NoCustomer => r.person \in DOMAIN customers)
  BY <1>2, <1>5, CustomersSeenFacts
<1>9. /\ w \in CustomerRequest /\ w.read = s
      /\ w.person = r.person /\ w.document = r.document /\ w.row = r.row /\ w.names = r.names
      /\ w.put = r.put /\ w.drop = r.drop /\ w.account = r.account /\ w.total = r.total
  BY <1>3, <1>6, <1>8 DEF CustomerRequest, SeenSet
<1>10. CustomersTypes'
  BY <1>4, <1>5, <1>7, <1>9 DEF CustomersTypes, NamesAnothers
<1>11. /\ stale => stale'
       /\ misdirected => misdirected'
       /\ \A p \in People : spent[p] <= spent'[p]
       /\ DOMAIN customers \subseteq DOMAIN customers'
  <2>1. (stale => stale') /\ (misdirected => misdirected')
    BY <1>4
  <2>2. \A p \in People : spent[p] <= spent'[p]
    BY <1>4, <1>5, CustomersAssumption DEF CustomersTypes
  <2> QED
    BY <1>4, <2>1, <2>2
<1>12. MakesSense(r)'
  BY <1>5, <1>6, <1>10, <1>11, CustomersSenseStays
<1>13. ~stale' => s = r.read
  BY <1>4
<1>14. Creates(r)' => Creates(w)'
  BY <1>9, <1>13 DEF Creates
<1>15. Alters(r)' => Alters(w)'
  <2>1. ~stale' => Meant(w) = Meant(r) /\ ReadAddresses(w) = ReadAddresses(r)
    BY <1>9, <1>13 DEF Meant, ReadAddresses
  <2> QED
    BY <1>9, <1>13, <2>1 DEF Alters
<1>16. MakesSense(w)'
  <2>1. /\ IsFiniteSet(r.put) /\ r.put \cup r.drop \subseteq r.names
        /\ r.account => Creates(r)'
        /\ ~r.account => Alters(r)'
    BY <1>12 DEF MakesSense
  <2>2. IsFiniteSet(w.put) /\ w.put \cup w.drop \subseteq w.names
    BY <1>9, <2>1
  <2>3. w.read.row # NoCustomer => w.person \in DOMAIN customers'
    BY <1>4, <1>8, <1>9
  <2>4. w.account => Creates(w)'
    BY <1>9, <1>14, <2>1
  <2>5. ~w.account => Alters(w)'
    BY <1>9, <1>15, <2>1
  <2> QED
    BY <2>2, <2>3, <2>4, <2>5 DEF MakesSense
<1>17. RequestsMakeSense'
  BY <1>7, <1>10, <1>11, <1>16, CustomersOthersMakeSense
<1>18. (OwnersAreCustomers /\ LifetimeIsSpent /\ CustomersAreConsistent)'
  BY <1>4, <1>11, CustomersRowsStay
<1> QED
  BY <1>10, <1>17, <1>18 DEF CustomersIInv

\* The row that a commit leaves.
LEMMA CustomersSavedFacts ==
    ASSUME CustomersIInv, NEW r \in CustomerRequest, MakesSense(r), r.row # NoCustomer,
           r.account => r.person \notin DOMAIN customers,
           NEW left, left = SavedCustomer(r)
    PROVE  /\ left \in CustomerRow
           /\ r.account => left = r.row
           /\ ~r.account => \/ left.lifetimeValue = r.row.lifetimeValue
                            \/ left.lifetimeValue = customers[r.person].lifetimeValue
           /\ ~r.account /\ r.read.row = customers[r.person] => left = r.row
<1>1. r.row \in CustomerRow
  BY DEF CustomerRequest
<1>2. CASE r.account
  BY <1>1, <1>2 DEF SavedCustomer, MakesSense
<1>3. CASE ~r.account
  <2>1. r.person \in DOMAIN customers /\ customers[r.person] \in CustomerRow
    BY <1>3 DEF MakesSense, Alters, CustomersIInv, CustomersTypes
  <2>2. PICK row \in CustomerRow : row = customers[r.person]
    BY <2>1
  <2>3. CASE r.read.row = NoCustomer
    BY <1>1, <1>3, <2>2, <2>3, CustomersRowFacts DEF SavedCustomer
  <2>4. CASE r.read.row # NoCustomer
    <3>1. left = ColumnsWritten(r.row, r.read.row, row)
      BY <2>2, <2>4 DEF SavedCustomer
    <3> QED
      BY <1>1, <1>3, <2>2, <3>1, CustomersColumns
  <2> QED
    BY <2>3, <2>4
<1> QED
  BY <1>2, <1>3

\* What a committed request leaves of a customer, in the words of CommitCustomer.
LEMMA CustomersCommitFacts ==
    ASSUME CustomersIInv, NEW c \in CrmClerks, CommitCustomer(c), NEW r, r = counter[c]
    PROVE  /\ r \in CustomerRequest /\ MakesSense(r)
           /\ r.person \in People
           /\ r.account => r.person \notin DOMAIN customers /\ r.row # NoCustomer
           /\ ~r.account => r.person \in DOMAIN customers
           /\ DOMAIN customers' = DOMAIN customers \cup {r.person}
           /\ \A p \in DOMAIN customers : p # r.person => customers'[p] = customers[p]
           /\ r.row # NoCustomer => customers'[r.person] = SavedCustomer(r)
           /\ r.row = NoCustomer => customers' = customers
           /\ customers' \in [DOMAIN customers' -> CustomerRow]
           /\ accounts' = DOMAIN customers'
           /\ spent' = [spent EXCEPT ![r.person] = @ + r.total]
           /\ r.total \in Nat /\ spent[r.person] + r.total \in 0..MaxLifetime
           /\ r.row # NoCustomer =>
                 \A q \in DOMAIN customers \ {r.person} :
                    customers[q].phone # SavedCustomer(r).phone
<1>1. r # AtCounter /\ r \in CustomerRequest /\ CustomersTypes
  <2>1. r.at = "write"
    BY DEF CommitCustomer
  <2>2. r # AtCounter
    BY <2>1 DEF AtCounter
  <2> QED
    BY <2>2 DEF CustomersIInv, CustomersTypes
<1>2. MakesSense(r)
  BY <1>1 DEF CustomersIInv, RequestsMakeSense
<1>3. /\ r.person \in People /\ r.row \in CustomerRow \cup {NoCustomer}
      /\ r.total \in Nat /\ r.account \in BOOLEAN
  <2>1. /\ r.person \in People /\ r.row \in CustomerRow \cup {NoCustomer}
        /\ r.total \in Totals \cup {0} /\ r.account \in BOOLEAN
    BY <1>1 DEF CustomerRequest
  <2>2. \A t \in Totals : t \in Nat
    BY CustomersAssumption
  <2>3. r.total \in Nat
    BY <2>1, <2>2
  <2> QED
    BY <2>1, <2>3
<1>4. /\ spent[r.person] + r.total <= MaxLifetime
      /\ customers' = IF r.row # NoCustomer
                      THEN WrittenOver(OneRow(r.person, SavedCustomer(r)), customers)
                      ELSE customers
      /\ accounts' = IF r.account THEN accounts \cup {r.person} ELSE accounts
      /\ r.account => r.person \notin accounts
      /\ spent' = [spent EXCEPT ![r.person] = @ + r.total]
      /\ r.row # NoCustomer =>
            \A q \in DOMAIN customers \ {r.person} : customers[q].phone # SavedCustomer(r).phone
  BY DEF CommitCustomer, MayOpenLoyaltyAccount, LoyaltyAccountOf
<1>5. accounts = DOMAIN customers
  BY DEF CustomersIInv, CustomersAreConsistent, CustomersHaveLoyaltyAccounts
<1>6. /\ r.account => r.person \notin DOMAIN customers /\ r.row # NoCustomer
      /\ ~r.account => r.person \in DOMAIN customers
  <2>1. r.account => r.row # NoCustomer
    BY <1>2, CustomersRowFacts DEF MakesSense, Creates
  <2>2. ~r.account => r.person \in DOMAIN customers
    BY <1>2 DEF MakesSense, Alters
  <2> QED
    BY <1>4, <1>5, <2>1, <2>2
<1>7. spent[r.person] + r.total \in 0..MaxLifetime
  BY <1>1, <1>3, <1>4, CustomersAssumption DEF CustomersTypes
<1>8. CASE r.row # NoCustomer
  <2>0. PICK left \in CustomerRow : left = SavedCustomer(r)
    BY <1>1, <1>2, <1>6, <1>8, CustomersSavedFacts
  <2>1. customers' = [i \in {r.person} \cup DOMAIN customers |->
                         IF i \in {r.person} THEN left ELSE customers[i]]
    BY <1>4, <1>8, <2>0 DEF WrittenOver, OneRow
  <2>2. customers' \in [DOMAIN customers' -> CustomerRow]
    BY <1>1, <2>1 DEF CustomersTypes
  <2>3. accounts' = DOMAIN customers'
    BY <1>4, <1>5, <1>6, <2>1
  <2>4. /\ DOMAIN customers' = DOMAIN customers \cup {r.person}
        /\ \A p \in DOMAIN customers : p # r.person => customers'[p] = customers[p]
        /\ customers'[r.person] = SavedCustomer(r)
    BY <2>0, <2>1
  <2> QED
    BY <1>1, <1>2, <1>3, <1>4, <1>6, <1>8, <1>7, <2>2, <2>3, <2>4
<1>9. CASE r.row = NoCustomer
  <2>1. ~r.account /\ customers' = customers /\ accounts' = accounts
    BY <1>4, <1>6, <1>9
  <2> QED
    BY <1>1, <1>2, <1>3, <1>4, <1>5, <1>6, <1>9, <1>7, <2>1 DEF CustomersTypes
<1> QED
  BY <1>8, <1>9

\* The addresses that a commit leaves, and whose they are.
LEMMA CustomersSavedAddresses ==
    ASSUME CustomersIInv, NEW r \in CustomerRequest, MakesSense(r),
           NEW f, f = SavedAddresses(r), NEW p, p = r.person
    PROVE  /\ f \in AddressTable /\ IsFiniteSet(DOMAIN f)
           /\ \A a \in DOMAIN f : \/ f[a] = p /\ ~r.account
                                  \/ a \in DOMAIN addresses /\ f[a] = addresses[a]
           /\ r.read = SeenNow(r) /\ ~NamesAnothers(r) =>
                 /\ {a \in DOMAIN f : f[a] = p} = (AddressesOf(p) \cup r.put) \ r.drop
                 /\ \A q : q # p => {a \in DOMAIN f : f[a] = q} = AddressesOf(q)
<1>1. /\ CustomersTypes /\ r.put \in SUBSET AddressIds /\ p \in People
      /\ IsFiniteSet(r.put) /\ r.put \cup r.drop \subseteq r.names
  BY DEF CustomersIInv, CustomerRequest, MakesSense
<1>2. /\ DOMAIN addresses \in SUBSET AddressIds /\ addresses \in [DOMAIN addresses -> People]
      /\ IsFiniteSet(DOMAIN addresses)
  BY <1>1, CustomersAddressTable DEF CustomersTypes
<1>3. PICK ins, mov : ins = Inserted(r) /\ mov = Moved(r)
  OBVIOUS
<1>4. ins \subseteq r.put /\ mov \subseteq r.put
  BY <1>3 DEF Inserted, Moved
<1>5. /\ DOMAIN f = (DOMAIN addresses \cup ins) \ r.drop
      /\ \A a \in DOMAIN f : f[a] = IF a \in ins \cup mov THEN p ELSE addresses[a]
      /\ f = [a \in DOMAIN f |-> f[a]]
  BY <1>3 DEF SavedAddresses
<1>6. \A a \in DOMAIN f : f[a] = p \/ (a \in DOMAIN addresses /\ f[a] = addresses[a])
  BY <1>5
<1>7. f \in AddressTable
  <2>1. DOMAIN f \in SUBSET AddressIds
    BY <1>1, <1>2, <1>4, <1>5
  <2>2. \A a \in DOMAIN f : f[a] \in People
    BY <1>1, <1>2, <1>6
  <2>3. f \in [DOMAIN f -> People]
    BY <1>5, <2>2
  <2> QED
    BY <2>1, <2>3, CustomersAddressTable
<1>8. IsFiniteSet(DOMAIN f)
  <2>1. IsFiniteSet(DOMAIN addresses \cup r.put)
    BY <1>1, <1>2, FS_Union
  <2>2. DOMAIN f \subseteq DOMAIN addresses \cup r.put
    BY <1>4, <1>5
  <2> QED
    BY <2>1, <2>2, FS_Subset
<1>9. \A a \in DOMAIN f : \/ f[a] = p /\ ~r.account
                          \/ a \in DOMAIN addresses /\ f[a] = addresses[a]
  <2>1. r.account => r.put = {}
    BY DEF MakesSense, Creates
  <2> QED
    BY <1>4, <1>5, <2>1
<1>10. ASSUME r.read = SeenNow(r), ~NamesAnothers(r)
       PROVE  /\ {a \in DOMAIN f : f[a] = p} = (AddressesOf(p) \cup r.put) \ r.drop
              /\ \A q : q # p => {a \in DOMAIN f : f[a] = q} = AddressesOf(q)
  <2>1. PICK s : s = Seen(p, r.names, r.document)
    OBVIOUS
  <2>2. /\ DOMAIN s.addresses = AddressesOf(p) \cup (r.names \cap DOMAIN addresses)
        /\ \A a \in DOMAIN s.addresses : a \in DOMAIN addresses /\ s.addresses[a] = addresses[a]
    BY <1>1, <2>1, CustomersSeenFacts
  <2>3. r.read = s
    BY <1>10, <2>1 DEF SeenNow
  <2>4. \A a \in r.names \cap DOMAIN addresses : addresses[a] = p
    BY <1>10 DEF NamesAnothers
  <2>5. mov = {}
    BY <1>1, <1>3, <2>2, <2>3, <2>4 DEF Moved
  <2>6. ins = r.put \ DOMAIN addresses
    <3>1. \A a \in r.put : a \in DOMAIN s.addresses <=> a \in DOMAIN addresses
      BY <1>1, <2>2
    <3> QED
      BY <1>3, <2>3, <3>1 DEF Inserted
  <2>7. \A a \in DOMAIN f : f[a] = IF a \in ins THEN p ELSE addresses[a]
    BY <1>5, <2>5
  <2>8. {a \in DOMAIN f : f[a] = p} = (AddressesOf(p) \cup r.put) \ r.drop
    BY <1>1, <1>5, <2>4, <2>6, <2>7 DEF AddressesOf
  <2>9. \A q : q # p => {a \in DOMAIN f : f[a] = q} = AddressesOf(q)
    BY <1>1, <1>5, <2>4, <2>6, <2>7 DEF AddressesOf
  <2> QED
    BY <2>8, <2>9
<1> QED
  BY <1>7, <1>8, <1>9, <1>10

LEMMA CustomersCommitPreserves ==
    ASSUME CustomersIInv, NEW c \in CrmClerks, CommitCustomer(c)
    PROVE  CustomersIInv'
<1>1. PICK r : r = counter[c]
  OBVIOUS
<1>2. PICK p \in People : p = r.person
  BY <1>1, CustomersCommitFacts
<1>3. /\ r \in CustomerRequest /\ MakesSense(r)
      /\ r.account => p \notin DOMAIN customers /\ r.row # NoCustomer
      /\ ~r.account => p \in DOMAIN customers
      /\ DOMAIN customers' = DOMAIN customers \cup {p}
      /\ \A q \in DOMAIN customers : q # p => customers'[q] = customers[q]
      /\ r.row # NoCustomer => customers'[p] = SavedCustomer(r)
      /\ r.row = NoCustomer => customers' = customers
      /\ customers' \in [DOMAIN customers' -> CustomerRow]
  BY <1>1, <1>2, CustomersCommitFacts
<1>4. /\ accounts' = DOMAIN customers'
      /\ spent' = [spent EXCEPT ![p] = @ + r.total]
      /\ r.total \in Nat /\ spent[p] + r.total \in 0..MaxLifetime
      /\ r.row # NoCustomer =>
            \A q \in DOMAIN customers \ {p} : customers[q].phone # SavedCustomer(r).phone
  BY <1>1, <1>2, CustomersCommitFacts
<1>5. /\ addresses' = SavedAddresses(r)
       /\ stale' = (stale \/ SeenNow(r) # r.read)
       /\ misdirected' = (misdirected \/ NamesAnothers(r))
       /\ counter' = [counter EXCEPT ![c] = AtCounter]
       /\ circle' = circle
  BY <1>1 DEF CommitCustomer
<1>6. /\ CustomersTypes /\ OwnersAreCustomers /\ LifetimeIsSpent
      /\ CustomersAreDistinct /\ CustomersKeepTheirDefaultAddress
      /\ LifetimeValueCountsClosedOrders
  BY DEF CustomersIInv, CustomersAreConsistent
<1>7. /\ r.account => Creates(r)
      /\ ~r.account => Alters(r)
  BY <1>3 DEF MakesSense
<1>8. /\ spent \in [People -> 0..MaxLifetime] /\ spent' \in [People -> 0..MaxLifetime]
      /\ spent'[p] = spent[p] + r.total
      /\ \A q \in People : q # p => spent'[q] = spent[q]
      /\ \A q \in People : spent[q] <= spent'[q]
  BY <1>4, <1>6, CustomersAssumption DEF CustomersTypes
\* What was read of the customer is what is there, unless the request was late.
<1>9. /\ ~stale' => ~stale
      /\ ~stale' /\ p \in DOMAIN customers => r.read.row = customers[p]
      /\ ~stale' => r.read.documentTaken = ExistsByDocument(r.document)
      /\ ~stale' /\ p \in DOMAIN customers => ReadAddresses(r) = AddressesOf(p)
  <2>1. PICK s : s = Seen(p, r.names, r.document)
    OBVIOUS
  <2>2. /\ p \in DOMAIN customers => s.row = customers[p]
        /\ s.documentTaken = ExistsByDocument(r.document)
        /\ {a \in DOMAIN s.addresses : s.addresses[a] = p} = AddressesOf(p)
    BY <1>6, <2>1, CustomersSeenFacts
  <2>3. ~stale' => ~stale /\ r.read = s
    BY <1>2, <1>5, <2>1 DEF SeenNow
  <2> QED
    BY <1>2, <2>2, <2>3 DEF ReadAddresses
<1>10. PICK row : row = customers'[p]
  OBVIOUS
<1>11. row \in CustomerRow /\ row.lifetimeValue \in Nat
  BY <1>3, <1>10, CustomersRowFacts, CustomersAssumption
\* The row that is left is the one that was meant, unless the request was late.
<1>12. /\ r.account => row = r.row
       /\ ~stale' => row = Meant(r)
       /\ ~r.account => \/ row.lifetimeValue = customers[p].lifetimeValue
                        \/ /\ r.row # NoCustomer
                           /\ row.lifetimeValue = r.row.lifetimeValue
  <2>1. CASE r.row = NoCustomer
    BY <1>3, <1>9, <1>10, <2>1 DEF Meant
  <2>2. CASE r.row # NoCustomer
    <3>1. row = SavedCustomer(r)
      BY <1>3, <1>10, <2>2
    <3> QED
      BY <1>2, <1>3, <1>6, <1>9, <2>2, <3>1, CustomersSavedFacts DEF Meant
  <2> QED
    BY <2>1, <2>2
<1>13. PICK f : f = SavedAddresses(r)
  OBVIOUS
<1>14. /\ f \in AddressTable /\ IsFiniteSet(DOMAIN f)
       /\ \A a \in DOMAIN f : \/ f[a] = p /\ ~r.account
                              \/ a \in DOMAIN addresses /\ f[a] = addresses[a]
       /\ r.read = SeenNow(r) /\ ~NamesAnothers(r) =>
             /\ {a \in DOMAIN f : f[a] = p} = (AddressesOf(p) \cup r.put) \ r.drop
             /\ \A q : q # p => {a \in DOMAIN f : f[a] = q} = AddressesOf(q)
  BY <1>2, <1>3, <1>13, CustomersSavedAddresses
<1>15. CustomersTypes'
  <2>3. counter' \in [CrmClerks -> CustomerRequest \cup {AtCounter}]
    BY <1>6, <1>5 DEF CustomersTypes
  <2>4. DOMAIN customers' \in SUBSET People
    BY <1>3, <1>6 DEF CustomersTypes
  <2>5. stale' \in BOOLEAN /\ misdirected' \in BOOLEAN
    BY <1>6, <1>5 DEF CustomersTypes, NamesAnothers
  <2>6. circle' \in Circles
    BY <1>6, <1>5 DEF CustomersTypes
  <2>7. addresses' \in AddressTable /\ IsFiniteSet(DOMAIN addresses')
    BY <1>5, <1>13, <1>14
  <2> QED
    BY <1>3, <1>8, <2>3, <2>4, <2>5, <2>6, <2>7 DEF CustomersTypes
<1>16. OwnersAreCustomers'
  BY <1>3, <1>6, <1>5, <1>13, <1>14 DEF OwnersAreCustomers
<1>17. row.lifetimeValue <= spent'[p]
  <2>0. spent[p] \in Nat
    BY <1>8, CustomersAssumption
  <2>1. CASE r.account
    BY <1>4, <1>7, <1>8, <1>12, <2>0, <2>1 DEF Creates
  <2>2. CASE ~r.account /\ row.lifetimeValue = customers[p].lifetimeValue
    <3>1. row.lifetimeValue <= spent[p]
      BY <1>3, <1>6, <2>2 DEF LifetimeIsSpent
    <3> QED
      BY <1>4, <1>8, <1>11, <2>0, <3>1
  <2>3. CASE ~r.account /\ r.row # NoCustomer /\ row.lifetimeValue = r.row.lifetimeValue
    BY <1>2, <1>7, <1>8, <2>3 DEF Alters
  <2> QED
    BY <1>12, <2>1, <2>2, <2>3
<1>18. LifetimeIsSpent'
  <2>1. ASSUME NEW q \in DOMAIN customers'
        PROVE  customers'[q].lifetimeValue <= spent'[q]
    <3>1. CASE q = p
      BY <3>1, <1>10, <1>17
    <3>2. CASE q # p
      BY <3>2, <1>3, <1>6, <1>8 DEF LifetimeIsSpent, CustomersTypes
    <3> QED
      BY <3>1, <3>2
  <2>2. \A q \in People \ DOMAIN customers' : spent'[q] = 0
    BY <1>3, <1>6, <1>8 DEF LifetimeIsSpent
  <2> QED
    BY <2>1, <2>2 DEF LifetimeIsSpent
<1>19. RequestsMakeSense'
  <2>1. misdirected => misdirected'
    BY <1>5
  <2>2. stale => stale'
    BY <1>5
  <2>3. DOMAIN customers \subseteq DOMAIN customers'
    BY <1>3
  <2> QED
    BY <1>8, <1>15, <1>5, <2>1, <2>2, <2>3, CustomersOthersMakeSense
<1>20. CustomersAreDistinct'
  <2>1. \A q \in DOMAIN customers : q # p => customers[q].phone # row.phone
    <3>1. CASE r.row # NoCustomer
      BY <1>3, <1>4, <1>10, <3>1
    <3>2. CASE r.row = NoCustomer
      BY <1>3, <1>6, <1>10, <3>2 DEF CustomersAreDistinct
    <3> QED
      BY <3>1, <3>2
  <2>2. ~stale' => \A q \in DOMAIN customers : q # p => customers[q].document # row.document
    <3> SUFFICES ASSUME ~stale', NEW q \in DOMAIN customers, q # p
                 PROVE  customers[q].document # row.document
      OBVIOUS
    <3>1. CASE r.account
      <4>1. row.document = r.document /\ ~r.read.documentTaken
        BY <1>7, <1>9, <1>12, <3>1 DEF Creates
      <4> QED
        BY <1>9, <4>1 DEF ExistsByDocument
    <3>2. CASE ~r.account
      <4>1. row.document = customers[p].document
        BY <1>3, <1>7, <1>9, <1>12, <3>2 DEF Alters
      <4> QED
        BY <1>3, <1>6, <1>9, <3>2, <4>1 DEF CustomersAreDistinct
    <3> QED
      BY <3>1, <3>2
  <2> QED
    BY <1>3, <1>6, <1>9, <1>10, <2>1, <2>2 DEF CustomersAreDistinct
<1>21. CustomersKeepTheirDefaultAddress'
  <2> SUFFICES ASSUME ~stale', ~misdirected', NEW q \in DOMAIN customers'
               PROVE  Proper(customers'[q].defaultAddressId, AddressesOf(q)')
    BY DEF CustomersKeepTheirDefaultAddress, Proper
  <2>0. /\ r.read = SeenNow(r) /\ ~NamesAnothers(r) /\ ~stale /\ ~misdirected
        /\ \A x : AddressesOf(x)' = {a \in DOMAIN f : f[a] = x}
    BY <1>5, <1>13 DEF AddressesOf
  <2>1. AddressesOf(p)' = (AddressesOf(p) \cup r.put) \ r.drop
    BY <1>14, <2>0
  <2>2. CASE q # p
    <3>1. AddressesOf(q)' = AddressesOf(q)
      BY <1>14, <2>0, <2>2
    <3> QED
      BY <1>3, <1>6, <2>0, <2>2, <3>1 DEF CustomersKeepTheirDefaultAddress, Proper
  <2>3. CASE q = p /\ r.account
    <3>1. AddressesOf(p) = {}
      BY <1>3, <1>6, <2>3 DEF AddressesOf, OwnersAreCustomers
    <3>2. r.put = {} /\ row.defaultAddressId = NoAddress
      BY <1>7, <1>12, <2>3 DEF Creates
    <3> QED
      BY <1>10, <2>1, <2>3, <3>1, <3>2 DEF Proper
  <2>4. CASE q = p /\ ~r.account
    <3>1. Proper(customers[p].defaultAddressId, AddressesOf(p))
      BY <1>3, <1>6, <2>0, <2>4 DEF CustomersKeepTheirDefaultAddress, Proper
    <3>2. r.read.row = customers[p] /\ ReadAddresses(r) = AddressesOf(p) /\ row = Meant(r)
      BY <1>3, <1>9, <1>12, <2>4
    <3>4. Proper(row.defaultAddressId, (AddressesOf(p) \cup r.put) \ r.drop)
      BY <1>7, <2>0, <2>4, <3>1, <3>2 DEF Alters
    <3> QED
      BY <1>10, <2>1, <2>4, <3>4
  <2> QED
    BY <2>2, <2>3, <2>4
<1>22. LifetimeValueCountsClosedOrders'
  <2> SUFFICES ASSUME ~stale', NEW q \in DOMAIN customers'
               PROVE  customers'[q].lifetimeValue = spent'[q]
    BY DEF LifetimeValueCountsClosedOrders
  <2>1. CASE q # p
    BY <1>3, <1>6, <1>8, <1>9, <2>1 DEF LifetimeValueCountsClosedOrders, CustomersTypes
  <2>2. CASE q = p /\ r.account
    <3>1. spent[p] = 0
      BY <1>3, <1>6, <2>2 DEF LifetimeIsSpent
    <3>2. row.lifetimeValue = 0 /\ r.total = 0
      BY <1>7, <1>12, <2>2 DEF Creates
    <3> QED
      BY <1>8, <1>10, <2>2, <3>1, <3>2
  <2>3. CASE q = p /\ ~r.account
    <3>1. customers[p].lifetimeValue = spent[p]
      BY <1>3, <1>6, <1>9, <2>3 DEF LifetimeValueCountsClosedOrders
    <3>2. r.read.row = customers[p] /\ row = Meant(r)
      BY <1>3, <1>9, <1>12, <2>3
    <3>4. row.lifetimeValue = spent[p] + r.total
      BY <1>7, <1>9, <2>3, <3>1, <3>2 DEF Alters
    <3> QED
      BY <1>8, <1>10, <2>3, <3>4
  <2> QED
    BY <2>1, <2>2, <2>3
<1>23. CustomersHaveLoyaltyAccounts'
  BY <1>4 DEF CustomersHaveLoyaltyAccounts
<1> QED
  BY <1>15, <1>16, <1>18, <1>19, <1>20, <1>21, <1>22, <1>23
     DEF CustomersIInv, CustomersAreConsistent

LEMMA CustomersAbandonPreserves ==
    ASSUME CustomersIInv, NEW c \in CrmClerks, AbandonCustomer(c)
    PROVE  CustomersIInv'
<1>1. /\ counter' = [counter EXCEPT ![c] = AtCounter]
      /\ UNCHANGED <<circle, customers, addresses, accounts, spent, stale, misdirected>>
  BY DEF AbandonCustomer
<1>2. CustomersTypes'
  BY <1>1 DEF CustomersIInv, CustomersTypes
<1>3. \A p \in People : spent[p] <= spent'[p]
  BY <1>1, CustomersAssumption DEF CustomersIInv, CustomersTypes
<1>4. RequestsMakeSense'
  BY <1>1, <1>2, <1>3, CustomersOthersMakeSense
<1>5. (OwnersAreCustomers /\ LifetimeIsSpent /\ CustomersAreConsistent)'
  BY <1>1, CustomersRowsStay
<1> QED
  BY <1>2, <1>4, <1>5 DEF CustomersIInv

-----------------------------------------------------------------------------
(* The theorems *)

LEMMA CustomersInitIInv == CustomersInit => CustomersIInv
<1> SUFFICES ASSUME CustomersInit
             PROVE  CustomersIInv
  OBVIOUS
<1>1. DOMAIN customers = {} /\ customers \in [{} -> CustomerRow]
  BY DEF CustomersInit
<1>2. DOMAIN addresses = {} /\ addresses \in [{} -> People]
  BY DEF CustomersInit
<1>3. 0 \in 0..MaxLifetime
  BY CustomersAssumption
<1>4. addresses \in AddressTable /\ IsFiniteSet(DOMAIN addresses)
  BY <1>2, FS_EmptySet, CustomersAddressTable
<1>5. CustomersTypes
  BY <1>1, <1>3, <1>4 DEF CustomersInit, CustomersTypes
<1> QED
  BY <1>1, <1>2, <1>5 DEF CustomersInit, CustomersIInv, OwnersAreCustomers, LifetimeIsSpent,
     RequestsMakeSense, CustomersAreConsistent, CustomersHaveLoyaltyAccounts,
     CustomersAreDistinct, CustomersKeepTheirDefaultAddress, LifetimeValueCountsClosedOrders

LEMMA CustomersNextIInv == CustomersIInv /\ [CustomersNext]_customerVars => CustomersIInv'
<1> SUFFICES ASSUME CustomersIInv, [CustomersNext]_customerVars
             PROVE  CustomersIInv'
  OBVIOUS
<1>1. ASSUME NEW c \in CrmClerks, CustomerCommand(c)
      PROVE  CustomersIInv'
  BY <1>1, CustomersCreatePreserves, CustomersUpdatePreserves DEF CustomerCommand
<1>2. ASSUME NEW c \in CrmClerks, AddressCommand(c)
      PROVE  CustomersIInv'
  BY <1>2, CustomersAddAddressPreserves, CustomersUpdateAddressPreserves,
     CustomersRemoveAddressPreserves, CustomersSetDefaultPreserves DEF AddressCommand
<1>3. ASSUME NEW c \in CrmClerks, UpdateLifetimeValueOnOrderClosed(c)
      PROVE  CustomersIInv'
  BY <1>3, CustomersClosedPreserves
<1>4. ASSUME NEW c \in CrmClerks, CommitCustomer(c)
      PROVE  CustomersIInv'
  BY <1>4, CustomersCommitPreserves
<1>5. ASSUME NEW c \in CrmClerks, AbandonCustomer(c)
      PROVE  CustomersIInv'
  BY <1>5, CustomersAbandonPreserves
<1>6. ASSUME NEW c \in CrmClerks, SelectCustomer(c)
      PROVE  CustomersIInv'
  BY <1>6, CustomersSelectPreserves
<1>7. CASE UNCHANGED customerVars
  <2>1. CustomersTypes'
    BY <1>7 DEF customerVars, CustomersIInv, CustomersTypes
  <2>2. RequestsMakeSense'
    BY <1>7 DEF customerVars, CustomersIInv, RequestsMakeSense, MakesSense, Creates, Alters
  <2>3. UNCHANGED <<customers, addresses, accounts, spent>> /\ (stale => stale')
        /\ (misdirected => misdirected')
    BY <1>7 DEF customerVars
  <2>4. (OwnersAreCustomers /\ LifetimeIsSpent /\ CustomersAreConsistent)'
    BY <2>3, CustomersRowsStay
  <2> QED
    BY <2>1, <2>2, <2>4 DEF CustomersIInv
<1>8. \A c \in circle.clerks : c \in CrmClerks
  BY CustomersCircleFacts DEF CustomersIInv
<1> QED
  BY <1>1, <1>2, <1>3, <1>4, <1>5, <1>6, <1>7, <1>8 DEF CustomersNext

LEMMA CustomersIInvImplies ==
    ASSUME CustomersIInv
    PROVE  CustomersTypeOK /\ CustomersAreConsistent
  BY DEF CustomersIInv, CustomersTypes, CustomersTypeOK, CustomersAreConsistent,
     CustomersHaveLoyaltyAccounts

THEOREM CustomersInvariance == CustomersSpec => []CustomersIInv
  BY CustomersInitIInv, CustomersNextIInv, PTL DEF CustomersSpec

\* The rows, the requests and the history of the customers keep their types.
THEOREM CustomersTypeCorrect == CustomersSpec => []CustomersTypeOK
<1>1. CustomersIInv => CustomersTypeOK
  BY CustomersIInvImplies
<1> QED
  BY <1>1, CustomersInvariance, PTL

\* Whatever requests overlap, are repeated or fail: loyalty accounts are those of the
\* customers and phone numbers are unique; while no request wrote over what it had not
\* read, so are documents, the lifetime value is what the closed orders add up to, and,
\* while none named an address of another customer than the URL's, the default address
\* is one of the customer's.
THEOREM CustomersStayConsistent == CustomersSpec => []CustomersAreConsistent
<1>1. CustomersIInv => CustomersAreConsistent
  BY CustomersIInvImplies
<1> QED
  BY <1>1, CustomersInvariance, PTL

-------------------------------------------------------------------------------
(* The books of an ingredient: module Inventory. *)

(* Rows *)

\* Rows of inventory_batches and of inventory_movements.
LotRow == [initial : Nat, remaining : Nat, cost : Nat]
Entry == [type : {"PURCHASE", "SALE", "ADJUSTMENT"}, lot : Nat, quantity : Nat, totalCost : Nat]

\* The types of the books.  A movement but an adjustment is of a batch there is.
InventoryTypes ==
    /\ lots \in Seq(LotRow)
    /\ onHand \in Nat
    /\ ledger \in Seq(Entry)
    /\ \A m \in DOMAIN ledger :
          /\ ledger[m].type = "ADJUSTMENT" => ledger[m].lot = 0
          /\ ledger[m].type # "ADJUSTMENT" => ledger[m].lot \in DOMAIN lots
    /\ alerts \in Seq({"OutOfStock", "LowStockDetected"})

\* The inductive invariant: all of StockBooksAddUp that speaks of what was written.
StockIInv ==
    /\ InventoryTypes
    /\ LevelIsExplained
    /\ LotsAreExplained
    /\ OldestFirst
    /\ ValueIsKept
    /\ EmptyingIsAnnounced

\* The nearest thousandth is half a thousandth away at most.
LEMMA LotScaleBounds ==
    ASSUME NEW q \in Nat
    PROVE  /\ LotScale(q, 1) \in Nat
           /\ q - 5 <= LotScale(q, 1) /\ LotScale(q, 1) <= q + 5
           /\ q = 0 => LotScale(q, 1) = 0
<1>1. LotScale(q, 1) = 10 * ((2 * q + 10) \div 20)
  BY DEF LotScale, Nearest
<1> QED
  BY <1>1

\* The lesser of two numbers.
LEMMA LesserFacts ==
    ASSUME NEW a \in Nat, NEW b \in Nat
    PROVE  /\ Lesser(a, b) \in Nat /\ Lesser(a, b) <= a /\ Lesser(a, b) <= b
           /\ a <= b => Lesser(a, b) = a
           /\ b <= a => Lesser(a, b) = b
  BY DEF Lesser

\* Of r more, what is still wanted of q after o is taken.
LEMMA LesserTakes ==
    ASSUME NEW q \in Nat, NEW o \in Nat, NEW r \in Nat, q > o
    PROVE  q - Lesser(q, o + r) = (q - o) - Lesser(r, q - o)
  BY DEF Lesser

\* An interval and one more.
LEMMA IntervalGrows ==
    ASSUME NEW p \in Nat
    PROVE  /\ 1..(p + 1) = (1..p) \cup {p + 1} /\ p + 1 \notin 1..p
           /\ IsFiniteSet(1..p)
  BY FS_Interval

\* Where two sequences are in what they make together.
LEMMA SequencesJoin ==
    ASSUME NEW X, NEW s \in Seq(X), NEW t \in Seq(X), NEW u, u = s \o t
    PROVE  /\ u \in Seq(X) /\ Len(s) \in Nat /\ Len(t) \in Nat
           /\ DOMAIN s = 1..Len(s) /\ DOMAIN t = 1..Len(t)
           /\ DOMAIN u = 1..(Len(s) + Len(t)) /\ Len(u) = Len(s) + Len(t)
           /\ \A i \in 1..Len(s) : u[i] = s[i]
           /\ \A i \in 1..Len(t) : u[Len(s) + i] = t[i]
  OBVIOUS

\* What one movement says is a whole number.
LEMMA ChangeIsWhole ==
    ASSUME NEW x \in Entry
    PROVE  /\ Applied(x) \in Int
           /\ x.type = "PURCHASE" => Applied(x) = x.quantity
           /\ x.type = "SALE" => Applied(x) = -x.quantity
           /\ x.type = "ADJUSTMENT" => Applied(x) = 0
  BY DEF Entry, Change, Applied

\* What the movements say, and the sum of any of them, are whole numbers.
LEMMA ChangesAreWhole ==
    ASSUME InventoryTypes
    PROVE  /\ DOMAIN ledger = 1..Len(ledger) /\ Len(ledger) \in Nat
           /\ IsFiniteSet(DOMAIN ledger)
           /\ \A m \in DOMAIN ledger : ledger[m] \in Entry /\ Changes[m] \in Int
                                       /\ Changes[m] = Applied(ledger[m])
           /\ \A M \in SUBSET DOMAIN ledger : /\ IsFiniteSet(M)
                                              /\ SumFunctionOnSet(Changes, M) \in Int
<1>1. DOMAIN ledger = 1..Len(ledger) /\ Len(ledger) \in Nat
  BY DEF InventoryTypes
<1>2. IsFiniteSet(DOMAIN ledger)
  BY <1>1, FS_Interval
<1>3. \A m \in DOMAIN ledger : ledger[m] \in Entry /\ Changes[m] \in Int
                               /\ Changes[m] = Applied(ledger[m])
  BY ChangeIsWhole DEF InventoryTypes, Changes
<1>4. ASSUME NEW M \in SUBSET DOMAIN ledger
      PROVE  IsFiniteSet(M) /\ SumFunctionOnSet(Changes, M) \in Int
  <2>1. IsFiniteSet(M)
    BY <1>2, FS_Subset
  <2> QED
    BY <1>3, <2>1, SumType
<1> QED
  BY <1>1, <1>2, <1>3, <1>4

\* What is written behind the movements leaves them where they are.
LEMMA LedgerJoins ==
    ASSUME InventoryTypes, NEW s \in Seq(Entry), ledger' = ledger \o s,
           NEW n, n = Len(ledger), NEW k, k = Len(s)
    PROVE  /\ n \in Nat /\ k \in Nat /\ ledger' \in Seq(Entry) /\ DOMAIN s = 1..k
           /\ DOMAIN ledger = 1..n /\ DOMAIN ledger' = 1..(n + k) /\ Len(ledger') = n + k
           /\ \A m \in 1..n : ledger'[m] = ledger[m]
           /\ \A i \in 1..k : ledger'[n + i] = s[i]
<1>1. ledger \in Seq(Entry)
  BY DEF InventoryTypes
<1> QED
  BY <1>1, SequencesJoin

\* What is written behind the movements changes nothing that they said.
LEMMA LedgerGrows ==
    ASSUME InventoryTypes, NEW s \in Seq(Entry), ledger' = ledger \o s,
           NEW n, n = Len(ledger), NEW k, k = Len(s)
    PROVE  /\ n \in Nat /\ k \in Nat /\ ledger' \in Seq(Entry)
           /\ DOMAIN ledger = 1..n /\ DOMAIN ledger' = 1..(n + k) /\ Len(ledger') = n + k
           /\ \A m \in 1..n : ledger'[m] = ledger[m]
           /\ \A i \in 1..k : ledger'[n + i] = s[i]
           /\ \A M \in SUBSET (1..n) :
                  SumFunctionOnSet(Changes', M) = SumFunctionOnSet(Changes, M)
           /\ \A m \in 1..(n + k) : Changes'[m] \in Int
           /\ \A m \in 0..n : LevelAfter(m)' = LevelAfter(m)
<1>1. n \in Nat /\ k \in Nat
  BY DEF InventoryTypes
<1>2. /\ ledger' \in Seq(Entry) /\ DOMAIN ledger = 1..n
      /\ DOMAIN ledger' = 1..(n + k) /\ Len(ledger') = n + k
      /\ \A m \in 1..n : ledger'[m] = ledger[m]
      /\ \A i \in 1..k : ledger'[n + i] = s[i]
  BY LedgerJoins
<1>3. \A m \in 1..(n + k) : ledger'[m] \in Entry
  BY <1>2
<1>4. \A m \in 1..(n + k) : Changes'[m] = Applied(ledger'[m]) /\ Changes'[m] \in Int
  BY <1>2, <1>3, ChangeIsWhole DEF Changes, Applied, Change
<1>5. /\ \A i \in 1..k : Changes'[n + i] = Applied(s[i])
      /\ \A m \in 1..n : Changes'[m] = Changes[m]
  BY <1>2, <1>4 DEF Changes
<1>6. ASSUME NEW M \in SUBSET (1..n)
      PROVE  SumFunctionOnSet(Changes', M) = SumFunctionOnSet(Changes, M)
  <2>1. IsFiniteSet(M)
    <3>1. IsFiniteSet(1..n)
      BY <1>1, FS_Interval
    <3> QED
      BY <3>1, FS_Subset
  <2>2. \A m \in M : Changes[m] \in Int /\ Changes'[m] = Changes[m]
    BY <1>4, <1>5
  <2> QED
    BY <2>1, <2>2, SumsEqual
<1>7. \A m \in 0..n : LevelAfter(m)' = LevelAfter(m)
  BY <1>6 DEF LevelAfter
<1> QED
  BY <1>1, <1>2, <1>4, <1>6, <1>7

\* What a new movement changes.
LEMMA NewChange ==
    ASSUME InventoryTypes, NEW s \in Seq(Entry), ledger' = ledger \o s, NEW i \in DOMAIN s
    PROVE  /\ s[i].quantity \in Nat
           /\ s[i].type = "PURCHASE" => Changes'[Len(ledger) + i] = s[i].quantity
           /\ s[i].type = "SALE" => Changes'[Len(ledger) + i] = -s[i].quantity
           /\ s[i].type = "ADJUSTMENT" => Changes'[Len(ledger) + i] = 0
<1>1. PICK n, k, m : n = Len(ledger) /\ k = Len(s) /\ m = n + i
  OBVIOUS
<1>2. /\ n \in Nat /\ k \in Nat /\ DOMAIN ledger' = 1..(n + k)
      /\ \A j \in 1..k : ledger'[n + j] = s[j]
  BY <1>1, LedgerJoins
<1>3. i \in 1..k /\ s[i] \in Entry
  BY <1>1
<1>4. PICK x : x = s[i] /\ x \in Entry
  BY <1>3
<1>5. m \in DOMAIN ledger' /\ ledger'[m] = x
  BY <1>1, <1>2, <1>3, <1>4
<1>6. Changes'[m] = Applied(x)
  BY <1>5 DEF Changes
<1>7. x.quantity \in Nat
  BY <1>4 DEF Entry
<1> QED
  BY <1>1, <1>4, <1>6, <1>7, ChangeIsWhole

\* The level after a movement is the one before it and its change.
LEMMA LevelStep ==
    ASSUME InventoryTypes, NEW s \in Seq(Entry), ledger' = ledger \o s, NEW m \in DOMAIN ledger'
    PROVE  LevelAfter(m)' = LevelAfter(m - 1)' + Changes'[m] /\ LevelAfter(m - 1)' \in Int
<1>1. PICK n, k : n = Len(ledger) /\ k = Len(s)
  OBVIOUS
<1>2. n \in Nat /\ k \in Nat /\ DOMAIN ledger' = 1..(n + k)
  BY <1>1, LedgerJoins
<1>3. PICK p, f : p = m - 1 /\ f = Changes'
  OBVIOUS
<1>4. \A h \in 1..(n + k) : f[h] \in Int
  BY <1>1, <1>3, LedgerGrows
<1>5. p \in Nat /\ p + 1 = m /\ p + 1 <= n + k
  BY <1>2, <1>3
<1>6. 1..(p + 1) = (1..p) \cup {p + 1} /\ p + 1 \notin 1..p /\ IsFiniteSet(1..p)
  BY <1>5, IntervalGrows
<1>7. \A h \in (1..p) \cup {p + 1} : f[h] \in Int
  <2>1. (1..p) \cup {p + 1} \subseteq 1..(n + k)
    BY <1>2, <1>5
  <2> QED
    BY <1>4, <2>1
<1>8. SumFunctionOnSet(f, 1..p) \in Int
  BY <1>6, <1>7, SumType
<1>9. SumFunctionOnSet(f, 1..(p + 1)) = SumFunctionOnSet(f, 1..p) + f[p + 1]
  <2>1. PICK S, a : S = 1..p /\ a = p + 1
    OBVIOUS
  <2>2. IsFiniteSet(S) /\ a \notin S /\ \A h \in S \cup {a} : f[h] \in Int
    BY <1>6, <1>7, <2>1
  <2>3. SumFunctionOnSet(f, S \cup {a}) = SumFunctionOnSet(f, S) + f[a]
    BY <2>2, SumGrows
  <2> QED
    BY <1>6, <2>1, <2>3
<1>10. LevelAfter(m)' = SumFunctionOnSet(f, 1..m) /\ LevelAfter(m - 1)' = SumFunctionOnSet(f, 1..p)
  BY <1>3 DEF LevelAfter
<1> QED
  BY <1>3, <1>5, <1>8, <1>9, <1>10

-----------------------------------------------------------------------------
(* First in, first out *)

\* Batches are numbered from 1, and those with something left are finitely many.
LEMMA LotFacts ==
    ASSUME InventoryTypes
    PROVE  /\ DOMAIN lots = 1..Len(lots) /\ Len(lots) \in Nat
           /\ \A l \in DOMAIN lots :
                 /\ lots[l] \in LotRow
                 /\ lots[l].remaining \in Nat /\ lots[l].cost \in Nat
                 /\ Remaining[l] = lots[l].remaining
           /\ FindAvailable \subseteq DOMAIN lots /\ IsFiniteSet(FindAvailable)
           /\ \A l \in DOMAIN lots : l \in FindAvailable <=> lots[l].remaining # 0
<1>1. /\ DOMAIN lots = 1..Len(lots) /\ Len(lots) \in Nat
      /\ \A l \in DOMAIN lots : lots[l] \in LotRow
  BY DEF InventoryTypes
<1>2. \A l \in DOMAIN lots : lots[l].remaining \in Nat /\ lots[l].cost \in Nat
  BY <1>1 DEF LotRow
<1>3. IsFiniteSet(FindAvailable)
  <2>1. IsFiniteSet(1..Len(lots))
    BY <1>1, FS_Interval
  <2> QED
    BY <1>1, <2>1, FS_Subset DEF FindAvailable
<1> QED
  BY <1>1, <1>2, <1>3 DEF Remaining, FindAvailable

\* The batches of A older than l.
Below(A, l) == {k \in A : k < l}

\* One batch further there is that batch more, if it is of A.
LEMMA BelowGrows ==
    ASSUME NEW A, A \subseteq Nat, IsFiniteSet(A), NEW l \in Nat
    PROVE  /\ IsFiniteSet(Below(A, l)) /\ Below(A, l) \subseteq A /\ l \notin Below(A, l)
           /\ l \in A => Below(A, l + 1) = Below(A, l) \cup {l}
           /\ l \notin A => Below(A, l + 1) = Below(A, l)
           /\ Below(A, 0) = {}
<1> USE DEF Below
<1>1. \A k \in A : k \in Nat
  OBVIOUS
<1>2. /\ \A k \in A : k < l + 1 <=> k < l \/ k = l
      /\ \A k \in A : ~(k < 0)
  BY <1>1
<1>3. IsFiniteSet(Below(A, l)) /\ Below(A, l) \subseteq A /\ l \notin Below(A, l)
  BY FS_Subset
<1>4. l \in A => Below(A, l + 1) = Below(A, l) \cup {l}
  BY <1>2
<1>5. l \notin A => Below(A, l + 1) = Below(A, l)
  BY <1>2
<1>6. Below(A, 0) = {}
  BY <1>2
<1> QED
  BY <1>3, <1>4, <1>5, <1>6

\* What is left in the batches older than l.
Older(l) == SumFunctionOnSet(Remaining, Below(FindAvailable, l))

\* One batch further there is more by what is left of that batch.
LEMMA OlderGrows ==
    ASSUME InventoryTypes, NEW l \in Nat
    PROVE  /\ Older(l) \in Nat
           /\ l \in FindAvailable => Older(l + 1) = Older(l) + lots[l].remaining
           /\ l \notin FindAvailable => Older(l + 1) = Older(l)
           /\ l > Len(lots) => Older(l) = SumFunctionOnSet(Remaining, FindAvailable)
           /\ l = 0 => Older(l) = 0
<1>1. PICK A, f : A = FindAvailable /\ f = Remaining
  OBVIOUS
<1>2. /\ A \subseteq 1..Len(lots) /\ Len(lots) \in Nat /\ IsFiniteSet(A)
      /\ \A k \in A : f[k] = lots[k].remaining /\ lots[k].remaining \in Nat
  BY <1>1, LotFacts
<1>3. A \subseteq Nat /\ \A k \in A : f[k] \in Nat /\ f[k] \in Int
  <2>1. PICK n \in Nat : A \subseteq 1..n
    BY <1>2
  <2>2. A \subseteq Nat
    BY <2>1
  <2>3. \A k \in A : f[k] \in Nat
    BY <1>2
  <2>4. \A v \in Nat : v \in Int
    OBVIOUS
  <2> QED
    BY <2>2, <2>3, <2>4
<1>4. PICK S : S = Below(A, l)
  OBVIOUS
<1>5. /\ IsFiniteSet(S) /\ S \subseteq A /\ l \notin S
      /\ l \in A => Below(A, l + 1) = S \cup {l}
      /\ l \notin A => Below(A, l + 1) = S
      /\ l = 0 => S = {}
  BY <1>2, <1>3, <1>4, BelowGrows
<1>6. /\ Older(l) = SumFunctionOnSet(f, S)
      /\ Older(l + 1) = SumFunctionOnSet(f, Below(A, l + 1))
  BY <1>1, <1>4 DEF Older
<1>7. SumFunctionOnSet(f, S) \in Nat
  <2>1. \A k \in S : f[k] \in Nat
    BY <1>3, <1>5
  <2> QED
    BY <1>5, <2>1, SumIsNatural
<1>8. ASSUME l \in A PROVE Older(l + 1) = Older(l) + lots[l].remaining
  <2>1. \A k \in S \cup {l} : f[k] \in Int
    BY <1>3, <1>5, <1>8
  <2>2. SumFunctionOnSet(f, S \cup {l}) = SumFunctionOnSet(f, S) + f[l]
    BY <1>5, <2>1, SumGrows
  <2> QED
    BY <1>2, <1>5, <1>6, <1>8, <2>2
<1>9. ASSUME l > Len(lots) PROVE S = A
  <2>1. \A k \in A : k < l
    BY <1>2, <1>9
  <2> QED
    BY <1>4, <2>1 DEF Below
<1>10. ASSUME l = 0 PROVE Older(l) = 0
  BY <1>5, <1>6, <1>10, SumOfNothing
<1> QED
  BY <1>1, <1>5, <1>6, <1>7, <1>8, <1>9, <1>10

\* There is no less in the batches older than a younger one.
LEMMA OlderAscends ==
    ASSUME InventoryTypes, NEW k \in Nat, NEW l \in Nat, k <= l
    PROVE  Older(k) <= Older(l)
<1>1. PICK A, f : A = FindAvailable /\ f = Remaining
  OBVIOUS
<1>2. A \subseteq 1..Len(lots) /\ Len(lots) \in Nat /\ IsFiniteSet(A) /\ \A x \in A : f[x] \in Nat
  BY <1>1, LotFacts
<1>3. PICK R, S : R = Below(A, k) /\ S = Below(A, l)
  OBVIOUS
<1>4. \A x \in A : x < k => x < l
  <2>1. \A x \in A : x \in Nat
    BY <1>2
  <2> QED
    BY <2>1
<1>5. R \in SUBSET S /\ S \in SUBSET A
  BY <1>3, <1>4 DEF Below
<1>6. IsFiniteSet(S)
  BY <1>2, <1>5, FS_Subset
<1>7. SumFunctionOnSet(f, R) <= SumFunctionOnSet(f, S)
  <2>1. \A x \in S : f[x] \in Nat
    BY <1>2, <1>5
  <2> QED
    BY <1>5, <1>6, <2>1, SumOfPart
<1> QED
  BY <1>1, <1>3, <1>7 DEF Older

\* A batch that is drawn on gives what is still wanted, or all it has; the older
\* ones have given all they had.
LEMMA DeductionFacts ==
    ASSUME InventoryTypes, NEW q \in Nat \ {0}, NEW T, T = Deductions(FindAvailable, q)
    PROVE  /\ \A l : l \in DOMAIN T <=> l \in FindAvailable /\ q > Older(l)
           /\ \A l \in DOMAIN T :
                 /\ T[l] = Lesser(lots[l].remaining, q - Older(l))
                 /\ T[l] \in Nat \ {0} /\ T[l] <= lots[l].remaining
           /\ \A l \in DOMAIN T, k \in FindAvailable :
                 k < l => k \in DOMAIN T /\ T[k] = lots[k].remaining
           /\ DOMAIN T \subseteq DOMAIN lots /\ IsFiniteSet(DOMAIN T)
<1>1. T = [l \in {l \in FindAvailable : q > Older(l)} |->
              Lesser(lots[l].remaining, q - Older(l))]
  BY DEF Deductions, Older, Below
<1>2. /\ \A l : l \in DOMAIN T <=> l \in FindAvailable /\ q > Older(l)
      /\ \A l \in DOMAIN T : T[l] = Lesser(lots[l].remaining, q - Older(l))
  BY <1>1
<1>3. ASSUME NEW l \in DOMAIN T
      PROVE  T[l] \in Nat \ {0} /\ T[l] <= lots[l].remaining
  <2>1. /\ lots[l].remaining \in Nat \ {0} /\ Older(l) \in Nat /\ q > Older(l)
    <3>1. l \in FindAvailable /\ q > Older(l) /\ l \in Nat
      BY <1>2, LotFacts
    <3>2. Older(l) \in Nat
      BY <3>1, OlderGrows
    <3>3. lots[l].remaining \in Nat \ {0}
      BY <3>1, LotFacts
    <3> QED
      BY <3>1, <3>2, <3>3
  <2> QED
    BY <1>2, <2>1 DEF Lesser
<1>4. ASSUME NEW l \in DOMAIN T, NEW k \in FindAvailable, k < l
      PROVE  k \in DOMAIN T /\ T[k] = lots[k].remaining
  <2>1. k \in Nat /\ l \in Nat /\ k + 1 <= l /\ k + 1 \in Nat
    <3>1. k \in Nat /\ l \in Nat
      BY <1>2, LotFacts
    <3> QED
      BY <1>4, <3>1
  <2>2. /\ Older(k) \in Nat /\ Older(l) \in Nat /\ lots[k].remaining \in Nat
        /\ Older(k) + lots[k].remaining <= Older(l)
    <3>1. Older(k) \in Nat /\ Older(l) \in Nat /\ Older(k + 1) = Older(k) + lots[k].remaining
      BY <1>4, <2>1, OlderGrows
    <3>2. Older(k + 1) <= Older(l)
      BY <2>1, OlderAscends
    <3>3. lots[k].remaining \in Nat
      BY LotFacts
    <3> QED
      BY <3>1, <3>2, <3>3
  <2>3. q > Older(l)
    BY <1>2
  <2>4. q > Older(k) /\ lots[k].remaining <= q - Older(k) /\ q - Older(k) \in Nat
    BY <2>2, <2>3
  <2> QED
    <3>1. k \in DOMAIN T /\ T[k] = Lesser(lots[k].remaining, q - Older(k))
      BY <1>2, <2>4
    <3>2. lots[k].remaining \in Nat
      BY <2>2
    <3> QED
      BY <2>4, <3>1, <3>2, LesserFacts
<1>5. DOMAIN T \subseteq DOMAIN lots /\ IsFiniteSet(DOMAIN T)
  BY <1>2, LotFacts, FS_Subset
<1> QED
  BY <1>2, <1>3, <1>4, <1>5

\* Up to any batch, what is taken is what there is, but no more than what is wanted.
LEMMA DeductionsAddUp ==
    ASSUME InventoryTypes, NEW q \in Nat \ {0}, NEW T, T = Deductions(FindAvailable, q)
    PROVE  /\ \A l \in Nat : SumFunctionOnSet(T, Below(DOMAIN T, l)) = Lesser(q, Older(l))
           /\ HasStock(q) => SumFunctionOnSet(T, DOMAIN T) = q
<1>1. PICK D : D = DOMAIN T
  OBVIOUS
<1>2. /\ (\A l : l \in D <=> l \in FindAvailable /\ q > Older(l)) /\ IsFiniteSet(D)
      /\ \A l \in D : T[l] = Lesser(lots[l].remaining, q - Older(l)) /\ T[l] \in Nat
      /\ D \subseteq 1..Len(lots) /\ Len(lots) \in Nat
  <2>1. /\ (\A l : l \in D <=> l \in FindAvailable /\ q > Older(l)) /\ IsFiniteSet(D)
        /\ D \subseteq DOMAIN lots
    BY <1>1, DeductionFacts
  <2>2. \A l \in D : T[l] = Lesser(lots[l].remaining, q - Older(l)) /\ T[l] \in Nat
    <3>1. \A l \in DOMAIN T : /\ T[l] = Lesser(lots[l].remaining, q - Older(l))
                             /\ T[l] \in Nat \ {0} /\ T[l] <= lots[l].remaining
      BY DeductionFacts
    <3> QED
      BY <1>1, <3>1
  <2>3. DOMAIN lots = 1..Len(lots) /\ Len(lots) \in Nat
    BY LotFacts
  <2> QED
    BY <2>1, <2>2, <2>3
<1>3. D \subseteq Nat
  BY <1>2
<1> DEFINE Taken(l) == SumFunctionOnSet(T, Below(D, l))
           Good == {l \in Nat : Taken(l) = Lesser(q, Older(l))}
<1>4. 0 \in Good
  <2>1. Below(D, 0) = {}
    BY <1>2, <1>3, BelowGrows
  <2>2. Older(0) = 0 /\ Taken(0) = 0
    BY <2>1, OlderGrows, SumOfNothing
  <2> QED
    BY <2>2 DEF Lesser
<1>5. ASSUME NEW l \in Good PROVE l + 1 \in Good
  <2>1. PICK S : S = Below(D, l)
    OBVIOUS
  <2>2. /\ IsFiniteSet(S) /\ S \subseteq D /\ l \notin S
        /\ l \in D => Below(D, l + 1) = S \cup {l}
        /\ l \notin D => Below(D, l + 1) = S
    <3>1. l \in Nat
      BY <1>5
    <3> QED
      BY <1>2, <1>3, <2>1, <3>1, BelowGrows
  <2>3. l \in Nat /\ SumFunctionOnSet(T, S) = Lesser(q, Older(l)) /\ Older(l) \in Nat
        /\ Older(l + 1) \in Nat
    BY <1>5, <2>1, OlderGrows
  <2>4. CASE l \in D
    <3>1. Below(D, l + 1) = S \cup {l}
      BY <2>2, <2>4
    <3>2. \A k \in S \cup {l} : T[k] \in Int
      BY <1>2, <2>2, <2>4
    <3>3. SumFunctionOnSet(T, S \cup {l}) = SumFunctionOnSet(T, S) + T[l]
      BY <2>2, <3>2, SumGrows
    <3>4. /\ T[l] = Lesser(lots[l].remaining, q - Older(l)) /\ q > Older(l)
          /\ Older(l + 1) = Older(l) + lots[l].remaining /\ lots[l].remaining \in Nat
      BY <1>2, <2>4, LotFacts, OlderGrows
    <3>5. Taken(l + 1) = Lesser(q, Older(l)) + T[l]
      BY <2>3, <3>1, <3>3
    <3>6. Lesser(q, Older(l)) + T[l] = Lesser(q, Older(l) + lots[l].remaining)
      BY <2>3, <3>4 DEF Lesser
    <3> QED
      BY <2>3, <3>4, <3>5, <3>6
  <2>5. CASE l \notin D
    <3>1. Below(D, l + 1) = S
      BY <2>2, <2>5
    <3>2. Lesser(q, Older(l + 1)) = Lesser(q, Older(l))
      <4>1. CASE l \in FindAvailable
        <5>1. q <= Older(l) /\ Older(l) <= Older(l + 1)
          BY <1>2, <2>3, <2>5, <4>1, OlderAscends
        <5> QED
          BY <2>3, <5>1, LesserFacts
      <4>2. CASE l \notin FindAvailable
        BY <2>3, <4>2, OlderGrows
      <4> QED
        BY <4>1, <4>2
    <3> QED
      BY <2>3, <3>1, <3>2
  <2> QED
    BY <2>4, <2>5
<1>6. \A l \in Nat : l \in Good
  <2> HIDE DEF Good
  <2>1. Good \in SUBSET Nat
    BY DEF Good
  <2> QED
    BY <1>4, <1>5, <2>1, NumberInduction
<1>7. ASSUME HasStock(q) PROVE SumFunctionOnSet(T, D) = q
  <2>1. PICK n \in Nat : n = Len(lots) + 1
    BY LotFacts
  <2>2. Below(D, n) = D
    <3>1. \A k \in D : k < n
      BY <1>2, <2>1
    <3> QED
      BY <3>1 DEF Below
  <2>3. Older(n) = SumFunctionOnSet(Remaining, FindAvailable) /\ Older(n) \in Nat
    BY <2>1, LotFacts, OlderGrows
  <2>4. q <= Older(n)
    BY <1>7, <2>3 DEF HasStock
  <2>5. Taken(n) = Lesser(q, Older(n))
    BY <1>6
  <2> QED
    BY <2>2, <2>3, <2>4, <2>5, LesserFacts
<1> QED
  BY <1>1, <1>6, <1>7

\* One batch further, a quote uses what a sale would take of it.
LEMMA QuoteStep ==
    ASSUME InventoryTypes, NEW q \in Nat \ {0}, NEW T, T = Deductions(FindAvailable, q),
           NEW costs, costs = [k \in DOMAIN T |-> T[k] * lots[k].cost],
           NEW l \in Nat, l <= Len(lots), NEW left, left = q - Lesser(q, Older(l)),
           NEW use, use = IF l = 0 THEN 0 ELSE Lesser(left, lots[l].remaining),
           NEW cost, cost = IF l = 0 THEN 0 ELSE use * lots[l].cost
    PROVE  /\ q - Lesser(q, Older(l + 1)) = left - use
           /\ SumFunctionOnSet(costs, Below(DOMAIN T, l + 1))
                = SumFunctionOnSet(costs, Below(DOMAIN T, l)) + cost
           /\ SumFunctionOnSet(costs, Below(DOMAIN T, l)) \in Int
<1>1. PICK D : D = DOMAIN T
  OBVIOUS
<1>2. /\ (\A k : k \in D <=> k \in FindAvailable /\ q > Older(k)) /\ IsFiniteSet(D)
      /\ \A k \in D : T[k] = Lesser(lots[k].remaining, q - Older(k)) /\ T[k] \in Nat
      /\ D \subseteq 1..Len(lots) /\ Len(lots) \in Nat
  <2>1. /\ (\A k : k \in D <=> k \in FindAvailable /\ q > Older(k)) /\ IsFiniteSet(D)
        /\ D \subseteq DOMAIN lots
    BY <1>1, DeductionFacts
  <2>2. \A k \in D : T[k] = Lesser(lots[k].remaining, q - Older(k)) /\ T[k] \in Nat
    <3>1. \A k \in DOMAIN T : /\ T[k] = Lesser(lots[k].remaining, q - Older(k))
                             /\ T[k] \in Nat \ {0} /\ T[k] <= lots[k].remaining
      BY DeductionFacts
    <3> QED
      BY <1>1, <3>1
  <2>3. DOMAIN lots = 1..Len(lots) /\ Len(lots) \in Nat
    BY LotFacts
  <2> QED
    BY <2>1, <2>2, <2>3
<1>3. D \subseteq Nat
  BY <1>2
<1>4. \A k \in D : costs[k] = T[k] * lots[k].cost /\ costs[k] \in Int
  <2> SUFFICES ASSUME NEW k \in D PROVE costs[k] = T[k] * lots[k].cost /\ costs[k] \in Int
    OBVIOUS
  <2>1. k \in DOMAIN lots
    BY <1>2, LotFacts
  <2>2. PICK t \in Nat, c \in Nat : t = T[k] /\ c = lots[k].cost
    BY <1>2, <2>1, LotFacts
  <2>3. t * c \in Int
    OBVIOUS
  <2> QED
    BY <1>1, <2>2, <2>3
<1>5. /\ Older(l) \in Nat /\ Older(l + 1) \in Nat
      /\ l \in FindAvailable => Older(l + 1) = Older(l) + lots[l].remaining
      /\ l \notin FindAvailable => Older(l + 1) = Older(l)
  <2>1. l + 1 \in Nat
    OBVIOUS
  <2> QED
    BY <2>1, OlderGrows
<1>6. PICK S : S = Below(D, l)
  OBVIOUS
<1>7. /\ IsFiniteSet(S) /\ S \subseteq D /\ l \notin S
      /\ l \in D => Below(D, l + 1) = S \cup {l}
      /\ l \notin D => Below(D, l + 1) = S
  BY <1>2, <1>3, <1>6, BelowGrows
<1>8. SumFunctionOnSet(costs, S) \in Int
  <2>1. \A k \in S : costs[k] \in Int
    BY <1>4, <1>7
  <2> QED
    BY <1>7, <2>1, SumType
<1>9. CASE l \in D
  <2>1. /\ l # 0 /\ l \in FindAvailable /\ q > Older(l)
        /\ T[l] = Lesser(lots[l].remaining, q - Older(l)) /\ lots[l].remaining \in Nat
    <3>1. /\ l # 0 /\ l \in FindAvailable /\ q > Older(l)
          /\ T[l] = Lesser(lots[l].remaining, q - Older(l))
      BY <1>2, <1>9
    <3>2. lots[l].remaining \in Nat
      BY <3>1, LotFacts
    <3> QED
      BY <3>1, <3>2
  <2>2. left = q - Older(l) /\ use = T[l]
    BY <1>5, <2>1 DEF Lesser
  <2>3. q - Lesser(q, Older(l + 1)) = left - use
    <3>1. PICK o \in Nat, r \in Nat : o = Older(l) /\ r = lots[l].remaining
      BY <1>5, <2>1
    <3>2. q > o /\ Older(l + 1) = o + r /\ left = q - o /\ use = Lesser(r, q - o)
      BY <1>5, <2>1, <2>2, <3>1
    <3>3. q - Lesser(q, o + r) = (q - o) - Lesser(r, q - o)
      BY <3>2, LesserTakes
    <3> QED
      BY <3>2, <3>3
  <2>4. \A k \in S \cup {l} : costs[k] \in Int
    BY <1>4, <1>7, <1>9
  <2>5. SumFunctionOnSet(costs, S \cup {l}) = SumFunctionOnSet(costs, S) + costs[l]
    BY <1>7, <2>4, SumGrows
  <2>6. costs[l] = cost
    BY <1>4, <1>9, <2>1, <2>2
  <2> QED
    BY <1>1, <1>6, <1>7, <1>8, <1>9, <2>3, <2>5, <2>6
<1>10. CASE l \notin D
  <2>1. left \in Nat /\ (l \in FindAvailable => left = 0)
    BY <1>2, <1>5, <1>10 DEF Lesser
  <2>2. l # 0 => lots[l].remaining \in Nat /\ lots[l].cost \in Nat
                 /\ (l \notin FindAvailable => lots[l].remaining = 0)
    BY LotFacts
  <2>3. use = 0
    BY <2>1, <2>2 DEF Lesser
  <2>4. cost = 0
    BY <2>2, <2>3
  <2>5. q - Lesser(q, Older(l + 1)) = left
    <3>1. CASE l \in FindAvailable
      <4>1. q <= Older(l)
        BY <1>2, <1>5, <1>10, <3>1
      <4>2. lots[l].remaining \in Nat
        BY <3>1, LotFacts
      <4> QED
        BY <1>5, <3>1, <4>1, <4>2 DEF Lesser
    <3>2. CASE l \notin FindAvailable
      BY <1>5, <3>2
    <3> QED
      BY <3>1, <3>2
  <2> QED
    BY <1>1, <1>6, <1>7, <1>8, <1>10, <2>1, <2>3, <2>4, <2>5
<1> QED
  BY <1>9, <1>10

\* A quote, batch by batch, as calculateCost goes over them.
QuoteBody(q, g, l) ==
    IF l = 0 THEN [left |-> q, cost |-> 0]
    ELSE [left |-> g[l - 1].left - Lesser(g[l - 1].left, lots[l].remaining),
          cost |-> g[l - 1].cost + Lesser(g[l - 1].left, lots[l].remaining) * lots[l].cost]

IsQuote(q, g) == g = [l \in 0..Len(lots) |-> QuoteBody(q, g, l)]

\* The cost that is quoted is that of the quote after the last batch.
LEMMA QuoteIsChosen ==
    ASSUME NEW q
    PROVE  CalculateCost(q) = (CHOOSE g : IsQuote(q, g))[Len(lots)].cost
  BY DEF CalculateCost, IsQuote, QuoteBody

\* A quote is what the sale will cost.
LEMMA QuoteIsKept ==
    ASSUME InventoryTypes, NEW q \in Nat \ {0}, NEW T, T = Deductions(FindAvailable, q),
           NEW costs, costs = [k \in DOMAIN T |-> T[k] * lots[k].cost]
    PROVE  CalculateCost(q) = SumFunctionOnSet(costs, DOMAIN T)
<1> DEFINE Left(l) == q - Lesser(q, Older(l))
           Cost(l) == SumFunctionOnSet(costs, Below(DOMAIN T, l))
<1>1. PICK n \in Nat : n = Len(lots)
  BY LotFacts
<1>2. ASSUME NEW l \in 1..n
      PROVE  /\ Left(l + 1) = Left(l) - Lesser(Left(l), lots[l].remaining)
             /\ Cost(l + 1) = Cost(l) + Lesser(Left(l), lots[l].remaining) * lots[l].cost
  <2>1. l \in Nat /\ l # 0 /\ l <= Len(lots)
    BY <1>1
  <2>2. PICK left, use, cost :
            /\ left = q - Lesser(q, Older(l))
            /\ use = IF l = 0 THEN 0 ELSE Lesser(left, lots[l].remaining)
            /\ cost = IF l = 0 THEN 0 ELSE use * lots[l].cost
    OBVIOUS
  <2>3. /\ q - Lesser(q, Older(l + 1)) = left - use
        /\ SumFunctionOnSet(costs, Below(DOMAIN T, l + 1))
             = SumFunctionOnSet(costs, Below(DOMAIN T, l)) + cost
    <3>1. l \in Nat /\ l <= Len(lots)
      BY <2>1
    <3> HIDE DEF Left, Cost
    <3> QED
      BY <2>2, <3>1, QuoteStep, SMTT(30)
  <2>4. use = Lesser(left, lots[l].remaining) /\ cost = use * lots[l].cost
    BY <2>1, <2>2
  <2> QED
    BY <2>2, <2>3, <2>4
<1>3. Left(1) = q /\ Cost(1) = 0
  <2>1. Older(0) = 0 /\ 0 \notin FindAvailable
    BY OlderGrows, LotFacts
  <2>2. Older(1) = 0
    BY <2>1, OlderGrows
  <2>3. DOMAIN T \subseteq Nat /\ IsFiniteSet(DOMAIN T) /\ 0 \notin DOMAIN T
    <3>1. DOMAIN T \subseteq DOMAIN lots /\ IsFiniteSet(DOMAIN T)
      BY DeductionFacts
    <3>2. DOMAIN T \subseteq 1..Len(lots) /\ Len(lots) \in Nat
      BY <3>1, LotFacts
    <3> QED
      BY <3>1, <3>2
  <2>4. Below(DOMAIN T, 0 + 1) = {}
    BY <2>3, BelowGrows
  <2> QED
    BY <2>2, <2>4, SumOfNothing DEF Lesser
<1> HIDE DEF Left, Cost
<1>4. PICK h : h = [l \in 0..n |-> [left |-> Left(l + 1), cost |-> Cost(l + 1)]]
  OBVIOUS
<1>5. \A l \in 0..n : QuoteBody(q, h, l) = [left |-> Left(l + 1), cost |-> Cost(l + 1)]
  <2> SUFFICES ASSUME NEW l \in 0..n
               PROVE  QuoteBody(q, h, l) = [left |-> Left(l + 1), cost |-> Cost(l + 1)]
    OBVIOUS
  <2>1. CASE l = 0
    BY <1>3, <2>1 DEF QuoteBody
  <2>2. CASE l # 0
    <3>1. l \in 1..n /\ l - 1 \in 0..n /\ (l - 1) + 1 = l
      BY <2>2
    <3>2. h[l - 1] = [left |-> Left(l), cost |-> Cost(l)]
      BY <1>4, <3>1
    <3> QED
      BY <1>2, <2>2, <3>1, <3>2 DEF QuoteBody
  <2> QED
    BY <2>1, <2>2
<1>6. IsQuote(q, h)
  BY <1>1, <1>4, <1>5 DEF IsQuote
<1>7. PICK g : g = (CHOOSE x : IsQuote(q, x)) /\ IsQuote(q, g)
  BY <1>6
<1> DEFINE Good == {l \in Nat : l <= n => g[l] = h[l]}
<1>8. \A l \in 0..n : g[l] = QuoteBody(q, g, l) /\ h[l] = QuoteBody(q, h, l)
  BY <1>1, <1>6, <1>7 DEF IsQuote
<1>9. 0 \in Good
  <2>1. 0 \in 0..n
    OBVIOUS
  <2>2. g[0] = [left |-> q, cost |-> 0] /\ h[0] = [left |-> q, cost |-> 0]
    BY <1>8, <2>1 DEF QuoteBody
  <2> QED
    BY <2>2
<1>10. ASSUME NEW l \in Good PROVE l + 1 \in Good
  <2> SUFFICES ASSUME l + 1 <= n PROVE g[l + 1] = h[l + 1]
    OBVIOUS
  <2>1. l \in Nat /\ (l + 1) - 1 = l /\ l + 1 # 0 /\ l + 1 \in 0..n /\ g[l] = h[l]
    OBVIOUS
  <2>2. QuoteBody(q, g, l + 1) = QuoteBody(q, h, l + 1)
    BY <2>1 DEF QuoteBody
  <2> QED
    BY <1>8, <2>1, <2>2
<1>11. n \in Good
  <2> HIDE DEF Good
  <2>1. Good \in SUBSET Nat
    BY DEF Good
  <2> QED
    BY <1>9, <1>10, <2>1, NumberInduction
<1>12. g[n].cost = Cost(n + 1)
  BY <1>4, <1>11
<1>13. Below(DOMAIN T, n + 1) = DOMAIN T
  <2>1. DOMAIN T \subseteq 1..n
    BY <1>1, DeductionFacts, LotFacts
  <2>2. \A l \in DOMAIN T : l < n + 1
    BY <2>1
  <2> QED
    BY <2>2 DEF Below
<1> QED
  BY <1>1, <1>7, <1>12, <1>13, QuoteIsChosen DEF Cost

-----------------------------------------------------------------------------
(* Deliveries *)

\* A rule of conversion has a factor above 0.
LEMMA RuleFacts ==
    ASSUME NEW unit, NEW rule \in GetConversionFactor(unit)
    PROVE  rule.num \in Nat \ {0} /\ rule.den \in Nat \ {0}
  BY InventoryAssumption DEF GetConversionFactor, FindByUnits

\* A factor keeps the order of two numbers.
LEMMA FactorsKeepOrder ==
    ASSUME NEW a \in Int, NEW b \in Int, a <= b, NEW m \in Nat
    PROVE  a * m <= b * m
<1>1. PICK e \in Nat : b = a + e
  <2>1. b - a \in Nat /\ b = a + (b - a)
    OBVIOUS
  <2> QED
    BY <2>1
<1>2. b * m = a * m + e * m
  BY <1>1
<1>3. e * m \in Nat /\ a * m \in Int
  OBVIOUS
<1> QED
  BY <1>2, <1>3

\* A common factor cancels.
LEMMA FactorsCancel ==
    ASSUME NEW a \in Int, NEW b \in Int, NEW m \in Nat \ {0}, a * m <= b * m
    PROVE  a <= b
<1> SUFFICES ASSUME b + 1 <= a PROVE FALSE
  OBVIOUS
<1>1. (b + 1) * m <= a * m
  BY FactorsKeepOrder
<1>2. (b + 1) * m = b * m + m
  OBVIOUS
<1>3. a * m \in Int /\ b * m \in Int
  OBVIOUS
<1> QED
  BY <1>1, <1>2, <1>3

\* The number nearest to n/d.
LEMMA NearestFacts ==
    ASSUME NEW n \in Nat, NEW d \in Nat \ {0}, NEW r, r = Nearest(n, d)
    PROVE  /\ r \in Nat
           /\ 2 * (r * d) <= 2 * n + d
           /\ 2 * n < 2 * (r * d) + d
<1>1. PICK w \in Nat, e \in Nat \ {0} : w = 2 * n + d /\ e = 2 * d
  OBVIOUS
<1>2. r = w \div e
  BY <1>1 DEF Nearest
<1>3. PICK q \in Int : q = w \div e
  OBVIOUS
<1>4. w = e * q + (w % e) /\ w % e \in 0..(e - 1)
  BY <1>3
<1>5. q \in Nat
  BY <1>3
<1>6. e * q = 2 * (q * d)
  BY <1>1
<1>7. q * d \in Nat
  BY <1>5
<1> QED
  BY <1>1, <1>2, <1>3, <1>4, <1>5, <1>6, <1>7

\* A batch is as large as its movement says, to half a thousandth.
LEMMA LotIsNearby ==
    ASSUME NEW u \in Nat, NEW d \in Nat \ {0}, NEW L, L = LotScale(u, d),
           NEW Q, Q = Nearest(u, d)
    PROVE  /\ L \in Nat /\ Q \in Nat /\ Q - 5 <= L /\ L <= Q + 5
           /\ 2 * (L * d) <= 2 * u + 10 * d
           /\ 2 * u <= 2 * (L * d) + 10 * d
<1>1. PICK e \in Nat \ {0} : e = 10 * d
  OBVIOUS
<1>2. PICK r \in Nat : /\ r = Nearest(u, e)
                       /\ 2 * (r * e) <= 2 * u + e /\ 2 * u < 2 * (r * e) + e
  BY NearestFacts
<1>3. L = 10 * r
  BY <1>1, <1>2 DEF LotScale
<1>4. r * e = L * d
  BY <1>1, <1>3
<1>5. L \in Nat /\ L * d \in Nat
  BY <1>3
<1>6. Q \in Nat /\ 2 * (Q * d) <= 2 * u + d /\ 2 * u < 2 * (Q * d) + d
  BY NearestFacts
<1>7. Q * d \in Nat /\ (L - Q) * d = L * d - Q * d /\ (Q - L) * d = Q * d - L * d
  BY <1>5, <1>6
<1>8. ASSUME NEW x \in Int, NEW y \in Int, y = x * d, 2 * y < 11 * d PROVE x <= 5
  <2> SUFFICES ASSUME 6 <= x PROVE FALSE
    OBVIOUS
  <2>1. 6 * d <= x * d
    BY FactorsKeepOrder
  <2> QED
    BY <1>8, <2>1
<1>9. /\ 2 * (L * d - Q * d) < 11 * d /\ 2 * (Q * d - L * d) < 11 * d
      /\ 2 * (L * d) <= 2 * u + 10 * d
      /\ 2 * u <= 2 * (L * d) + 10 * d
  BY <1>1, <1>2, <1>4, <1>5, <1>6, <1>7
<1>10. L - Q <= 5 /\ Q - L <= 5
  <2>1. L - Q \in Int /\ Q - L \in Int /\ L * d - Q * d \in Int /\ Q * d - L * d \in Int
    BY <1>5, <1>6, <1>7
  <2> QED
    BY <1>7, <1>8, <1>9, <2>1
<1> QED
  BY <1>5, <1>6, <1>9, <1>10

\* Products of numbers that are near to each other.
LEMMA ProductsAreNear ==
    ASSUME NEW y \in Int, NEW u \in Nat, NEW p \in Nat, NEW w \in Int, NEW E \in Nat,
           NEW F \in Nat, 2 * y <= 2 * u + E, 2 * u <= 2 * y + E,
           2 * p <= 2 * w + F, 2 * w <= 2 * p + F
    PROVE  /\ 2 * (y * p) <= 2 * (u * w) + E * p + F * u
           /\ 2 * (u * w) <= 2 * (y * p) + E * p + F * u
<1>1. PICK a \in Int, b \in Int : a = 2 * (y - u) /\ b = 2 * (p - w)
  OBVIOUS
<1>2. a <= E /\ -a <= E /\ b <= F /\ -b <= F
  BY <1>1
<1>3. a * p <= E * p /\ (-a) * p <= E * p
  BY <1>2, FactorsKeepOrder
<1>4. b * u <= F * u /\ (-b) * u <= F * u
  BY <1>2, FactorsKeepOrder
<1>5. a * p = 2 * (y * p) - 2 * (u * p)
  BY <1>1
<1>6. b * u = 2 * (u * p) - 2 * (u * w)
  BY <1>1
<1>7. (-a) * p = -(a * p) /\ (-b) * u = -(b * u)
  OBVIOUS
<1>8. y * p \in Int /\ u * p \in Int /\ u * w \in Int /\ E * p \in Int /\ F * u \in Int
  OBVIOUS
<1> QED
  BY <1>3, <1>4, <1>5, <1>6, <1>7, <1>8

\* What was paid for a line, up to what the tables round.
Worth(total, initial, cost) ==
    \E line \in Received :
        /\ Within(2 * total, 2 * (line.quantity * line.cost), 100)
        /\ Within(2 * (initial * cost), 2 * (line.quantity * line.cost),
                  10 * cost + initial + 5)

\* Every delivery is worth what was paid for it.
LEMMA WorthOfAll ==
    ASSUME InventoryTypes
    PROVE  ValueIsKept <=>
              \A m \in DOMAIN ledger : ledger[m].type = "PURCHASE" =>
                  Worth(ledger[m].totalCost, lots[ledger[m].lot].initial,
                        lots[ledger[m].lot].cost)
<1>1. ASSUME NEW m \in DOMAIN ledger, ledger[m].type = "PURCHASE", NEW line \in Received
      PROVE  2 * lots[ledger[m].lot].initial * lots[ledger[m].lot].cost
                = 2 * (lots[ledger[m].lot].initial * lots[ledger[m].lot].cost)
  <2>1. PICK x \in LotRow : x = lots[ledger[m].lot]
    BY <1>1 DEF InventoryTypes
  <2>2. PICK a \in Nat, b \in Nat : a = x.initial /\ b = x.cost
    BY DEF LotRow
  <2>3. 2 * a * b = 2 * (a * b)
    OBVIOUS
  <2> QED
    BY <2>1, <2>2, <2>3
<1> QED
  BY <1>1 DEF ValueIsKept, Worth

\* A delivery keeps its value when it is converted, up to what the tables round.
LEMMA BoughtFacts ==
    ASSUME NEW line \in Received, NEW rule \in GetConversionFactor(line.unit),
           NEW bought, bought = ConvertToBaseUnit(line, rule), NEW c \in Nat,
           NEW lot, lot = NewLot(bought), NEW x, x = PurchaseMovement(c, bought),
           NEW q, q = Nearest(bought.quantity.num, bought.quantity.den)
    PROVE  /\ lot \in LotRow /\ x \in Entry /\ q \in Nat
           /\ x.type = "PURCHASE" /\ x.lot = c /\ x.quantity = q
           /\ q - 5 <= lot.remaining /\ lot.remaining <= q + 5
           /\ Worth(x.totalCost, lot.initial, lot.cost)
<1>1. PICK a \in Nat, k \in Nat, n \in Nat \ {0}, d \in Nat \ {0} :
          a = line.quantity /\ k = line.cost /\ n = rule.num /\ d = rule.den
  BY RuleFacts, InventoryAssumption
<1>2. PICK u \in Nat, w \in Nat, m \in Nat \ {0}, paid \in Nat :
          u = a * n /\ w = k * d /\ m = d * n /\ paid = a * k
  OBVIOUS
<1>3. /\ bought.quantity.num = u /\ bought.quantity.den = d
      /\ bought.cost.num = w /\ bought.cost.den = n
  BY <1>1, <1>2 DEF ConvertToBaseUnit
<1>4. PICK L, C, V : L = LotScale(u, d) /\ C = Nearest(w, n) /\ V = ValueScale(u * w, d * n)
  OBVIOUS
<1>5. /\ L \in Nat /\ q \in Nat /\ q - 5 <= L /\ L <= q + 5
      /\ 2 * (L * d) <= 2 * u + 10 * d
      /\ 2 * u <= 2 * (L * d) + 10 * d
  BY <1>3, <1>4, LotIsNearby
<1>6. C \in Nat /\ 2 * (C * n) <= 2 * w + n /\ 2 * w < 2 * (C * n) + n
  BY <1>4, NearestFacts
<1>7. u * w = m * paid
  <2>1. (a * n) * (k * d) = (d * n) * (a * k)
    OBVIOUS
  <2> QED
    BY <1>2, <2>1
<1>8. V \in Nat /\ Within(2 * V, 2 * paid, 100)
  <2>1. PICK z \in Nat, e \in Nat \ {0} : z = u * w /\ e = 100 * m
    OBVIOUS
  <2>2. PICK r \in Nat : /\ r = Nearest(z, e)
                         /\ 2 * (r * e) <= 2 * z + e /\ 2 * z < 2 * (r * e) + e
    BY NearestFacts
  <2>3. V = 100 * r
    BY <1>2, <1>4, <2>1, <2>2 DEF ValueScale
  <2>4. V \in Nat
    BY <2>3
  <2>5. r * e = V * m
    BY <2>1, <2>3
  <2>6. z = paid * m
    BY <1>7, <2>1
  <2>7. (2 * V) * m = 2 * (V * m) /\ (2 * paid + 100) * m = 2 * (paid * m) + 100 * m
    BY <2>4
  <2>8. (2 * paid) * m = 2 * (paid * m) /\ (2 * V + 100) * m = 2 * (V * m) + 100 * m
    BY <2>4
  <2>9. (2 * V) * m <= (2 * paid + 100) * m /\ (2 * paid) * m <= (2 * V + 100) * m
    <3>1. V * m \in Nat /\ paid * m \in Nat
      BY <2>4
    <3> QED
      BY <2>1, <2>2, <2>5, <2>6, <2>7, <2>8, <3>1
  <2>10. 2 * V \in Int /\ 2 * paid + 100 \in Int /\ 2 * paid \in Int /\ 2 * V + 100 \in Int
    BY <2>4
  <2>11. 2 * V <= 2 * paid + 100 /\ 2 * paid <= 2 * V + 100
    BY <2>9, <2>10, FactorsCancel
  <2> QED
    BY <2>4, <2>11 DEF Within
<1>9. Within(2 * (L * C), 2 * paid, 10 * C + L + 5)
  <2>1. PICK y \in Nat, p \in Nat, E \in Nat : y = L * d /\ p = C * n /\ E = 10 * d
    BY <1>5, <1>6
  <2>2. /\ 2 * (y * p) <= 2 * (u * w) + E * p + n * u
        /\ 2 * (u * w) <= 2 * (y * p) + E * p + n * u
    <3>1. 2 * y <= 2 * u + E /\ 2 * u <= 2 * y + E /\ 2 * p <= 2 * w + n /\ 2 * w <= 2 * p + n
      BY <1>5, <1>6, <2>1
    <3> QED
      BY <3>1, ProductsAreNear
  <2>3. PICK v \in Nat, g \in Nat : v = L * C /\ g = 10 * C + L + 5
    BY <1>5, <1>6
  <2>4. y * p = v * m
    <3>1. (L * d) * (C * n) = (L * C) * (d * n)
      BY <1>5, <1>6
    <3> QED
      BY <1>2, <2>1, <2>3, <3>1
  <2>5. E * p = (10 * C) * m
    <3>1. (10 * d) * (C * n) = (10 * C) * (d * n)
      BY <1>6
    <3> QED
      BY <1>2, <2>1, <3>1
  <2>6. n * u <= (L + 5) * m
    <3>1. u <= y + 5 * d
      BY <1>5, <2>1
    <3>2. u * n <= (y + 5 * d) * n
      BY <3>1, FactorsKeepOrder
    <3>3. (y + 5 * d) * n = (L + 5) * m
      <4>1. (L * d + 5 * d) * n = (L + 5) * (d * n)
        BY <1>5
      <4> QED
        BY <1>2, <2>1, <4>1
    <3>4. u * n = n * u
      OBVIOUS
    <3> QED
      BY <3>2, <3>3, <3>4
  <2>7. (10 * C) * m + (L + 5) * m = g * m
    <3>1. (10 * C) * m + (L + 5) * m = (10 * C + L + 5) * m
      BY <1>5, <1>6
    <3> QED
      BY <2>3, <3>1
  <2>8. (2 * v) * m = 2 * (v * m) /\ (2 * paid) * m = 2 * (m * paid)
    OBVIOUS
  <2>9. (2 * v + g) * m = 2 * (v * m) + g * m /\ (2 * paid + g) * m = 2 * (m * paid) + g * m
    OBVIOUS
  <2>10. (2 * v) * m <= (2 * paid + g) * m /\ (2 * paid) * m <= (2 * v + g) * m
    <3>1. /\ 2 * (v * m) <= 2 * (m * paid) + (10 * C) * m + n * u
          /\ 2 * (m * paid) <= 2 * (v * m) + (10 * C) * m + n * u
      BY <1>7, <2>2, <2>4, <2>5
    <3>2. PICK A \in Nat, B \in Nat, X \in Nat, Y \in Nat, Z \in Nat, G \in Nat :
              /\ A = v * m /\ B = m * paid /\ X = (10 * C) * m /\ Y = n * u
              /\ Z = (L + 5) * m /\ G = g * m
      BY <1>5, <1>6
    <3>3. 2 * A <= 2 * B + G /\ 2 * B <= 2 * A + G
      BY <2>6, <2>7, <3>1, <3>2
    <3> QED
      BY <2>8, <2>9, <3>2, <3>3
  <2>11. /\ 2 * v \in Int /\ 2 * paid \in Int
         /\ 2 * v + g \in Int /\ 2 * paid + g \in Int
    OBVIOUS
  <2>12. 2 * v <= 2 * paid + g /\ 2 * paid <= 2 * v + g
    BY <2>10, <2>11, FactorsCancel
  <2> QED
    BY <2>3, <2>12 DEF Within
<1>10. lot = [initial |-> L, remaining |-> L, cost |-> C]
  BY <1>3, <1>4 DEF NewLot
<1>11. x = [type |-> "PURCHASE", lot |-> c, quantity |-> q, totalCost |-> V]
  BY <1>3, <1>4 DEF PurchaseMovement
<1>12. lot \in LotRow /\ x \in Entry
  BY <1>5, <1>6, <1>8, <1>10, <1>11 DEF LotRow, Entry
<1>13. Worth(x.totalCost, lot.initial, lot.cost)
  BY <1>1, <1>2, <1>8, <1>9, <1>10, <1>11 DEF Worth
<1> QED
  BY <1>5, <1>10, <1>11, <1>12, <1>13

\* A whole total is kept to half a ten-thousandth.
LEMMA ValueIsNatural ==
    ASSUME NEW v \in Nat
    PROVE  ValueScale(v, 1) \in Nat
  BY NearestFacts DEF ValueScale

-----------------------------------------------------------------------------
(* The ledger *)

\* One movement appended is a sequence of one behind the others.
LEMMA AppendIsJoin ==
    ASSUME NEW X, NEW s \in Seq(X), NEW x \in X
    PROVE  /\ Append(s, x) = s \o <<x>> /\ <<x>> \in Seq(X)
           /\ Len(<<x>>) = 1 /\ <<x>>[1] = x
  OBVIOUS

\* What the movements of a batch say is in it, and how many they are.
Told(l) == SumFunctionOnSet(Changes, MovementsOf(l))
Often(l) == Cardinality(MovementsOf(l))

\* What the movements of a batch say, and how many they are, are whole numbers.
LEMMA ToldFacts ==
    ASSUME InventoryTypes, NEW l
    PROVE  /\ Told(l) \in Int /\ Often(l) \in Nat
           /\ (\A m \in DOMAIN ledger : ledger[m].lot # l) => Told(l) = 0 /\ Often(l) = 0
<1>1. PICK M : M = MovementsOf(l)
  OBVIOUS
<1>2. M \in SUBSET DOMAIN ledger /\ \A m \in M : ledger[m].lot = l
  BY <1>1 DEF MovementsOf
<1>3. IsFiniteSet(M) /\ SumFunctionOnSet(Changes, M) \in Int /\ Cardinality(M) \in Nat
  BY <1>2, ChangesAreWhole, FS_CardinalityType
<1>4. ASSUME M = {} PROVE SumFunctionOnSet(Changes, M) = 0 /\ Cardinality(M) = 0
  BY <1>4, SumOfNothing, FS_EmptySet
<1> QED
  BY <1>1, <1>2, <1>3, <1>4 DEF Told, Often

\* A batch that no new movement names is told of as before.
LEMMA LotStays ==
    ASSUME InventoryTypes, NEW s \in Seq(Entry), ledger' = ledger \o s,
           NEW n, n = Len(ledger), NEW k, k = Len(s), NEW l,
           \A j \in 1..k : s[j].lot # l
    PROVE  Told(l)' = Told(l) /\ Often(l)' = Often(l)
<1>1. /\ n \in Nat /\ k \in Nat /\ DOMAIN ledger = 1..n /\ DOMAIN ledger' = 1..(n + k)
      /\ \A m \in 1..n : ledger'[m] = ledger[m]
      /\ \A i \in 1..k : ledger'[n + i] = s[i]
  BY LedgerJoins
<1>2. ASSUME NEW M \in SUBSET (1..n)
      PROVE  SumFunctionOnSet(Changes', M) = SumFunctionOnSet(Changes, M)
  BY LedgerGrows
<1>3. \A m \in 1..(n + k) : m \in 1..n \/ (m - n \in 1..k /\ m = n + (m - n))
  BY <1>1
<1>4. PICK M, N : M = MovementsOf(l) /\ N = MovementsOf(l)'
  OBVIOUS
<1>5. M \subseteq 1..n /\ \A m \in 1..n : m \in M <=> ledger[m].lot = l
  BY <1>1, <1>4 DEF MovementsOf
<1>6. N \subseteq 1..(n + k) /\ \A m \in 1..(n + k) : m \in N <=> ledger'[m].lot = l
  BY <1>1, <1>4 DEF MovementsOf
<1>7. ASSUME NEW m \in N PROVE m \in M
  <2>1. m \in 1..(n + k) /\ ledger'[m].lot = l
    BY <1>6
  <2>2. m \in 1..n
    <3>1. ASSUME NEW i \in 1..k, m = n + i PROVE FALSE
      BY <1>1, <2>1, <3>1
    <3> QED
      BY <1>3, <2>1, <3>1
  <2> QED
    BY <1>1, <1>5, <2>1, <2>2
<1>8. \A m \in M : m \in N
  BY <1>1, <1>5, <1>6
<1>9. N = M
  BY <1>7, <1>8
<1> QED
  BY <1>2, <1>4, <1>5, <1>9 DEF Told, Often

\* Of the movements of s, the i-th alone is of batch l.
IsOnly(s, i, l) ==
    i \in DOMAIN s /\ s[i].lot = l /\ \A j \in DOMAIN s : s[j].lot = l => j = i

\* A batch that one of the new movements names has one movement more.
LEMMA LotMoves ==
    ASSUME InventoryTypes, NEW s \in Seq(Entry), ledger' = ledger \o s,
           NEW l, NEW i, IsOnly(s, i, l)
    PROVE  Told(l)' = Told(l) + Changes'[Len(ledger) + i] /\ Often(l)' = Often(l) + 1
<1>1. PICK n, k, a : n = Len(ledger) /\ k = Len(s) /\ a = n + i
  OBVIOUS
<1>2. i \in 1..k /\ s[i].lot = l /\ \A j \in 1..k : s[j].lot = l => j = i
  <2>1. DOMAIN s = 1..k
    BY <1>1
  <2> QED
    BY <2>1 DEF IsOnly
<1>3. /\ n \in Nat /\ k \in Nat /\ DOMAIN ledger = 1..n /\ DOMAIN ledger' = 1..(n + k)
      /\ \A m \in 1..n : ledger'[m] = ledger[m]
      /\ \A j \in 1..k : ledger'[n + j] = s[j]
  BY <1>1, LedgerJoins
<1>4. \A m \in 1..(n + k) : Changes'[m] \in Int
  BY <1>1, LedgerGrows
<1>5. ASSUME NEW M \in SUBSET (1..n)
      PROVE  SumFunctionOnSet(Changes', M) = SumFunctionOnSet(Changes, M)
  BY <1>1, LedgerGrows
<1>6. \A m \in 1..(n + k) : m \in 1..n \/ (m - n \in 1..k /\ m = n + (m - n))
  BY <1>3
<1>7. PICK M, N : M = MovementsOf(l) /\ N = MovementsOf(l)'
  OBVIOUS
<1>8. M \subseteq 1..n /\ \A m \in 1..n : m \in M <=> ledger[m].lot = l
  BY <1>3, <1>7 DEF MovementsOf
<1>9. N \subseteq 1..(n + k) /\ \A m \in 1..(n + k) : m \in N <=> ledger'[m].lot = l
  BY <1>3, <1>7 DEF MovementsOf
<1>10. IsFiniteSet(M) /\ Cardinality(M) \in Nat
  BY <1>3, <1>8, ChangesAreWhole, FS_CardinalityType
<1>11. a \in 1..(n + k) /\ a \notin 1..n /\ ledger'[a] = s[i]
  BY <1>3, <1>1, <1>2
<1>12. a \in N /\ a \notin M
  BY <1>8, <1>9, <1>11, <1>2
<1>13. \A m \in N : m \in M \/ m = a
  <2> SUFFICES ASSUME NEW m \in N, m \notin M PROVE m = a
    OBVIOUS
  <2>1. m \in 1..(n + k) /\ ledger'[m].lot = l /\ m \notin 1..n
    BY <1>3, <1>8, <1>9
  <2>2. m - n \in 1..k /\ m = n + (m - n)
    BY <1>6, <2>1
  <2>3. s[m - n].lot = l
    BY <1>3, <2>1, <2>2
  <2>4. m - n = i
    BY <1>2, <2>2, <2>3
  <2> QED
    BY <1>1, <2>2, <2>4
<1>14. \A m \in M : m \in N
  BY <1>3, <1>8, <1>9
<1>15. N = M \cup {a}
  BY <1>12, <1>13, <1>14
<1>16. SumFunctionOnSet(Changes', N) = SumFunctionOnSet(Changes', M) + Changes'[a]
  <2>1. PICK f : f = Changes'
    OBVIOUS
  <2>2. \A m \in M \cup {a} : f[m] \in Int
    BY <1>9, <1>15, <1>4, <2>1
  <2>3. SumFunctionOnSet(f, M \cup {a}) = SumFunctionOnSet(f, M) + f[a]
    BY <1>10, <1>12, <2>2, SumGrows
  <2> QED
    BY <1>15, <2>1, <2>3
<1>17. SumFunctionOnSet(Changes', M) = SumFunctionOnSet(Changes, M)
  BY <1>5, <1>8
<1>18. Cardinality(N) = Cardinality(M) + 1
  BY <1>10, <1>12, <1>15, FS_AddElement
<1> QED
  BY <1>7, <1>16, <1>17, <1>18, <1>1 DEF Told, Often

\* The sales that left the level empty, and the announcements of that.
Emptyings == {m \in DOMAIN ledger : ledger[m].type = "SALE" /\ LevelAfter(m) = 0}
Announced == {a \in DOMAIN alerts : alerts[a] = "OutOfStock"}

\* What is announced of the new movements is whether the last one emptied the level.
LEMMA EmptyingsGrow ==
    ASSUME InventoryTypes, NEW s \in Seq(Entry), ledger' = ledger \o s,
           NEW n, n = Len(ledger), NEW k, k = Len(s)
    PROVE  /\ Cardinality(Emptyings) \in Nat
           /\ (\A i \in 1..k : s[i].type # "SALE" \/ LevelAfter(n + i)' # 0) =>
                 Cardinality(Emptyings') = Cardinality(Emptyings)
           /\ /\ k # 0 /\ s[k].type = "SALE" /\ LevelAfter(n + k)' = 0
              /\ \A i \in 1..k : i # k => LevelAfter(n + i)' # 0
              => Cardinality(Emptyings') = Cardinality(Emptyings) + 1
<1>1. /\ n \in Nat /\ k \in Nat /\ DOMAIN ledger = 1..n /\ DOMAIN ledger' = 1..(n + k)
      /\ \A m \in 1..n : ledger'[m] = ledger[m]
      /\ \A i \in 1..k : ledger'[n + i] = s[i]
      /\ \A m \in 0..n : LevelAfter(m)' = LevelAfter(m)
  <2>1. /\ n \in Nat /\ k \in Nat /\ DOMAIN ledger = 1..n /\ DOMAIN ledger' = 1..(n + k)
        /\ \A m \in 1..n : ledger'[m] = ledger[m]
        /\ \A i \in 1..k : ledger'[n + i] = s[i]
    BY LedgerJoins
  <2>2. \A m \in 0..n : LevelAfter(m)' = LevelAfter(m)
    BY LedgerGrows
  <2> QED
    BY <2>1, <2>2
<1>2. \A m \in 1..(n + k) : m \in 1..n \/ (m - n \in 1..k /\ m = n + (m - n))
  BY <1>1
<1>3. PICK M : M = Emptyings
  OBVIOUS
<1>4. M \subseteq 1..n /\ \A m \in 1..n : m \in M <=> ledger[m].type = "SALE" /\ LevelAfter(m) = 0
  BY <1>1, <1>3 DEF Emptyings
<1>5. IsFiniteSet(M) /\ Cardinality(M) \in Nat
  <2>1. IsFiniteSet(1..n)
    BY <1>1, FS_Interval
  <2>2. IsFiniteSet(M)
    BY <1>4, <2>1, FS_Subset
  <2> QED
    BY <2>2, FS_CardinalityType
<1>6. PICK N : N = Emptyings'
  OBVIOUS
<1>7. /\ N \subseteq 1..(n + k)
      /\ \A m \in 1..(n + k) : m \in N <=> ledger'[m].type = "SALE" /\ LevelAfter(m)' = 0
  BY <1>1, <1>6 DEF Emptyings
<1>8. M \subseteq N
  <2> SUFFICES ASSUME NEW m \in M PROVE m \in N
    OBVIOUS
  <2>1. m \in 1..n /\ m \in 0..n /\ m \in 1..(n + k)
    BY <1>1, <1>4
  <2> QED
    BY <1>1, <1>4, <1>7, <2>1
<1>9. ASSUME NEW m \in N, m \notin M
      PROVE  /\ m \notin 1..n /\ m - n \in 1..k /\ m = n + (m - n)
             /\ s[m - n].type = "SALE" /\ LevelAfter(n + (m - n))' = 0
  <2>1. m \in 1..(n + k) /\ ledger'[m].type = "SALE" /\ LevelAfter(m)' = 0
    BY <1>7
  <2>2. m \notin 1..n
    <3>1. m \in 1..n => m \in 0..n
      BY <1>1
    <3> QED
      BY <1>1, <1>4, <1>9, <2>1, <3>1
  <2>3. m - n \in 1..k /\ m = n + (m - n)
    BY <1>2, <2>1, <2>2
  <2>4. s[m - n].type = "SALE"
    BY <1>1, <2>1, <2>3
  <2> QED
    BY <2>1, <2>2, <2>3, <2>4
<1>10. ASSUME \A i \in 1..k : s[i].type # "SALE" \/ LevelAfter(n + i)' # 0
       PROVE  N = M
  BY <1>8, <1>9, <1>10
<1>11. ASSUME k # 0, s[k].type = "SALE", LevelAfter(n + k)' = 0,
              \A i \in 1..k : i # k => LevelAfter(n + i)' # 0
       PROVE  Cardinality(N) = Cardinality(M) + 1
  <2>1. PICK a : a = n + k
    OBVIOUS
  <2>2. a \in 1..(n + k) /\ a \notin 1..n /\ k \in 1..k
    BY <1>1, <1>11, <2>1
  <2>3. a \in N /\ a \notin M
    BY <1>1, <1>4, <1>7, <1>11, <2>1, <2>2
  <2>4. \A m \in N : m \in M \/ m = a
    BY <1>9, <1>11, <2>1
  <2>5. N = M \cup {a}
    BY <1>8, <2>3, <2>4
  <2> QED
    BY <1>5, <2>3, <2>5, FS_AddElement
<1> QED
  BY <1>3, <1>5, <1>6, <1>10, <1>11

\* A sale announces that it emptied the level when it did, and only then.
LEMMA AnnouncedGrows ==
    ASSUME InventoryTypes, NEW left \in Nat, alerts' = alerts \o CheckAndEmitStockEvents(left)
    PROVE  /\ alerts' \in Seq({"OutOfStock", "LowStockDetected"})
           /\ Cardinality(Announced) \in Nat
           /\ left = 0 => Cardinality(Announced') = Cardinality(Announced) + 1
           /\ left # 0 => Cardinality(Announced') = Cardinality(Announced)
<1> DEFINE X == {"OutOfStock", "LowStockDetected"}
<1>1. PICK s \in Seq(X) : /\ s = CheckAndEmitStockEvents(left)
                          /\ Len(s) \in {0, 1}
                          /\ left = 0 => Len(s) = 1 /\ s[1] = "OutOfStock"
                          /\ left # 0 => Len(s) = 0 \/ s[1] = "LowStockDetected"
  <2>1. PICK s : s = CheckAndEmitStockEvents(left)
    OBVIOUS
  <2> DEFINE Says == /\ s \in Seq(X) /\ Len(s) \in {0, 1}
                     /\ left = 0 => Len(s) = 1 /\ s[1] = "OutOfStock"
                     /\ left # 0 => Len(s) = 0 \/ s[1] = "LowStockDetected"
  <2>2. ASSUME left = 0 PROVE Says
    <3>1. s = <<"OutOfStock">>
      BY <2>1, <2>2 DEF CheckAndEmitStockEvents
    <3> QED
      BY <2>2, <3>1
  <2>3. ASSUME left > 0, left < Minimum PROVE Says
    <3>1. s = <<"LowStockDetected">>
      BY <2>1, <2>3 DEF CheckAndEmitStockEvents
    <3> QED
      BY <2>3, <3>1
  <2>4. ASSUME left # 0, ~(left > 0 /\ left < Minimum) PROVE Says
    <3>1. s = << >>
      BY <2>1, <2>4 DEF CheckAndEmitStockEvents
    <3> QED
      BY <2>4, <3>1
  <2>5. Says
    BY <2>2, <2>3, <2>4
  <2> QED
    BY <2>1, <2>5
<1>2. PICK n \in Nat, k \in Nat : n = Len(alerts) /\ k = Len(s)
  BY <1>1 DEF InventoryTypes
<1>3. /\ k \in {0, 1}
      /\ left = 0 => k = 1 /\ s[1] = "OutOfStock"
      /\ left # 0 => k = 0 \/ s[1] = "LowStockDetected"
  BY <1>1, <1>2
<1>4. /\ DOMAIN alerts' = 1..(n + k)
      /\ \A a \in 1..n : alerts'[a] = alerts[a]
      /\ \A a \in 1..k : alerts'[n + a] = s[a]
  <2>1. alerts \in Seq(X)
    BY DEF InventoryTypes
  <2> HIDE DEF X
  <2> QED
    BY <1>1, <1>2, <2>1, SequencesJoin
<1>5. /\ alerts' \in Seq(X) /\ DOMAIN alerts = 1..n /\ DOMAIN alerts' = 1..(n + k)
      /\ \A a \in 1..n : alerts'[a] = alerts[a]
      /\ \A a \in 1..k : alerts'[n + a] = s[a]
  BY <1>1, <1>2, SequencesJoin DEF InventoryTypes
<1>6. PICK M, N : M = Announced /\ N = Announced'
  OBVIOUS
<1>7. M \subseteq 1..n /\ \A a \in 1..n : a \in M <=> alerts[a] = "OutOfStock"
  BY <1>5, <1>6 DEF Announced
<1>8. N \subseteq 1..(n + k) /\ \A a \in 1..(n + k) : a \in N <=> alerts'[a] = "OutOfStock"
  BY <1>5, <1>6 DEF Announced
<1>9. IsFiniteSet(M) /\ Cardinality(M) \in Nat
  <2>1. IsFiniteSet(1..n)
    BY FS_Interval
  <2>2. IsFiniteSet(M)
    BY <1>7, <2>1, FS_Subset
  <2> QED
    BY <2>2, FS_CardinalityType
<1>10. left = 0 => Cardinality(Announced') = Cardinality(Announced) + 1
  <2> HAVE left = 0
  <2>1. k = 1 /\ n + 1 \in 1..(n + k) /\ n + 1 \notin 1..n /\ alerts'[n + 1] = "OutOfStock"
    <3>1. k = 1 /\ s[1] = "OutOfStock" /\ 1 \in 1..k
      BY <1>3
    <3>2. alerts'[n + 1] = s[1]
      BY <1>4, <3>1
    <3>3. n + 1 \in 1..(n + k) /\ n + 1 \notin 1..n
      BY <3>1
    <3> QED
      BY <3>1, <3>2, <3>3
  <2>2. 1..(n + k) = (1..n) \cup {n + 1}
    BY <2>1
  <2>3. N = M \cup {n + 1}
    <3>1. \A a \in 1..n : a \in N <=> a \in M
      BY <1>7, <1>8, <1>4, <2>2
    <3>2. n + 1 \in N
      BY <1>8, <2>1
    <3> QED
      BY <1>7, <1>8, <2>2, <3>1, <3>2
  <2>4. n + 1 \notin M
    BY <1>7, <2>1
  <2> QED
    <3>1. Cardinality(N) = Cardinality(M) + 1
      BY <1>9, <2>3, <2>4, FS_AddElement
    <3> QED
      BY <1>6, <1>9, <3>1
<1>11. left # 0 => Cardinality(Announced') = Cardinality(Announced)
  <2> HAVE left # 0
  <2>1. ASSUME NEW a \in 1..(n + k)
        PROVE  a \in 1..n \/ (a = n + 1 /\ alerts'[a] = "LowStockDetected")
    <3>1. k \in {0, 1} /\ (k = 1 => s[1] = "LowStockDetected")
      BY <1>3
    <3>2. CASE a \notin 1..n
      <4>1. k = 1 /\ 1 \in 1..k
        BY <3>1, <3>2
      <4>2. a = n + 1
        BY <3>2, <4>1
      <4>3. alerts'[n + 1] = s[1]
        BY <1>4, <4>1
      <4> QED
        BY <3>1, <4>1, <4>3, <4>2
    <3> QED
      BY <3>2
  <2>2. \A a \in 1..n : a \in 1..(n + k)
    OBVIOUS
  <2>3. N = M
    BY <1>5, <1>7, <1>8, <2>1, <2>2
  <2> QED
    BY <1>6, <1>9, <2>3
<1>12. alerts' \in Seq({"OutOfStock", "LowStockDetected"})
  BY <1>5
<1> HIDE DEF X
<1> QED
  BY <1>6, <1>9, <1>10, <1>11, <1>12

\* How far a batch with r left may be from movements of it that are c in number and
\* amount to x.
Explains(r, x, c) == -(5 * c) <= r - x /\ r - x <= 5 * c

\* The drift of the batches, batch by batch.
LEMMA ExplanationsAre ==
    /\ LotsAreExplained
         <=> \A l \in DOMAIN lots : Explains(lots[l].remaining, Told(l), Often(l))
    /\ LotsAreExplained'
         <=> \A l \in DOMAIN lots' : Explains(lots'[l].remaining, Told(l)', Often(l)')
  BY DEF LotsAreExplained, Explains, Told, Often

\* The sales of s go on where the ledger stands, from the oldest batch that has any.
GoesOn(s) ==
    /\ \A m \in DOMAIN ledger, i \in DOMAIN s :
          ledger[m].type = "SALE" /\ s[i].type = "SALE" => ledger[m].lot <= s[i].lot
    /\ \A i, j \in DOMAIN s :
          i < j /\ s[i].type = "SALE" /\ s[j].type = "SALE" => s[i].lot <= s[j].lot
    /\ \A l \in DOMAIN lots : lots[l].remaining = 0 => lots'[l].remaining = 0
    /\ \A i \in DOMAIN s : s[i].type = "SALE" =>
          \A l \in 1..(s[i].lot - 1) : lots'[l].remaining = 0

\* Movements that go on from the older batches keep the order of the sales.
LEMMA OldestFirstKeeps ==
    ASSUME InventoryTypes, OldestFirst, NEW s \in Seq(Entry), ledger' = ledger \o s, GoesOn(s)
    PROVE  OldestFirst'
<1>1. PICK n, k : n = Len(ledger) /\ k = Len(s)
  OBVIOUS
<1>2. /\ n \in Nat /\ k \in Nat /\ DOMAIN ledger = 1..n /\ DOMAIN ledger' = 1..(n + k)
      /\ \A m \in 1..n : ledger'[m] = ledger[m]
      /\ \A i \in 1..k : ledger'[n + i] = s[i]
  BY <1>1, LedgerJoins
<1>3. /\ \A m \in 1..n, i \in 1..k :
            ledger[m].type = "SALE" /\ s[i].type = "SALE" => ledger[m].lot <= s[i].lot
      /\ \A i, j \in 1..k :
            i < j /\ s[i].type = "SALE" /\ s[j].type = "SALE" => s[i].lot <= s[j].lot
      /\ \A l \in DOMAIN lots : lots[l].remaining = 0 => lots'[l].remaining = 0
      /\ \A i \in 1..k : s[i].type = "SALE" =>
            \A l \in 1..(s[i].lot - 1) : lots'[l].remaining = 0
  <2>1. DOMAIN s = 1..k
    BY <1>1
  <2> QED
    BY <1>2, <2>1 DEF GoesOn
<1>4. \A m \in 1..(n + k) : m \in 1..n \/ \E i \in 1..k : m = n + i
  <2>1. \A m \in 1..(n + k) : m \in 1..n \/ (m - n \in 1..k /\ m = n + (m - n))
    BY <1>2
  <2> QED
    BY <2>1
<1>5. ASSUME NEW m \in 1..(n + k), NEW j \in 1..(n + k), m < j,
             ledger'[m].type = "SALE", ledger'[j].type = "SALE"
      PROVE  ledger'[m].lot <= ledger'[j].lot
  <2>1. CASE m \in 1..n /\ j \in 1..n
    BY <1>2, <1>5, <2>1 DEF OldestFirst
  <2>2. CASE m \in 1..n /\ j \notin 1..n
    <3>1. PICK i \in 1..k : j = n + i
      BY <1>4, <2>2
    <3> QED
      BY <1>2, <1>5, <1>3, <2>2, <3>1
  <2>3. CASE m \notin 1..n
    <3>1. PICK h \in 1..k : m = n + h
      BY <1>4, <2>3
    <3>2. j \notin 1..n
      BY <1>2, <1>5, <3>1
    <3>3. PICK i \in 1..k : j = n + i
      BY <1>4, <3>2
    <3>4. h < i
      BY <1>2, <1>5, <3>1, <3>3
    <3> QED
      BY <1>2, <1>5, <1>3, <3>1, <3>3, <3>4
  <2> QED
    BY <2>1, <2>2, <2>3
<1>6. ASSUME NEW m \in 1..(n + k), ledger'[m].type = "SALE",
             NEW l \in 1..(ledger'[m].lot - 1)
      PROVE  lots'[l].remaining = 0
  <2>1. CASE m \in 1..n
    <3>1. ledger[m].type = "SALE" /\ ledger'[m] = ledger[m] /\ m \in DOMAIN ledger
      BY <1>2, <1>6, <2>1
    <3>2. lots[l].remaining = 0
      BY <1>6, <3>1 DEF OldestFirst
    <3>3. l \in DOMAIN lots
      <4>1. ledger[m].lot \in 1..Len(lots) /\ Len(lots) \in Nat
        BY <3>1, LotFacts DEF InventoryTypes
      <4> QED
        BY <3>1, <4>1, LotFacts
    <3> QED
      BY <1>3, <3>2, <3>3
  <2>2. CASE m \notin 1..n
    <3>1. PICK i \in 1..k : m = n + i
      BY <1>4, <2>2
    <3> QED
      BY <1>2, <1>6, <1>3, <3>1
  <2> QED
    BY <2>1, <2>2
<1> QED
  BY <1>2, <1>5, <1>6 DEF OldestFirst

\* New deliveries worth what was paid for them keep ValueIsKept.
LEMMA ValueKeeps ==
    ASSUME InventoryTypes, InventoryTypes', ValueIsKept, NEW s \in Seq(Entry),
           ledger' = ledger \o s, NEW n, n = Len(ledger), NEW k, k = Len(s),
           \A l \in DOMAIN lots : /\ lots'[l].initial = lots[l].initial
                                  /\ lots'[l].cost = lots[l].cost,
           \A i \in 1..k : s[i].type = "PURCHASE" =>
               Worth(s[i].totalCost, lots'[s[i].lot].initial, lots'[s[i].lot].cost)
    PROVE  ValueIsKept'
<1>1. /\ n \in Nat /\ k \in Nat /\ DOMAIN ledger = 1..n /\ DOMAIN ledger' = 1..(n + k)
      /\ \A m \in 1..n : ledger'[m] = ledger[m]
      /\ \A i \in 1..k : ledger'[n + i] = s[i]
  BY LedgerJoins
<1>2. ASSUME NEW m \in 1..(n + k), ledger'[m].type = "PURCHASE"
      PROVE  Worth(ledger'[m].totalCost, lots'[ledger'[m].lot].initial,
                   lots'[ledger'[m].lot].cost)
  <2>1. CASE m \in 1..n
    <3>1. ledger'[m] = ledger[m] /\ ledger[m].lot \in DOMAIN lots
      BY <1>1, <1>2, <2>1 DEF InventoryTypes
    <3>2. Worth(ledger[m].totalCost, lots[ledger[m].lot].initial, lots[ledger[m].lot].cost)
      BY <1>1, <1>2, <2>1, <3>1, WorthOfAll
    <3> QED
      BY <3>1, <3>2
  <2>2. CASE m \notin 1..n
    <3>1. PICK i : i = m - n
      OBVIOUS
    <3>2. i \in 1..k /\ m = n + i
      BY <1>1, <2>2, <3>1
    <3> QED
      BY <1>1, <1>2, <3>2
  <2> QED
    BY <2>1, <2>2
<1>3. ASSUME NEW m \in DOMAIN ledger', ledger'[m].type = "PURCHASE", NEW line \in Received
      PROVE  2 * lots'[ledger'[m].lot].initial * lots'[ledger'[m].lot].cost
                = 2 * (lots'[ledger'[m].lot].initial * lots'[ledger'[m].lot].cost)
  <2>0. ledger'[m].lot \in DOMAIN lots' /\ lots' \in Seq(LotRow)
    BY <1>3 DEF InventoryTypes
  <2>1. PICK x \in LotRow : x = lots'[ledger'[m].lot]
    BY <2>0
  <2>2. PICK a \in Nat, b \in Nat : a = x.initial /\ b = x.cost
    BY DEF LotRow
  <2>3. 2 * a * b = 2 * (a * b)
    OBVIOUS
  <2> QED
    BY <2>1, <2>2, <2>3
<1>4. ASSUME NEW m \in DOMAIN ledger', ledger'[m].type = "PURCHASE"
      PROVE  Worth(ledger'[m].totalCost, lots'[ledger'[m].lot].initial,
                   lots'[ledger'[m].lot].cost)
  BY <1>1, <1>2, <1>4
<1> QED
  BY <1>3, <1>4 DEF ValueIsKept, Worth

-----------------------------------------------------------------------------
(* The operations *)

\* One movement more.
LEMMA OneMovement ==
    ASSUME InventoryTypes, NEW s \in Seq(Entry), ledger' = ledger \o s,
           NEW n, n = Len(ledger), NEW k, k = Len(s)
    PROVE  k = 1 =>
           /\ n \in Nat /\ ledger' \in Seq(Entry)
           /\ DOMAIN ledger = 1..n /\ DOMAIN ledger' = 1..(n + 1) /\ Len(ledger') = n + 1
           /\ \A m \in 1..n : ledger'[m] = ledger[m]
           /\ ledger'[n + 1] = s[1]
           /\ s[1].type = "PURCHASE" => Changes'[n + 1] = s[1].quantity
           /\ s[1].type = "ADJUSTMENT" => Changes'[n + 1] = 0
           /\ LevelAfter(n + 1)' = LevelAfter(n) + Changes'[n + 1]
           /\ LevelAfter(n) \in Int
<1>1. /\ n \in Nat /\ ledger' \in Seq(Entry) /\ DOMAIN s = 1..k
      /\ DOMAIN ledger = 1..n /\ DOMAIN ledger' = 1..(n + k) /\ Len(ledger') = n + k
      /\ \A m \in 1..n : ledger'[m] = ledger[m]
      /\ \A i \in 1..k : ledger'[n + i] = s[i]
  BY LedgerJoins
<1>2. \A m \in 0..n : LevelAfter(m)' = LevelAfter(m)
  BY LedgerGrows
<1>3. HAVE k = 1
<1>4. 1 \in DOMAIN s /\ 1 \in 1..k /\ n \in 0..n /\ (n + 1) - 1 = n
  BY <1>1, <1>3
<1>5. PICK m : m = n + 1 /\ m \in DOMAIN ledger' /\ m - 1 = n
  BY <1>1, <1>3, <1>4
<1>6. LevelAfter(m)' = LevelAfter(m - 1)' + Changes'[m] /\ LevelAfter(m - 1)' \in Int
  BY <1>5, LevelStep
<1>7. LevelAfter(n + 1)' = LevelAfter(n) + Changes'[n + 1] /\ LevelAfter(n) \in Int
  BY <1>2, <1>4, <1>5, <1>6
<1>8. /\ s[1].type = "PURCHASE" => Changes'[n + 1] = s[1].quantity
      /\ s[1].type = "ADJUSTMENT" => Changes'[n + 1] = 0
  BY <1>4, NewChange
<1> QED
  BY <1>1, <1>3, <1>4, <1>7, <1>8

\* A movement that is no sale empties no level.
LEMMA NoSaleEmpties ==
    ASSUME InventoryTypes, EmptyingIsAnnounced, NEW s \in Seq(Entry), ledger' = ledger \o s,
           NEW n, n = Len(ledger), NEW k, k = Len(s),
           \A i \in 1..k : s[i].type # "SALE", UNCHANGED alerts
    PROVE  EmptyingIsAnnounced'
<1>1. Cardinality(Emptyings') = Cardinality(Emptyings)
  BY EmptyingsGrow
<1>2. Announced' = Announced
  BY DEF Announced
<1>3. EmptyingIsAnnounced <=> Cardinality(Announced) = Cardinality(Emptyings)
  BY DEF EmptyingIsAnnounced, Announced, Emptyings
<1>4. EmptyingIsAnnounced' <=> Cardinality(Announced') = Cardinality(Emptyings')
  BY DEF EmptyingIsAnnounced, Announced, Emptyings
<1> QED
  BY <1>1, <1>2, <1>3, <1>4

\* A new batch is as large as what was bought, to half a thousandth.
LEMMA NewLotFacts ==
    ASSUME InventoryTypes, NEW x \in LotRow, lots' = Append(lots, x),
           NEW c, c = Len(lots)
    PROVE  /\ c \in Nat /\ lots' \in Seq(LotRow)
           /\ DOMAIN lots = 1..c /\ DOMAIN lots' = 1..(c + 1)
           /\ \A l \in 1..c : lots'[l] = lots[l]
           /\ lots'[c + 1] = x
  BY DEF InventoryTypes

\* A reception keeps the invariant.
LEMMA ReceiveGoodsKeeps ==
    ASSUME StockIInv, ReceiveGoods
    PROVE  StockIInv'
<1>1. PICK line \in Received : \E rule \in GetConversionFactor(line.unit) :
          LET bought == ConvertToBaseUnit(line, rule) IN
          /\ lots' = Append(lots, NewLot(bought))
          /\ ledger' = Append(ledger, PurchaseMovement(Len(lots) + 1, bought))
          /\ Increase(Nearest(bought.quantity.num, bought.quantity.den))
  BY DEF ReceiveGoods
<1>2. PICK rule \in GetConversionFactor(line.unit) :
          LET bought == ConvertToBaseUnit(line, rule) IN
          /\ lots' = Append(lots, NewLot(bought))
          /\ ledger' = Append(ledger, PurchaseMovement(Len(lots) + 1, bought))
          /\ Increase(Nearest(bought.quantity.num, bought.quantity.den))
  BY <1>1
<1>3. PICK bought : bought = ConvertToBaseUnit(line, rule)
  OBVIOUS
<1>4. PICK q : q = Nearest(bought.quantity.num, bought.quantity.den)
  OBVIOUS
<1>5. PICK c : c = Len(lots)
  OBVIOUS
<1>6. PICK x, lot : x = PurchaseMovement(c + 1, bought) /\ lot = NewLot(bought)
  OBVIOUS
<1>7. /\ lots' = Append(lots, lot) /\ ledger' = Append(ledger, x)
      /\ onHand' = onHand + q /\ alerts' = alerts
  BY <1>2, <1>3, <1>4, <1>5, <1>6 DEF Increase
<1>8. InventoryTypes /\ c \in Nat /\ c + 1 \in Nat
  BY <1>5 DEF StockIInv, InventoryTypes
<1>9. /\ lot \in LotRow /\ x \in Entry /\ q \in Nat
      /\ x.type = "PURCHASE" /\ x.lot = c + 1 /\ x.quantity = q
      /\ q - 5 <= lot.remaining /\ lot.remaining <= q + 5
      /\ Worth(x.totalCost, lot.initial, lot.cost)
  BY <1>3, <1>4, <1>6, <1>8, BoughtFacts
<1>10. lot \in LotRow
  BY <1>9
<1>11. x \in Entry /\ x.type = "PURCHASE" /\ x.lot = c + 1 /\ x.quantity = q
  BY <1>9
<1>12. PICK s, n, k : s = <<x>> /\ n = Len(ledger) /\ k = Len(s)
  OBVIOUS
<1>13. /\ s \in Seq(Entry) /\ ledger' = ledger \o s /\ n = Len(ledger) /\ k = Len(s)
       /\ k = 1 /\ s[1] = x
  <2>1. ledger \in Seq(Entry)
    BY <1>8 DEF InventoryTypes
  <2> QED
    BY <1>7, <1>11, <1>12, <2>1, AppendIsJoin
<1>14. s \in Seq(Entry) /\ ledger' = ledger \o s /\ n = Len(ledger) /\ k = Len(s)
  BY <1>13
<1>15. /\ DOMAIN lots = 1..c /\ DOMAIN lots' = 1..(c + 1) /\ lots' \in Seq(LotRow)
       /\ \A l \in 1..c : lots'[l] = lots[l]
       /\ lots'[c + 1] = lot
  BY <1>5, <1>7, <1>10, <1>8, NewLotFacts
<1>16. /\ n \in Nat /\ ledger' \in Seq(Entry)
       /\ DOMAIN ledger = 1..n /\ DOMAIN ledger' = 1..(n + 1) /\ Len(ledger') = n + 1
       /\ \A m \in 1..n : ledger'[m] = ledger[m]
       /\ ledger'[n + 1] = x
       /\ Changes'[n + 1] = q
       /\ LevelAfter(n + 1)' = LevelAfter(n) + Changes'[n + 1]
       /\ LevelAfter(n) \in Int
  <2>1. k = 1
    BY <1>13
  <2>2. k = 1 =>
        /\ n \in Nat /\ ledger' \in Seq(Entry)
        /\ DOMAIN ledger = 1..n /\ DOMAIN ledger' = 1..(n + 1) /\ Len(ledger') = n + 1
        /\ \A m \in 1..n : ledger'[m] = ledger[m]
        /\ ledger'[n + 1] = s[1]
        /\ s[1].type = "PURCHASE" => Changes'[n + 1] = s[1].quantity
        /\ LevelAfter(n + 1)' = LevelAfter(n) + Changes'[n + 1]
        /\ LevelAfter(n) \in Int
    BY <1>8, <1>14, OneMovement
  <2> QED
    BY <1>11, <1>13, <2>1, <2>2
<1>17. InventoryTypes'
  <2>1. onHand' \in Nat /\ alerts' \in Seq({"OutOfStock", "LowStockDetected"})
    BY <1>9, <1>7, <1>8 DEF InventoryTypes
  <2>2. ASSUME NEW m \in 1..(n + 1)
        PROVE  /\ ledger'[m].type = "ADJUSTMENT" => ledger'[m].lot = 0
               /\ ledger'[m].type # "ADJUSTMENT" => ledger'[m].lot \in DOMAIN lots'
    <3>1. CASE m = n + 1
      BY <1>8, <1>11, <1>15, <1>16, <3>1
    <3>2. CASE m \in 1..n
      <4>1. /\ ledger[m].type = "ADJUSTMENT" => ledger[m].lot = 0
            /\ ledger[m].type # "ADJUSTMENT" => ledger[m].lot \in DOMAIN lots
        BY <1>8, <1>16, <3>2 DEF InventoryTypes
      <4>2. DOMAIN lots \subseteq DOMAIN lots'
        BY <1>8, <1>15
      <4> QED
        BY <1>16, <3>2, <4>1, <4>2
    <3> QED
      BY <1>16, <3>1, <3>2
  <2> QED
    BY <1>15, <1>16, <2>1, <2>2 DEF InventoryTypes
<1>18. LevelIsExplained'
  BY <1>7, <1>13, <1>16 DEF StockIInv, LevelIsExplained
<1>19. LotsAreExplained'
  <2> SUFFICES ASSUME NEW l \in DOMAIN lots'
               PROVE  Explains(lots'[l].remaining, Told(l)', Often(l)')
    BY ExplanationsAre
  <2>1. CASE l = c + 1
    <3>1. Told(l) = 0 /\ Often(l) = 0
      <4>1. \A m \in DOMAIN ledger : ledger[m].lot = 0 \/ ledger[m].lot \in 1..c
        BY <1>8, <1>15 DEF InventoryTypes
      <4>2. \A m \in DOMAIN ledger : ledger[m].lot # l
        BY <1>8, <2>1, <4>1
      <4> QED
        BY <1>8, <4>2, ToldFacts
    <3>2. Told(l)' = Told(l) + Changes'[n + 1] /\ Often(l)' = Often(l) + 1
      <4>1. DOMAIN s = 1..k
        BY <1>14
      <4>2. IsOnly(s, 1, l)
        BY <1>11, <1>13, <2>1, <4>1 DEF IsOnly
      <4>3. Told(l)' = Told(l) + Changes'[Len(ledger) + 1] /\ Often(l)' = Often(l) + 1
        BY <1>8, <1>14, <4>2, LotMoves
      <4> QED
        BY <1>14, <4>3
    <3>3. Told(l)' = q /\ Often(l)' = 1
      BY <1>9, <1>16, <3>1, <3>2
    <3>4. lots'[l] = lot
      BY <1>15, <2>1
    <3>5. PICK r \in Nat : r = lot.remaining /\ q - 5 <= r /\ r <= q + 5
      BY <1>9 DEF LotRow
    <3>6. Explains(r, q, 1)
      BY <1>9, <3>5 DEF Explains
    <3> QED
      BY <3>3, <3>4, <3>5, <3>6
  <2>2. CASE l # c + 1
    <3>1. l \in DOMAIN lots /\ lots'[l] = lots[l]
      BY <1>8, <1>15, <2>2
    <3>2. \A j \in 1..k : s[j].lot # l
      BY <1>11, <1>13, <2>2
    <3>3. Told(l)' = Told(l) /\ Often(l)' = Often(l)
      BY <1>8, <1>14, <3>2, LotStays
    <3>4. Explains(lots[l].remaining, Told(l), Often(l))
      BY <3>1, ExplanationsAre DEF StockIInv
    <3> QED
      BY <3>1, <3>3, <3>4
  <2> QED
    BY <2>1, <2>2
<1>20. OldestFirst'
  <2>1. \A i \in 1..k : s[i].type # "SALE"
    BY <1>11, <1>13
  <2>2. \A l \in DOMAIN lots : lots[l].remaining = 0 => lots'[l].remaining = 0
    BY <1>15
  <2>3. GoesOn(s)
    <3>1. DOMAIN s = 1..k
      BY <1>14
    <3> QED
      BY <2>1, <2>2, <3>1 DEF GoesOn
  <2> QED
    BY <1>8, <1>14, <2>3, OldestFirstKeeps DEF StockIInv
<1>21. ValueIsKept'
  <2>1. \A i \in 1..k : s[i] = x /\ lots'[x.lot] = lot
    BY <1>11, <1>13, <1>15
  <2>2. \A i \in 1..k :
            Worth(s[i].totalCost, lots'[s[i].lot].initial, lots'[s[i].lot].cost)
    BY <1>9, <2>1
  <2>3. \A l \in DOMAIN lots : /\ lots'[l].initial = lots[l].initial
                               /\ lots'[l].cost = lots[l].cost
    BY <1>15
  <2> QED
    BY <1>8, <1>14, <1>17, <2>2, <2>3, ValueKeeps DEF StockIInv
<1>22. EmptyingIsAnnounced'
  <2>1. \A i \in 1..k : s[i].type # "SALE"
    BY <1>11, <1>13
  <2> QED
    BY <1>7, <1>8, <1>14, <2>1, NoSaleEmpties DEF StockIInv
<1> QED
  BY <1>17, <1>18, <1>19, <1>20, <1>21, <1>22 DEF StockIInv

\* A quote is no less than 0.
LEMMA QuoteIsNatural ==
    ASSUME InventoryTypes, NEW q \in Nat \ {0}
    PROVE  CalculateCost(q) \in Nat
<1>1. PICK T, D : T = Deductions(FindAvailable, q) /\ D = DOMAIN T
  OBVIOUS
<1>2. PICK costs : costs = [l \in D |-> T[l] * lots[l].cost]
  OBVIOUS
<1>3. IsFiniteSet(D) /\ D \subseteq DOMAIN lots /\ \A l \in D : T[l] \in Nat
  BY <1>1, DeductionFacts
<1>4. ASSUME NEW l \in D PROVE costs[l] \in Nat
  <2>1. PICK t \in Nat, c \in Nat : t = T[l] /\ c = lots[l].cost
    BY <1>3, LotFacts
  <2>2. t * c \in Nat
    OBVIOUS
  <2> QED
    BY <1>2, <2>1, <2>2
<1>5. SumFunctionOnSet(costs, D) \in Nat
  BY <1>3, <1>4, SumIsNatural
<1> QED
  BY <1>1, <1>2, <1>5, QuoteIsKept

\* An adjustment keeps the invariant.
LEMMA RegisterManualAdjustmentKeeps ==
    ASSUME StockIInv, RegisterManualAdjustment
    PROVE  StockIInv'
<1>1. PICK q, cost :
          /\ q \in Wanted /\ cost = IF HasStock(q) THEN CalculateCost(q) ELSE 0
          /\ ledger' = Append(ledger, Movement("ADJUSTMENT", 0, q, cost))
          /\ UNCHANGED <<lots, onHand, alerts>>
  BY DEF RegisterManualAdjustment, RegisterManualAdjustmentRequest
<1>2. InventoryTypes
  BY DEF StockIInv
<1>3. q \in Nat \ {0} /\ cost \in Nat
  <2>1. q \in Nat \ {0}
    BY <1>1, InventoryAssumption
  <2> QED
    BY <1>1, <1>2, <2>1, QuoteIsNatural
<1>4. PICK x : x = Movement("ADJUSTMENT", 0, q, cost)
  OBVIOUS
<1>5. x \in Entry /\ x.type = "ADJUSTMENT" /\ x.lot = 0
  <2>1. ValueScale(cost, 1) \in Nat
    BY <1>3, ValueIsNatural
  <2> QED
    BY <1>3, <1>4, <2>1 DEF Entry, Movement
<1>6. PICK s, n, k : s = <<x>> /\ n = Len(ledger) /\ k = Len(s)
  OBVIOUS
<1>7. /\ s \in Seq(Entry) /\ ledger' = ledger \o s /\ n = Len(ledger) /\ k = Len(s)
      /\ k = 1 /\ s[1] = x
  <2>1. ledger \in Seq(Entry) /\ ledger' = Append(ledger, x)
    BY <1>1, <1>2, <1>4 DEF InventoryTypes
  <2> QED
    BY <1>5, <1>6, <2>1, AppendIsJoin
<1>8. s \in Seq(Entry) /\ ledger' = ledger \o s /\ n = Len(ledger) /\ k = Len(s)
  BY <1>7
<1>9. \A i \in 1..k : s[i] = x
  BY <1>7
<1>10. /\ n \in Nat /\ ledger' \in Seq(Entry)
       /\ DOMAIN ledger = 1..n /\ DOMAIN ledger' = 1..(n + 1) /\ Len(ledger') = n + 1
       /\ \A m \in 1..n : ledger'[m] = ledger[m]
       /\ ledger'[n + 1] = x
       /\ Changes'[n + 1] = 0
       /\ LevelAfter(n + 1)' = LevelAfter(n) + Changes'[n + 1]
       /\ LevelAfter(n) \in Int
  <2>1. k = 1
    BY <1>7
  <2>2. k = 1 =>
        /\ n \in Nat /\ ledger' \in Seq(Entry)
        /\ DOMAIN ledger = 1..n /\ DOMAIN ledger' = 1..(n + 1) /\ Len(ledger') = n + 1
        /\ \A m \in 1..n : ledger'[m] = ledger[m]
        /\ ledger'[n + 1] = s[1]
        /\ s[1].type = "ADJUSTMENT" => Changes'[n + 1] = 0
        /\ LevelAfter(n + 1)' = LevelAfter(n) + Changes'[n + 1]
        /\ LevelAfter(n) \in Int
    BY <1>2, <1>8, OneMovement
  <2> QED
    BY <1>5, <1>7, <2>1, <2>2
<1>11. InventoryTypes'
  <2>1. ASSUME NEW m \in 1..(n + 1)
        PROVE  /\ ledger'[m].type = "ADJUSTMENT" => ledger'[m].lot = 0
               /\ ledger'[m].type # "ADJUSTMENT" => ledger'[m].lot \in DOMAIN lots
    <3>1. CASE m = n + 1
      BY <1>5, <1>10, <3>1
    <3>2. CASE m \in 1..n
      BY <1>2, <1>10, <3>2 DEF InventoryTypes
    <3> QED
      BY <1>10, <3>1, <3>2
  <2> QED
    BY <1>1, <1>2, <1>10, <2>1 DEF InventoryTypes
<1>12. LevelIsExplained'
  <2>1. onHand = LevelAfter(n) /\ onHand' = onHand
    BY <1>1, <1>8 DEF StockIInv, LevelIsExplained
  <2>2. onHand' = LevelAfter(n + 1)'
    BY <1>10, <2>1
  <2> QED
    BY <1>10, <2>2 DEF LevelIsExplained
<1>13. LotsAreExplained'
  <2> SUFFICES ASSUME NEW l \in DOMAIN lots'
               PROVE  Explains(lots'[l].remaining, Told(l)', Often(l)')
    BY ExplanationsAre
  <2>1. l \in DOMAIN lots /\ lots'[l] = lots[l] /\ l # 0
    BY <1>1, <1>2, LotFacts
  <2>2. \A j \in 1..k : s[j].lot # l
    BY <1>5, <1>9, <2>1
  <2>3. Told(l)' = Told(l) /\ Often(l)' = Often(l)
    BY <1>2, <1>8, <2>2, LotStays
  <2>4. Explains(lots[l].remaining, Told(l), Often(l))
    BY <2>1, ExplanationsAre DEF StockIInv
  <2> QED
    BY <2>1, <2>3, <2>4
<1>14. \A i \in 1..k : s[i].type # "SALE" /\ s[i].type # "PURCHASE"
  BY <1>5, <1>9
<1>15. OldestFirst'
  <2>1. \A l \in DOMAIN lots : lots[l].remaining = 0 => lots'[l].remaining = 0
    BY <1>1
  <2>2. GoesOn(s)
    <3>1. DOMAIN s = 1..k
      BY <1>8
    <3> QED
      BY <1>14, <2>1, <3>1 DEF GoesOn
  <2> QED
    BY <1>2, <1>8, <2>2, OldestFirstKeeps DEF StockIInv
<1>16. ValueIsKept'
  BY <1>1, <1>2, <1>8, <1>11, <1>14, ValueKeeps DEF StockIInv
<1>17. EmptyingIsAnnounced'
  BY <1>1, <1>2, <1>8, <1>14, NoSaleEmpties DEF StockIInv
<1> QED
  BY <1>11, <1>12, <1>13, <1>15, <1>16, <1>17 DEF StockIInv

\* The movements of a sale: of each batch it takes T from, the oldest first.
SaleMovements(fifo, T) ==
    [i \in DOMAIN fifo |-> Movement("SALE", fifo[i], T[fifo[i]],
                                    T[fifo[i]] * lots[fifo[i]].cost)]

\* Movements s sell T of its batches, in the order fifo.
Sells(s, fifo, T) ==
    /\ Len(s) = Cardinality(DOMAIN T)
    /\ \A i \in 1..Len(s) : /\ s[i].type = "SALE" /\ s[i].lot = fifo[i]
                            /\ s[i].quantity = T[fifo[i]]

\* The batches that are drawn on, in their order.
LEMMA OrderFacts ==
    ASSUME NEW D, IsFiniteSet(D), D \subseteq Nat, NEW fifo \in SortBatchesByFifo(D),
           NEW k, k = Cardinality(D)
    PROVE  /\ k \in Nat /\ DOMAIN fifo = 1..k
           /\ \A i \in 1..k : fifo[i] \in D /\ fifo[i] \in Nat
           /\ \A i, j \in 1..k : i < j => fifo[i] < fifo[j]
           /\ Range(fifo) = D
<1>1. k \in Nat
  BY FS_CardinalityType
<1>2. /\ fifo \in [1..k -> D] /\ Range(fifo) = D
      /\ \A i, j \in DOMAIN fifo : i < j => fifo[i] < fifo[j]
  BY DEF SortBatchesByFifo
<1>3. DOMAIN fifo = 1..k /\ \A i \in 1..k : fifo[i] \in D
  BY <1>2
<1> QED
  BY <1>1, <1>2, <1>3

\* The movements of a sale are such.
LEMMA SalesFacts ==
    ASSUME InventoryTypes, NEW q \in Nat \ {0}, NEW T, T = Deductions(FindAvailable, q),
           NEW fifo \in SortBatchesByFifo(DOMAIN T), NEW s, s = SaleMovements(fifo, T)
    PROVE  s \in Seq(Entry) /\ Sells(s, fifo, T)
<1>1. PICK D, k : D = DOMAIN T /\ k = Cardinality(D)
  OBVIOUS
<1>2. /\ D \subseteq DOMAIN lots /\ IsFiniteSet(D) /\ \A l \in D : T[l] \in Nat
  BY <1>1, DeductionFacts
<1>3. D \subseteq Nat
  BY <1>2, LotFacts
<1>4. k \in Nat /\ DOMAIN fifo = 1..k /\ \A i \in 1..k : fifo[i] \in D
  BY <1>1, <1>2, <1>3, OrderFacts
<1>5. ASSUME NEW i \in 1..k
      PROVE  /\ s[i] \in Entry /\ s[i].type = "SALE" /\ s[i].lot = fifo[i]
             /\ s[i].quantity = T[fifo[i]]
  <2>1. PICK l : l = fifo[i]
    OBVIOUS
  <2>2. PICK t \in Nat, c \in Nat : t = T[l] /\ c = lots[l].cost
    <3>1. l \in D
      BY <1>4, <2>1
    <3> QED
      BY <1>2, <3>1, LotFacts
  <2>3. s[i] = [type |-> "SALE", lot |-> l, quantity |-> t,
                totalCost |-> ValueScale(t * c, 1)]
    BY <1>4, <2>1, <2>2 DEF SaleMovements, Movement
  <2>4. l \in Nat /\ ValueScale(t * c, 1) \in Nat
    <3>1. l \in Nat
      BY <1>3, <1>4, <2>1
    <3>2. ValueScale(t * c, 1) \in Nat
      <4>1. t * c \in Nat
        BY <2>2
      <4> QED
        BY <4>1, ValueIsNatural
    <3> QED
      BY <3>1, <3>2
  <2> QED
    BY <2>1, <2>3, <2>4, <2>2 DEF Entry
<1>6. s = [i \in 1..k |-> s[i]]
  BY <1>4 DEF SaleMovements
<1>7. s \in Seq(Entry) /\ Len(s) = k
  BY <1>4, <1>5, <1>6
<1> QED
  BY <1>1, <1>5, <1>7 DEF Sells

\* The first i of the batches that are drawn on.
FirstOf(fifo, i) == {fifo[j] : j \in 1..i}

\* One batch further there is one batch more.
LEMMA FirstGrows ==
    ASSUME NEW D, IsFiniteSet(D), D \subseteq Nat, NEW fifo \in SortBatchesByFifo(D),
           NEW k, k = Cardinality(D)
    PROVE  /\ FirstOf(fifo, 0) = {} /\ FirstOf(fifo, k) = D
           /\ \A i \in 0..k : FirstOf(fifo, i) \in SUBSET D /\ IsFiniteSet(FirstOf(fifo, i))
           /\ \A i \in 1..k : /\ FirstOf(fifo, i) = FirstOf(fifo, i - 1) \cup {fifo[i]}
                              /\ fifo[i] \notin FirstOf(fifo, i - 1)
<1>1. /\ k \in Nat /\ DOMAIN fifo = 1..k
      /\ \A i \in 1..k : fifo[i] \in D /\ fifo[i] \in Nat
      /\ \A i, j \in 1..k : i < j => fifo[i] < fifo[j]
      /\ \A l \in D : \E i \in 1..k : fifo[i] = l
  <2>1. k \in Nat /\ DOMAIN fifo = 1..k
    BY OrderFacts
  <2>2. \A i \in 1..k : fifo[i] \in D /\ fifo[i] \in Nat
    BY OrderFacts
  <2>3. \A i, j \in 1..k : i < j => fifo[i] < fifo[j]
    BY OrderFacts
  <2>4. \A l \in D : \E i \in 1..k : fifo[i] = l
    <3>1. Range(fifo) = D
      BY OrderFacts
    <3> QED
      BY <2>1, <3>1 DEF Range
  <2> QED
    BY <2>1, <2>2, <2>3, <2>4
<1>2. FirstOf(fifo, 0) = {}
  BY DEF FirstOf
<1>3. FirstOf(fifo, k) = D
  BY <1>1 DEF FirstOf
<1>4. ASSUME NEW i \in 0..k
      PROVE  FirstOf(fifo, i) \in SUBSET D /\ IsFiniteSet(FirstOf(fifo, i))
  <2>1. FirstOf(fifo, i) \in SUBSET D
    BY <1>1 DEF FirstOf
  <2> QED
    BY <2>1, FS_Subset
<1>5. ASSUME NEW i \in 1..k
      PROVE  /\ FirstOf(fifo, i) = FirstOf(fifo, i - 1) \cup {fifo[i]}
             /\ fifo[i] \notin FirstOf(fifo, i - 1)
  <2>1. \A j \in 1..i : j \in 1..(i - 1) \/ j = i
    BY <1>1
  <2>2. \A j \in 1..(i - 1) : j \in 1..i /\ j \in 1..k /\ j < i
    BY <1>1
  <2>3. \A j \in 1..(i - 1) : fifo[j] # fifo[i]
    BY <1>1, <2>2
  <2>4. FirstOf(fifo, i) = FirstOf(fifo, i - 1) \cup {fifo[i]}
    BY <1>1, <2>1, <2>2 DEF FirstOf
  <2> QED
    BY <2>3, <2>4 DEF FirstOf
<1> QED
  BY <1>2, <1>3, <1>4, <1>5

\* A level that falls, batch by batch, by what is taken of it.
Falls(level, fifo, T, k) == \A i \in 1..k : level[i] = level[i - 1] - T[fifo[i]]

\* Taking T batch by batch from h, of which there is enough, leaves nothing at the
\* last batch at the earliest.
LEMMA LevelsFall ==
    ASSUME NEW D, IsFiniteSet(D), D \subseteq Nat, NEW fifo \in SortBatchesByFifo(D),
           NEW k, k = Cardinality(D), NEW T, \A l \in D : T[l] \in Nat \ {0},
           NEW h \in Nat, NEW q \in Nat \ {0}, q <= h, SumFunctionOnSet(T, D) = q,
           NEW level, level[0] = h, Falls(level, fifo, T, k)
    PROVE  /\ k \in Nat \ {0}
           /\ \A i \in 1..k : i # k => level[i] # 0
           /\ level[k] = h - q
<1>1. k \in Nat /\ \A i \in 1..k : fifo[i] \in D
  BY OrderFacts
<1>2. PICK first : first = [i \in 0..k |-> FirstOf(fifo, i)]
  OBVIOUS
<1>3. /\ first[0] = {} /\ first[k] = D
      /\ \A i \in 0..k : first[i] \in SUBSET D /\ IsFiniteSet(first[i])
  <2>1. FirstOf(fifo, 0) = {} /\ FirstOf(fifo, k) = D
    BY FirstGrows
  <2>2. \A i \in 0..k : FirstOf(fifo, i) \in SUBSET D /\ IsFiniteSet(FirstOf(fifo, i))
    BY FirstGrows
  <2>3. 0 \in 0..k /\ k \in 0..k
    BY <1>1
  <2> QED
    BY <1>2, <2>1, <2>2, <2>3
<1>4. ASSUME NEW i \in 1..k
      PROVE  first[i] = first[i - 1] \cup {fifo[i]} /\ fifo[i] \notin first[i - 1]
  <2>1. /\ FirstOf(fifo, i) = FirstOf(fifo, i - 1) \cup {fifo[i]}
        /\ fifo[i] \notin FirstOf(fifo, i - 1)
    BY FirstGrows
  <2>2. i \in 0..k /\ i - 1 \in 0..k
    BY <1>1
  <2> QED
    BY <1>2, <2>1, <2>2
<1>5. PICK taken : taken = [i \in 0..k |-> SumFunctionOnSet(T, first[i])]
  OBVIOUS
<1>6. ASSUME NEW i \in 0..k PROVE taken[i] \in Nat /\ taken[i] <= q
  <2>1. PICK S : S = first[i]
    OBVIOUS
  <2>2. S \in SUBSET D /\ IsFiniteSet(S)
    BY <1>3, <2>1
  <2>3. (\A l \in S : T[l] \in Nat) /\ (\A l \in D : T[l] \in Nat)
    BY <2>2
  <2>4. SumFunctionOnSet(T, S) \in Nat
    BY <2>2, <2>3, SumIsNatural
  <2>5. SumFunctionOnSet(T, S) <= SumFunctionOnSet(T, D)
    BY <2>2, <2>3, SumOfPart
  <2> QED
    BY <1>5, <2>1, <2>4, <2>5
<1>7. taken[0] = 0 /\ taken[k] = q
  <2>1. 0 \in 0..k /\ k \in 0..k
    BY <1>1
  <2>2. taken[0] = SumFunctionOnSet(T, {}) /\ taken[k] = SumFunctionOnSet(T, D)
    BY <1>3, <1>5, <2>1
  <2>3. SumFunctionOnSet(T, {}) = 0
    BY SumOfNothing
  <2> QED
    BY <2>2, <2>3
<1>8. ASSUME NEW i \in 1..k
      PROVE  taken[i] = taken[i - 1] + T[fifo[i]] /\ T[fifo[i]] \in Nat \ {0}
  <2>1. PICK S, l, j : S = first[j] /\ l = fifo[i] /\ j = i - 1
    OBVIOUS
  <2>2. i \in 0..k /\ j \in 0..k /\ l \in D
    BY <1>1, <2>1
  <2>3. S \in SUBSET D /\ IsFiniteSet(S)
    BY <1>3, <2>1, <2>2
  <2>4. first[i] = S \cup {l} /\ l \notin S
    BY <1>4, <2>1
  <2>5. \A m \in S \cup {l} : T[m] \in Int
    BY <2>2, <2>3
  <2>6. SumFunctionOnSet(T, S \cup {l}) = SumFunctionOnSet(T, S) + T[l]
    BY <2>3, <2>4, <2>5, SumGrows
  <2> QED
    BY <1>5, <2>1, <2>2, <2>4, <2>6
<1> DEFINE Good == {i \in Nat : i <= k => level[i] = h - taken[i]}
<1>9. 0 \in Good
  BY <1>7
<1>10. ASSUME NEW i \in Good PROVE i + 1 \in Good
  <2> SUFFICES ASSUME i + 1 <= k PROVE level[i + 1] = h - taken[i + 1]
    OBVIOUS
  <2>1. i \in Nat /\ i \in 0..k /\ i + 1 \in 1..k /\ (i + 1) - 1 = i
    BY <1>1
  <2>2. level[i] = h - taken[i] /\ taken[i] \in Nat
    BY <1>6, <2>1
  <2>3. /\ level[i + 1] = level[i] - T[fifo[i + 1]]
        /\ taken[i + 1] = taken[i] + T[fifo[i + 1]] /\ T[fifo[i + 1]] \in Nat
    BY <1>8, <2>1 DEF Falls
  <2> QED
    BY <2>2, <2>3
<1>11. \A i \in 0..k : level[i] = h - taken[i]
  <2> HIDE DEF Good
  <2>1. Good \in SUBSET Nat
    BY DEF Good
  <2>2. \A i \in Nat : i \in Good
    BY <1>9, <1>10, <2>1, NumberInduction
  <2> QED
    BY <1>1, <2>2 DEF Good
<1>12. k \in Nat \ {0}
  BY <1>1, <1>7
<1>13. ASSUME NEW i \in 1..k, i # k PROVE level[i] # 0
  <2>1. i + 1 \in 1..k /\ (i + 1) - 1 = i /\ i \in 0..k /\ i + 1 \in 0..k
    BY <1>1, <1>13
  <2>2. taken[i + 1] = taken[i] + T[fifo[i + 1]] /\ T[fifo[i + 1]] \in Nat \ {0}
    BY <1>8, <2>1
  <2>3. taken[i] \in Nat /\ taken[i + 1] <= q
    BY <1>6, <2>1
  <2>4. taken[i] < q
    BY <2>2, <2>3
  <2> QED
    BY <1>11, <2>1, <2>3, <2>4
<1>14. level[k] = h - q
  BY <1>1, <1>7, <1>11
<1> QED
  BY <1>12, <1>13, <1>14

\* The levels that the movements of a sale leave.
LevelsFrom(n, k) == [i \in 0..k |-> LevelAfter(n + i)]

\* The level falls by the movements of a sale.
LEMMA SaleMoves ==
    ASSUME InventoryTypes, NEW s \in Seq(Entry), ledger' = ledger \o s,
           NEW fifo, NEW T, Sells(s, fifo, T), NEW n, n = Len(ledger), NEW k, k = Len(s),
           NEW level, level = LevelsFrom(n, k)'
    PROVE  level[0] = LevelAfter(n) /\ Falls(level, fifo, T, k)
<1>1. /\ n \in Nat /\ k \in Nat /\ DOMAIN s = 1..k
      /\ DOMAIN ledger' = 1..(n + k)
  BY LedgerJoins
<1>2. \A m \in 0..n : LevelAfter(m)' = LevelAfter(m)
  BY LedgerGrows
<1>3. \A i \in 0..k : level[i] = LevelAfter(n + i)'
  BY DEF LevelsFrom
<1>4. level[0] = LevelAfter(n)
  <2>1. 0 \in 0..k /\ n \in 0..n /\ n + 0 = n
    BY <1>1
  <2> QED
    BY <1>2, <1>3, <2>1
<1>5. ASSUME NEW i \in 1..k PROVE level[i] = level[i - 1] - T[fifo[i]]
  <2>1. PICK m : m = n + i
    OBVIOUS
  <2>2. /\ m \in DOMAIN ledger' /\ m - 1 = n + (i - 1) /\ i \in 0..k /\ i - 1 \in 0..k
        /\ i \in DOMAIN s
    BY <1>1, <2>1
  <2>3. level[i] = LevelAfter(m)' /\ level[i - 1] = LevelAfter(m - 1)'
    BY <1>3, <2>1, <2>2
  <2>4. LevelAfter(m)' = LevelAfter(m - 1)' + Changes'[m] /\ LevelAfter(m - 1)' \in Int
    BY <2>2, LevelStep
  <2>5. s[i].type = "SALE" /\ s[i].quantity = T[fifo[i]]
    BY DEF Sells
  <2>6. Changes'[m] = -s[i].quantity /\ s[i].quantity \in Nat
    BY <1>1, <2>1, <2>2, <2>5, NewChange
  <2> QED
    BY <2>3, <2>4, <2>5, <2>6
<1> QED
  BY <1>4, <1>5 DEF Falls

\* What is taken is taken of the batches.
DrawsOn(T) ==
    lots' = [l \in DOMAIN lots |-> IF l \in DOMAIN T THEN Drawn(lots[l], T[l]) ELSE lots[l]]

\* What a sale leaves in the batches: what is taken of an older one is all it had.
LEMMA LotsDrawn ==
    ASSUME InventoryTypes, NEW q \in Nat \ {0}, NEW T, T = Deductions(FindAvailable, q),
           DrawsOn(T)
    PROVE  /\ lots' \in Seq(LotRow) /\ DOMAIN lots' = DOMAIN lots
           /\ \A l \in DOMAIN lots : l \notin DOMAIN T => lots'[l] = lots[l]
           /\ \A l \in DOMAIN T :
                 /\ lots[l].remaining - T[l] \in Nat
                 /\ lots'[l].remaining = LotScale(lots[l].remaining - T[l], 1)
           /\ \A l \in DOMAIN lots : lots[l].remaining = 0 => lots'[l].remaining = 0
           /\ \A l \in DOMAIN T, h \in DOMAIN lots : h < l => lots'[h].remaining = 0
           /\ \A l \in DOMAIN lots : /\ lots'[l].initial = lots[l].initial
                                     /\ lots'[l].cost = lots[l].cost
<1>1. PICK D, c : D = DOMAIN T /\ c = Len(lots)
  OBVIOUS
<1>2. /\ D \subseteq DOMAIN lots /\ D \subseteq FindAvailable
      /\ \A l \in D : T[l] \in Nat \ {0} /\ T[l] <= lots[l].remaining
      /\ \A l \in D, h \in FindAvailable : h < l => h \in D /\ T[h] = lots[h].remaining
  <2>1. (\A l : l \in D <=> l \in FindAvailable /\ q > Older(l)) /\ D \subseteq DOMAIN lots
    BY <1>1, DeductionFacts
  <2>2. \A l \in D : T[l] \in Nat \ {0} /\ T[l] <= lots[l].remaining
    BY <1>1, DeductionFacts
  <2>3. \A l \in D, h \in FindAvailable : h < l => h \in D /\ T[h] = lots[h].remaining
    BY <1>1, DeductionFacts
  <2> QED
    BY <2>1, <2>2, <2>3
<1>3. /\ DOMAIN lots = 1..c /\ c \in Nat
      /\ \A l \in DOMAIN lots : lots[l] \in LotRow /\ lots[l].remaining \in Nat
      /\ \A l \in DOMAIN lots : l \in FindAvailable <=> lots[l].remaining # 0
  BY <1>1, LotFacts
<1>4. DOMAIN lots' = DOMAIN lots /\ \A l \in DOMAIN lots : l \notin D => lots'[l] = lots[l]
  BY <1>1 DEF DrawsOn
<1>5. ASSUME NEW l \in D
      PROVE  /\ lots[l].remaining - T[l] \in Nat
             /\ lots'[l].remaining = LotScale(lots[l].remaining - T[l], 1)
             /\ lots'[l] \in LotRow
             /\ lots'[l].initial = lots[l].initial /\ lots'[l].cost = lots[l].cost
  <2>1. PICK x \in LotRow, t \in Nat : x = lots[l] /\ t = T[l] /\ t <= x.remaining
    BY <1>2, <1>3
  <2>2. lots'[l] = Drawn(x, t)
    BY <1>1, <1>2, <2>1 DEF DrawsOn
  <2>3. x.remaining \in Nat
    BY DEF LotRow
  <2>4. x.remaining - t \in Nat
    BY <2>1, <2>3
  <2>5. LotScale(x.remaining - t, 1) \in Nat
    BY <2>4, LotScaleBounds
  <2>6. Drawn(x, t).remaining = LotScale(x.remaining - t, 1) /\ Drawn(x, t) \in LotRow
    BY <2>5 DEF Drawn, LotRow
  <2>7. Drawn(x, t).initial = x.initial /\ Drawn(x, t).cost = x.cost
    BY DEF Drawn, LotRow
  <2> QED
    BY <2>1, <2>2, <2>4, <2>6, <2>7
<1>6. lots' \in Seq(LotRow)
  <2>1. \A l \in 1..c : lots'[l] \in LotRow
    BY <1>3, <1>4, <1>5
  <2>2. lots' = [l \in 1..c |-> lots'[l]]
    BY <1>3 DEF DrawsOn
  <2> QED
    BY <1>3, <2>1, <2>2
<1>7. \A l \in DOMAIN lots : lots[l].remaining = 0 => lots'[l].remaining = 0
  BY <1>2, <1>3, <1>4
<1>8. ASSUME NEW l \in D, NEW h \in DOMAIN lots, h < l PROVE lots'[h].remaining = 0
  <2>1. CASE h \in FindAvailable
    <3>1. h \in D /\ T[h] = lots[h].remaining
      BY <1>2, <1>8, <2>1
    <3>2. lots[h].remaining \in Nat /\ lots[h].remaining - T[h] = 0
      BY <1>3, <3>1
    <3>3. LotScale(0, 1) = 0
      BY LotScaleBounds
    <3> QED
      BY <1>5, <3>1, <3>2, <3>3
  <2>2. CASE h \notin FindAvailable
    BY <1>3, <1>7, <2>2
  <2> QED
    BY <2>1, <2>2
<1>9. \A l \in DOMAIN lots : /\ lots'[l].initial = lots[l].initial
                             /\ lots'[l].cost = lots[l].cost
  BY <1>4, <1>5
<1> QED
  BY <1>1, <1>4, <1>5, <1>6, <1>7, <1>8, <1>9

\* Half a thousandth more is what a movement may add to the distance.
LEMMA ExplanationGrows ==
    ASSUME NEW r \in Nat, NEW x \in Int, NEW c \in Nat, Explains(r, x, c),
           NEW t \in Nat, r - t \in Nat
    PROVE  Explains(LotScale(r - t, 1), x + -t, c + 1)
<1>1. PICK w \in Nat : w = r - t
  OBVIOUS
<1>2. PICK v \in Nat : v = LotScale(w, 1) /\ w - 5 <= v /\ v <= w + 5
  BY LotScaleBounds
<1> QED
  BY <1>1, <1>2 DEF Explains

\* A deduction keeps the invariant.
LEMMA DeductStockKeeps ==
    ASSUME StockIInv, DeductStock
    PROVE  StockIInv'
<1>1. PICK q \in Wanted : \E fifo \in SortBatchesByFifo(DOMAIN Deductions(FindAvailable, q)) :
          LET taken == Deductions(FindAvailable, q) IN
          /\ HasStock(q)
          /\ lots' = [l \in DOMAIN lots |-> IF l \in DOMAIN taken THEN Drawn(lots[l], taken[l])
                                            ELSE lots[l]]
          /\ ledger' = ledger \o SaleMovements(fifo, taken)
          /\ Decrease(q)
  BY DEF DeductStock, SaleMovements
<1>2. PICK T : T = Deductions(FindAvailable, q)
  OBVIOUS
<1>3. PICK fifo \in SortBatchesByFifo(DOMAIN T) :
          /\ HasStock(q) /\ DrawsOn(T)
          /\ ledger' = ledger \o SaleMovements(fifo, T)
          /\ Decrease(q)
  BY <1>1, <1>2 DEF DrawsOn
<1>4. /\ onHand >= q /\ onHand' = onHand - q
      /\ alerts' = alerts \o CheckAndEmitStockEvents(onHand - q)
  BY <1>3 DEF Decrease
<1>5. /\ InventoryTypes /\ LevelIsExplained /\ OldestFirst /\ ValueIsKept
      /\ onHand \in Nat /\ q \in Nat \ {0}
  BY InventoryAssumption DEF StockIInv, InventoryTypes
<1>6. PICK D, s, n, k :
          D = DOMAIN T /\ s = SaleMovements(fifo, T) /\ n = Len(ledger) /\ k = Len(s)
  OBVIOUS
<1>7. s \in Seq(Entry) /\ Sells(s, fifo, T)
  BY <1>2, <1>5, <1>6, SalesFacts
<1>8. s \in Seq(Entry) /\ ledger' = ledger \o s /\ n = Len(ledger) /\ k = Len(s)
  BY <1>3, <1>6, <1>7
<1>9. /\ D \subseteq DOMAIN lots /\ D \subseteq FindAvailable /\ D \subseteq Nat /\ IsFiniteSet(D)
      /\ \A l \in D : T[l] \in Nat \ {0}
      /\ SumFunctionOnSet(T, D) = q
  <2>1. /\ D \subseteq DOMAIN lots /\ D \subseteq FindAvailable /\ IsFiniteSet(D)
        /\ \A l \in D : T[l] \in Nat \ {0}
    <3>1. /\ \A l : l \in D <=> l \in FindAvailable /\ q > Older(l)
          /\ D \subseteq DOMAIN lots /\ IsFiniteSet(D)
      BY <1>2, <1>5, <1>6, DeductionFacts
    <3>2. \A l \in D : T[l] \in Nat \ {0}
      BY <1>2, <1>5, <1>6, DeductionFacts
    <3> QED
      BY <3>1, <3>2
  <2>2. SumFunctionOnSet(T, D) = q
    BY <1>2, <1>3, <1>5, <1>6, DeductionsAddUp
  <2>3. D \subseteq Nat
    BY <1>5, <2>1, LotFacts
  <2> QED
    BY <2>1, <2>2, <2>3
<1>10. fifo \in SortBatchesByFifo(D) /\ k = Cardinality(D)
  BY <1>3, <1>6, <1>7 DEF Sells
<1>11. /\ k \in Nat /\ \A i \in 1..k : fifo[i] \in D
       /\ \A i, j \in 1..k : i < j => fifo[i] < fifo[j]
       /\ Range(fifo) = D /\ DOMAIN fifo = 1..k
  BY <1>9, <1>10, OrderFacts
<1>12. \A i \in 1..k : /\ s[i].type = "SALE" /\ s[i].lot = fifo[i]
                       /\ s[i].quantity = T[fifo[i]]
  BY <1>6, <1>7 DEF Sells
<1>13. /\ lots' \in Seq(LotRow) /\ DOMAIN lots' = DOMAIN lots
       /\ \A l \in DOMAIN lots : l \notin D => lots'[l] = lots[l]
       /\ \A l \in D : /\ lots[l].remaining - T[l] \in Nat
                       /\ lots'[l].remaining = LotScale(lots[l].remaining - T[l], 1)
       /\ \A l \in DOMAIN lots : lots[l].remaining = 0 => lots'[l].remaining = 0
       /\ \A l \in D, h \in DOMAIN lots : h < l => lots'[h].remaining = 0
       /\ \A l \in DOMAIN lots : /\ lots'[l].initial = lots[l].initial
                                 /\ lots'[l].cost = lots[l].cost
  <2>1. /\ lots' \in Seq(LotRow) /\ DOMAIN lots' = DOMAIN lots
        /\ \A l \in DOMAIN lots : l \notin DOMAIN T => lots'[l] = lots[l]
        /\ \A l \in DOMAIN T : /\ lots[l].remaining - T[l] \in Nat
                               /\ lots'[l].remaining = LotScale(lots[l].remaining - T[l], 1)
        /\ \A l \in DOMAIN lots : lots[l].remaining = 0 => lots'[l].remaining = 0
        /\ \A l \in DOMAIN T, h \in DOMAIN lots : h < l => lots'[h].remaining = 0
        /\ \A l \in DOMAIN lots : /\ lots'[l].initial = lots[l].initial
                                  /\ lots'[l].cost = lots[l].cost
    BY <1>2, <1>3, <1>5, LotsDrawn
  <2> QED
    BY <1>6, <2>1
<1>14. /\ n \in Nat /\ ledger' \in Seq(Entry) /\ DOMAIN s = 1..k
       /\ DOMAIN ledger = 1..n /\ DOMAIN ledger' = 1..(n + k) /\ Len(ledger') = n + k
       /\ \A m \in 1..n : ledger'[m] = ledger[m]
       /\ \A i \in 1..k : ledger'[n + i] = s[i]
  <2>1. InventoryTypes
    BY <1>5
  <2> QED
    BY <1>8, <2>1, LedgerJoins
<1>15. /\ k \in Nat \ {0} /\ \A i \in 1..k : i # k => LevelAfter(n + i)' # 0
       /\ LevelAfter(n + k)' = onHand - q
  <2>1. PICK level : level = LevelsFrom(n, k)'
    OBVIOUS
  <2>2. level[0] = LevelAfter(n) /\ Falls(level, fifo, T, k)
    BY <1>5, <1>7, <1>8, <2>1, SaleMoves
  <2>3. level[0] = onHand
    BY <1>5, <1>8, <2>2 DEF LevelIsExplained
  <2>4. q <= onHand
    BY <1>4, <1>5
  <2>5. /\ k \in Nat \ {0} /\ \A i \in 1..k : i # k => level[i] # 0
        /\ level[k] = onHand - q
    BY <1>5, <1>9, <1>10, <2>2, <2>3, <2>4, LevelsFall
  <2>6. \A i \in 1..k : level[i] = LevelAfter(n + i)'
    <3>1. \A i \in 1..k : i \in 0..k
      BY <1>11
    <3>2. \A i \in 0..k : level[i] = LevelAfter(n + i)'
      BY <2>1 DEF LevelsFrom
    <3> QED
      BY <3>1, <3>2
  <2>7. k \in 1..k
    BY <2>5
  <2> QED
    BY <2>5, <2>6, <2>7
<1>16. onHand - q \in Nat
  BY <1>4, <1>5
<1>17. /\ alerts' \in Seq({"OutOfStock", "LowStockDetected"})
       /\ Cardinality(Announced) \in Nat
       /\ onHand - q = 0 => Cardinality(Announced') = Cardinality(Announced) + 1
       /\ onHand - q # 0 => Cardinality(Announced') = Cardinality(Announced)
  <2>1. PICK left \in Nat : left = onHand - q
    BY <1>16
  <2>2. alerts' = alerts \o CheckAndEmitStockEvents(left)
    BY <1>4, <2>1
  <2>3. /\ alerts' \in Seq({"OutOfStock", "LowStockDetected"})
        /\ Cardinality(Announced) \in Nat
        /\ left = 0 => Cardinality(Announced') = Cardinality(Announced) + 1
        /\ left # 0 => Cardinality(Announced') = Cardinality(Announced)
    BY <1>5, <2>2, AnnouncedGrows
  <2> QED
    BY <2>1, <2>3
<1>18. InventoryTypes'
  <2>1. ASSUME NEW m \in 1..(n + k)
        PROVE  /\ ledger'[m].type = "ADJUSTMENT" => ledger'[m].lot = 0
               /\ ledger'[m].type # "ADJUSTMENT" => ledger'[m].lot \in DOMAIN lots
    <3>1. CASE m \in 1..n
      BY <1>5, <1>14, <3>1 DEF InventoryTypes
    <3>2. CASE m \notin 1..n
      <4>1. PICK i : i = m - n
        OBVIOUS
      <4>2. i \in 1..k /\ m = n + i
        BY <1>11, <1>14, <3>2, <4>1
      <4>3. ledger'[m] = s[i] /\ s[i].type = "SALE" /\ s[i].lot \in D
        BY <1>11, <1>12, <1>14, <4>2
      <4> QED
        BY <1>9, <4>3
    <3> QED
      BY <3>1, <3>2
  <2>2. onHand' \in Nat
    BY <1>4, <1>16
  <2> QED
    BY <1>13, <1>14, <1>17, <2>1, <2>2 DEF InventoryTypes
<1>19. LevelIsExplained'
  BY <1>4, <1>14, <1>15 DEF LevelIsExplained
<1>20. LotsAreExplained'
  <2> SUFFICES ASSUME NEW l \in DOMAIN lots'
               PROVE  Explains(lots'[l].remaining, Told(l)', Often(l)')
    BY ExplanationsAre
  <2>1. Explains(lots[l].remaining, Told(l), Often(l)) /\ l \in DOMAIN lots
    BY <1>13, ExplanationsAre DEF StockIInv
  <2>2. CASE l \in D
    <3>1. PICK i \in 1..k : fifo[i] = l
      BY <1>11, <2>2 DEF Range
    <3>2. IsOnly(s, i, l)
      <4>1. s[i].lot = l /\ i \in DOMAIN s
        BY <1>12, <1>14, <3>1
      <4>2. ASSUME NEW j \in DOMAIN s, s[j].lot = l PROVE j = i
        <5>1. j \in 1..k /\ fifo[j] = fifo[i]
          BY <1>12, <1>14, <3>1, <4>2
        <5>2. fifo[i] \in Nat
          BY <1>9, <1>11
        <5>3. ~(j < i) /\ ~(i < j)
          BY <1>11, <5>1, <5>2
        <5> QED
          BY <5>1, <5>3
      <4> QED
        BY <4>1, <4>2 DEF IsOnly
    <3>3. Told(l)' = Told(l) + Changes'[Len(ledger) + i] /\ Often(l)' = Often(l) + 1
      BY <1>5, <1>8, <3>2, LotMoves
    <3>4. Changes'[Len(ledger) + i] = -T[l]
      <4>1. i \in DOMAIN s /\ s[i].type = "SALE" /\ s[i].quantity = T[l]
        BY <1>12, <1>14, <3>1
      <4> QED
        BY <1>5, <1>8, <4>1, NewChange
    <3>5. PICK r, x, c, t :
              r = lots[l].remaining /\ x = Told(l) /\ c = Often(l) /\ t = T[l]
      OBVIOUS
    <3>6. r \in Nat /\ x \in Int /\ c \in Nat /\ t \in Nat /\ r - t \in Nat
      <4>1. x \in Int /\ c \in Nat
        BY <1>5, <3>5, ToldFacts
      <4>2. r \in Nat
        BY <1>5, <2>1, <3>5, LotFacts
      <4>3. t \in Nat /\ r - t \in Nat
        BY <1>9, <1>13, <2>2, <3>5
      <4> QED
        BY <4>1, <4>2, <4>3
    <3>7. Explains(LotScale(r - t, 1), x + -t, c + 1)
      BY <2>1, <3>5, <3>6, ExplanationGrows
    <3>8. lots'[l].remaining = LotScale(r - t, 1)
      BY <1>13, <2>2, <3>5
    <3> QED
      BY <3>3, <3>4, <3>5, <3>7, <3>8
  <2>3. CASE l \notin D
    <3>1. \A j \in 1..k : s[j].lot # l
      BY <1>11, <1>12, <2>3
    <3>2. Told(l)' = Told(l) /\ Often(l)' = Often(l)
      BY <1>5, <1>8, <3>1, LotStays
    <3>3. lots'[l] = lots[l]
      BY <1>13, <2>1, <2>3
    <3> QED
      BY <2>1, <3>2, <3>3
  <2> QED
    BY <2>2, <2>3
<1>21. OldestFirst'
  <2>1. ASSUME NEW m \in 1..n, NEW i \in 1..k, ledger[m].type = "SALE"
        PROVE  ledger[m].lot <= s[i].lot
    <3>1. PICK l, h : l = s[i].lot /\ h = ledger[m].lot
      OBVIOUS
    <3>2. l \in D /\ l \in FindAvailable /\ l \in DOMAIN lots
      BY <1>9, <1>11, <1>12, <3>1
    <3>3. h \in DOMAIN lots
      BY <1>5, <1>14, <2>1, <3>1 DEF InventoryTypes
    <3>4. PICK c \in Nat : DOMAIN lots = 1..c
      BY <1>5, LotFacts
    <3>5. lots[l].remaining # 0
      BY <1>5, <3>2, LotFacts
    <3>6. \A g \in 1..(h - 1) : lots[g].remaining = 0
      BY <1>5, <1>14, <2>1, <3>1 DEF OldestFirst
    <3>7. h <= l
      BY <3>2, <3>3, <3>4, <3>5, <3>6
    <3> QED
      BY <3>1, <3>7
  <2>2. ASSUME NEW i \in 1..k, NEW j \in 1..k, i < j PROVE s[i].lot <= s[j].lot
    <3>1. fifo[i] < fifo[j] /\ fifo[i] \in Nat /\ fifo[j] \in Nat
      BY <1>9, <1>11, <2>2
    <3> QED
      BY <1>12, <3>1
  <2>3. ASSUME NEW i \in 1..k, NEW h \in 1..(s[i].lot - 1) PROVE lots'[h].remaining = 0
    <3>1. PICK l \in D : l = s[i].lot
      BY <1>11, <1>12
    <3>2. PICK c \in Nat : DOMAIN lots = 1..c
      BY <1>5, LotFacts
    <3>3. h \in DOMAIN lots /\ h < l
      BY <1>9, <3>1, <3>2
    <3> QED
      BY <1>13, <3>1, <3>3
  <2>4. \A l \in DOMAIN lots : lots[l].remaining = 0 => lots'[l].remaining = 0
    BY <1>13
  <2>5. GoesOn(s)
    BY <1>14, <2>1, <2>2, <2>3, <2>4 DEF GoesOn
  <2> QED
    BY <1>5, <1>8, <2>5, OldestFirstKeeps
<1>22. ValueIsKept'
  <2>1. \A i \in 1..k : s[i].type # "PURCHASE"
    BY <1>12
  <2> QED
    BY <1>5, <1>8, <1>13, <1>18, <2>1, ValueKeeps
<1>23. EmptyingIsAnnounced'
  <2>1. Cardinality(Announced) = Cardinality(Emptyings)
    BY DEF StockIInv, EmptyingIsAnnounced, Announced, Emptyings
  <2>2. s[k].type = "SALE"
    BY <1>12, <1>15
  <2>3. CASE onHand - q = 0
    <3>1. LevelAfter(n + k)' = 0
      BY <1>15, <2>3
    <3>2. Cardinality(Emptyings') = Cardinality(Emptyings) + 1
      BY <1>5, <1>8, <1>15, <2>2, <3>1, EmptyingsGrow
    <3>3. Cardinality(Announced') = Cardinality(Emptyings')
      BY <1>17, <2>1, <2>3, <3>2
    <3> QED
      BY <3>3 DEF EmptyingIsAnnounced, Announced, Emptyings
  <2>4. CASE onHand - q # 0
    <3>1. \A i \in 1..k : LevelAfter(n + i)' # 0
      BY <1>15, <2>4
    <3>2. Cardinality(Emptyings') = Cardinality(Emptyings)
      BY <1>5, <1>8, <3>1, EmptyingsGrow
    <3>3. Cardinality(Announced') = Cardinality(Emptyings')
      BY <1>17, <2>1, <2>4, <3>2
    <3> QED
      BY <3>3 DEF EmptyingIsAnnounced, Announced, Emptyings
  <2> QED
    BY <2>3, <2>4
<1> QED
  BY <1>18, <1>19, <1>20, <1>21, <1>22, <1>23 DEF StockIInv

\* An ingredient without batches, movements and alerts has books that add up.
LEMMA InventoryStart == InventoryInit => StockIInv
<1> SUFFICES ASSUME InventoryInit PROVE StockIInv
  OBVIOUS
<1>1. lots = << >> /\ onHand = 0 /\ ledger = << >> /\ alerts = << >>
  BY DEF InventoryInit
<1>2. /\ DOMAIN lots = {} /\ DOMAIN ledger = {} /\ DOMAIN alerts = {} /\ Len(ledger) = 0
  BY <1>1
<1>3. InventoryTypes
  BY <1>1, <1>2 DEF InventoryTypes
<1>4. LevelAfter(0) = 0
  <2>1. 1..0 = {}
    OBVIOUS
  <2>2. SumFunctionOnSet(Changes, 1..0) = 0
    BY <2>1, SumOfNothing
  <2> QED
    BY <2>2 DEF LevelAfter
<1>5. LevelIsExplained
  BY <1>1, <1>2, <1>4 DEF LevelIsExplained
<1>6. LotsAreExplained /\ OldestFirst /\ ValueIsKept
  BY <1>2 DEF LotsAreExplained, OldestFirst, ValueIsKept
<1>7. EmptyingIsAnnounced
  <2>1. Announced = {} /\ Emptyings = {}
    BY <1>2 DEF Announced, Emptyings
  <2>2. Cardinality(Announced) = Cardinality(Emptyings)
    BY <2>1
  <2> QED
    BY <2>2 DEF EmptyingIsAnnounced, Announced, Emptyings
<1> QED
  BY <1>3, <1>5, <1>6, <1>7 DEF StockIInv

\* Every operation keeps the invariant.
LEMMA StockStep == StockIInv /\ [InventoryNext]_inventoryVars => StockIInv'
<1> SUFFICES ASSUME StockIInv, [InventoryNext]_inventoryVars PROVE StockIInv'
  OBVIOUS
<1>1. CASE ReceiveGoods
  BY <1>1, ReceiveGoodsKeeps
<1>2. CASE DeductStock
  BY <1>2, DeductStockKeeps
<1>3. CASE RegisterManualAdjustment
  BY <1>3, RegisterManualAdjustmentKeeps
<1>4. CASE UNCHANGED inventoryVars
  <2>1. lots' = lots /\ onHand' = onHand /\ ledger' = ledger /\ alerts' = alerts
    BY <1>4 DEF inventoryVars
  <2>2. Changes' = Changes
    BY <2>1 DEF Changes
  <2>3. \A m : LevelAfter(m)' = LevelAfter(m)
    BY <2>2 DEF LevelAfter
  <2>4. \A l : MovementsOf(l)' = MovementsOf(l)
    BY <2>1 DEF MovementsOf
  <2>5. InventoryTypes'
    BY <2>1 DEF StockIInv, InventoryTypes
  <2>6. LevelIsExplained'
    BY <2>1, <2>3 DEF StockIInv, LevelIsExplained
  <2>7. LotsAreExplained'
    BY <2>1, <2>2, <2>4 DEF StockIInv, LotsAreExplained
  <2>8. OldestFirst' /\ ValueIsKept'
    BY <2>1 DEF StockIInv, OldestFirst, ValueIsKept
  <2>9. EmptyingIsAnnounced'
    BY <2>1, <2>3 DEF StockIInv, EmptyingIsAnnounced
  <2> QED
    BY <2>5, <2>6, <2>7, <2>8, <2>9 DEF StockIInv
<1> QED
  BY <1>1, <1>2, <1>3, <1>4 DEF InventoryNext

\* The inductive invariant holds in every state.
LEMMA StockInvariance == InventorySpec => []StockIInv
  BY InventoryStart, StockStep, PTL DEF InventorySpec

\* Batches, level, movements and alerts keep their types.
THEOREM InventoryTypeCorrect == InventorySpec => []InventoryTypeOK
<1>1. StockIInv => InventoryTypeOK
  <2> SUFFICES ASSUME InventoryTypes PROVE InventoryTypeOK
    BY DEF StockIInv
  <2>1. \A l \in DOMAIN lots : lots[l] \in [initial : Nat, remaining : Nat, cost : Nat]
    <3>1. \A l \in DOMAIN lots : lots[l] \in LotRow
      BY DEF InventoryTypes
    <3> QED
      BY <3>1 DEF LotRow
  <2>2. ASSUME NEW m \in DOMAIN ledger
        PROVE  /\ ledger[m].type \in {"PURCHASE", "SALE", "ADJUSTMENT"}
               /\ IF ledger[m].type = "ADJUSTMENT" THEN ledger[m].lot = 0
                  ELSE ledger[m].lot \in DOMAIN lots
               /\ ledger[m].quantity \in Nat /\ ledger[m].totalCost \in Nat
    <3>1. ledger[m] \in Entry
      BY DEF InventoryTypes
    <3>2. /\ ledger[m].type \in {"PURCHASE", "SALE", "ADJUSTMENT"}
          /\ ledger[m].quantity \in Nat /\ ledger[m].totalCost \in Nat
      BY <3>1 DEF Entry
    <3>3. /\ ledger[m].type = "ADJUSTMENT" => ledger[m].lot = 0
          /\ ledger[m].type # "ADJUSTMENT" => ledger[m].lot \in DOMAIN lots
      BY DEF InventoryTypes
    <3> QED
      BY <3>2, <3>3
  <2>3. onHand \in Nat /\ \A a \in DOMAIN alerts : alerts[a] \in {"OutOfStock", "LowStockDetected"}
    BY DEF InventoryTypes
  <2> QED
    BY <2>1, <2>2, <2>3 DEF InventoryTypeOK
<1> QED
  BY <1>1, StockInvariance, PTL

\* Level, batches and movements tell one story up to what their tables round and to the
\* adjustments, which reach neither; the oldest batch is sold first, at the cost that
\* was quoted; a delivery, in whatever unit it came, keeps its value up to a bound; and a
\* level that a sale emptied is announced.
THEOREM StockBooksStay == InventorySpec => []StockBooksAddUp
<1>1. StockIInv => QuotesAreKept
  <2> SUFFICES ASSUME StockIInv, NEW q \in Wanted, HasStock(q),
                      NEW T, T = Deductions(FindAvailable, q),
                      NEW costs, costs = [l \in DOMAIN T |-> T[l] * lots[l].cost]
               PROVE  /\ SumFunctionOnSet(T, DOMAIN T) = q
                      /\ SumFunctionOnSet(costs, DOMAIN costs) = CalculateCost(q)
    BY DEF QuotesAreKept
  <2>1. InventoryTypes /\ q \in Nat \ {0}
    BY InventoryAssumption DEF StockIInv
  <2>2. SumFunctionOnSet(T, DOMAIN T) = q
    BY <2>1, DeductionsAddUp
  <2>3. CalculateCost(q) = SumFunctionOnSet(costs, DOMAIN T)
    BY <2>1, QuoteIsKept
  <2> QED
    BY <2>2, <2>3
<1>2. StockIInv => StockBooksAddUp
  BY <1>1 DEF StockIInv, StockBooksAddUp
<1> QED
  BY <1>2, StockInvariance, PTL
===============================================================================
