# Formal verification of the sangucheria POS API

TLA+ models of the core of the point-of-sale API in `src/` (TypeScript, NestJS,
TypeORM on Postgres), model-checked with TLC on small instances and, for the
most important properties, proved with TLAPS for every instance.

Contents: 1 the system · 2 inventory · 3 modules and how they correspond to the
code · 4 runs, bounds and what they show · 5 fairness · 6 proofs · 7 where code
and documents disagree · 8 not modelled · 9 plan.

## 1. The system

A restaurant's orders, tables, kitchen, stock, purchases and invoices. Two
processes share one Postgres database:

- the **API process** (`src/src/main.ts`): HTTP controllers, and the socket.io
  gateway to which the print agent connects;
- the **worker process** (`src/src/worker.ts`): the outbox poller, nothing else.
  It listens on no port.

Each bounded context is a directory of `src/src/contexts`: aggregates in
`domain`, use cases and event subscribers in `application`, repositories and
adapters in `infrastructure`.

Three conventions decide what can interleave:

1. *Requests under `TransactionInterceptor`* run in one READ COMMITTED
   transaction, held in an `AsyncLocalStorage` that the repositories consult.
   Subscribers of category 1 run inside it, and an exception anywhere rolls it
   back. Requests without it commit every `save()` on its own.
2. *`save()` of TypeORM* is a SELECT by primary key and, when some column
   differs from the entity in memory, an UPDATE with the value in memory. There
   is no version column: the last writer wins. Only
   `findByIngredientForUpdate` (called by `ReserveStock` alone) and the poller's
   claim take a row lock while they read.
3. *Events* go to category-1 subscribers at once and are written to
   `event_store`; the worker's poller delivers rows with `dispatched_at IS NULL`
   to category-2 subscribers.

## 2. Inventory

State, operations, what is hard, what makes it correct; the modules are in
brackets.

| Component | State | Operations | What is hard | Correct when |
|---|---|---|---|---|
| Orders `orders/order` [OrderLifecycle, OrderMoney] | `orders`, `order_items`, `order_totals` | open, add/update/remove item, send to kitchen, ready, deliver, cancel item, cancel, discounts, close | long sequences of legal requests; ids of orders and items chosen by clients and `save()` that upserts; late deliveries; two requests that save one order | ended orders keep no table and no stock; a closing takes stock once; totals are those of the items and what was paid is what is due |
| Tables `restaurant/table` [OrderLifecycle, FloorRegisters] | `tables.status`, `current_order_id` | occupy, release, set status by hand, CRUD | three writers: orders, staff, CRUD | a table points to the live order that sits at it |
| Stock levels, reservations `inventory/stock-level` [OrderLifecycle, StockLocks, StockPromises, Inventory] | `inventory_levels`, `stock_reservations`, `inventory_movements` | reserve, release, consume, deduct, increase | contended last units, row locks, lost updates, recipes edited meanwhile | reserved stock is there at closing time; sends never oversell or deadlock |
| Batches, FIFO `inventory/batch` [Inventory, StockLocks] | `inventory_batches` | purchase with conversion, FIFO deduction, cost | three decimals beside four, costs per converted unit rounded to cents | level, batches and movements tell one story, at the quoted cost |
| Transformations `kitchen/transformation` [Transformations, StockLocks] | `transformations`, `preparation_recipes` | register, save recipe | a unit of work kept in a singleton, a recipe saved in three statements | all writes or none |
| Unit of work `shared/infrastructure/unit-of-work` [StockLocks, Outbox, OrderMoney, PurchaseOrders] | `AsyncLocalStorage` | begin, commit, roll back | which calls are inside | nothing of a failed request stays |
| Event bus, event store, poller `shared/infrastructure` [Outbox] | `event_store`, the router's context | publish, cascade, claim, dispatch, mark | overlapping ticks, crash between delivery and mark, rows that always fail | one row per event; at least once; once unless something failed |
| Kitchen printer `kitchen-operations/kitchen-printer` [KitchenPrinter] | `kitchen_ticket_print_jobs` | dispatch, ack, nack, reprint, lists | lost tickets and answers, concurrent saves | no ticket without paper disappears from the lists; printed means printed |
| Print agents `agent-gateway`, `agent-credential`, `pairing-code` [KitchenPrinter, AgentPairing] | connection registry, credentials, codes | connect, register, disconnect, pair, rotate, unpair | a new socket before the old one's disconnect, a code polled twice, rotation with grace | the live agent is found; a key is handed out once; rotation leaves the agent a working key |
| Stations, discovery, board `kitchen-operations` [CatalogRegisters, PrinterRegister] | stations, discovered devices | CRUD, report, list | two agents that report one printer; two edits whose columns mix | a station that prints names a printer that exists |
| Invoices `billing` [Billing] | invoices; documents at Factus | issue, retry | random id per delivery, answers after the timeout, overlapping retries | an issued invoice has a document of its own; a closed order is invoiced or can be |
| Purchase orders `procurement` [PurchaseOrders, CatalogRegisters] | orders, items, suppliers | create, update, submit, approve, reject, order, cancel items, receive, close | items saved outside the transaction; overlapping and repeated commands | no goods before approval and sending; stock is backed by what the order says |
| Products, recipes, options `menu` [Menu, CatalogRegisters, OrderLifecycle] | products, recipes, groups, images | CRUD, assign, recipe, image | four aggregates kept in step by subscribers; `save()` that mixes columns; files outside transactions | a product's deduction is well defined; assignments are the last asked |
| Ingredients, categories `inventory` [Menu, CatalogRegisters] | ingredients, levels | CRUD | the level is created by a subscriber | a level per ingredient, in its unit |
| Recipes, units `kitchen/recipe`, `shared-kernel` [CatalogRegisters, Inventory] | recipes, units | CRUD, convert | names looked up before the save | referred rows stay |
| Customers, loyalty `crm` [Customers] | customers, addresses, accounts | CRUD, default address, lifetime value on closing | old copies written back; routes that do not look whose an address is | an account each, one default address, an order counts once |
| Authentication, users, roles `iam` [Accounts, CatalogRegisters] | users, refresh tokens | register, edit, (de)activate, login, refresh, logout | a token used twice at once; login writes the whole user | revoked stays revoked; the last word on activity holds |
| Employees, positions `hr` [Accounts, CatalogRegisters] | employees | CRUD, grant access | the account and the employee are two rows | an account is held by whom it was granted to |
| Zones, floor elements `restaurant` [FloorRegisters] | rows | CRUD, move | unique names | names stay unique |
| Establishment [Establishment, OrderLifecycle] | one row of settings | initialise, edit | `save()` merges columns of overlapping edits | the settings can be read |
| Seeders, storage, queries, wiring | — | — | — | — |

Interactions: closing an order runs, in its transaction, `ReleaseTable`,
`DeductIngredients` (batches, level, movements, reservations) and
`UpdateLifetimeValueOnOrderClosed` (the customer's total), and leaves the invoice
to the poller; sending to the kitchen runs
`ReserveStock` before the commit and leaves printing to the poller; the printer
dispatcher calls the agent's socket through the registry of its own process;
stock is also moved by purchases and transformations, which ask no reservation;
receiving a purchase order publishes its items to inventory.

`PROJECT.json` lists every component with its status, and under `hazards` each
place of the code that is hard to test, with the properties about it.

## 3. Modules

### OrderLifecycle (requests, one after the other)

One action per request: use case, aggregate method, save and category-1
subscribers together, because they share a transaction. A request that throws
rolls back; its action is not enabled. `OpenOrder`, `AddOrderItem`,
`UpdateOrderItem`, `RemoveOrderItem`, `SendOrderToKitchen` (with `ReserveStock`),
`MarkOrderItemReady`, `MarkOrderItemDelivered`, `CancelOrderItem`, `CancelOrder`
(with `ReleaseTable` and `Settle`), `CloseOrder` (with `DeductIngredients`),
`ChangeTableStatus`, `RegisterPurchase`, `DeductForTransformation`, `ChangePlan`.

The variables are the columns that decide transitions: order and item statuses,
`table_id`, quantities, reservation rows, levels, table status and
`current_order_id`. A product is what orders see of it: its deduction strategy
and the units per ingredient. Money is left out but for the guard that payments
match the total, which any request can satisfy. `closings`, `deductions`,
`overwritten`, `reposted`, `drawn` and `reopened` are history, read by properties only.

Faithful details worth knowing: the id of an order comes from the client and
`save()` upserts (`RepeatedOpens`); so do the ids of items, which `addItems` does not
look for, so that a repeated POST makes a sent or cancelled item PENDING again and
leaves its reservation (`AddOrderItem`, `reposted`); ready and delivered do not consult the
order's status, so a late delivery makes a closed order READY; `ReleaseTable`
frees the order's table without looking at who sits there; a DIRECT line is
deducted with the sentinel unit `'unit'`, which no level has, so closing throws
(`ChargedDirect`). An item id belongs to one order (`OrderOf`, a bound): an id
repeated in a POST to another order is not modelled.

### StockLocks and StockPromises (requests interleaved, statement by statement)

`StockLocks` splits the stock part of requests into SQL statements: SELECT FOR
UPDATE of each level in ascending order (`LockLevel`), insert of reservations,
read of batches (`DeductBatches`), read of the level (`ReadLevel`), the SELECT
and the UPDATE of each `save()` (`SelectRow`, `UpdateRow`), `Commit`. A row has
its committed value and, while a transaction holds its lock, the value that
transaction sees. Throwing is `Fail`; Postgres' deadlock detector is
`AbortDeadlocked`.

`StockPromises` is the abstract specification of reservations: a send reserves
everything it needs in one step, within the level of that moment, or nothing.
`StockLocks` implements it under the mapping `level <- stored`
(`SendsReserveAtomically`), with reservations as committed.

### Outbox (events from publish() to their subscribers)

Path A (`InContext`): `Publish`, `DispatchEvent` (synchronous subscribers run and
their own events are queued), `drainPendingGenerations`, `Commit`, `Fail`. Path B
(no transaction): `SaveAlone`, then `WriteOutboxOnly` for each publish() call, which is a
transaction of its own, or `LoseEvents` for those that are left. The poller:
`Claim` (SKIP LOCKED, oldest first, at most `BatchSize`), `PickRow`,
`RunSubscriber`, `SubscriberThrows`, `MarkDispatched`, `CrashTick`. Ticks overlap:
`@Interval` does not wait for the previous one. Subscribers write outside the
tick's transaction, so a crash keeps their effects and loses the marks. A row's
event carries which deferred subscribers it has; payloads are left out.

### KitchenPrinter (from the dispatch to the paper)

The dispatcher (worker process) prints on network printers and stores a job for
USB ones; the agent holds a socket to the API process. `Dispatch` with its three
branches, `Reprint`, `Notify` (emit on whatever the registry of *that process*
holds), `AcknowledgePrintJob`, `ReportPrintJobFailure`, and the two halves of
their `save()`: `SelectRow` and `UpdateRow`, which writes the columns that
differ from the row it selected (`Merged`). These handlers run concurrently and
without a transaction. Sockets: `Connect`, `RegisterAgent`, `Break` (the wire's
content is lost and the server does not know), `HandleDisconnect`. The agent
(external) prints or refuses each ticket: `AgentPrints`. `Abort` stops a handler
anywhere (a failed query, the end of the process).

One agent at a time is assumed: it opens a socket after it noticed the loss of
the one before, and the server may notice later. Timestamps of jobs are left
out; a stale printer is one bit (`seen`). `Dispatch` includes the insert of the
job: a crash before it is a row the poller delivers again.

### AgentPairing (how the print agent comes by its key)

`IssuePairingCode`; `Redeem`, `FindByCode`, `FindActive`, `CommitRedemption` (one
transaction that locks nothing before it writes, so redemptions overlap); `Poll`,
`CaptureSecret` and `WipeSecret` (the SELECT and the conditional UPDATE of
`compareAndWipePendingSecret`), `AnswerPoll`; a rotation, which a message starts
and which commits statement by statement: `MaybeRotate`, `FindActive`,
`SupersedeOld`, `InsertNew`, `EmitRotated`; `Unpair`, `SaveRevoked`; `Connect`,
`HandleDisconnect`; `Abort`, `Tick`. A key is known by its credential; time is in
units that the time-to-live constants are measured in. `Authenticates` is the
verifier's query, which does not look at `activeExpiresAt`.

One agent is assumed, which polls before it connects and reads the socket it
opened last. With two machines, an old one that is still connected receives the
key that a rotation puts in the place of the new one's. The throttle per IP
address and the comparison of poll tokens are left out.

### The back office: one module per component, one run

The remaining components share no table that their models keep. Each has a
module of its own; `BackOfficeParts` puts all of them side by side, its variable
`part` chooses at the start which one a behaviour is about, and the others stay
where they start (`NoCrew`, `NoTopic`, `NoMenu`), so that in a run their states add up
instead of multiplying. `BackOfficeTypeOK` is the type invariant of the chosen
component. The choice loses nothing: `BackOfficeIsItsParts` and
`EveryPartStaysSound` (section 6). `MCBackOffice` has the instances. Within a
component a bound of the same kind (`Crews`, `Topics`, `Menus`, `Begun`) chooses
which clients are at work on which rows: two clients on one row, or one on two.

All of them are built alike: a request reads what it needs and decides
(an early return or an exception is a guard: nothing is left behind), and then
its statements run one by one, each of them visible at once unless the code has a
transaction around it. Between them anything may happen; at any of them the
request may be refused or its process end. TypeORM's `save()` is a SELECT and an
INSERT or an UPDATE of the columns that differ from what was selected; between the two
statements another request may write the row, so the columns of two requests can
end up in it. Registers, Customers, Menu, Establishment, OrderMoney, KitchenPrinter and
StockLocks have both statements (`Differing` and `ColumnsWritten` of `Tables`). In
PurchaseOrders, Accounts, Billing, Transformations and PrinterRegister a save is one
step that writes the row the use case computed: copies read long before are written all
the same, and only the mixture of columns is left out.

**PurchaseOrders.** The nine commands of the controller, and the four parts of
a save: `SaveOrderRow`, `DeleteOrphanedItems`, `UpsertItems`, `Publish` (which runs
`RegisterPurchaseOnItemReceived`), with `Abort` between any two. Only `receive`
has a transaction, and the items are not written in it, which is the first
finding below. `received` is what inventory registered for each item.

**Registers, FloorRegisters, CatalogRegisters, PrinterRegister, BackOffice.** Thirteen
tables whose rows are created, edited and deleted after a look-up: zones, floor
elements, tables, units, two kinds of categories, suppliers, recipes, stations,
positions, roles, discovered printers. `Registers` has the request (`Decide`, then
`SelectRow` and `SaveStatement`, or `DeleteStatement`, with the table's unique indexes
and foreign keys), the other modules each use case's own look-ups and rows. `blended`
remembers the rows whose last UPDATE left them other than its request wanted them.

**Customers.** Customers, addresses, loyalty accounts, and the lifetime value that
`UpdateLifetimeValueOnOrderClosed` adds to. The address routes take the customer from
the URL and the address from the URL or the body, and nothing compares the two: any
address may be removed, moved or made the default one under any customer. `misdirected`
remembers that a request named an address of another customer, `stale` that some
request wrote what had changed since it read it.

**Accounts.** A request is the list of statements it has still to issue
(`session`): registering, editing, (de)activating users; employees and the
account that is granted to them (two rows, one transaction); login, refresh (two
saves), reuse of a token (one UPDATE for all tokens of the user), logout.

**Menu.** Ingredients with the level their subscriber creates, products with
strategy, ingredient, recipe and image, option groups and their assignment. A product
is saved in two statements, `SelectMenu` and `CommitMenu`; `mingled` remembers the
products that the last UPDATE left with columns of two requests. Images are files in a storage that no transaction covers.

**Transformations.** `RegisterTransformation` computes everything and then writes
through a unit of work that is one object per process, whose field `_manager` is
whichever transaction was opened last. A statement queues on the connection of
that transaction and waits for rows other transactions wrote. Saving a preparation
recipe is three statements in none.

**Establishment.** The settings row with the SELECT and the UPDATE of its save;
of its columns the two that must fit each other.

**Billing.** One issue per delivery of OrderClosed, retries by staff, and Factus
(external, as the adapter uses it): it issues, issues and is not heard, refuses.

**OrderMoney.** Amounts in cents: items with quantity, modifiers and discount,
the order's discount, fee, tip, tax, payment, and the OrderClosed event. A repeated
POST of an item adds a second line of its id to the copy: the totals count both lines,
the table keeps one row (`Merged`), and `replaced` remembers the other. Every
request saves the order in four statements; the two routes of the order's discount
commit each of them by itself and then fail in `publish()`.

**Inventory.** The books of one ingredient in ten-thousandths of its unit:
purchases in other units, FIFO deduction, manual adjustments, movements and alerts,
one operation after the other. Overlap is `StockLocks`' subject. Conversion leaves
fractions, and every table rounds what it is given to its own scale: a batch three
decimals of its quantity and the cents of a unit's cost, level and movements four
decimals.

The `MC*` modules hold the instances, the `*_proofs` modules the theorems and their
proofs. `DataTheorems` has the lemmas about sums and sequences that several of them
cite; `Tables` what `save()` makes of a table (`WrittenOver`, `OneRow`, `ColumnsWritten`),
written as functions that the provers can expand. One proof module per component would be
the rule; the components of the back office share no variable, so two modules hold
all their proofs, `BackOffice_proofs` and `Trade_proofs`.

## 4. Runs

| Run | Module | Distinct states | Shows |
|---|---|---|---|
| `orders_service` | OrderLifecycle | 863,194 | tables, reservations and closings under every order of requests |
| `orders_stock` | OrderLifecycle | 885,812 | stock promised is there at the closing |
| `orders_deducted_twice` | OrderLifecycle | violation | reopened orders take stock twice |
| `locks_mix` | StockLocks | 6,089 | atomic sends, no deadlock of sends, every request ends |
| `locks_movements` | StockLocks | violation | a lost update of a level |
| `outbox_delivery` | Outbox | 203,936 | complete outbox, at least once, once unless a failure |
| `printer_jobs` | KitchenPrinter | 214,295 | tickets are not forgotten, printed is true, the agent is found |
| `printer_terminal` | KitchenPrinter | violation | a printed job is delivered again |
| `pairing_keys` | AgentPairing | 5,526,008 | keys are handed out once; rotation leaves the agent a working key |
| `back_office` | MCBackOffice | 950,914 | the rows of ten components agree under overlapping requests |
| `purchases_atomic` | PurchaseOrders | violation | a reception that rolls back leaves received quantities |
| `transformations_atomic` | Transformations | violation | two transformations share one transaction |

**orders_service.** Two orders, one with two items, of which one may be POSTed again at
any moment; one table that staff also make AVAILABLE by hand; one unit of one ingredient;
repeated POST /orders. `OccupiedTableHasLiveOrder`: a table's `current_order_id` is a
live dine-in order whose `table_id` is that table. `ActiveReservationHasLiveItem`: whose
stock is held, and that the two repeated requests are the only ways for it to be held
by an item the kitchen does not have. `KitchenItemKeepsItsStock`: until its order ends,
no reservation of an item the kitchen has is released or consumed.
`ClosedOrderDeductedOnce`: a closing takes each active item once.
`ReservationIsFinal`: RELEASED and CONSUMED rows never change. Orders overwritten by a
repeated POST /orders are excluded from all but the last, and items POSTed again from
`KitchenItemKeepsItsStock`; what happens to them is told in section 7. Two orders and
one table are the least in which one order's release meets the other's occupation; one
unit of stock makes the second send fail; an item that is repeated beside one that is
not shows that the repetition reaches no other. One closing per order; the second is
`orders_deducted_twice`.

**orders_stock.** Two orders with an item each, both of which may be POSTed again,
quantities 1 and 2, a recipe that takes two units and a product sold by the piece, up to
two units of stock, purchases and transformations, one edit of a plan.
`FullyReservedOrderCanClose`: a reservation suffices at closing time, whatever was sent,
edited, cancelled, repeated or closed meanwhile, as long as nobody used the ingredient
without reserving it (`drawn`). It rests on every send checking what is left and on every
settlement keeping the row's quantity; that a closing cannot do more harm is
`OverbookedOnlyByUnreservedUse`: only a use without reservation can take the level below
what is reserved.

**locks_mix.** Two sends that name three ingredients in opposite orders, a
cancellation, a closing that locks in yet another order, a transformation:
sends race for the same units, closings and sends meet at row locks, deadlocks
between closings and sends do occur and are resolved by `AbortDeadlocked`. More
requests add no new kind of conflict: every pair of kinds that share a row is
present.

**outbox_delivery.** One request in a transaction whose subscribers publish over
three generations (four rows), one on path B with two publish() calls, each with a
transaction and a time of its own, one event that always fails, two overlapping ticks of batch size two, one throw and one
crash: batches smaller than the backlog, a row whose second subscriber fails
after the first ran, and a tick that claims while the other runs. The poisoned
row occupies one of the two places of a batch; with `BatchSize` such rows
nothing else would be delivered, which is the hazard listed at
`outbox-poller.service.ts:68` and the reason the property needs fewer of them.

**printer_jobs.** One USB and one network ticket, two sockets of the agent one
after the other, three handlers at a time (symmetric), a known and an unknown
failure reason, one reprint each. Three handlers are needed for an ack that
overlaps a reprint that overlaps a nack; two sockets for a late disconnect.

**pairing_keys.** Two codes, so that the agent can be paired again; three
credentials (the agent's, a rotated one, one of an overlapping redemption), two
handlers at a time, one lost emit or aborted handler, three units of time of which
a grace period takes one. `KeyIsHandedOutOnce` excuses codes redeemed twice by
overlapping requests, which the code does not exclude. `AgentKeepsAWorkingKey`
names every way for a key to stop working that is somebody's doing (revoked,
paired anew, a lost successor, rotated before it was picked up); the run shows
that there is no other. Handlers and codes are symmetric.

**back_office.** Two clients everywhere, the least for which what one reads is
changed by the other, and per component (distinct states in brackets):

- *purchases* (@PUR): one clerk with two items, one with two units of measure,
  or two clerks with one item; amounts up to one, which is enough for an item to be
  received fully, and with two units never fully. `GoodsComeAfterApprovalAndSending`:
  no stock and no received amount before an approval and a sending, in every
  overlap. `StockIsBackedByTheOrder`: one clerk at a time, inventory never holds
  more than the order says was received, whichever statement failed.
- *registers* (@REG): each table in turn with two ids of one name, where only the
  index can refuse the second; four tables also with two names, floor elements, whose
  names nothing guards, one id under two names (`MCScope`). Stations with every pair of
  output and device. `RegistersStaySound`: names stay unique, referred rows stay, and,
  unless its last UPDATE mixed two requests, a printing station and no other has a
  printer.
- *customers* (@CUS): see `MCCircles`: two clerks at one customer's addresses, at one
  address and two customers, or at three profiles of two customers with a phone or a
  document in common; an order's total of 1. `CustomersAreConsistent`.
- *accounts* (@ACC): see `MCTopics`. `GrantedAccountsAreHeld`,
  `LastWordOnActivityHolds`, `RevokedStaysRevoked` (an action property).
- *menu* (@MEN): see `MCMenus`; a recipe saved between the two statements of an edit,
  and two edits of one product, are among them. `LevelsFollowIngredients`,
  `ProductsCanBeServed`, `AssignmentIsTheLastOneAsked`.
- *transformations* (@TRA): one additional ingredient, stock for two runs of
  the base and one of the other, so that one fails half-way. Once two commits
  have overlapped no new request begins. `TransformationsAreWhole`: unless they
  overlapped, all of a run's writes or none, and events of registered runs only.
- *establishment* (@EST): two managers, exempt and taxed types.
  `SettingsCanBeRead`.
- *billing* (@BIL): one sale, two invoices (a repeated delivery), three
  documents. `OrdersAreInvoiced`.
- *money* (@MON): an empty order with a fee, or one with a sent and a pending
  item; odd prices with 50 % and 19 %, so that halves are rounded; a fixed discount
  that exceeds an item. At most three requests (`MaxServed`): two that overlap and
  one after them. Any of the items may be POSTed again. `OrderMoneyAddsUp`.
- *inventory* (@INV): deliveries in three units: an exact one, two finer than a batch keeps, of
  which one leaves a batch of nothing, one whose cost of a unit is a third of five cents,
  and one in a unit without a conversion rule; at most five movements.
  `StockBooksAddUp`.

Several of these properties are conditional on a history variable (`disturbed`,
`blended`, `stale`, `misdirected`, `outdated`, `mingled`, `resent`, `late`, `mixed`, `crossed`,
`torn`, `orphaned`): it
names the overlap after which the code promises nothing, and the run shows that
nothing else is needed to keep the promise. What the code does after it is in
section 7. Clients, names and a pair of ids are interchangeable (symmetry; the run
has no liveness property).

`CHECK_DEADLOCK FALSE` where instances are finite: requests, jobs and rows run
out and the system stops there.

## 5. Fairness

`OrderLifecycle`, `KitchenPrinter`, `AgentPairing` and the back office state none: clients
need not ask, agents and Factus need not answer, and only safety is claimed.

`StockLocks`: weak fairness of every request's statements and of the deadlock
detector. Node resumes every request whose query returned, and Postgres grants
a lock when its holder ends and aborts one of the waiters in a circle. Weak
fairness is enough, as a lock waited for is never given away before it is free
for good: every request takes a bounded number of steps.

`Outbox`: weak fairness of each tick (claim, dispatch, mark): the interval fires
every five seconds and subscribers return or throw. There is none for requests,
throws or crashes, and their number is bounded: after the last crash a tick is
left alone, as in any period without faults.

## 6. Proofs

TLAPS proves, for every value of the constants that satisfies the assumptions of
each module (about 19,000 obligations), the properties below. Each argument is an
inductive invariant, named here; TLC checked it on small instances before it was
proved.

*DataTheorems* — what the proofs need of the library's sums over finite sets and of
the flattening of sequences. Both are recursive functions. Induction is stated over
sets, of numbers or of subsets, instead of over predicates, and follows from the
least element that a set of natural numbers has: so what is reserved, what a closing
takes and what is published can be added up in proofs.

*OrderLifecycle_proofs* — `TypeCorrect`; `ReservationsBelongToLiveItems`,
`KitchenItemsKeepTheirStock`, `ReservationsAreFinal`, `TablesHaveLiveOrders`,
`ClosingDeductsOnce`, `ReservedOrdersCanClose`, `StockIsNotPromisedTwice`,
`OnlyDisturbedOrdersDeductTwice`, `OrdersKeepPromises`.
`ActiveReservationHasLiveItem` is not inductive alone: an
item may be removed, POSTed again or overwritten with its order, so `StockInv` adds that
absent orders have no items and that items not yet sent have no reservation outside
overwritten orders unless they were POSTed again (`reposted`). `ClosedOrderDeductedOnce` needs `DeductionInv`: an order
never closed has deducted nothing, and a CLOSED one was closed at least once. For
tables the property and the types are inductive together, because every ending of
an order empties its own table. `ReservedOrdersCanClose` and
`StockIsNotPromisedTwice` are about sums: what an order takes at
its closing is, item by item, part of what is reserved; and one lemma for each
operation says how it moves the reserved sum against the level: as long as an ingredient
is not in `drawn`, what is reserved of it is there. Sends check that
sum, settling rows only lowers it, a closing of holders lowers both by the same.
From these lemmas follows `OrdersKeepPromises`: with the sum for `reserved`, every
behaviour of `OrderLifecycle` is one of `StockPromises`, the specification that
`StockLocks` implements statement by statement. `OnlyDisturbedOrdersDeductTwice`
(`OnceInv`: an item is deducted at closings of its order only, and an order that was
neither made READY after its end nor replaced closes once, for good) states, without
looking at the order's status, in which orders alone stock can be taken twice.

*StockLocks_proofs* — `SendsAreAtomic`: every behaviour of `StockLocks` is one of
`StockPromises`. The invariant `LockInv` says what a send that has not yet
committed is entitled to: for every ingredient it has checked it holds the row's
lock, so neither the level nor, because sends lock what they reserve, the
reserved sum can have moved against it; and a send never saves a level. The step
that matters is `Commit`, which maps to `Reserve`; all others stutter or move
levels. `SendsNeverDeadlock`: locks a send holds are below those it still has to
take (`AscendInv`), so in a circle of waiting sends the one that waits for the
least row cannot be waited for below it. `StockStaysNatural` (the type invariant, in
which levels and batches are natural numbers): FIFO gives a batch no more than it
holds, and a request saves only values that it computed so (`ValueTypes`).
`SoleWritersLoseNothing`: level and movements of an ingredient agree as long as one
request at most writes that level. `BooksInv` says of that request what it sees of
the level, which is what its lines before the current one made of it (`Ledger`), and
of every request that it saves levels of its own lines only (`SavesItsLines`); a
commit then books exactly what the request saw. Other requests may lock the level,
and write any other row, at any moment: `OthersAreLeftAlone`, one lemma for every
statement, is the isolation that the rows' locks give.

*KitchenPrinter_proofs* — `TypeCorrect`; `PrintedAreOnPaper` from `PaperInv`,
which follows "printed" backwards: a row, a handler's copy of a row, and a
print-ack on the wire all have their paper. `TicketsAreListed` from
`DispatchedAreStored` and the types; `RegisteredAgentsAreFound` from
`RegistryInv`: at most one socket is live. `PrintedIsTerminalForLoneHandlers`: if
no two handlers work on a job at once, whoever works on a printed job holds a
printed copy (`CopiesFollowPrinted`), so no save takes "printed" back. The hypothesis
is about the whole behaviour (`[]OneHandlerPerJob`) and is what a lock taken with the
SELECT would bring about.

*Outbox_proofs* — `OutboxTypesCorrect`; `MarkedMeansDelivered` and
`NoRepetitionWithoutFailure`, from the claims. The rows that ticks have claimed are
disjoint and none of them is marked; a tick at its *n*-th subscriber knows that the
first *n* have run on its current row, so that the mark at the end of the row finds
all of them done; and whenever a subscriber has seen a row, either the row is
marked, or an attempt at it failed, or exactly the tick that holds it has passed
that subscriber, so that no other can repeat it. Assumed: an event's subscribers
are registered once each. `OutboxIsAlwaysComplete` from `BalanceInv`: of every event,
the rows written, those of the generation being dispatched and those queued behind it
are together as many as the calls so far published and the cascades of the rows
already dispatched; at the commit nothing is left to be written.

*AgentPairing_proofs* — `PairingTypesCorrect`; `AgentNeverLosesItsKey` from
`PairingInv`; `KeysAreHandedOutOnce` from that and `OnceInv`. A key that the agent
holds or a poll has read is *usable*: it is not superseded, or its successor has
gone astray, or a rotation within its grace period still owes the agent the
successor. That is preserved because keys on their way never meet: the secret of a
row is on that row only and not in the agent's hands, a key about to be sent is on
no row and in no poll, and no poll is left once the agent has a socket. With one
redemption for each code a secret is on its row, in the one poll that wiped it, or
with the agent, hence handed out once. The attempts are bounded by counting the
redemptions under way with them. Assumed: the limit is positive and handlers are
finitely many.

*BackOffice_proofs* — five components of the back office, each with its part of the
module, and at the end the back office as a whole.

- Registers: `RegistersTypeCorrect`, `RegistersAreSound`, from `RegistersIInv`. The
  rows are sound because the unique indexes and foreign keys are checked when a
  statement runs, whatever the request saw before and whichever columns it writes; what
  no index guards, a station's printer, is said of the rows that are about to be saved,
  and of the saved ones that are as their request wanted them.
- Menu: `MenuTypeCorrect`, `MenuLevelsFollow`, `MenuProductsAreServed`,
  `MenuAssignmentsLast`, from `MenuIInv`. What a product deducts is said of every row
  that a request is about to save, and so of every saved row that is one; only the
  foreign key is checked of what an UPDATE mixed. Images are what needs the strengthening: a
  new image is in the storage and on nobody else's row or desk, a kept one was read
  from the row, and one that is missing from the storage is about to be replaced by
  the request that took it away.
- Accounts: `RevocationIsFinal` from `TokenInv`: every row still to be written is
  revoked already, or is the first of its token, so that a late write repeats a
  revocation or creates a token and never undoes one. `AccountsTypeCorrect`,
  `AccountsAreHeld`, `AccountsLastWord` from `AccountsIInv`, whose `StatementsFit`
  says of each statement on a desk that it tells whether the user is active or
  leaves that as it was read, and grants an account only to an employee that was
  read without one.
- Establishment: `SettingsTypeCorrect`; `SettingsStayReadable` from `SettingsInv`:
  the rows have distinct ids, so that a save updates the row it selected, and the
  copy of every request at work fits by itself. Then a save that wrote over what it
  had selected leaves its own copy, which fits; any other one sets `crossed`.
- OrderMoney: `MoneyTypeCorrect` (no amount is negative), `OrderMoneyStaysOne`, from
  `MoneyIInv`: while nothing is torn, the row was priced from the items that are
  stored and of the lines that the last save replaced, or a request is between its
  statements, whose row is the copy it saves; every copy is priced from its own items and
  the lines whose ids it repeats, which are those of the items it read; and a copy that closes is paid and carries
  the event of its own amounts. Below that are the lemmas on rounding: a rounded
  quotient is within half a unit of the quotient, so no percentage exceeds its base
  and no base its price, and the shares of the tax that the items of the event bear,
  each rounded for itself, come to the tax of the order but for half a cent each.

- The whole: `BackOfficeIsItsParts` (a behaviour of `BackOfficeParts` is one of each
  component, by step simulation: every step of the whole is one of the chosen
  component and stutters in the others); `BackOfficeTypesCorrect`;
  `EveryPartStaysSound`, that all invariants of the ten components hold together in
  every behaviour that is one of each, those too in which requests to different
  components mix; `BackOfficeIsSound` for `BackSpec`, from the two.

*Trade_proofs* — the components about goods and customers, likewise.

- PurchaseOrders: `PurchasesTypeCorrect`; `NoGoodsBeforeApproval` from `GoodsInv`.
  The property speaks of what is committed, but a request may commit a copy it read
  long before; so the invariant says of every copy on a desk what it says of the
  row: the milestones of its status are behind it, its own excepted, and a copy or a
  delivery with goods has all of them behind it. Nothing ever takes a milestone
  back, so a stale copy, a repeated creation or an abort preserves it.
  `StockIsBacked` from `StockInv`: as long as nothing overlapped or was aborted
  (`disturbed`, part of the property), one clerk at most is at work, and his copy
  accounts for what inventory has and what he is about to register.
- Transformations: `TransformationsStayWhole` from `TransformationsInv`. As long as
  no unit of work was opened while another was open (`mixed`), one transaction at a
  time is open, the manager is its own, and what it wrote over the committed rows is
  what those of its statements say that were run (`Wrote`): the deductions for the
  statements no longer in `todo`, the record if it was written. At the commit `todo`
  is empty, so the whole transformation is committed. `TransformationsTypeCorrect`
  from `TypesInv`, overlapping commits included: whoever's transaction a statement
  lands in, it is one that is open, and no client has two statements under way; and
  what a statement writes is not negative, because the quantity it takes was compared
  with what had been read for it, whatever the row has become since.
- Billing: `BillingTypeCorrect`; `BillingOrdersAreInvoiced` from `BillingIInv`. A
  document is named by one invoice, or by the answer on its way to one; the rows
  and the copies that billers work on agree on their order; an id made up by a
  delivery is nobody else's until it is saved; and a delivery marks its event only
  for an invoice that is issued, can be retried, or is being retried.
- Customers: `CustomersTypeCorrect`; `CustomersStayConsistent` from `CustomersIInv`.
  Every request on a desk makes sense for what it read: with a default address that
  was among the addresses it leaves one that is, unless it names another customer's, and
  what it adds to the lifetime value was spent; without a stale write or a misdirected
  request that carries over to the row. An UPDATE of the columns that differ from the
  selected row leaves, when nothing changed in between, the row the request computed.
- Inventory: `InventoryTypeCorrect`; `StockBooksStay` from `StockIInv`. The level is
  the sum of purchases and sales, each with its sign. A batch keeps three decimals, so each
  movement may leave it half a thousandth away from what its movements say: the
  distance is bounded by five ten-thousandths for each of them, which a purchase, a
  sale and a rounding preserve. What a delivery cost survives in its movement to half a
  ten-thousandth, and in its batch, quantity times cost of a unit, to the product of two
  roundings, because a quotient and its rounding are within half a unit. A sale takes from a batch only when it took all that
  the older ones had, by induction over the batches, and so do the costs it is quoted
  and charged. The level falls strictly within a sale: only its last movement can
  empty it, and that one is what the alert is about.

Assumed of the constants, beyond what their types say: items, batches,
additional ingredients and the items an order begins with are finitely many (else a
sum over them means nothing), and the values that stand for "none" (`NoDocument`,
`NoAddress`, `NoUser`, `NoDocumentYet`, `Unset`, `NoDiscount`, `NotPaid`) are not
among those they are told apart from: in the code these are `null`.

So every invariant and every action property that a passing run checks is a theorem.
What is left to TLC alone is everything temporal beyond `[]` (`EveryRequestEnds`,
`PendingRowsAreDelivered`): liveness under fairness and ENABLED are not within the
prover's reach. That a state is reachable is not proved either: the runs that expect
a violation exhibit it. What is proved of them is the other half, that there is no
other way to it: section 7 names the theorem beside each.

## 7. Where code and documents disagree

Each of these is a run that finds the violation; `PROJECT.json` quotes the
sentence.

- `orders_deducted_twice`: an order can be closed with items in READY; delivering
  the last one makes the closed order READY, and a second closing deducts the
  items' plans although their reservations were consumed. It takes that, or a
  repeated POST of the order: `OnlyDisturbedOrdersDeductTwice`.
- `locks_movements`: a purchase and a closing both read the level; one update is
  lost while both movements stay. It takes two requests that write one level:
  `SoleWritersLoseNothing`.
- `printer_terminal`: a print-ack saved between a reprint's read and its save is
  overwritten: printed becomes delivered. It takes two handlers at one job:
  `PrintedIsTerminalForLoneHandlers`.
- `purchases_atomic`: the repository of purchase orders writes the items with a
  repository of its own that never joins the request's transaction
  (`typeorm-purchase-order.repository.ts:38`): a reception that rolls back leaves
  its quantities, and receiving again counts them twice. Where nothing overlapped,
  failed halfway or was sent again, stock and order agree: `StockIsBacked`.
- `transformations_atomic`: of two transformations that overlap, each writes
  through whichever transaction was opened last
  (`typeorm-transformation-unit-of-work.ts:49`); a part of one is committed with the
  other, or both wait for each other for ever, as no lock timeout is set. As long as
  no two overlapped, all are whole: `TransformationsStayWhole`.

### Divergences

Met while modelling. The models do what the code does; no run is spent on them.

Documents, comments and code:

- Events with subscribers of both categories: a row counts as dispatched as soon as
  one synchronous subscriber ran, so OrderClosed never reaches the invoice
  subscriber, nor OrderSentToKitchen the printer dispatcher;
  `event-bus-uow-outbox-context.md:58` promises that the poller delivers them.
  `DeferredSubscribersRun` (Outbox) states the promise; with the subscribers as
  registered (`MCOutbox`) it does not hold. `KitchenPrinter` and `Billing` start where
  the subscriber would be called and say what holds when it is.
- POST /orders with an existing id wipes the items; their ACTIVE reservations stay,
  also after the order is closed (`open-order.ts:38`), while
  `stock-reservation.ts:24` says that closing consumes them. POST /orders/:id/items does
  the same to one item: sent, POSTed again and deleted, it leaves an ACTIVE reservation
  that no closing and no cancellation finds (`order.ts:178`).
  `ClosedOrderHoldsNoStock` (OrderLifecycle) states it.
- The agent's credential: `agent-credential.ts:119-121` says when a key expires; the
  query that authenticates (`typeorm-agent-credential.repository.ts:66`) never looks
  at `activeExpiresAt`.
- Inventory: a manual adjustment records a movement and publishes an event that nobody
  listens to, so that no level ever changes, although `register-manual-adjustment.ts:24-25`
  and `INVENTORY-LEVEL-UPDATE-STRATEGY.md:427` say that a subscriber updates it.
  `StockBooksAddUp` counts adjustments as what they do, which is nothing.
- Order money: the comment of `close()` on the items' tax describes another
  computation than the code's; `taxInclusive` is ignored; the amounts of splits are
  never compared with the total; the customer's document is never passed to the
  billing.
- Purchases: the document of `cancel-purchase-order-items` is not what the code
  does; a POST with an existing id puts the order back to DRAFT.

Behaviour that no document excludes:

- Orders: a repeated POST of an item (`order.ts:169-193`) makes a cancelled item, or one
  the kitchen already has, PENDING again; until the next save the totals count both the
  new line and the one it replaced. Its reservation row stays, ACTIVE or RELEASED, and the
  unique index refuses the next send of the item as long as its plan asks for that
  ingredient.
- Order money: the two routes of the order's discount (`order.controller.ts:197-216`)
  run without `TransactionInterceptor`; overlapping saves mix the columns of two
  orders' totals.
- Customers: the address routes never compare the customer of the URL with the
  address's (`remove-address.ts:18-36`, `set-default-address.ts:16-25`), and POST saves an
  address id that comes with the request (`add-address.ts:31-41`): a customer may be left
  with a default address that is gone, or another customer's.
- `save()`: two edits of a station whose statements alternate may leave a kds station
  with a printer or a printing one without (`typeorm-station.repository.ts:26`, outside
  any transaction); a recipe saved while its product is edited may leave a RECIPE product
  with an ingredient (`on-product-recipe-saved-update-strategy.ts:15`).
- Billing: `UpdateBillingConfigRequest` has no validator decorators although unknown
  properties are stripped, so the billing cannot be configured over HTTP; every
  delivery makes an invoice of its own; a timeout after Factus accepted, and retries
  that overlap, make a second document; a process that ends after the first save
  leaves an invoice PENDING that cannot be retried.
- Establishment: two initialisations may both find no row; an UPDATE that follows
  another one's may leave a rate that does not fit the type, after which no request
  can read the settings; edits are lost.
- Purchases: order numbers are `count() + 1`; `close` accepts items that are still
  pending; a reception that reports all items as not received and asks to close the
  order throws, as cancelling the last item closed it already.
- Transformations: a recipe is saved in three statements outside a transaction;
  events are published after the commit; a request that is sent again deducts again.
- Inventory: batches keep three decimals and levels four, so the two drift apart; the
  cost of a unit is rounded to a cent (`inventory-batch.entity.ts:55-60`), whatever unit a
  delivery is converted to; a delivery of less than half a thousandth makes a batch of
  nothing and still raises the level; `setThresholds`, `AddProducedStock`,
  `UpdateInventoryLevel` and `CreatePurchaseMovement` have no caller.
- Printing: a network ticket that fails is swallowed and leaves no job; the
  dispatcher runs in the worker process, whose registry never has an agent; a
  print-ack for a failed job leaves its failure reason; a job of a stale network
  printer is reprinted to the agent.
- Discovery and pairing: two agents that report one printer may both insert it; a
  report writes the whole row back; overlapping redemptions of one code issue two
  credentials; a rotation writes its copy over a revocation.
- Customers, accounts, menu, registers: documents of customers are not unique; a
  login writes back a user who was deactivated meanwhile; two refreshes with one token
  both succeed; a process that ends between the two saves of a refresh leaves the
  user without a token; POST /employees with an existing id drops the account; the
  unit of an ingredient cannot be changed by its update; images are deleted before
  the row is saved; overlapping assignments of option groups unite; `save()` brings a
  deleted row back; editing a table writes its occupation back.
- `event_store` has no unique index on aggregate and version; the router's
  generation counter is never reset within a request.

## 8. Not modelled

- splits of an order, order numbers, prices and costs of transformations: they are
  recorded and decide nothing;
- columns that no transition reads (texts, sizes, dates), which saves carry along;
- queries, criteria, DTOs, layout of tickets, storage, seeders, migrations,
  configuration: pure I/O and wiring;
- the last bits of floating point: amounts and quantities are integers of their
  column's resolution;
- requests of different components that overlap on one table, except where
  StockLocks, OrderLifecycle and KitchenPrinter do it: closings with purchases,
  transformations and sends; orders with staff at tables;
- event-sourced rebuilding of aggregates (`loadHistory`), which no use case calls;
- passwords, permissions, throttles and the comparison of poll tokens.

## 9. Plan

Done: the modules above. What could follow, most useful first:

1. overlapping deliveries composed: Billing started by Outbox instead of by an
   arbitrary repetition of its event;
2. Inventory's operations statement by statement, joined with StockLocks.
