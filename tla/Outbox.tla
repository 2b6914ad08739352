------------------------------- MODULE Outbox -------------------------------
(***************************************************************************)
(* Domain events from publish() to their subscribers.                      *)
(*                                                                         *)
(* Category-1 (synchronous) subscribers run inside the publishing          *)
(* request's transaction, and what they publish is queued and dispatched   *)
(* generation by generation.  Every event also becomes a row of            *)
(* event_store in that transaction; the rows with dispatched_at = NULL are *)
(* claimed by the ticks of the poller, which runs in a process of its own, *)
(* and handed to the category-2 (deferred) subscribers.  Ticks start every *)
(* five seconds, whether or not the one before has ended.                  *)
(***************************************************************************)
EXTENDS Naturals, Sequences, FiniteSets, Functions, SequencesExt

CONSTANTS
    Events,         \* event names
    Synchronous,    \* the events with a category-1 subscriber
    Cascade,        \* per event: what its category-1 subscribers publish
    Deferred,       \* per event: its category-2 subscribers, in order
    Requests,
    Calls,          \* per request: the events of each of its publish() calls
    InContext,      \* the requests under TransactionInterceptor
    Broken,         \* <<event, subscriber>> that throw at every attempt
    Ticks,          \* ticks of the poller that can overlap
    NoRow,
    BatchSize,      \* CLAIM_BATCH_SIZE
    MaxDepth,       \* MAX_CASCADE_DEPTH
    MaxRows,        \* bound: rows of one request
    MaxThrows,      \* bound: throws of subscribers that are not broken
    MaxCrashes      \* bound: crashes of the worker, lost connections

Subscribers == UNION {Range(Deferred[e]) : e \in Events}
Rows == Requests \X (1..MaxRows)

ASSUME OutboxAssumption ==
    /\ Synchronous \subseteq Events
    /\ Cascade \in [Events -> Seq(Events)]
    /\ Deferred \in [Events -> Seq(Subscribers)]
    /\ \A e \in Events : IsInjective(Deferred[e])
    /\ Calls \in [Requests -> Seq(Seq(Events))]
    /\ InContext \subseteq Requests
    /\ Broken \subseteq Events \X Subscribers
    /\ NoRow \notin Rows
    /\ {BatchSize, MaxDepth, MaxRows} \subseteq Nat \ {0}
    /\ {MaxThrows, MaxCrashes} \subseteq Nat

VARIABLES
    stage,      \* idle, saved (aggregate only), running, committed, failed or lost
    clock,      \* how many transactions have begun
    began,      \* when the transaction of each request did
    call,       \* the publish() call the request is in
    generation, \* the events it still has to dispatch
    pending,    \* context.pending
    depth,      \* context.depth
    written,    \* the rows it inserted: [event, audit, createdAt]
    dispatched, \* committed: the rows the poller marked
    claimed,    \* per tick: the rows its transaction has locked
    rest,       \* per tick: those it still has to dispatch
    current,    \* per tick: the row whose subscribers it is running
    count,      \* per tick: how many of them have run
    succeeded,  \* per tick: dispatchedIds
    reached,    \* history: <<row, subscriber>> that ran to the end
    repeated,   \* history: ... more than once
    failed,     \* history: rows whose dispatch did not come to its end
    faults      \* how many throws and crashes there were

requestVars == <<stage, clock, began, call, generation, pending, depth, written>>
tickVars == <<claimed, rest, current, count, succeeded>>
history == <<reached, repeated, failed>>
vars == <<requestVars, dispatched, tickVars, history, faults>>

Init ==
    /\ stage = [r \in Requests |-> "idle"]
    /\ clock = 0
    /\ began = [r \in Requests |-> 0]
    /\ call = [r \in Requests |-> 0]
    /\ generation = [r \in Requests |-> <<>>]
    /\ pending = [r \in Requests |-> <<>>]
    /\ depth = [r \in Requests |-> 0]
    /\ written = [r \in Requests |-> <<>>]
    /\ dispatched = {}
    /\ claimed = [t \in Ticks |-> {}]
    /\ rest = [t \in Ticks |-> {}]
    /\ current = [t \in Ticks |-> NoRow]
    /\ count = [t \in Ticks |-> 0]
    /\ succeeded = [t \in Ticks |-> {}]
    /\ reached = {}
    /\ repeated = {}
    /\ failed = {}
    /\ faults = [throws |-> 0, crashes |-> 0]

-----------------------------------------------------------------------------
(* The router, inside the request's transaction (path A) *)

\* now() is one and the same throughout a transaction.
BeginTransaction(r) ==
    /\ clock' = clock + 1
    /\ began' = [began EXCEPT ![r] = clock + 1]

Begin(r) ==
    /\ stage[r] = "idle" /\ r \in InContext
    /\ stage' = [stage EXCEPT ![r] = "running"]
    /\ BeginTransaction(r)
    /\ UNCHANGED <<call, generation, pending, depth, written, dispatched, tickVars,
                   history, faults>>

Drained(r) == generation[r] = <<>> /\ pending[r] = <<>>

\* The next publish() call of the use case.  context.depth is not reset.
Publish(r) ==
    /\ stage[r] = "running" /\ Drained(r)
    /\ call[r] < Len(Calls[r])
    /\ call' = [call EXCEPT ![r] = @ + 1]
    /\ generation' = [generation EXCEPT ![r] = Calls[r][call[r] + 1]]
    /\ UNCHANGED <<stage, clock, began, pending, depth, written, dispatched, tickVars,
                   history, faults>>

toOutboxRow(e, wasSynchronouslyDispatched, at) ==
    [event |-> e, audit |-> wasSynchronouslyDispatched, createdAt |-> at]

\* Faulty variant: nested events are dispatched only from the first subscriber
\* generation, those of later ones are dropped.
DispatchEventOnce(r) ==
    /\ stage[r] = "running" /\ generation[r] # <<>>
    /\ LET e == Head(generation[r])
       IN  /\ pending' = [pending EXCEPT ![r] =
                            IF e \in Synchronous /\ depth[r] = 0 THEN @ \o Cascade[e] ELSE @]
           /\ written' = [written EXCEPT ![r] =
                            Append(@, toOutboxRow(e, e \in Synchronous, began[r]))]
    /\ generation' = [generation EXCEPT ![r] = Tail(@)]
    /\ UNCHANGED <<stage, clock, began, call, depth, dispatched, tickVars, history, faults>>

\* Category-1 subscribers run and publish into context.pending; the row follows.
DispatchEvent(r) ==
    /\ stage[r] = "running" /\ generation[r] # <<>>
    /\ LET e == Head(generation[r])
       IN  /\ pending' = [pending EXCEPT ![r] =
                            IF e \in Synchronous THEN @ \o Cascade[e] ELSE @]
           /\ written' = [written EXCEPT ![r] =
                            Append(@, toOutboxRow(e, e \in Synchronous, began[r]))]
    /\ generation' = [generation EXCEPT ![r] = Tail(@)]
    /\ UNCHANGED <<stage, clock, began, call, depth, dispatched, tickVars, history, faults>>

\* The request throws: a subscriber's exception, EventCascadeDepthExceeded.
\* Transaction and rows roll back.
Fail(r) ==
    /\ stage[r] = "running"
    /\ stage' = [stage EXCEPT ![r] = "failed"]
    /\ UNCHANGED <<clock, began, call, generation, pending, depth, written, dispatched,
                   tickVars, history, faults>>

drainPendingGenerations(r) ==
    /\ stage[r] = "running" /\ generation[r] = <<>> /\ pending[r] # <<>>
    /\ depth[r] < MaxDepth      \* otherwise only Fail(r) is left
    /\ depth' = [depth EXCEPT ![r] = @ + 1]
    /\ generation' = [generation EXCEPT ![r] = pending[r]]
    /\ pending' = [pending EXCEPT ![r] = <<>>]
    /\ UNCHANGED <<stage, clock, began, call, written, dispatched, tickVars, history, faults>>

Commit(r) ==
    /\ stage[r] = "running" /\ Drained(r)
    /\ call[r] = Len(Calls[r])
    /\ stage' = [stage EXCEPT ![r] = "committed"]
    /\ UNCHANGED <<clock, began, call, generation, pending, depth, written, dispatched,
                   tickVars, history, faults>>

-----------------------------------------------------------------------------
(* Without TransactionInterceptor (path B) *)

\* The use case's save() commits on its own, before publish() is called.
SaveAlone(r) ==
    /\ stage[r] = "idle" /\ r \notin InContext
    /\ stage' = [stage EXCEPT ![r] = "saved"]
    /\ UNCHANGED <<clock, began, call, generation, pending, depth, written, dispatched,
                   tickVars, history, faults>>

\* The process ends, or MissingUnitOfWorkContext is thrown: the aggregate is saved, the
\* events of the calls that are left are not.
LoseEvents(r) ==
    /\ stage[r] = "saved" /\ call[r] < Len(Calls[r])
    /\ stage' = [stage EXCEPT ![r] = "lost"]
    /\ UNCHANGED <<clock, began, call, generation, pending, depth, written, dispatched,
                   tickVars, history, faults>>

NextCall(r) == Calls[r][call[r] + 1]
AfterCall(r) == IF call[r] + 1 = Len(Calls[r]) THEN "committed" ELSE "saved"

\* writeOutboxOnly: a transaction for the rows of each publish() call; nothing is
\* dispatched.
WriteOutboxOnly(r) ==
    /\ stage[r] = "saved" /\ call[r] < Len(Calls[r])
    /\ NextCall(r) \in Seq(Events \ Synchronous)
    /\ stage' = [stage EXCEPT ![r] = AfterCall(r)]
    /\ BeginTransaction(r)
    /\ call' = [call EXCEPT ![r] = @ + 1]
    /\ written' = [written EXCEPT ![r] =
            @ \o [k \in DOMAIN NextCall(r) |-> toOutboxRow(NextCall(r)[k], FALSE, clock + 1)]]
    /\ UNCHANGED <<generation, pending, depth, dispatched, tickVars, history, faults>>

-----------------------------------------------------------------------------
(* The poller *)

\* What is written is committed with the request's transaction, or with its own.
Committed(r) == stage[r] = "committed" \/ r \notin InContext
Stored == {x \in Rows : Committed(x[1]) /\ x[2] \in DOMAIN written[x[1]]}
EventOf(x) == written[x[1]][x[2]].event
SubscribersOf(x) == Deferred[EventOf(x)]

\* Faulty variant: the rows are inserted on a connection of their own.
UndispatchedEarly ==
    {x \in Rows : x[2] \in DOMAIN written[x[1]] /\ ~written[x[1]][x[2]].audit} \ dispatched

\* dispatched_at IS NULL, as committed.
Undispatched == {x \in Stored : ~written[x[1]][x[2]].audit} \ dispatched

\* created_at is the time the row's transaction began: rows of one are equal.
Earlier(x, y) == written[x[1]][x[2]].createdAt < written[y[1]][y[2]].createdAt

\* Faulty variant: no row locks.
NotClaimedAnyway(x) == TRUE

NotClaimed(x) == \A t \in Ticks : x \notin claimed[t]

\* claimUndispatched: the oldest rows nobody has locked (SKIP LOCKED).
Claim(t) ==
    LET free == {x \in Undispatched : NotClaimed(x)}
    IN  /\ claimed[t] = {}
        /\ \E S \in SUBSET free :
              /\ S # {}
              /\ Cardinality(S) = BatchSize \/ (Cardinality(S) < BatchSize /\ S = free)
              /\ \A x \in S, y \in free \ S : ~Earlier(y, x)
              /\ claimed' = [claimed EXCEPT ![t] = S]
              /\ rest' = [rest EXCEPT ![t] = S]
        /\ UNCHANGED <<requestVars, dispatched, current, count, succeeded, history, faults>>

\* The row of the tick succeeded, or did not.
Handled(t, x, ids) ==
    /\ rest' = [rest EXCEPT ![t] = @ \ {x}]
    /\ succeeded' = [succeeded EXCEPT ![t] = @ \union ids]
    /\ current' = [current EXCEPT ![t] = NoRow]
    /\ count' = [count EXCEPT ![t] = 0]

\* dispatchRow: a row without deferred subscribers is done.
PickRow(t) ==
    /\ current[t] = NoRow
    /\ \E x \in rest[t] :
          /\ \A y \in rest[t] : ~Earlier(y, x)
          /\ IF SubscribersOf(x) = <<>> THEN Handled(t, x, {x})
             ELSE /\ current' = [current EXCEPT ![t] = x]
                  /\ UNCHANGED <<rest, count, succeeded>>
    /\ UNCHANGED <<requestVars, dispatched, claimed, history, faults>>

NextSubscriber(t) == SubscribersOf(current[t])[count[t] + 1]
IsBroken(t) == <<EventOf(current[t]), NextSubscriber(t)>> \in Broken

\* subscriber.on(event).  It writes outside the tick's transaction.
RunSubscriber(t) ==
    LET x == current[t]
    IN  /\ x # NoRow /\ ~IsBroken(t)
        /\ reached' = reached \union {<<x, NextSubscriber(t)>>}
        /\ repeated' = repeated \union ({<<x, NextSubscriber(t)>>} \intersect reached)
        /\ IF count[t] + 1 = Len(SubscribersOf(x)) THEN Handled(t, x, {x})
           ELSE /\ count' = [count EXCEPT ![t] = @ + 1]
                /\ UNCHANGED <<rest, current, succeeded>>
        /\ UNCHANGED <<requestVars, dispatched, claimed, failed, faults>>

\* Faulty variant: the catch block does not return false.
SubscriberThrowsUnnoticed(t) ==
    LET x == current[t]
    IN  /\ x # NoRow
        /\ IsBroken(t) \/ faults.throws < MaxThrows
        /\ Handled(t, x, {x})
        /\ failed' = failed \union {x}
        /\ faults' = [faults EXCEPT !.throws = IF IsBroken(t) THEN @ ELSE @ + 1]
        /\ UNCHANGED <<requestVars, dispatched, claimed, reached, repeated>>

\* The exception is caught: the row stays undispatched, the batch goes on.
SubscriberThrows(t) ==
    LET x == current[t]
    IN  /\ x # NoRow
        /\ IsBroken(t) \/ faults.throws < MaxThrows
        /\ Handled(t, x, {})
        /\ failed' = failed \union {x}
        /\ faults' = [faults EXCEPT !.throws = IF IsBroken(t) THEN @ ELSE @ + 1]
        /\ UNCHANGED <<requestVars, dispatched, claimed, reached, repeated>>

\* Faulty variant: a batch with a failed row is not marked at all.
MarkDispatchedAllOrNothing(t) ==
    /\ claimed[t] # {} /\ rest[t] = {}
    /\ dispatched' = IF succeeded[t] = claimed[t] THEN dispatched \union succeeded[t]
                                                  ELSE dispatched
    /\ claimed' = [claimed EXCEPT ![t] = {}]
    /\ succeeded' = [succeeded EXCEPT ![t] = {}]
    /\ UNCHANGED <<requestVars, rest, current, count, history, faults>>

\* markDispatched, and the end of the tick's transaction.
MarkDispatched(t) ==
    /\ claimed[t] # {} /\ rest[t] = {}
    /\ dispatched' = dispatched \union succeeded[t]
    /\ claimed' = [claimed EXCEPT ![t] = {}]
    /\ succeeded' = [succeeded EXCEPT ![t] = {}]
    /\ UNCHANGED <<requestVars, rest, current, count, history, faults>>

\* The tick's transaction is lost, what its subscribers did is not.
CrashTick(t) ==
    /\ claimed[t] # {}
    /\ faults.crashes < MaxCrashes
    /\ faults' = [faults EXCEPT !.crashes = @ + 1]
    /\ failed' = failed \union claimed[t]
    /\ claimed' = [claimed EXCEPT ![t] = {}]
    /\ rest' = [rest EXCEPT ![t] = {}]
    /\ current' = [current EXCEPT ![t] = NoRow]
    /\ count' = [count EXCEPT ![t] = 0]
    /\ succeeded' = [succeeded EXCEPT ![t] = {}]
    /\ UNCHANGED <<requestVars, dispatched, reached, repeated>>

Request(r) ==
    \/ Begin(r)
    \/ Publish(r)
    \/ DispatchEvent(r)
    \/ drainPendingGenerations(r)
    \/ Commit(r)
    \/ Fail(r)
    \/ SaveAlone(r)
    \/ LoseEvents(r)
    \/ WriteOutboxOnly(r)

Tick(t) ==
    \/ Claim(t)
    \/ PickRow(t)
    \/ RunSubscriber(t)
    \/ SubscriberThrows(t)
    \/ MarkDispatched(t)

Next ==
    \/ \E r \in Requests : Request(r)
    \/ \E t \in Ticks : Tick(t) \/ CrashTick(t)

\* The worker keeps ticking (@Interval) and its subscribers return.
Fairness == \A t \in Ticks : WF_vars(Tick(t))

Spec == Init /\ [][Next]_vars /\ Fairness

-----------------------------------------------------------------------------
TypeOK ==
    /\ stage \in [Requests -> {"idle", "saved", "running", "committed", "failed", "lost"}]
    /\ clock \in Nat
    /\ began \in [Requests -> Nat]
    /\ call \in [Requests -> Nat]
    /\ generation \in [Requests -> Seq(Events)]
    /\ pending \in [Requests -> Seq(Events)]
    /\ depth \in [Requests -> 0..MaxDepth]
    /\ written \in [Requests -> Seq([event : Events, audit : BOOLEAN, createdAt : Nat])]
    /\ dispatched \subseteq Stored
    /\ claimed \in [Ticks -> SUBSET Rows]
    /\ rest \in [Ticks -> SUBSET Rows]
    /\ current \in [Ticks -> Rows \union {NoRow}]
    /\ count \in [Ticks -> Nat]
    /\ succeeded \in [Ticks -> SUBSET Rows]
    /\ reached \subseteq Rows \X Subscribers
    /\ repeated \subseteq reached
    /\ failed \subseteq Rows
    /\ faults \in [throws : 0..MaxThrows, crashes : 0..MaxCrashes]

Occurrences(e, s) == Cardinality({k \in DOMAIN s : s[k] = e})
RowsOf(r, e) == {k \in DOMAIN written[r] : written[r][k].event = e}

\* How often the synchronous subscribers of the events of r published e.
Cascaded(r, e) ==
    SumFunctionOnSet([k \in DOMAIN written[r] |-> Occurrences(e, Cascade[written[r][k].event])],
                     {k \in DOMAIN written[r] : written[r][k].event \in Synchronous})

\* The calls of publish() that r made.
CallsMade(r) == SubSeq(Calls[r], 1, call[r])

\* The outbox is complete: a committed request has exactly one row for every
\* event it published and for every one its synchronous subscribers published in
\* turn, at whatever generation (publishWithin, drainPendingGenerations); and a request
\* outside a transaction has those of the calls it came to, each of them whole, when
\* its others are lost (publish, writeOutboxOnly).
OutboxIsComplete ==
    \A r \in Requests, e \in Events :
        /\ stage[r] = "committed" =>
              Cardinality(RowsOf(r, e)) = Occurrences(e, FlattenSeq(Calls[r])) + Cascaded(r, e)
        /\ r \notin InContext =>
              Cardinality(RowsOf(r, e)) = Occurrences(e, FlattenSeq(CallsMade(r)))

\* At least once: a row the poller marked has been through all its deferred
\* subscribers, whichever ticks tried it (dispatchRow: "true only if every
\* subscriber for this row succeeded").
MarkedRowsWereDelivered ==
    \A x \in dispatched, s \in Subscribers :
        s \in Range(SubscribersOf(x)) => <<x, s>> \in reached

\* Once, when nothing goes wrong: however ticks overlap, a subscriber sees an
\* event a second time only after an attempt at its row threw or crashed ("so
\* multiple poller instances never double-claim the same row").
RepeatedOnlyAfterFailure ==
    \A p \in repeated : p[1] \in failed

\* What can be delivered is delivered: every stored row with deferred subscribers
\* left to run is marked in the end, unless one of them throws at every attempt;
\* fewer such rows than BatchSize do not hold up the others.
PendingRowsAreDelivered ==
    \A x \in Rows :
        (x \in Undispatched /\ \A s \in Subscribers : <<EventOf(x), s>> \notin Broken)
            ~> x \in dispatched

-----------------------------------------------------------------------------
\* Stated by the code's documents, and not so.

\* "the event is written into event_store (outbox) within the same transaction;
\* a separate polling publisher process picks up undispatched rows afterward and
\* delivers them with retries": every deferred subscriber of a stored event runs.
DeferredSubscribersRun ==
    \A x \in Rows, s \in Subscribers :
        (x \in Stored /\ s \in Range(SubscribersOf(x)) /\ <<EventOf(x), s>> \notin Broken)
            ~> <<x, s>> \in reached
=============================================================================
