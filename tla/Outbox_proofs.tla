---------------------------- MODULE Outbox_proofs ----------------------------
(***************************************************************************)
(* Theorems about Outbox, for any number of requests, ticks, events and    *)
(* subscribers.                                                            *)
(***************************************************************************)
EXTENDS Outbox, DataTheorems, SequenceTheorems, TLAPS

-----------------------------------------------------------------------------
(* The invariant *)

\* What a row of event_store says.
Entry == [event : Events, audit : BOOLEAN, createdAt : Nat]

\* A request is in the router's transaction or outside it.
WritingInv ==
    \A r \in Requests :
        /\ stage[r] = "running" => r \in InContext
        /\ stage[r] = "saved" => r \notin InContext

\* All deferred subscribers of row x have run.
Delivered(x) ==
    \A k \in DOMAIN SubscribersOf(x) : <<x, SubscribersOf(x)[k]>> \in reached

\* The first n deferred subscribers of row x have run.
ReachedFirst(x, n) ==
    \A k \in DOMAIN SubscribersOf(x) : k <= n => <<x, SubscribersOf(x)[k]>> \in reached

\* A tick works on rows that are committed, and is where it says it is.
TickOK(t) ==
    /\ claimed[t] \subseteq Stored
    /\ claimed[t] \intersect dispatched = {}
    /\ rest[t] \subseteq claimed[t]
    /\ succeeded[t] \subseteq claimed[t] \ rest[t]
    /\ \A x \in succeeded[t] : Delivered(x)
    /\ current[t] # NoRow => /\ current[t] \in rest[t]
                             /\ count[t] < Len(SubscribersOf(current[t]))
                             /\ ReachedFirst(current[t], count[t])
    /\ current[t] = NoRow => count[t] = 0

TickInv == \A t \in Ticks : TickOK(t)

\* No two ticks hold the same row.
DisjointInv ==
    \A t, u \in Ticks : t # u => claimed[t] \intersect claimed[u] = {}

MarkedInv == \A x \in dispatched : Delivered(x)

\* Tick t has row x, and knows that its subscriber s has run.
Accounted(t, x, s) ==
    /\ x \in claimed[t]
    /\ \/ x \in succeeded[t]
       \/ /\ x = current[t]
          /\ \E k \in DOMAIN SubscribersOf(x) : k <= count[t] /\ SubscribersOf(x)[k] = s

\* A subscriber that saw an event is known to have: by the row, or by its tick.
SeenInv ==
    \A x \in Rows, s \in Subscribers :
        <<x, s>> \in reached =>
            x \in failed \/ x \in dispatched \/ \E t \in Ticks : Accounted(t, x, s)

RowsInv == TypeOK /\ WritingInv /\ TickInv /\ DisjointInv /\ MarkedInv

IInv == RowsInv /\ SeenInv /\ RepeatedOnlyAfterFailure
-----------------------------------------------------------------------------
(* Rows and their subscribers *)

LEMMA RowFacts ==
    ASSUME TypeOK, NEW x \in Stored
    PROVE  /\ x \in Rows /\ x # NoRow
           /\ SubscribersOf(x) \in Seq(Subscribers)
           /\ IsInjective(SubscribersOf(x))
<1>1. x \in Rows /\ x[1] \in Requests /\ x[2] \in DOMAIN written[x[1]]
  BY DEF Stored, Rows
<1>2. written[x[1]] \in Seq(Entry)
  BY <1>1 DEF TypeOK, Entry
<1>3. EventOf(x) \in Events
  <2>1. written[x[1]][x[2]] \in Entry
    BY <1>1, <1>2
  <2> QED
    BY <2>1 DEF EventOf, Entry
<1>4. SubscribersOf(x) \in Seq(Subscribers) /\ IsInjective(SubscribersOf(x))
  BY <1>3, OutboxAssumption DEF SubscribersOf
<1>5. x # NoRow
  BY <1>1, OutboxAssumption
<1> QED
  BY <1>1, <1>4, <1>5

\* The types of what requests write.
RequestTypes ==
    /\ stage \in [Requests -> {"idle", "saved", "running", "committed", "failed", "lost"}]
    /\ clock \in Nat
    /\ began \in [Requests -> Nat]
    /\ call \in [Requests -> Nat]
    /\ generation \in [Requests -> Seq(Events)]
    /\ pending \in [Requests -> Seq(Events)]
    /\ depth \in [Requests -> 0..MaxDepth]
    /\ written \in [Requests -> Seq(Entry)]
    /\ WritingInv

LEMMA PublishTypes ==
    ASSUME RequestTypes, NEW r \in Requests, Publish(r)
    PROVE  RequestTypes'
<1>1. Calls[r] \in Seq(Seq(Events)) /\ call[r] \in Nat /\ call[r] < Len(Calls[r])
  BY OutboxAssumption DEF Publish, RequestTypes
<1>2. Calls[r][call[r] + 1] \in Seq(Events)
  BY <1>1
<1> QED
  BY <1>2 DEF Publish, RequestTypes, WritingInv

LEMMA DispatchTypes ==
    ASSUME RequestTypes, NEW r \in Requests, DispatchEvent(r)
    PROVE  RequestTypes'
<1> DEFINE e == Head(generation[r])
           row == toOutboxRow(e, e \in Synchronous, began[r])
<1>1. /\ pending' = [pending EXCEPT ![r] = IF e \in Synchronous THEN @ \o Cascade[e] ELSE @]
      /\ written' = [written EXCEPT ![r] = Append(@, row)]
      /\ generation' = [generation EXCEPT ![r] = Tail(@)]
      /\ generation[r] # <<>> /\ stage[r] = "running"
      /\ UNCHANGED <<stage, clock, began, call, depth>>
  BY DEF DispatchEvent
<1>2. e \in Events /\ Tail(generation[r]) \in Seq(Events)
  BY <1>1 DEF RequestTypes
<1>3. Cascade[e] \in Seq(Events)
  BY <1>2, OutboxAssumption
<1>4. row \in Entry
  <2>1. began[r] \in Nat
    BY DEF RequestTypes
  <2> QED
    BY <1>2, <2>1 DEF toOutboxRow, Entry
<1> HIDE DEF e, row
<1>5. pending' \in [Requests -> Seq(Events)]
  BY <1>1, <1>3 DEF RequestTypes
<1>6. written' \in [Requests -> Seq(Entry)]
  BY <1>1, <1>4 DEF RequestTypes
<1>7. generation' \in [Requests -> Seq(Events)]
  BY <1>1, <1>2 DEF RequestTypes
<1>8. WritingInv'
  BY <1>1 DEF WritingInv, RequestTypes
<1> QED
  BY <1>1, <1>5, <1>6, <1>7, <1>8 DEF RequestTypes

LEMMA OutboxOnlyTypes ==
    ASSUME RequestTypes, NEW r \in Requests, WriteOutboxOnly(r)
    PROVE  RequestTypes'
<1> DEFINE events == NextCall(r)
           rows == [k \in DOMAIN events |-> toOutboxRow(events[k], FALSE, clock + 1)]
<1>1. /\ events \in Seq(Events \ Synchronous)
      /\ stage' = [stage EXCEPT ![r] = AfterCall(r)]
      /\ clock' = clock + 1 /\ began' = [began EXCEPT ![r] = clock + 1]
      /\ call' = [call EXCEPT ![r] = @ + 1]
      /\ written' = [written EXCEPT ![r] = @ \o rows]
      /\ UNCHANGED <<generation, pending, depth>>
  BY DEF WriteOutboxOnly, BeginTransaction
<1>2. AfterCall(r) \in {"saved", "committed"}
  BY DEF AfterCall
<1> HIDE DEF events
<1>3. DOMAIN events = 1..Len(events) /\ Len(events) \in Nat
  BY <1>1
<1>4. \A k \in 1..Len(events) : toOutboxRow(events[k], FALSE, clock + 1) \in Entry
  <2>1. clock + 1 \in Nat
    BY DEF RequestTypes
  <2> QED
    BY <1>1, <2>1 DEF toOutboxRow, Entry
<1>5. rows \in [1..Len(events) -> Entry]
  BY <1>3, <1>4
<1> HIDE DEF rows
<1>6. rows \in Seq(Entry)
  BY <1>3, <1>5
<1>7. written' \in [Requests -> Seq(Entry)]
  <2>1. written[r] \o rows \in Seq(Entry)
    BY <1>6 DEF RequestTypes
  <2> QED
    BY <1>1, <2>1 DEF RequestTypes
<1>8. WritingInv'
  <2>1. stage[r] = "saved" /\ r \notin InContext
    BY DEF WriteOutboxOnly, RequestTypes, WritingInv
  <2> QED
    BY <1>1, <1>2, <2>1 DEF WritingInv, RequestTypes
<1>9. call' \in [Requests -> Nat] /\ clock' \in Nat /\ began' \in [Requests -> Nat]
  <2>1. call[r] + 1 \in Nat /\ clock + 1 \in Nat
    BY DEF RequestTypes
  <2> QED
    BY <1>1, <2>1 DEF RequestTypes
<1>10. stage' \in [Requests -> {"idle", "saved", "running", "committed", "failed", "lost"}]
  BY <1>1, <1>2 DEF RequestTypes
<1> QED
  BY <1>1, <1>7, <1>8, <1>9, <1>10 DEF RequestTypes

LEMMA RequestKeepsTypes ==
    ASSUME RequestTypes, NEW r \in Requests, Request(r)
    PROVE  RequestTypes'
<1>1. CASE Begin(r)
  BY <1>1 DEF Begin, BeginTransaction, RequestTypes, WritingInv
<1>2. CASE drainPendingGenerations(r)
  <2>1. depth[r] \in Nat /\ depth[r] < MaxDepth /\ MaxDepth \in Nat
    BY <1>2, OutboxAssumption DEF drainPendingGenerations, RequestTypes
  <2>2. depth' = [depth EXCEPT ![r] = @ + 1]
    BY <1>2 DEF drainPendingGenerations
  <2>3. depth' \in [Requests -> 0..MaxDepth]
    BY <2>1, <2>2 DEF RequestTypes
  <2> QED
    BY <1>2, <2>3 DEF drainPendingGenerations, RequestTypes, WritingInv
<1>3. CASE Commit(r)
  BY <1>3 DEF Commit, RequestTypes, WritingInv
<1>4. CASE Fail(r)
  BY <1>4 DEF Fail, RequestTypes, WritingInv
<1>5. CASE SaveAlone(r)
  BY <1>5 DEF SaveAlone, RequestTypes, WritingInv
<1>6. CASE LoseEvents(r)
  BY <1>6 DEF LoseEvents, RequestTypes, WritingInv
<1> QED
  BY <1>1, <1>2, <1>3, <1>4, <1>5, <1>6, PublishTypes, DispatchTypes, OutboxOnlyTypes DEF Request

\* Rows that are committed stay what they are, and a request touches no tick.
LEMMA RequestKeepsRows ==
    ASSUME RequestTypes, NEW r \in Requests, Request(r)
    PROVE  /\ Stored \subseteq Stored'
           /\ \A x \in Stored : SubscribersOf(x)' = SubscribersOf(x)
           /\ UNCHANGED <<dispatched, tickVars, history, faults>>
<1>1. UNCHANGED <<dispatched, tickVars, history, faults>>
  BY DEF Request, Begin, Publish, DispatchEvent, drainPendingGenerations, Commit, Fail, SaveAlone,
         LoseEvents, WriteOutboxOnly
<1>2. \A q \in Requests : Committed(q) =>
          /\ Committed(q)'
          /\ \A k \in DOMAIN written[q] : k \in DOMAIN written'[q] /\ written'[q][k] = written[q][k]
  <2>1. \A q \in Requests \ {r} : stage'[q] = stage[q] /\ written'[q] = written[q]
    BY DEF Request, Begin, Publish, DispatchEvent, drainPendingGenerations, Commit, Fail, SaveAlone,
           LoseEvents, WriteOutboxOnly, RequestTypes
  <2>2. CASE WriteOutboxOnly(r)
    <3>1. PICK rows : /\ rows = [k \in DOMAIN NextCall(r) |->
                                    toOutboxRow(NextCall(r)[k], FALSE, clock + 1)]
                      /\ written' = [written EXCEPT ![r] = @ \o rows]
      BY <2>2 DEF WriteOutboxOnly
    <3>2. rows \in Seq({rows[k] : k \in DOMAIN rows}) /\ written[r] \in Seq(Entry)
      <4>1. NextCall(r) \in Seq(Events)
        BY <2>2 DEF WriteOutboxOnly
      <4>2. DOMAIN rows = 1..Len(NextCall(r)) /\ Len(NextCall(r)) \in Nat
        BY <3>1, <4>1
      <4>3. rows = [k \in 1..Len(NextCall(r)) |-> rows[k]]
        BY <3>1, <4>2
      <4> QED
        BY <4>2, <4>3 DEF RequestTypes
    <3>3. \A k \in DOMAIN written[r] :
              k \in DOMAIN (written[r] \o rows) /\ (written[r] \o rows)[k] = written[r][k]
      BY <3>2
    <3>4. written'[r] = written[r] \o rows
      BY <3>1 DEF RequestTypes
    <3>5. stage[r] # "committed" \/ r \notin InContext
      BY <2>2 DEF WriteOutboxOnly
    <3> QED
      BY <2>1, <3>3, <3>4, <3>5 DEF Committed, WriteOutboxOnly
  <2>3. CASE written'[r] = written[r] /\ stage[r] # "committed"
    BY <2>1, <2>3 DEF Committed
  <2>4. CASE DispatchEvent(r)
    <3>1. stage[r] = "running" /\ r \in InContext
      BY <2>4 DEF DispatchEvent, RequestTypes, WritingInv
    <3> QED
      BY <2>1, <3>1 DEF Committed
  <2> QED
    BY <2>2, <2>3, <2>4
       DEF Request, Begin, Publish, drainPendingGenerations, Commit, Fail, SaveAlone, LoseEvents
<1>3. Stored \subseteq Stored'
  BY <1>2 DEF Stored, Rows
<1>4. \A x \in Stored : SubscribersOf(x)' = SubscribersOf(x)
  BY <1>2 DEF Stored, Rows, SubscribersOf, EventOf
<1> QED
  BY <1>1, <1>3, <1>4

\* A request step preserves the invariant: it only adds rows.
LEMMA RequestKeeps ==
    ASSUME IInv, NEW r \in Requests, Request(r)
    PROVE  IInv'
<1> USE DEF IInv, RowsInv
<1>1. RequestTypes /\ RequestTypes'
  <2>1. RequestTypes
    BY DEF RequestTypes, TypeOK, Entry
  <2> QED
    BY <2>1, RequestKeepsTypes
<1>2. /\ Stored \subseteq Stored'
      /\ \A x \in Stored : SubscribersOf(x)' = SubscribersOf(x)
      /\ UNCHANGED <<dispatched, claimed, rest, current, count, succeeded, reached, repeated,
                     failed, faults>>
  BY <1>1, RequestKeepsRows DEF tickVars, history
<1>3. TypeOK'
  BY <1>1, <1>2 DEF RequestTypes, TypeOK, Entry
<1>4. \A x \in Stored : Delivered(x) => Delivered(x)'
  BY <1>2 DEF Delivered
<1>5. MarkedInv'
  BY <1>2, <1>4 DEF MarkedInv, TypeOK
<1>6. ASSUME NEW t \in Ticks
      PROVE  TickOK(t)'
  <2>1. TickOK(t)
    BY DEF TickInv
  <2>2. \A x \in succeeded[t] : Delivered(x)'
    BY <1>4, <2>1 DEF TickOK
  <2>3. ASSUME current[t] # NoRow
        PROVE  /\ count[t] < Len(SubscribersOf(current[t])')
               /\ ReachedFirst(current[t], count[t])'
    <3>1. current[t] \in Stored
      BY <2>1, <2>3 DEF TickOK
    <3> QED
      BY <1>2, <2>1, <2>3, <3>1 DEF TickOK, ReachedFirst
  <2> QED
    BY <1>2, <2>1, <2>2, <2>3 DEF TickOK
<1>7. DisjointInv' /\ RepeatedOnlyAfterFailure'
  BY <1>2 DEF DisjointInv, RepeatedOnlyAfterFailure
<1>8. ASSUME NEW x \in Rows, NEW s \in Subscribers, NEW t \in Ticks, Accounted(t, x, s)
      PROVE  Accounted(t, x, s)'
  <2>1. x \in Stored
    BY <1>8 DEF Accounted, TickInv, TickOK
  <2> QED
    BY <1>2, <1>8, <2>1 DEF Accounted
<1>9. SeenInv'
  BY <1>2, <1>8 DEF SeenInv
<1> QED
  BY <1>1, <1>3, <1>5, <1>6, <1>7, <1>9 DEF RequestTypes, TickInv

-----------------------------------------------------------------------------
(* The steps of a tick *)

\* A tick changes no row.
LEMMA TickKeepsRows ==
    ASSUME UNCHANGED requestVars
    PROVE  /\ Stored' = Stored
           /\ \A x : SubscribersOf(x)' = SubscribersOf(x)
  BY DEF requestVars, Stored, Committed, SubscribersOf, EventOf

\* What the others of tick t keep when it makes a step.
OthersStay(t) ==
    \A u \in Ticks \ {t} : /\ claimed'[u] = claimed[u] /\ rest'[u] = rest[u]
                           /\ current'[u] = current[u] /\ count'[u] = count[u]
                           /\ succeeded'[u] = succeeded[u]

LEMMA OthersKeep ==
    ASSUME RowsInv, NEW t \in Ticks, UNCHANGED requestVars, OthersStay(t),
           reached \subseteq reached', NEW u \in Ticks \ {t}, claimed[u] \intersect dispatched' = {}
    PROVE  TickOK(u)'
<1>1. TickOK(u)
  BY DEF RowsInv, TickInv
<1>2. /\ claimed'[u] = claimed[u] /\ rest'[u] = rest[u] /\ current'[u] = current[u]
      /\ count'[u] = count[u] /\ succeeded'[u] = succeeded[u]
  BY DEF OthersStay
<1>3. \A x : Delivered(x) => Delivered(x)'
  BY TickKeepsRows DEF Delivered
<1>4. \A x, n : ReachedFirst(x, n) => ReachedFirst(x, n)'
  BY TickKeepsRows DEF ReachedFirst
<1>5. ReachedFirst(current[u], count[u]) => ReachedFirst(current[u], count[u])'
  BY <1>2, <1>4, TickKeepsRows DEF ReachedFirst
<1> QED
  BY <1>1, <1>2, <1>3, <1>5, TickKeepsRows DEF TickOK

\* What another tick knows it still knows.
LEMMA OthersKnow ==
    ASSUME UNCHANGED requestVars, NEW t \in Ticks, OthersStay(t), NEW u \in Ticks \ {t},
           NEW x, NEW s, Accounted(u, x, s)
    PROVE  Accounted(u, x, s)'
  BY TickKeepsRows DEF OthersStay, Accounted

LEMMA ClaimKeeps ==
    ASSUME IInv, NEW t \in Ticks, Claim(t)
    PROVE  IInv'
<1> USE DEF IInv, RowsInv
<1>1. PICK S : /\ S \subseteq {x \in Undispatched : NotClaimed(x)}
               /\ claimed' = [claimed EXCEPT ![t] = S] /\ rest' = [rest EXCEPT ![t] = S]
  BY DEF Claim
<1>2. /\ claimed[t] = {}
      /\ UNCHANGED <<dispatched, current, count, succeeded, reached, repeated, failed, faults>>
      /\ UNCHANGED requestVars
  BY DEF Claim, history
<1>3. \A u \in Ticks : /\ claimed'[u] = IF u = t THEN S ELSE claimed[u]
                       /\ rest'[u] = IF u = t THEN S ELSE rest[u]
  BY <1>1 DEF TypeOK
<1>4. S \subseteq Stored /\ S \intersect dispatched = {} /\ S \subseteq Rows
  BY <1>1 DEF Undispatched, Stored
<1>5. TypeOK'
  BY <1>1, <1>2, <1>4, TickKeepsRows DEF TypeOK, requestVars
<1>6. OthersStay(t)
  BY <1>2, <1>3 DEF OthersStay
<1>7. TickInv'
  <2>1. TickOK(t)
    BY DEF TickInv
  <2>2. succeeded[t] = {} /\ current[t] = NoRow /\ count[t] = 0
    BY <1>2, <2>1 DEF TickOK
  <2>3. TickOK(t)'
    BY <1>2, <1>3, <1>4, <2>2, TickKeepsRows DEF TickOK
  <2>4. ASSUME NEW u \in Ticks \ {t}
        PROVE  TickOK(u)'
    <3>1. claimed[u] \intersect dispatched' = {}
      BY <1>2 DEF TickInv, TickOK
    <3> QED
      BY <1>2, <1>6, <3>1, OthersKeep
  <2> QED
    BY <2>3, <2>4 DEF TickInv
<1>8. DisjointInv'
  <2>1. \A u \in Ticks : S \intersect claimed[u] = {}
    BY <1>1 DEF NotClaimed
  <2> QED
    BY <1>3, <2>1 DEF DisjointInv
<1>9. MarkedInv' /\ WritingInv' /\ RepeatedOnlyAfterFailure'
  BY <1>2, TickKeepsRows
     DEF MarkedInv, Delivered, WritingInv, RepeatedOnlyAfterFailure, requestVars
<1>10. SeenInv'
  <2>1. ASSUME NEW x \in Rows, NEW s \in Subscribers, NEW u \in Ticks, Accounted(u, x, s)
        PROVE  Accounted(u, x, s)'
    <3>1. u \in Ticks \ {t}
      BY <1>2, <2>1 DEF Accounted
    <3> QED
      BY <1>2, <1>6, <2>1, <3>1, OthersKnow
  <2> QED
    BY <1>2, <2>1 DEF SeenInv
<1> QED
  BY <1>5, <1>7, <1>8, <1>9, <1>10

\* A step of tick t that claims nothing keeps what is said of the others and of the
\* rows that are marked.
LEMMA RowsKeep ==
    ASSUME IInv, NEW t \in Ticks, UNCHANGED requestVars, OthersStay(t),
           claimed'[t] \subseteq claimed[t], reached \subseteq reached',
           dispatched' \subseteq dispatched \union succeeded[t], TickOK(t)'
    PROVE  WritingInv' /\ TickInv' /\ DisjointInv' /\ MarkedInv'
<1> USE DEF IInv, RowsInv
<1>1. \A x : Delivered(x) => Delivered(x)'
  BY TickKeepsRows DEF Delivered
<1>2. ASSUME NEW u \in Ticks \ {t}
      PROVE  TickOK(u)'
  <2>1. claimed[u] \intersect claimed[t] = {}
    BY DEF DisjointInv
  <2>2. TickOK(u) /\ TickOK(t)
    BY DEF TickInv
  <2>3. claimed[u] \intersect dispatched' = {}
    BY <2>1, <2>2 DEF TickOK
  <2> QED
    BY <2>3, OthersKeep
<1>3. DisjointInv'
  BY DEF DisjointInv, OthersStay
<1>4. MarkedInv'
  BY <1>1 DEF MarkedInv, TickInv, TickOK
<1> QED
  BY <1>2, <1>3, <1>4 DEF TickInv, WritingInv, requestVars

\* What tick t knows of a subscriber it knows after the step, or the row says so.
LEMMA SeenKeeps ==
    ASSUME IInv, NEW t \in Ticks, UNCHANGED requestVars, OthersStay(t),
           dispatched \subseteq dispatched', failed \subseteq failed',
           \A x \in Rows, s \in Subscribers :
               /\ Accounted(t, x, s) => x \in failed' \/ x \in dispatched' \/ Accounted(t, x, s)'
               /\ <<x, s>> \in reached' => <<x, s>> \in reached \/ Accounted(t, x, s)'
    PROVE  SeenInv'
<1>1. ASSUME NEW x \in Rows, NEW s \in Subscribers, NEW u \in Ticks, Accounted(u, x, s)
      PROVE  x \in failed' \/ x \in dispatched' \/ Accounted(u, x, s)'
  <2>1. CASE u = t
    BY <1>1, <2>1
  <2>2. CASE u # t
    BY <1>1, <2>2, OthersKnow
  <2> QED
    BY <2>1, <2>2
<1>2. ASSUME NEW x \in Rows, NEW s \in Subscribers, <<x, s>> \in reached'
      PROVE  x \in failed' \/ x \in dispatched' \/ \E u \in Ticks : Accounted(u, x, s)'
  <2>1. CASE <<x, s>> \in reached
    BY <1>1, <2>1 DEF IInv, SeenInv
  <2>2. CASE <<x, s>> \notin reached
    BY <1>2, <2>2
  <2> QED
    BY <2>1, <2>2
<1> QED
  BY <1>2 DEF SeenInv

\* A row is handled: it leaves the rest, and succeeded if its subscribers have run.
LEMMA HandledKeeps ==
    ASSUME IInv, NEW t \in Ticks, UNCHANGED requestVars, UNCHANGED <<claimed, dispatched>>,
           NEW x \in rest[t], NEW ids \in SUBSET {x}, Handled(t, x, ids),
           current[t] \in {x, NoRow}, reached \subseteq reached', ids # {} => Delivered(x)'
    PROVE  /\ OthersStay(t) /\ TickOK(t)' /\ current'[t] = NoRow
           /\ succeeded'[t] = succeeded[t] \union ids
           /\ rest' \in [Ticks -> SUBSET Rows] /\ current' \in [Ticks -> Rows \union {NoRow}]
           /\ count' \in [Ticks -> Nat] /\ succeeded' \in [Ticks -> SUBSET Rows]
<1> USE DEF IInv, RowsInv
<1>1. TickOK(t) /\ x \in Rows
  BY DEF TickInv, TypeOK
<1>2. /\ rest' \in [Ticks -> SUBSET Rows] /\ current' \in [Ticks -> Rows \union {NoRow}]
      /\ count' \in [Ticks -> Nat] /\ succeeded' \in [Ticks -> SUBSET Rows]
  BY <1>1 DEF Handled, TypeOK
<1>3. /\ rest'[t] = rest[t] \ {x} /\ succeeded'[t] = succeeded[t] \union ids
      /\ current'[t] = NoRow /\ count'[t] = 0
  BY DEF Handled, TypeOK
<1>4. OthersStay(t)
  BY DEF Handled, TypeOK, OthersStay
<1>5. \A y \in succeeded'[t] : Delivered(y)'
  <2>1. \A y : Delivered(y) => Delivered(y)'
    BY TickKeepsRows DEF Delivered
  <2> QED
    BY <1>1, <1>3, <2>1 DEF TickOK
<1>6. TickOK(t)'
  BY <1>1, <1>3, <1>5, TickKeepsRows DEF TickOK
<1> QED
  BY <1>2, <1>3, <1>4, <1>6

LEMMA PickRowKeeps ==
    ASSUME IInv, NEW t \in Ticks, PickRow(t)
    PROVE  IInv'
<1> USE DEF IInv, RowsInv
<1>1. /\ UNCHANGED requestVars /\ current[t] = NoRow
      /\ UNCHANGED <<dispatched, claimed, reached, repeated, failed, faults>>
  BY DEF PickRow, history
<1>2. PICK x \in rest[t] :
          IF SubscribersOf(x) = <<>> THEN Handled(t, x, {x})
          ELSE current' = [current EXCEPT ![t] = x] /\ UNCHANGED <<rest, count, succeeded>>
  BY DEF PickRow
<1>3. TickOK(t) /\ x \in Stored
  BY DEF TickInv, TickOK
<1>4. /\ OthersStay(t) /\ TickOK(t)' /\ succeeded[t] \subseteq succeeded'[t]
      /\ rest' \in [Ticks -> SUBSET Rows] /\ current' \in [Ticks -> Rows \union {NoRow}]
      /\ count' \in [Ticks -> Nat] /\ succeeded' \in [Ticks -> SUBSET Rows]
  <2>1. CASE SubscribersOf(x) = <<>>
    <3>1. Delivered(x)'
      BY <1>1, <2>1, TickKeepsRows DEF Delivered
    <3>2. Handled(t, x, {x})
      BY <1>2, <2>1
    <3> QED
      BY <1>1, <3>1, <3>2, HandledKeeps
  <2>2. CASE SubscribersOf(x) # <<>>
    <3>1. current' = [current EXCEPT ![t] = x] /\ UNCHANGED <<rest, count, succeeded>>
      BY <1>2, <2>2
    <3>2. Len(SubscribersOf(x)) > 0 /\ x # NoRow /\ x \in Rows
      BY <1>3, <2>2, RowFacts
    <3>3. current'[t] = x /\ OthersStay(t) /\ current' \in [Ticks -> Rows \union {NoRow}]
      BY <1>1, <3>1, <3>2 DEF TypeOK, OthersStay
    <3>4. count'[t] = 0
      BY <1>1, <1>3, <3>1 DEF TickOK
    <3>5. ReachedFirst(current[t], count[t])'
      <4>1. SubscribersOf(x) \in Seq(Subscribers)
        BY <1>3, RowFacts
      <4> QED
        BY <1>1, <3>3, <3>4, <4>1, TickKeepsRows DEF ReachedFirst
    <3>6. \A y : Delivered(y) => Delivered(y)'
      BY <1>1, TickKeepsRows DEF Delivered
    <3>7. count'[t] < Len(SubscribersOf(current[t])')
      BY <1>1, <3>2, <3>3, <3>4, TickKeepsRows DEF SubscribersOf, EventOf, requestVars
    <3>8. TickOK(t)'
      BY <1>1, <1>2, <1>3, <3>1, <3>2, <3>3, <3>4, <3>5, <3>6, <3>7, TickKeepsRows DEF TickOK
    <3> QED
      BY <3>1, <3>3, <3>8 DEF TypeOK
  <2> QED
    BY <2>1, <2>2
<1>5. TypeOK'
  BY <1>1, <1>4, TickKeepsRows DEF TypeOK, requestVars
<1>6. WritingInv' /\ TickInv' /\ DisjointInv' /\ MarkedInv'
  BY <1>1, <1>4, RowsKeep
<1>7. ASSUME NEW y \in Rows, NEW s \in Subscribers, Accounted(t, y, s)
      PROVE  Accounted(t, y, s)'
  <2>1. y \in succeeded[t] /\ y \in claimed[t]
    BY <1>1, <1>7, OutboxAssumption DEF Accounted
  <2> QED
    BY <1>1, <1>4, <2>1 DEF Accounted
<1>8. SeenInv'
  BY <1>1, <1>4, <1>7, SeenKeeps
<1> QED
  BY <1>1, <1>5, <1>6, <1>8 DEF RepeatedOnlyAfterFailure

LEMMA RunSubscriberKeeps ==
    ASSUME IInv, NEW t \in Ticks, RunSubscriber(t)
    PROVE  IInv'
<1> USE DEF IInv, RowsInv
<1>0. PICK x, sub, n : x = current[t] /\ sub = NextSubscriber(t) /\ n = count[t] + 1
  OBVIOUS
<1>1. /\ x # NoRow /\ UNCHANGED requestVars
      /\ UNCHANGED <<dispatched, claimed, failed, faults>>
      /\ reached' = reached \union {<<x, sub>>}
      /\ repeated' = repeated \union ({<<x, sub>>} \intersect reached)
  BY <1>0 DEF RunSubscriber
<1>2. TickOK(t) /\ x \in rest[t] /\ x \in Stored /\ count[t] \in Nat
  BY <1>0, <1>1 DEF TickInv, TickOK, TypeOK
<1>3. /\ SubscribersOf(x) \in Seq(Subscribers) /\ IsInjective(SubscribersOf(x)) /\ x \in Rows
  BY <1>2, RowFacts
<1>4. n \in DOMAIN SubscribersOf(x) /\ sub = SubscribersOf(x)[n] /\ sub \in Subscribers
  BY <1>0, <1>1, <1>2, <1>3 DEF TickOK, NextSubscriber
<1>5. ReachedFirst(x, n)'
  <2>1. \A k \in DOMAIN SubscribersOf(x) : k <= n => k <= count[t] \/ k = n
    BY <1>0, <1>2, <1>3
  <2>2. ReachedFirst(x, count[t])
    BY <1>0, <1>1, <1>2 DEF TickOK
  <2> QED
    BY <1>1, <1>4, <2>1, <2>2, TickKeepsRows DEF ReachedFirst
<1>6. /\ OthersStay(t) /\ TickOK(t)' /\ Accounted(t, x, sub)'
      /\ \A s \in Subscribers : Accounted(t, x, s) => Accounted(t, x, s)'
      /\ succeeded[t] \subseteq succeeded'[t]
      /\ rest' \in [Ticks -> SUBSET Rows] /\ current' \in [Ticks -> Rows \union {NoRow}]
      /\ count' \in [Ticks -> Nat] /\ succeeded' \in [Ticks -> SUBSET Rows]
  <2>1. CASE n = Len(SubscribersOf(x))
    <3>1. Handled(t, x, {x})
      BY <1>0, <2>1 DEF RunSubscriber
    <3>2. Delivered(x)'
      <4>1. \A k \in DOMAIN SubscribersOf(x) : k <= n
        BY <1>3, <2>1
      <4> QED
        BY <1>1, <1>5, <4>1, TickKeepsRows DEF Delivered, ReachedFirst
    <3>3. /\ OthersStay(t) /\ TickOK(t)' /\ succeeded'[t] = succeeded[t] \union {x}
          /\ rest' \in [Ticks -> SUBSET Rows] /\ current' \in [Ticks -> Rows \union {NoRow}]
          /\ count' \in [Ticks -> Nat] /\ succeeded' \in [Ticks -> SUBSET Rows]
      BY <1>0, <1>1, <1>2, <3>1, <3>2, HandledKeeps
    <3>4. \A s : Accounted(t, x, s)'
      BY <1>1, <1>2, <3>3 DEF Accounted, TickOK
    <3> QED
      BY <3>3, <3>4
  <2>2. CASE n # Len(SubscribersOf(x))
    <3>1. count' = [count EXCEPT ![t] = n] /\ UNCHANGED <<rest, current, succeeded>>
      BY <1>0, <2>2 DEF RunSubscriber
    <3>2. count'[t] = n /\ n \in Nat /\ OthersStay(t) /\ count' \in [Ticks -> Nat]
      BY <1>0, <1>1, <1>2, <3>1 DEF TypeOK, OthersStay
    <3>3. n < Len(SubscribersOf(x))
      BY <1>0, <1>2, <1>3, <1>4, <2>2
    <3>4. \A y : Delivered(y) => Delivered(y)'
      BY <1>1, TickKeepsRows DEF Delivered
    <3>5. /\ ReachedFirst(current[t], count[t])'
          /\ count'[t] < Len(SubscribersOf(current[t])')
      <4>1. SubscribersOf(current[t])' = SubscribersOf(x)
        BY <1>0, <1>1, <3>1, TickKeepsRows DEF SubscribersOf, EventOf, requestVars
      <4> QED
        BY <1>0, <1>1, <1>5, <3>1, <3>2, <3>3, <4>1, TickKeepsRows DEF ReachedFirst
    <3>6. TickOK(t)'
      BY <1>0, <1>1, <1>2, <3>1, <3>2, <3>4, <3>5, TickKeepsRows DEF TickOK
    <3>7. \A s : Accounted(t, x, s) \/ s = sub => Accounted(t, x, s)'
      <4>1. SubscribersOf(x)' = SubscribersOf(x)
        BY <1>1, TickKeepsRows
      <4>2. ASSUME NEW s, Accounted(t, x, s) \/ s = sub
            PROVE  \E k \in DOMAIN SubscribersOf(x) : k <= n /\ SubscribersOf(x)[k] = s
        <5>1. CASE s = sub
          BY <1>0, <1>4, <3>2, <5>1
        <5>2. CASE Accounted(t, x, s)
          <6>1. PICK k \in DOMAIN SubscribersOf(x) : k <= count[t] /\ SubscribersOf(x)[k] = s
            BY <1>0, <1>2, <5>2 DEF Accounted, TickOK
          <6>2. k <= n
            BY <1>0, <1>2, <1>3, <6>1
          <6> QED
            BY <6>1, <6>2
        <5> QED
          BY <4>2, <5>1, <5>2
      <4> QED
        BY <1>0, <1>1, <1>2, <3>1, <3>2, <4>1, <4>2 DEF Accounted, TickOK
    <3> QED
      BY <3>1, <3>2, <3>6, <3>7 DEF TypeOK
  <2> QED
    BY <2>1, <2>2
<1>7. <<x, sub>> \in reached => x \in failed
  <2> SUFFICES ASSUME <<x, sub>> \in reached, x \notin failed
               PROVE  FALSE
    OBVIOUS
  <2>1. x \in claimed[t] /\ x \notin dispatched /\ x \notin succeeded[t]
    BY <1>2 DEF TickOK
  <2>2. PICK u \in Ticks : Accounted(u, x, sub)
    BY <1>3, <1>4, <2>1 DEF SeenInv
  <2>3. u = t
    BY <2>1, <2>2 DEF Accounted, DisjointInv
  <2>4. PICK k \in DOMAIN SubscribersOf(x) : k <= count[t] /\ SubscribersOf(x)[k] = sub
    BY <1>0, <2>1, <2>2, <2>3 DEF Accounted
  <2>5. k = n
    BY <1>3, <1>4, <2>4 DEF IsInjective
  <2> QED
    BY <1>0, <1>2, <2>4, <2>5
<1>8. RepeatedOnlyAfterFailure'
  BY <1>1, <1>7 DEF RepeatedOnlyAfterFailure
<1>9. TypeOK'
  <2>1. reached' \subseteq Rows \X Subscribers /\ repeated' \subseteq reached'
    <3>1. <<x, sub>> \in Rows \X Subscribers
      BY <1>3, <1>4
    <3> QED
      BY <1>1, <3>1 DEF TypeOK
  <2> QED
    BY <1>1, <1>6, <2>1, TickKeepsRows DEF TypeOK, requestVars
<1>10. WritingInv' /\ TickInv' /\ DisjointInv' /\ MarkedInv'
  BY <1>1, <1>6, RowsKeep
<1>11. ASSUME NEW y \in Rows, NEW s \in Subscribers
       PROVE  /\ Accounted(t, y, s) => Accounted(t, y, s)'
              /\ <<y, s>> \in reached' => <<y, s>> \in reached \/ Accounted(t, y, s)'
  <2>1. CASE y = x
    BY <1>1, <1>6, <2>1
  <2>2. CASE y # x
    <3>1. Accounted(t, y, s) => y \in succeeded[t] /\ y \in claimed[t]
      BY <1>0, <2>2 DEF Accounted
    <3> QED
      BY <1>1, <1>6, <2>2, <3>1 DEF Accounted
  <2> QED
    BY <2>1, <2>2
<1>12. SeenInv'
  BY <1>1, <1>6, <1>11, SeenKeeps
<1> QED
  BY <1>8, <1>9, <1>10, <1>12

LEMMA SubscriberThrowsKeeps ==
    ASSUME IInv, NEW t \in Ticks, SubscriberThrows(t)
    PROVE  IInv'
<1> USE DEF IInv, RowsInv
<1> DEFINE x == current[t]
<1>1. /\ x # NoRow /\ UNCHANGED requestVars /\ Handled(t, x, {})
      /\ UNCHANGED <<dispatched, claimed, reached, repeated>>
      /\ failed' = failed \union {x}
  BY DEF SubscriberThrows
<1>2. x \in rest[t] /\ x \in Rows
  BY <1>1 DEF TickInv, TickOK, TypeOK
<1>3. /\ OthersStay(t) /\ TickOK(t)' /\ succeeded'[t] = succeeded[t] \union {}
      /\ rest' \in [Ticks -> SUBSET Rows] /\ current' \in [Ticks -> Rows \union {NoRow}]
      /\ count' \in [Ticks -> Nat] /\ succeeded' \in [Ticks -> SUBSET Rows]
  BY <1>1, <1>2, HandledKeeps
<1>4. faults' \in [throws : 0..MaxThrows, crashes : 0..MaxCrashes]
  <2>1. /\ IsBroken(t) \/ faults.throws < MaxThrows
        /\ faults' = [faults EXCEPT !.throws = IF IsBroken(t) THEN @ ELSE @ + 1]
    BY DEF SubscriberThrows
  <2>2. faults \in [throws : 0..MaxThrows, crashes : 0..MaxCrashes]
    BY DEF TypeOK
  <2>3. MaxThrows \in Nat
    BY OutboxAssumption
  <2> QED
    BY <2>1, <2>2, <2>3
<1>5. TypeOK'
  BY <1>1, <1>2, <1>3, <1>4, TickKeepsRows DEF TypeOK, requestVars
<1>6. WritingInv' /\ TickInv' /\ DisjointInv' /\ MarkedInv'
  BY <1>1, <1>3, RowsKeep
<1>7. ASSUME NEW y \in Rows, NEW s \in Subscribers, Accounted(t, y, s)
      PROVE  y \in failed' \/ Accounted(t, y, s)'
  BY <1>1, <1>3, <1>7 DEF Accounted
<1>8. SeenInv'
  BY <1>1, <1>3, <1>7, SeenKeeps
<1> QED
  BY <1>1, <1>5, <1>6, <1>8 DEF RepeatedOnlyAfterFailure

LEMMA MarkDispatchedKeeps ==
    ASSUME IInv, NEW t \in Ticks, MarkDispatched(t)
    PROVE  IInv'
<1> USE DEF IInv, RowsInv
<1>1. /\ rest[t] = {} /\ UNCHANGED requestVars
      /\ dispatched' = dispatched \union succeeded[t]
      /\ claimed' = [claimed EXCEPT ![t] = {}] /\ succeeded' = [succeeded EXCEPT ![t] = {}]
      /\ UNCHANGED <<rest, current, count, reached, repeated, failed, faults>>
  BY DEF MarkDispatched, history
<1>2. TickOK(t)
  BY DEF TickInv
<1>3. /\ OthersStay(t) /\ claimed'[t] = {} /\ succeeded'[t] = {}
      /\ current[t] = NoRow /\ count[t] = 0
  BY <1>1, <1>2 DEF TypeOK, OthersStay, TickOK
<1>4. TickOK(t)'
  BY <1>1, <1>3 DEF TickOK
<1>5. TypeOK'
  BY <1>1, <1>2, TickKeepsRows DEF TypeOK, TickOK, requestVars
<1>6. WritingInv' /\ TickInv' /\ DisjointInv' /\ MarkedInv'
  BY <1>1, <1>3, <1>4, RowsKeep
<1>7. ASSUME NEW x \in Rows, NEW s \in Subscribers, Accounted(t, x, s)
      PROVE  x \in dispatched'
  BY <1>1, <1>3, <1>7, OutboxAssumption DEF Accounted
<1>8. SeenInv'
  BY <1>1, <1>3, <1>7, SeenKeeps
<1> QED
  BY <1>1, <1>5, <1>6, <1>8 DEF RepeatedOnlyAfterFailure

LEMMA CrashTickKeeps ==
    ASSUME IInv, NEW t \in Ticks, CrashTick(t)
    PROVE  IInv'
<1> USE DEF IInv, RowsInv
<1>1. /\ UNCHANGED requestVars /\ UNCHANGED <<dispatched, reached, repeated>>
      /\ failed' = failed \union claimed[t]
      /\ claimed' = [claimed EXCEPT ![t] = {}] /\ rest' = [rest EXCEPT ![t] = {}]
      /\ current' = [current EXCEPT ![t] = NoRow] /\ count' = [count EXCEPT ![t] = 0]
      /\ succeeded' = [succeeded EXCEPT ![t] = {}]
  BY DEF CrashTick
<1>2. /\ OthersStay(t) /\ claimed'[t] = {} /\ succeeded'[t] = {} /\ rest'[t] = {}
      /\ current'[t] = NoRow /\ count'[t] = 0
  BY <1>1 DEF TypeOK, OthersStay
<1>3. TickOK(t)'
  BY <1>2 DEF TickOK
<1>4. faults' \in [throws : 0..MaxThrows, crashes : 0..MaxCrashes]
  <2>1. faults.crashes < MaxCrashes /\ faults' = [faults EXCEPT !.crashes = @ + 1]
    BY DEF CrashTick
  <2>2. faults \in [throws : 0..MaxThrows, crashes : 0..MaxCrashes]
    BY DEF TypeOK
  <2>3. MaxCrashes \in Nat
    BY OutboxAssumption
  <2> QED
    BY <2>1, <2>2, <2>3
<1>5. TypeOK'
  BY <1>1, <1>4, TickKeepsRows DEF TypeOK, requestVars
<1>6. WritingInv' /\ TickInv' /\ DisjointInv' /\ MarkedInv'
  BY <1>1, <1>2, <1>3, RowsKeep
<1>7. ASSUME NEW x \in Rows, NEW s \in Subscribers, Accounted(t, x, s)
      PROVE  x \in failed'
  BY <1>1, <1>7 DEF Accounted
<1>8. SeenInv'
  BY <1>1, <1>2, <1>7, SeenKeeps
<1> QED
  BY <1>1, <1>5, <1>6, <1>8 DEF RepeatedOnlyAfterFailure

-----------------------------------------------------------------------------
(* Theorems *)

LEMMA InvariantStep == IInv /\ [Next]_vars => IInv'
<1> SUFFICES ASSUME IInv, [Next]_vars
             PROVE  IInv'
  OBVIOUS
<1>1. CASE Next
  BY <1>1, RequestKeeps, ClaimKeeps, PickRowKeeps, RunSubscriberKeeps, SubscriberThrowsKeeps,
     MarkDispatchedKeeps, CrashTickKeeps DEF Next, Tick
<1>2. CASE UNCHANGED vars
  <2>1. UNCHANGED requestVars /\ UNCHANGED <<dispatched, claimed, rest, current, count, succeeded,
                                             reached, repeated, failed, faults>>
    BY <1>2 DEF vars, tickVars, history
  <2>2. TypeOK' /\ WritingInv' /\ DisjointInv'
    BY <2>1, TickKeepsRows DEF IInv, RowsInv, TypeOK, WritingInv, DisjointInv, requestVars
  <2>3. \A x : Delivered(x) => Delivered(x)'
    BY <2>1, TickKeepsRows DEF Delivered
  <2>4. \A t \in Ticks : TickOK(t) => TickOK(t)'
    BY <2>1, <2>3, TickKeepsRows
       DEF TickOK, ReachedFirst, requestVars, SubscribersOf, EventOf
  <2>5. \A t, x, s : Accounted(t, x, s) => Accounted(t, x, s)'
    BY <2>1, TickKeepsRows DEF Accounted
  <2> QED
    BY <2>1, <2>2, <2>3, <2>4, <2>5
       DEF IInv, RowsInv, TickInv, MarkedInv, SeenInv, RepeatedOnlyAfterFailure
<1> QED
  BY <1>1, <1>2

LEMMA InvariantInit == Init => IInv
<1> SUFFICES ASSUME Init
             PROVE  IInv
  OBVIOUS
<1> USE OutboxAssumption DEF Init
<1>1. TypeOK
  BY DEF TypeOK, Stored
<1>2. WritingInv /\ DisjointInv /\ MarkedInv /\ SeenInv /\ RepeatedOnlyAfterFailure
  BY DEF WritingInv, DisjointInv, MarkedInv, SeenInv, RepeatedOnlyAfterFailure
<1>3. TickInv
  BY DEF TickInv, TickOK
<1> QED
  BY <1>1, <1>2, <1>3 DEF IInv, RowsInv

\* Every state has the types of the router, the event store and the poller.
THEOREM OutboxTypesCorrect == Spec => []TypeOK
<1>1. IInv => TypeOK
  BY DEF IInv, RowsInv
<1> QED
  BY <1>1, InvariantInit, InvariantStep, PTL DEF Spec

\* At least once: whatever ticks overlap, subscribers throw and workers crash, a row
\* the poller marked has been through all its deferred subscribers (dispatchRow).
THEOREM MarkedMeansDelivered == Spec => []MarkedRowsWereDelivered
<1>1. IInv => MarkedRowsWereDelivered
  BY DEF IInv, RowsInv, MarkedInv, MarkedRowsWereDelivered, Delivered, Range
<1> QED
  BY <1>1, InvariantInit, InvariantStep, PTL DEF Spec

\* Exactly once while nothing fails: for any number of overlapping ticks, a subscriber
\* sees an event again only after an attempt at its row threw or crashed (SKIP LOCKED
\* in claimUndispatched).
THEOREM NoRepetitionWithoutFailure == Spec => []RepeatedOnlyAfterFailure
<1>1. IInv => RepeatedOnlyAfterFailure
  BY DEF IInv
<1> QED
  BY <1>1, InvariantInit, InvariantStep, PTL DEF Spec

-----------------------------------------------------------------------------
(* How often an event occurs *)

LEMMA OccurrencesAreNatural ==
    ASSUME NEW X, NEW s \in Seq(X), NEW e
    PROVE  /\ IsFiniteSet({k \in DOMAIN s : s[k] = e})
           /\ Occurrences(e, s) \in Nat
<1>1. IsFiniteSet(1 .. Len(s)) /\ DOMAIN s = 1 .. Len(s)
  BY FS_Interval
<1>2. IsFiniteSet({k \in DOMAIN s : s[k] = e})
  BY <1>1, FS_Subset
<1> QED
  BY <1>2, FS_CardinalityType DEF Occurrences

LEMMA NothingOccurs == \A e : Occurrences(e, << >>) = 0
<1>1. \A e : {k \in DOMAIN << >> : << >>[k] = e} = {}
  OBVIOUS
<1> QED
  BY <1>1, FS_EmptySet DEF Occurrences

\* The numbers of a sequence's elements, when those of another one come first.
LEMMA ShiftKeepsCardinality ==
    ASSUME NEW m \in Nat, NEW K \in SUBSET Nat, IsFiniteSet(K)
    PROVE  /\ IsFiniteSet({m + k : k \in K})
           /\ Cardinality({m + k : k \in K}) = Cardinality(K)
<1> DEFINE T == {m + k : k \in K}
           f == [k \in K |-> m + k]
<1>1. f \in Bijection(K, T)
  <2>1. f \in [K -> T]
    OBVIOUS
  <2>2. \A a, b \in K : f[a] = f[b] => a = b
    OBVIOUS
  <2>3. \A t \in T : \E k \in K : f[k] = t
    OBVIOUS
  <2> HIDE DEF f, T
  <2> QED
    BY <2>1, <2>2, <2>3 DEF Bijection, Injection, Surjection, IsInjective
<1>2. ExistsBijection(K, T)
  BY <1>1 DEF ExistsBijection
<1>3. IsFiniteSet(T) /\ Cardinality(T) = Cardinality(K)
  <2> HIDE DEF T
  <2> QED
    BY <1>2, FS_Bijection
<1> QED
  BY <1>3

LEMMA OccurrencesAdd ==
    ASSUME NEW X, NEW s \in Seq(X), NEW t \in Seq(X), NEW e
    PROVE  Occurrences(e, s \o t) = Occurrences(e, s) + Occurrences(e, t)
<1> DEFINE A == {k \in DOMAIN s : s[k] = e}
           B == {k \in DOMAIN t : t[k] = e}
           C == {Len(s) + k : k \in B}
           both == {k \in DOMAIN (s \o t) : (s \o t)[k] = e}
<1>1. /\ Len(s) \in Nat /\ DOMAIN s = 1 .. Len(s)
      /\ Len(t) \in Nat /\ DOMAIN t = 1 .. Len(t)
      /\ DOMAIN (s \o t) = 1 .. Len(s) + Len(t)
      /\ \A k \in 1 .. Len(s) + Len(t) :
            (s \o t)[k] = IF k <= Len(s) THEN s[k] ELSE t[k - Len(s)]
  OBVIOUS
<1>2. both = A \cup C
  <2>1. ASSUME NEW k \in both
        PROVE  k \in A \cup C
    <3>1. k \in 1 .. Len(s) + Len(t) /\ (s \o t)[k] = e
      BY <1>1
    <3>2. CASE k <= Len(s)
      BY <1>1, <3>1, <3>2
    <3>3. CASE ~ (k <= Len(s))
      <4>1. k - Len(s) \in B /\ k = Len(s) + (k - Len(s))
        BY <1>1, <3>1, <3>3
      <4> QED
        BY <4>1
    <3> QED
      BY <3>2, <3>3
  <2>2. ASSUME NEW k \in A \cup C
        PROVE  k \in both
    <3>1. CASE k \in A
      BY <1>1, <3>1
    <3>2. CASE k \in C
      <4>1. PICK j \in B : k = Len(s) + j
        BY <3>2
      <4>2. j \in 1 .. Len(t) /\ t[j] = e
        BY <1>1
      <4>3. k \in 1 .. Len(s) + Len(t) /\ ~ (k <= Len(s)) /\ k - Len(s) = j
        BY <1>1, <4>1, <4>2
      <4> QED
        BY <1>1, <4>2, <4>3
    <3> QED
      BY <2>2, <3>1, <3>2
  <2> QED
    BY <2>1, <2>2
<1>3. A \cap C = {}
  BY <1>1
<1>4. IsFiniteSet(A) /\ IsFiniteSet(B) /\ B \in SUBSET Nat
  <2>1. IsFiniteSet(A)
    BY OccurrencesAreNatural
  <2>2. IsFiniteSet(B)
    BY OccurrencesAreNatural
  <2>3. B \in SUBSET Nat
    BY <1>1
  <2> QED
    BY <2>1, <2>2, <2>3
<1>5. IsFiniteSet(C) /\ Cardinality(C) = Cardinality(B)
  <2> HIDE DEF B
  <2> QED
    BY <1>1, <1>4, ShiftKeepsCardinality
<1>6. /\ Occurrences(e, s) = Cardinality(A) /\ Occurrences(e, t) = Cardinality(B)
      /\ Occurrences(e, s \o t) = Cardinality(both)
  BY DEF Occurrences
<1> HIDE DEF A, B, C, both
<1>7. Cardinality(A \cup C) = Cardinality(A) + Cardinality(C) - Cardinality(A \cap C)
  BY <1>4, <1>5, FS_Union
<1>8. Cardinality(A \cap C) = 0 /\ Cardinality(A) \in Nat /\ Cardinality(C) \in Nat
  BY <1>3, <1>4, <1>5, FS_EmptySet, FS_CardinalityType
<1> QED
  BY <1>2, <1>5, <1>6, <1>7, <1>8

LEMMA OccurrencesOfHead ==
    ASSUME NEW X, NEW s \in Seq(X), s # << >>, NEW e
    PROVE  Occurrences(e, s) = (IF Head(s) = e THEN 1 ELSE 0) + Occurrences(e, Tail(s))
<1>1. Head(s) \in X /\ Tail(s) \in Seq(X) /\ << Head(s) >> \in Seq(X) /\ s = << Head(s) >> \o Tail(s)
  OBVIOUS
<1>2. Occurrences(e, << Head(s) >>) = IF Head(s) = e THEN 1 ELSE 0
  <2> DEFINE K == {k \in DOMAIN << Head(s) >> : << Head(s) >>[k] = e}
  <2>1. K = IF Head(s) = e THEN {1} ELSE {}
    OBVIOUS
  <2>2. Cardinality({1}) = 1 /\ Cardinality({}) = 0
    BY FS_EmptySet, FS_Singleton
  <2> QED
    BY <2>1, <2>2 DEF Occurrences
<1> QED
  BY <1>1, <1>2, OccurrencesAdd

-----------------------------------------------------------------------------
(* What is written, and what is still to be *)

\* RowsOf and Cascaded of the rows w.
RowsIn(w, e) == {k \in DOMAIN w : w[k].event = e}
SynchronousIn(w) == {k \in DOMAIN w : w[k].event \in Synchronous}
OccurrencesIn(w, e) == [k \in DOMAIN w |-> Occurrences(e, Cascade[w[k].event])]
CascadedIn(w, e) == SumFunctionOnSet(OccurrencesIn(w, e), SynchronousIn(w))

\* The rows w, and the events g and p that are still to become rows, are those the
\* first n calls of r published and those the synchronous subscribers did.
Balanced(r, n, g, p, w) ==
    \A e \in Events :
        Cardinality(RowsIn(w, e)) + Occurrences(e, g) + Occurrences(e, p)
            = Occurrences(e, FlatUpTo(Calls[r], n)) + CascadedIn(w, e)

\* A request has events to dispatch only while its transaction runs, and one outside a
\* transaction has no synchronous subscribers.
InCall(r) ==
    /\ call[r] <= Len(Calls[r])
    /\ stage[r] = "idle" => call[r] = 0
    /\ stage[r] \notin {"running", "failed"} => generation[r] = << >> /\ pending[r] = << >>
    /\ stage[r] = "committed" => call[r] = Len(Calls[r])
    /\ r \notin InContext =>
          stage[r] \notin {"running", "failed"} /\ SynchronousIn(written[r]) = {}

BalanceInv ==
    \A r \in Requests :
        InCall(r) /\ Balanced(r, call[r], generation[r], pending[r], written[r])

LEMMA CallFacts ==
    ASSUME NEW r \in Requests
    PROVE  /\ Calls[r] \in Seq(Seq(Events)) /\ Len(Calls[r]) \in Nat
           /\ \A n \in 0 .. Len(Calls[r]) : FlatUpTo(Calls[r], n) \in Seq(Events)
<1>1. Calls[r] \in Seq(Seq(Events))
  BY OutboxAssumption
<1> QED
  BY <1>1, FlattensOneByOne

\* The rows of a sequence can be counted.
LEMMA RowsAreFinite ==
    ASSUME NEW w \in Seq(Entry), NEW e
    PROVE  /\ DOMAIN w = 1 .. Len(w) /\ Len(w) \in Nat
           /\ IsFiniteSet(RowsIn(w, e)) /\ Cardinality(RowsIn(w, e)) \in Nat
           /\ IsFiniteSet(SynchronousIn(w))
<1>1. DOMAIN w = 1 .. Len(w) /\ Len(w) \in Nat
  OBVIOUS
<1>2. IsFiniteSet(DOMAIN w)
  BY <1>1, FS_Interval
<1>3. IsFiniteSet(RowsIn(w, e))
  BY <1>2, FS_Subset DEF RowsIn
<1>4. IsFiniteSet(SynchronousIn(w))
  BY <1>2, FS_Subset DEF SynchronousIn
<1>5. Cardinality(RowsIn(w, e)) \in Nat
  BY <1>3, FS_CardinalityType
<1> QED
  BY <1>1, <1>3, <1>4, <1>5

LEMMA CascadesAreNatural ==
    ASSUME NEW w \in Seq(Entry), NEW e
    PROVE  /\ \A k \in DOMAIN w : OccurrencesIn(w, e)[k] \in Nat
           /\ CascadedIn(w, e) \in Nat
<1>1. ASSUME NEW k \in DOMAIN w
      PROVE  OccurrencesIn(w, e)[k] \in Nat
  <2>1. w[k] \in Entry
    OBVIOUS
  <2>2. Cascade[w[k].event] \in Seq(Events)
    BY <2>1, OutboxAssumption DEF Entry
  <2>3. Occurrences(e, Cascade[w[k].event]) \in Nat
    BY <2>2, OccurrencesAreNatural
  <2> QED
    BY <2>3 DEF OccurrencesIn
<1>2. \A k \in SynchronousIn(w) : OccurrencesIn(w, e)[k] \in Nat
  BY <1>1 DEF SynchronousIn
<1>3. CascadedIn(w, e) \in Nat
  BY <1>2, RowsAreFinite, SumIsNatural DEF CascadedIn
<1> QED
  BY <1>1, <1>3

LEMMA AppendAddsRow ==
    ASSUME NEW w \in Seq(Entry), NEW row \in Entry, NEW e
    PROVE  Cardinality(RowsIn(Append(w, row), e))
             = Cardinality(RowsIn(w, e)) + IF row.event = e THEN 1 ELSE 0
<1> DEFINE v == Append(w, row)
           n == Len(w) + 1
<1>1. /\ Len(w) \in Nat /\ DOMAIN w = 1 .. Len(w) /\ DOMAIN v = 1 .. n
      /\ v[n] = row /\ \A k \in 1 .. Len(w) : v[k] = w[k]
  OBVIOUS
<1>2. n \notin DOMAIN w /\ DOMAIN v = DOMAIN w \cup {n}
  BY <1>1
<1> HIDE DEF v, n
<1>3. CASE row.event = e
  <2>1. RowsIn(v, e) = RowsIn(w, e) \cup {n} /\ n \notin RowsIn(w, e)
    BY <1>1, <1>2, <1>3 DEF RowsIn
  <2>2. Cardinality(RowsIn(w, e) \cup {n}) = Cardinality(RowsIn(w, e)) + 1
    BY <2>1, RowsAreFinite, FS_AddElement
  <2> QED
    BY <1>3, <2>1, <2>2 DEF v
<1>4. CASE row.event # e
  <2>1. RowsIn(v, e) = RowsIn(w, e)
    BY <1>1, <1>2, <1>4 DEF RowsIn
  <2>2. Cardinality(RowsIn(w, e)) \in Nat
    BY RowsAreFinite
  <2> QED
    BY <1>4, <2>1, <2>2 DEF v
<1> QED
  BY <1>3, <1>4

LEMMA AppendAddsCascade ==
    ASSUME NEW w \in Seq(Entry), NEW row \in Entry, NEW e
    PROVE  CascadedIn(Append(w, row), e)
             = CascadedIn(w, e)
                 + IF row.event \in Synchronous THEN Occurrences(e, Cascade[row.event]) ELSE 0
<1> DEFINE v == Append(w, row)
           n == Len(w) + 1
           f == OccurrencesIn(w, e)
           h == OccurrencesIn(v, e)
           S == SynchronousIn(w)
<1>1. /\ Len(w) \in Nat /\ DOMAIN w = 1 .. Len(w) /\ DOMAIN v = 1 .. n
      /\ v[n] = row /\ \A k \in 1 .. Len(w) : v[k] = w[k]
      /\ v \in Seq(Entry)
  OBVIOUS
<1>2. /\ n \notin DOMAIN w /\ DOMAIN v = DOMAIN w \cup {n}
      /\ v[n] = row /\ \A k \in DOMAIN w : v[k] = w[k]
  BY <1>1
<1> HIDE DEF v, n
<1>3. S \in SUBSET (DOMAIN w) /\ n \notin S /\ IsFiniteSet(S)
  BY <1>2, RowsAreFinite DEF SynchronousIn
<1>4. /\ h[n] = Occurrences(e, Cascade[row.event])
      /\ \A k \in DOMAIN w : h[k] = f[k]
  BY <1>1, <1>2 DEF OccurrencesIn
<1>5. \A k \in DOMAIN w : f[k] \in Int
  BY CascadesAreNatural
<1>6. h[n] \in Int
  BY <1>1, <1>2, CascadesAreNatural
<1>7. /\ CascadedIn(w, e) = SumFunctionOnSet(f, S)
      /\ CascadedIn(v, e) = SumFunctionOnSet(h, SynchronousIn(v))
  BY DEF CascadedIn
<1>8. CascadedIn(w, e) \in Int
  BY CascadesAreNatural
<1>9. SumFunctionOnSet(h, S) = SumFunctionOnSet(f, S)
  <2> HIDE DEF f, h, S
  <2>1. \A k \in S : f[k] \in Int /\ h[k] = f[k]
    BY <1>3, <1>4, <1>5
  <2> QED
    BY <1>3, <2>1, SumsEqual
<1>10. CASE row.event \in Synchronous
  <2>1. SynchronousIn(v) = S \cup {n}
    BY <1>2, <1>10 DEF SynchronousIn
  <2>2. SumFunctionOnSet(h, S \cup {n}) = SumFunctionOnSet(h, S) + h[n]
    <3> HIDE DEF f, h, S
    <3>1. \A k \in S \cup {n} : h[k] \in Int
      BY <1>3, <1>4, <1>5, <1>6
    <3> QED
      BY <1>3, <3>1, SumGrows
  <2> HIDE DEF f, h, S
  <2> QED
    BY <1>4, <1>7, <1>9, <1>10, <2>1, <2>2 DEF v
<1>11. CASE row.event \notin Synchronous
  <2>1. SynchronousIn(v) = S
    BY <1>2, <1>11 DEF SynchronousIn
  <2> HIDE DEF f, h, S
  <2> QED
    BY <1>7, <1>8, <1>9, <1>11, <2>1 DEF v
<1> QED
  BY <1>10, <1>11

-----------------------------------------------------------------------------
(* The steps of a request keep the balance *)

LEMMA DispatchKeepsBalance ==
    ASSUME NEW r \in Requests, NEW n \in 0 .. Len(Calls[r]),
           NEW g \in Seq(Events), g # << >>, NEW p \in Seq(Events), NEW w \in Seq(Entry),
           NEW at \in Nat, Balanced(r, n, g, p, w)
    PROVE  Balanced(r, n, Tail(g),
                    IF Head(g) \in Synchronous THEN p \o Cascade[Head(g)] ELSE p,
                    Append(w, toOutboxRow(Head(g), Head(g) \in Synchronous, at)))
<1> DEFINE d == Head(g)
           row == toOutboxRow(d, d \in Synchronous, at)
           q == IF d \in Synchronous THEN p \o Cascade[d] ELSE p
<1>1. d \in Events /\ Tail(g) \in Seq(Events)
  OBVIOUS
<1>2. Cascade[d] \in Seq(Events)
  BY <1>1, OutboxAssumption
<1>3. row \in Entry /\ row.event = d
  BY <1>1 DEF toOutboxRow, Entry
<1> SUFFICES ASSUME NEW e \in Events
             PROVE  Cardinality(RowsIn(Append(w, row), e)) + Occurrences(e, Tail(g))
                        + Occurrences(e, q)
                      = Occurrences(e, FlatUpTo(Calls[r], n)) + CascadedIn(Append(w, row), e)
  BY DEF Balanced
<1>4. Cardinality(RowsIn(w, e)) + Occurrences(e, g) + Occurrences(e, p)
        = Occurrences(e, FlatUpTo(Calls[r], n)) + CascadedIn(w, e)
  BY DEF Balanced
<1>5. /\ Cardinality(RowsIn(w, e)) \in Nat /\ CascadedIn(w, e) \in Nat
      /\ Occurrences(e, g) \in Nat /\ Occurrences(e, Tail(g)) \in Nat
      /\ Occurrences(e, p) \in Nat /\ Occurrences(e, Cascade[d]) \in Nat
      /\ Occurrences(e, FlatUpTo(Calls[r], n)) \in Nat
  BY <1>1, <1>2, RowsAreFinite, CascadesAreNatural, OccurrencesAreNatural, CallFacts
<1> HIDE DEF d, row
<1> DEFINE one == IF d = e THEN 1 ELSE 0
<1>6. Occurrences(e, g) = one + Occurrences(e, Tail(g)) /\ one \in Nat
  BY OccurrencesOfHead DEF d
<1>7. Cardinality(RowsIn(Append(w, row), e)) = Cardinality(RowsIn(w, e)) + one
  BY <1>3, AppendAddsRow
<1> HIDE DEF one
<1>8. CascadedIn(Append(w, row), e)
        = CascadedIn(w, e) + IF d \in Synchronous THEN Occurrences(e, Cascade[d]) ELSE 0
  BY <1>3, AppendAddsCascade
<1> DEFINE more == IF d \in Synchronous THEN Occurrences(e, Cascade[d]) ELSE 0
<1>9. Occurrences(e, q) = Occurrences(e, p) + more /\ more \in Nat
  <2>1. CASE d \in Synchronous
    <3>1. Occurrences(e, q) = Occurrences(e, p) + Occurrences(e, Cascade[d])
      BY <1>2, <2>1, OccurrencesAdd
    <3> QED
      BY <1>5, <2>1, <3>1
  <2>2. CASE d \notin Synchronous
    BY <1>5, <2>2
  <2> QED
    BY <2>1, <2>2
<1> HIDE DEF more, q
<1>10. CascadedIn(Append(w, row), e) = CascadedIn(w, e) + more
  BY <1>8 DEF more
<1> DEFINE c == Cardinality(RowsIn(w, e))
           t == Occurrences(e, Tail(g))
           x == Occurrences(e, p)
           f == Occurrences(e, FlatUpTo(Calls[r], n))
           k == CascadedIn(w, e)
<1>11. c \in Nat /\ t \in Nat /\ x \in Nat /\ f \in Nat /\ k \in Nat
  BY <1>5
<1>12. c + (one + t) + x = f + k
  BY <1>4, <1>6
<1>13. /\ Cardinality(RowsIn(Append(w, row), e)) = c + one
       /\ Occurrences(e, q) = x + more
       /\ CascadedIn(Append(w, row), e) = k + more
  BY <1>7, <1>9, <1>10
<1>14. (c + one) + t + (x + more) = f + (k + more)
  <2> HIDE DEF c, t, x, f, k
  <2> QED
    BY <1>6, <1>9, <1>11, <1>12
<1> QED
  BY <1>13, <1>14

LEMMA PublishKeepsBalance ==
    ASSUME NEW r \in Requests, NEW n \in Nat, n < Len(Calls[r]), NEW w \in Seq(Entry),
           Balanced(r, n, << >>, << >>, w)
    PROVE  Balanced(r, n + 1, Calls[r][n + 1], << >>, w)
<1> DEFINE before == FlatUpTo(Calls[r], n)
           next == Calls[r][n + 1]
<1>1. Calls[r] \in Seq(Seq(Events)) /\ Len(Calls[r]) \in Nat
  BY CallFacts
<1>2. next \in Seq(Events)
  BY <1>1
<1>3. before \in Seq(Events)
  <2>1. n \in 0 .. Len(Calls[r])
    BY <1>1
  <2> QED
    BY <2>1, CallFacts
<1>4. FlatUpTo(Calls[r], n + 1) = before \o next
  BY <1>1, FlattensOneByOne
<1> HIDE DEF before, next
<1> SUFFICES ASSUME NEW e \in Events
             PROVE  Cardinality(RowsIn(w, e)) + Occurrences(e, next) + Occurrences(e, << >>)
                      = Occurrences(e, before \o next) + CascadedIn(w, e)
  BY <1>4 DEF Balanced, next
<1>5. Occurrences(e, before \o next) = Occurrences(e, before) + Occurrences(e, next)
  BY <1>2, <1>3, OccurrencesAdd
<1>6. Cardinality(RowsIn(w, e)) + Occurrences(e, << >>) + Occurrences(e, << >>)
        = Occurrences(e, before) + CascadedIn(w, e)
  BY DEF Balanced, before
<1>7. /\ Cardinality(RowsIn(w, e)) \in Nat /\ CascadedIn(w, e) \in Nat
      /\ Occurrences(e, before) \in Nat /\ Occurrences(e, next) \in Nat
      /\ Occurrences(e, << >>) = 0
  BY <1>2, <1>3, RowsAreFinite, CascadesAreNatural, OccurrencesAreNatural, NothingOccurs
<1> QED
  BY <1>5, <1>6, <1>7

LEMMA DrainKeepsBalance ==
    ASSUME NEW r \in Requests, NEW n, NEW p \in Seq(Events), NEW w \in Seq(Entry),
           Balanced(r, n, << >>, p, w)
    PROVE  Balanced(r, n, p, << >>, w)
<1> SUFFICES ASSUME NEW e \in Events
             PROVE  Cardinality(RowsIn(w, e)) + Occurrences(e, p) + Occurrences(e, << >>)
                      = Occurrences(e, FlatUpTo(Calls[r], n)) + CascadedIn(w, e)
  BY DEF Balanced
<1>1. Cardinality(RowsIn(w, e)) + Occurrences(e, << >>) + Occurrences(e, p)
        = Occurrences(e, FlatUpTo(Calls[r], n)) + CascadedIn(w, e)
  BY DEF Balanced
<1>2. /\ Cardinality(RowsIn(w, e)) \in Nat /\ Occurrences(e, p) \in Nat
      /\ Occurrences(e, << >>) = 0
  BY RowsAreFinite, OccurrencesAreNatural, NothingOccurs
<1> QED
  BY <1>1, <1>2

\* The rows of one more call, none of which cascades.
LEMMA OutboxOnlyBalances ==
    ASSUME NEW r \in Requests, NEW n \in Nat, n < Len(Calls[r]), NEW at \in Nat,
           NEW w \in Seq(Entry), SynchronousIn(w) = {},
           Balanced(r, n, << >>, << >>, w),
           Calls[r][n + 1] \in Seq(Events \ Synchronous)
    PROVE  LET v == w \o [k \in DOMAIN Calls[r][n + 1] |->
                            toOutboxRow(Calls[r][n + 1][k], FALSE, at)] IN
           Balanced(r, n + 1, << >>, << >>, v) /\ SynchronousIn(v) = {}
<1>1. PICK events : events = Calls[r][n + 1]
  OBVIOUS
<1>2. PICK new : new = [k \in DOMAIN events |-> toOutboxRow(events[k], FALSE, at)]
  OBVIOUS
<1>3. /\ events \in Seq(Events \ Synchronous) /\ events \in Seq(Events)
      /\ DOMAIN events = 1..Len(events) /\ Len(events) \in Nat
  BY <1>1
<1>4. \A k \in 1..Len(events) :
          events[k] \in Events \ Synchronous /\ new[k] \in Entry /\ new[k].event = events[k]
  BY <1>2, <1>3 DEF toOutboxRow, Entry
<1>5. new = [k \in 1..Len(events) |-> new[k]]
  BY <1>2, <1>3
<1>6. new \in Seq(Entry) /\ Len(new) = Len(events)
  BY <1>3, <1>4, <1>5
<1>7. PICK v : v = w \o new
  OBVIOUS
<1>8. /\ v \in Seq(Entry) /\ DOMAIN v = 1 .. Len(w) + Len(new)
      /\ Len(w) \in Nat /\ DOMAIN w = 1 .. Len(w)
      /\ \A k \in 1 .. Len(w) : v[k] = w[k]
      /\ \A k \in 1 .. Len(new) : v[Len(w) + k] = new[k]
  <2>1. /\ v \in Seq(Entry) /\ Len(v) = Len(w) + Len(new)
        /\ \A i \in 1 .. Len(w) + Len(new) :
              v[i] = IF i <= Len(w) THEN w[i] ELSE new[i - Len(w)]
    BY <1>6, <1>7, ConcatProperties
  <2>2. Len(w) \in Nat /\ Len(new) \in Nat /\ DOMAIN w = 1 .. Len(w) /\ DOMAIN v = 1 .. Len(v)
    BY <1>6, <2>1
  <2>3. \A k \in 1 .. Len(w) : v[k] = w[k]
    BY <2>1, <2>2
  <2>4. \A k \in 1 .. Len(new) : v[Len(w) + k] = new[k]
    BY <2>1, <2>2
  <2> QED
    BY <2>1, <2>2, <2>3, <2>4
<1>9. \A k \in DOMAIN v : k \in DOMAIN w \/ (k - Len(w) \in 1 .. Len(new)
                                              /\ v[k] = new[k - Len(w)])
  BY <1>3, <1>6, <1>8
<1>10. SynchronousIn(v) = {}
  <2> SUFFICES ASSUME NEW k \in DOMAIN v, v[k].event \in Synchronous
               PROVE  FALSE
    BY DEF SynchronousIn
  <2>1. CASE k \in DOMAIN w
    <3>1. k \in SynchronousIn(w)
      BY <1>8, <2>1 DEF SynchronousIn
    <3> QED
      BY <3>1
  <2>2. CASE k - Len(w) \in 1 .. Len(new) /\ v[k] = new[k - Len(w)]
    BY <1>4, <1>6, <2>2
  <2> QED
    BY <1>9, <2>1, <2>2
<1>11. ASSUME NEW e \in Events
       PROVE  Cardinality(RowsIn(v, e)) + Occurrences(e, << >>) + Occurrences(e, << >>)
                = Occurrences(e, FlatUpTo(Calls[r], n + 1)) + CascadedIn(v, e)
  <2>1. CascadedIn(v, e) = 0 /\ CascadedIn(w, e) = 0
    BY <1>10, SumOfNothing DEF CascadedIn
  <2>2. PICK ew : ew = [k \in 1 .. Len(w) |-> w[k].event]
    OBVIOUS
  <2>3. PICK ev : ev = [k \in 1 .. Len(w) + Len(new) |-> v[k].event]
    OBVIOUS
  <2>4. \A k \in 1 .. Len(w) : w[k].event \in Events
    <3>1. \A k \in 1 .. Len(w) : w[k] \in Entry
      OBVIOUS
    <3> QED
      BY <3>1 DEF Entry
  <2>5. ew \in Seq(Events) /\ Len(ew) = Len(w) /\ DOMAIN ew = 1 .. Len(w)
    BY <1>8, <2>2, <2>4
  <2>6. ev = ew \o events
    <3>1. /\ ew \o events \in Seq(Events) /\ DOMAIN (ew \o events) = 1 .. Len(w) + Len(new)
          /\ ew \o events \in [1 .. Len(w) + Len(new) -> Events]
      <4>1. ew \o events \in Seq(Events) /\ Len(ew \o events) = Len(ew) + Len(events)
        <5>1. ew \in Seq(Events) /\ events \in Seq(Events)
          BY <1>3, <2>5
        <5> QED
          BY <5>1, ConcatProperties
      <4>2. Len(ew \o events) = Len(w) + Len(new)
        BY <1>6, <2>5, <4>1
      <4>3. PICK both : both = ew \o events
        OBVIOUS
      <4>4. both \in Seq(Events) /\ Len(both) = Len(w) + Len(new)
        BY <4>1, <4>2, <4>3
      <4>5. DOMAIN both = 1 .. Len(w) + Len(new) /\ both \in [1 .. Len(w) + Len(new) -> Events]
        BY <4>4
      <4> QED
        BY <4>3, <4>4, <4>5
    <3>2. ASSUME NEW k \in 1 .. Len(w) + Len(new)
          PROVE  (ew \o events)[k] = v[k].event
      <4>1. CASE k \in 1 .. Len(w)
        <5>1. (ew \o events)[k] = ew[k]
          BY <1>3, <2>5, <4>1
        <5> QED
          BY <1>8, <2>2, <4>1, <5>1
      <4>2. CASE k \notin 1 .. Len(w)
        <5>1. k - Len(w) \in 1 .. Len(new) /\ v[k] = new[k - Len(w)]
          BY <1>8, <1>9, <4>2
        <5>2. (ew \o events)[k] = events[k - Len(w)]
          BY <1>3, <1>6, <1>8, <2>5, <4>2
        <5> QED
          BY <1>4, <1>6, <5>1, <5>2
      <4> QED
        BY <4>1, <4>2
    <3>3. ew \o events = [k \in 1 .. Len(w) + Len(new) |-> (ew \o events)[k]]
      BY <3>1
    <3> QED
      BY <2>3, <3>2, <3>3
  <2>7. Cardinality(RowsIn(w, e)) = Occurrences(e, ew)
    <3>1. RowsIn(w, e) = {k \in DOMAIN ew : ew[k] = e}
      BY <1>8, <2>2 DEF RowsIn
    <3> QED
      BY <3>1 DEF Occurrences
  <2>8. Cardinality(RowsIn(v, e)) = Occurrences(e, ev)
    <3>1. RowsIn(v, e) = {k \in DOMAIN ev : ev[k] = e}
      BY <1>8, <2>3 DEF RowsIn
    <3> QED
      BY <3>1 DEF Occurrences
  <2>9. Occurrences(e, ev) = Occurrences(e, ew) + Occurrences(e, events)
    BY <1>3, <2>5, <2>6, OccurrencesAdd
  <2>10. Calls[r] \in Seq(Seq(Events)) /\ FlatUpTo(Calls[r], n) \in Seq(Events)
    <3>1. n \in 0 .. Len(Calls[r])
      BY CallFacts
    <3> QED
      BY <3>1, CallFacts
  <2>11. FlatUpTo(Calls[r], n + 1) = FlatUpTo(Calls[r], n) \o events
    BY <1>1, <2>10, FlattensOneByOne
  <2>12. Occurrences(e, FlatUpTo(Calls[r], n + 1))
           = Occurrences(e, FlatUpTo(Calls[r], n)) + Occurrences(e, events)
    BY <1>3, <2>10, <2>11, OccurrencesAdd
  <2>13. Cardinality(RowsIn(w, e)) + Occurrences(e, << >>) + Occurrences(e, << >>)
           = Occurrences(e, FlatUpTo(Calls[r], n)) + CascadedIn(w, e)
    BY DEF Balanced
  <2>14. /\ Occurrences(e, ew) \in Nat /\ Occurrences(e, events) \in Nat
         /\ Occurrences(e, FlatUpTo(Calls[r], n)) \in Nat /\ Occurrences(e, << >>) = 0
    BY <1>3, <2>5, <2>10, OccurrencesAreNatural, NothingOccurs
  <2> QED
    BY <2>1, <2>7, <2>8, <2>9, <2>12, <2>13, <2>14
<1>12. Balanced(r, n + 1, << >>, << >>, v)
  BY <1>11 DEF Balanced
<1> QED
  BY <1>1, <1>2, <1>7, <1>10, <1>12

\* Nothing of r has changed.
LEMMA BalanceStays ==
    ASSUME BalanceInv, NEW r \in Requests,
           call'[r] = call[r], generation'[r] = generation[r], pending'[r] = pending[r],
           written'[r] = written[r],
           \/ stage'[r] = stage[r]
           \/ stage[r] = "idle" /\ stage'[r] = "saved"
           \/ stage[r] = "saved" /\ stage'[r] = "lost"
           \/ r \in InContext /\ stage'[r] \in {"running", "failed"}
    PROVE  InCall(r)' /\ Balanced(r, call[r], generation[r], pending[r], written[r])'
<1>1. InCall(r) /\ Balanced(r, call[r], generation[r], pending[r], written[r])
  BY DEF BalanceInv
<1>2. InCall(r)'
  BY <1>1 DEF InCall, SynchronousIn
<1>3. Balanced(r, call[r], generation[r], pending[r], written[r])'
  BY <1>1, ZenonT(60) DEF Balanced, RowsIn, CascadedIn, OccurrencesIn, SynchronousIn, Occurrences, FlatUpTo, FlatsOf, AreFlat, FlatBody
<1> QED
  BY <1>2, <1>3

LEMMA RequestKeepsBalance ==
    ASSUME RequestTypes, BalanceInv, NEW r \in Requests, Request(r)
    PROVE  InCall(r)' /\ Balanced(r, call[r], generation[r], pending[r], written[r])'
<1>1. /\ InCall(r) /\ Balanced(r, call[r], generation[r], pending[r], written[r])
      /\ call[r] \in Nat /\ generation[r] \in Seq(Events) /\ pending[r] \in Seq(Events)
      /\ written[r] \in Seq(Entry)
  BY DEF BalanceInv, RequestTypes
<1>2. /\ DOMAIN stage = Requests /\ DOMAIN call = Requests /\ DOMAIN generation = Requests
      /\ DOMAIN pending = Requests /\ DOMAIN written = Requests
  BY DEF RequestTypes
<1>3. Len(Calls[r]) \in Nat /\ call[r] \in 0 .. Len(Calls[r])
  BY <1>1, CallFacts DEF InCall
<1>4. ASSUME NEW n, NEW g, NEW p, NEW w, Balanced(r, n, g, p, w),
             call'[r] = n, generation'[r] = g, pending'[r] = p, written'[r] = w
      PROVE  Balanced(r, call[r], generation[r], pending[r], written[r])'
  BY <1>4 DEF Balanced, RowsIn, CascadedIn, OccurrencesIn, SynchronousIn, Occurrences, FlatUpTo,
              FlatsOf, AreFlat, FlatBody
<1>0. stage[r] = "running" => r \in InContext
  BY <1>1 DEF InCall
<1>5. CASE Begin(r) \/ Fail(r) \/ SaveAlone(r) \/ LoseEvents(r)
  BY <1>0, <1>2, <1>5, BalanceStays DEF Begin, Fail, SaveAlone, LoseEvents
<1>6. CASE Publish(r)
  <2>1. /\ generation[r] = << >> /\ pending[r] = << >> /\ call[r] < Len(Calls[r])
        /\ stage'[r] = "running"
        /\ call'[r] = call[r] + 1 /\ generation'[r] = Calls[r][call[r] + 1]
        /\ pending'[r] = << >> /\ written'[r] = written[r]
    BY <1>2, <1>6 DEF Publish, Drained
  <2>2. InCall(r)'
    BY <1>0, <1>1, <1>3, <1>6, <2>1 DEF InCall, Publish
  <2>3. Balanced(r, call[r] + 1, Calls[r][call[r] + 1], << >>, written[r])
    BY <1>1, <2>1, PublishKeepsBalance
  <2> QED
    BY <1>4, <2>1, <2>2, <2>3
<1>7. CASE DispatchEvent(r)
  <2> DEFINE d == Head(generation[r])
             p == IF d \in Synchronous THEN pending[r] \o Cascade[d] ELSE pending[r]
             w == Append(written[r], toOutboxRow(d, d \in Synchronous, began[r]))
  <2>1. /\ generation[r] # << >> /\ stage'[r] = "running" /\ call'[r] = call[r]
        /\ generation'[r] = Tail(generation[r])
        /\ pending'[r] = p /\ written'[r] = w
    BY <1>2, <1>7 DEF DispatchEvent
  <2>2. InCall(r)'
    BY <1>0, <1>1, <1>7, <2>1 DEF InCall, DispatchEvent
  <2>3. Balanced(r, call[r], Tail(generation[r]), p, w)
    <3>1. began[r] \in Nat
      BY DEF RequestTypes
    <3> QED
      BY <1>1, <1>3, <2>1, <3>1, DispatchKeepsBalance
  <2> HIDE DEF p, w
  <2> QED
    BY <1>4, <2>1, <2>2, <2>3
<1>8. CASE drainPendingGenerations(r)
  <2>1. /\ generation[r] = << >> /\ stage'[r] = "running" /\ call'[r] = call[r]
        /\ generation'[r] = pending[r] /\ pending'[r] = << >> /\ written'[r] = written[r]
    BY <1>2, <1>8 DEF drainPendingGenerations
  <2>2. InCall(r)'
    BY <1>0, <1>1, <1>8, <2>1 DEF InCall, drainPendingGenerations
  <2>3. Balanced(r, call[r], pending[r], << >>, written[r])
    BY <1>1, <2>1, DrainKeepsBalance
  <2> QED
    BY <1>4, <2>1, <2>2, <2>3
<1>9. CASE Commit(r)
  <2>1. /\ generation[r] = << >> /\ pending[r] = << >> /\ call[r] = Len(Calls[r])
        /\ generation'[r] = << >> /\ pending'[r] = << >> /\ call'[r] = call[r]
        /\ written'[r] = written[r]
    BY <1>9 DEF Commit, Drained
  <2>2. InCall(r)'
    <3>1. stage'[r] = "committed"
      BY <1>2, <1>9 DEF Commit
    <3> QED
      BY <1>0, <1>3, <1>9, <2>1, <3>1 DEF InCall, Commit
  <2>3. Balanced(r, call[r], << >>, << >>, written[r])
    BY <1>1, <2>1
  <2> QED
    BY <1>4, <2>1, <2>2, <2>3
<1>10. CASE WriteOutboxOnly(r)
  <2>1. PICK w : w = written[r] \o [k \in DOMAIN Calls[r][call[r] + 1] |->
                          toOutboxRow(Calls[r][call[r] + 1][k], FALSE, clock + 1)]
    OBVIOUS
  <2>2. /\ stage[r] = "saved" /\ call[r] < Len(Calls[r])
        /\ Calls[r][call[r] + 1] \in Seq(Events \ Synchronous)
        /\ call'[r] = call[r] + 1 /\ written'[r] = w
        /\ generation'[r] = generation[r] /\ pending'[r] = pending[r]
        /\ stage'[r] = AfterCall(r)
    BY <1>2, <1>10, <2>1 DEF WriteOutboxOnly, NextCall
  <2>3. generation[r] = << >> /\ pending[r] = << >>
    BY <1>1, <2>2 DEF InCall
  <2>4. r \notin InContext
    BY <1>10 DEF WriteOutboxOnly, WritingInv, RequestTypes
  <2>5. SynchronousIn(written[r]) = {}
    BY <1>1, <2>4 DEF InCall
  <2>6. clock + 1 \in Nat
    BY DEF RequestTypes
  <2>7. Balanced(r, call[r] + 1, << >>, << >>, w) /\ SynchronousIn(w) = {}
    <3>1. Balanced(r, call[r], << >>, << >>, written[r])
      BY <1>1, <2>3
    <3> QED
      BY <1>1, <2>1, <2>2, <2>5, <2>6, <3>1, OutboxOnlyBalances
  <2>8. InCall(r)'
    <3>1. SynchronousIn(written'[r]) = {}
      BY <2>2, <2>7
    <3>2. SynchronousIn(written[r])' = {}
      BY <3>1 DEF SynchronousIn
    <3> QED
      BY <1>3, <2>2, <2>3, <3>2 DEF InCall, AfterCall
  <2> QED
    BY <1>4, <2>2, <2>3, <2>7, <2>8
<1> QED
  BY <1>5, <1>6, <1>7, <1>8, <1>9, <1>10 DEF Request

LEMMA StepKeepsBalance == RequestTypes /\ BalanceInv /\ [Next]_vars => BalanceInv'
<1> SUFFICES ASSUME RequestTypes, BalanceInv, [Next]_vars
             PROVE  BalanceInv'
  OBVIOUS
<1>1. CASE UNCHANGED requestVars
  <2>1. ASSUME NEW r \in Requests
        PROVE  InCall(r)' /\ Balanced(r, call[r], generation[r], pending[r], written[r])'
    BY <1>1, BalanceStays DEF requestVars
  <2> QED
    BY <2>1 DEF BalanceInv
<1>2. ASSUME NEW q \in Requests, Request(q)
      PROVE  BalanceInv'
  <2>1. ASSUME NEW r \in Requests \ {q}
        PROVE  /\ call'[r] = call[r] /\ generation'[r] = generation[r]
               /\ pending'[r] = pending[r] /\ written'[r] = written[r] /\ stage'[r] = stage[r]
    BY <1>2 DEF RequestTypes, Request, Begin, Publish, DispatchEvent, drainPendingGenerations, Commit,
                Fail, SaveAlone, LoseEvents, WriteOutboxOnly
  <2>2. ASSUME NEW r \in Requests
        PROVE  InCall(r)' /\ Balanced(r, call[r], generation[r], pending[r], written[r])'
    <3>1. CASE r = q
      BY <1>2, <3>1, RequestKeepsBalance
    <3>2. CASE r # q
      BY <2>1, <3>2, BalanceStays
    <3> QED
      BY <3>1, <3>2
  <2> QED
    BY <2>2 DEF BalanceInv
<1>3. ASSUME NEW t \in Ticks, Tick(t) \/ CrashTick(t)
      PROVE  UNCHANGED requestVars
  BY <1>3 DEF Tick, Claim, PickRow, RunSubscriber, SubscriberThrows, MarkDispatched, CrashTick
<1> QED
  BY <1>1, <1>2, <1>3 DEF Next, vars

LEMMA BalanceInit == Init => BalanceInv
<1> SUFFICES ASSUME Init, NEW r \in Requests
             PROVE  InCall(r) /\ Balanced(r, call[r], generation[r], pending[r], written[r])
  BY DEF BalanceInv
<1>1. /\ call[r] = 0 /\ generation[r] = << >> /\ pending[r] = << >> /\ written[r] = << >>
      /\ stage[r] = "idle"
  BY DEF Init
<1>2. InCall(r)
  BY <1>1, CallFacts DEF InCall, SynchronousIn
<1>3. ASSUME NEW e \in Events
      PROVE  Cardinality(RowsIn(<< >>, e)) = 0 /\ CascadedIn(<< >>, e) = 0
  <2>1. RowsIn(<< >>, e) = {} /\ SynchronousIn(<< >>) = {}
    BY DEF RowsIn, SynchronousIn
  <2> QED
    BY <2>1, SumOfNothing, FS_EmptySet DEF CascadedIn
<1>4. FlatUpTo(Calls[r], 0) = << >>
  BY DEF FlatUpTo
<1>5. Balanced(r, 0, << >>, << >>, << >>)
  BY <1>3, <1>4, NothingOccurs DEF Balanced
<1> QED
  BY <1>1, <1>2, <1>5

\* The calls made so far flatten to what was published so far.
LEMMA CallsMadeFlatten ==
    ASSUME NEW r \in Requests, NEW m \in 0 .. Len(Calls[r])
    PROVE  FlattenSeq(SubSeq(Calls[r], 1, m)) = FlatUpTo(Calls[r], m)
<1> DEFINE s == Calls[r]
           t == SubSeq(s, 1, m)
           D == {n \in Nat : n <= m => FlatUpTo(t, n) = FlatUpTo(s, n)}
<1>1. s \in Seq(Seq(Events)) /\ Len(s) \in Nat
  BY CallFacts
<1>2. t \in Seq(Seq(Events)) /\ Len(t) = m /\ \A k \in 1 .. m : t[k] = s[k]
  BY <1>1
<1> HIDE DEF s, t
<1>3. 0 \in D
  BY <1>1, <1>2, FlattensOneByOne
<1>4. ASSUME NEW n \in D
      PROVE  n + 1 \in D
  <2> SUFFICES ASSUME n + 1 <= m
               PROVE  FlatUpTo(t, n + 1) = FlatUpTo(s, n + 1)
    OBVIOUS
  <2>1. n \in Nat /\ n < Len(s) /\ n < Len(t) /\ n <= m /\ n + 1 \in 1 .. m
    BY <1>1, <1>2 DEF s
  <2>2. FlatUpTo(s, n + 1) = FlatUpTo(s, n) \o s[n + 1]
    BY <1>1, <2>1, FlattensOneByOne
  <2>3. FlatUpTo(t, n + 1) = FlatUpTo(t, n) \o t[n + 1]
    BY <1>2, <2>1, FlattensOneByOne
  <2> QED
    BY <1>2, <2>1, <2>2, <2>3
<1>5. \A n \in Nat : n \in D
  <2> HIDE DEF D
  <2>1. D \in SUBSET Nat
    BY DEF D
  <2> QED
    BY <1>3, <1>4, <2>1, NumberInduction
<1>6. FlatUpTo(t, m) = FlatUpTo(s, m)
  BY <1>1, <1>5
<1>7. FlattenSeq(t) = FlatUpTo(t, m)
  BY <1>2, FlattensOneByOne
<1> QED
  BY <1>6, <1>7 DEF s, t

\* The outbox is complete, for any calls, cascades and subscribers: a committed request
\* wrote one row for each event it published and for each its synchronous subscribers
\* published in turn, and one outside a transaction wrote those of the calls it came to
\* (EventBusRouter.publish).
THEOREM OutboxIsAlwaysComplete == Spec => []OutboxIsComplete
<1>1. IInv => RequestTypes
  BY DEF IInv, RowsInv, RequestTypes, TypeOK, Entry
<1>2. RequestTypes /\ BalanceInv => OutboxIsComplete
  <2> SUFFICES ASSUME RequestTypes, BalanceInv, NEW r \in Requests, NEW e \in Events
               PROVE  /\ stage[r] = "committed" =>
                            Cardinality(RowsOf(r, e))
                              = Occurrences(e, FlattenSeq(Calls[r])) + Cascaded(r, e)
                      /\ r \notin InContext =>
                            Cardinality(RowsOf(r, e)) = Occurrences(e, FlattenSeq(CallsMade(r)))
    BY DEF OutboxIsComplete
  <2>1. /\ Cardinality(RowsIn(written[r], e)) + Occurrences(e, generation[r])
                + Occurrences(e, pending[r])
             = Occurrences(e, FlatUpTo(Calls[r], call[r])) + CascadedIn(written[r], e)
        /\ written[r] \in Seq(Entry) /\ call[r] \in Nat /\ InCall(r)
    BY DEF BalanceInv, Balanced, RequestTypes
  <2>2. call[r] \in 0 .. Len(Calls[r])
    BY <2>1, CallFacts DEF InCall
  <2>3. RowsIn(written[r], e) = RowsOf(r, e) /\ CascadedIn(written[r], e) = Cascaded(r, e)
    BY DEF RowsIn, RowsOf, CascadedIn, Cascaded, OccurrencesIn, SynchronousIn
  <2>4. Cardinality(RowsIn(written[r], e)) \in Nat /\ Occurrences(e, << >>) = 0
    BY <2>1, RowsAreFinite, NothingOccurs
  <2>5. /\ Occurrences(e, FlatUpTo(Calls[r], call[r])) \in Nat
        /\ CascadedIn(written[r], e) \in Nat
    BY <2>1, <2>2, CallFacts, OccurrencesAreNatural, CascadesAreNatural
  <2>6. CASE stage[r] = "committed"
    <3>1. FlatUpTo(Calls[r], Len(Calls[r])) = FlattenSeq(Calls[r])
      BY CallFacts, FlattensOneByOne
    <3>2. call[r] = Len(Calls[r]) /\ generation[r] = << >> /\ pending[r] = << >>
      BY <2>1, <2>6 DEF InCall
    <3>3. Cardinality(RowsOf(r, e)) = Occurrences(e, FlattenSeq(Calls[r])) + Cascaded(r, e)
      BY <2>1, <2>3, <2>4, <2>5, <3>1, <3>2
    <3>4. r \notin InContext =>
              Cardinality(RowsOf(r, e)) = Occurrences(e, FlattenSeq(CallsMade(r)))
      <4> SUFFICES ASSUME r \notin InContext
                   PROVE  Cardinality(RowsOf(r, e)) = Occurrences(e, FlattenSeq(CallsMade(r)))
        OBVIOUS
      <4>1. CascadedIn(written[r], e) = 0
        BY <2>1, SumOfNothing DEF CascadedIn, InCall
      <4>2. FlattenSeq(CallsMade(r)) = FlatUpTo(Calls[r], call[r])
        BY <2>2, CallsMadeFlatten DEF CallsMade
      <4> QED
        BY <2>1, <2>3, <2>4, <2>5, <3>2, <4>1, <4>2
    <3> QED
      BY <3>3, <3>4
  <2>7. CASE stage[r] # "committed"
    <3> SUFFICES ASSUME r \notin InContext
                 PROVE  Cardinality(RowsOf(r, e)) = Occurrences(e, FlattenSeq(CallsMade(r)))
      BY <2>7
    <3>1. /\ CascadedIn(written[r], e) = 0 /\ generation[r] = << >> /\ pending[r] = << >>
      BY <2>1, SumOfNothing DEF CascadedIn, InCall
    <3>2. FlattenSeq(CallsMade(r)) = FlatUpTo(Calls[r], call[r])
      BY <2>2, CallsMadeFlatten DEF CallsMade
    <3> QED
      BY <2>1, <2>3, <2>4, <2>5, <3>1, <3>2
  <2> QED
    BY <2>6, <2>7
<1> QED
  BY <1>1, <1>2, InvariantInit, InvariantStep, BalanceInit, StepKeepsBalance, PTL DEF Spec
=============================================================================
