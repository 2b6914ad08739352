----------------------------- MODULE StockLocks -----------------------------
(***************************************************************************)
(* Stock under concurrent requests.  Each request is one READ COMMITTED    *)
(* transaction of Postgres; here its steps are single statements, so the   *)
(* statements of different requests interleave.                            *)
(*                                                                         *)
(* A row keeps its committed value in "stored"; the request that updated   *)
(* it or selected it FOR UPDATE holds its lock and sees "pending".  A      *)
(* repository's save() is a SELECT and, if a column differs, an UPDATE     *)
(* with the value computed before: the last writer wins.                   *)
(***************************************************************************)
EXTENDS Integers, Sequences, FiniteSets, Functions

CONSTANTS
    Ingredients,    \* natural numbers, in the order of their ids
    Batches,        \* natural numbers, in the order of their purchase dates
    BatchOf,        \* the ingredient of each batch
    Requests,
    Kind,           \* SEND, CLOSE, CANCEL, PURCHASE or TRANSFORM
    Lines,          \* per request: what is reserved, deducted or added, in order
    Need,           \* per request and ingredient: the sum of the lines
    NewBatch,       \* the batch an adding request inserts
    InitialLevel, InitialRemaining, InitialReserved,
    None

Kinds == {"SEND", "CLOSE", "CANCEL", "PURCHASE", "TRANSFORM"}
Line == [op : {"OUT", "IN"}, ingredient : Ingredients, quantity : Nat \ {0}]

\* Levels (by ingredient) and batches.  Saving goes by row: batches first.
Rows == Ingredients \union Batches

\* ReserveStock.groupByIngredient.
groupByIngredient(lines) ==
    [g \in Ingredients |->
        SumFunctionOnSet([k \in DOMAIN lines |-> lines[k].quantity],
                         {k \in DOMAIN lines : lines[k].ingredient = g})]

ASSUME StockLocksAssumption ==
    /\ Rows \subseteq Nat
    /\ \A b \in Batches, g \in Ingredients : b < g
    /\ IsFiniteSet(Batches)
    /\ BatchOf \in [Batches -> Ingredients]
    /\ Kind \in [Requests -> Kinds]
    /\ Lines \in [Requests -> Seq(Line)]
    /\ Need \in [Requests -> [Ingredients -> Nat]]
    /\ \A r \in Requests : Need[r] = groupByIngredient(Lines[r])
    /\ NewBatch \in [Requests -> Batches]
    /\ InitialLevel \in [Ingredients -> Nat]
    /\ InitialRemaining \in [Batches -> Nat]
    /\ InitialReserved \in [Ingredients -> Nat]
    /\ None \notin Requests

VARIABLES
    stored,     \* committed current_quantity of levels, remaining_quantity of batches
    lock,       \* the request that holds the row's lock
    pending,    \* the row as the holder of its lock sees it
    reserved,   \* committed SUM(quantity) of the ACTIVE reservations
    movements,  \* committed net of the inventory_movements
    pc,         \* what the request does next
    line,       \* the line a deducting or adding request works on
    toLock,     \* the ingredients a send still has to lock
    toSave      \* the rows the request still has to save, with their new values

rowVars == <<stored, lock, pending>>
workVars == <<line, toLock, toSave>>
vars == <<rowVars, reserved, movements, pc, workVars>>

-----------------------------------------------------------------------------
Visible(r, row) == IF lock[row] = r THEN pending[row] ELSE stored[row]

IsLowest(n, S) == n \in S /\ \A m \in S : n <= m

\* What the request does at the start of its k-th line.
Start(r, k) ==
    IF Kind[r] = "SEND" THEN "lock"
    ELSE IF Kind[r] = "CANCEL" \/ k > Len(Lines[r]) THEN "commit"
    ELSE "batches"

Init ==
    /\ stored = [row \in Rows |-> IF row \in Ingredients THEN InitialLevel[row]
                                                         ELSE InitialRemaining[row]]
    /\ lock = [row \in Rows |-> None]
    /\ pending = stored
    /\ reserved = InitialReserved
    /\ movements = [g \in Ingredients |-> 0]
    /\ line = [r \in Requests |-> 1]
    /\ pc = [r \in Requests |-> Start(r, 1)]
    /\ toLock = [r \in Requests |->
                   IF Kind[r] = "SEND" THEN {g \in Ingredients : Need[r][g] > 0} ELSE {}]
    /\ toSave = [r \in Requests |-> {}]

\* Faulty variant: the transaction is left open.
FailKeepingLocks(r) ==
    /\ pc' = [pc EXCEPT ![r] = "failed"]
    /\ UNCHANGED <<rowVars, reserved, movements, workVars>>

\* The request throws: TransactionInterceptor's transaction rolls back.
Fail(r) ==
    /\ pc' = [pc EXCEPT ![r] = "failed"]
    /\ lock' = [row \in Rows |-> IF lock[row] = r THEN None ELSE lock[row]]
    /\ UNCHANGED <<stored, pending, reserved, movements, workVars>>

-----------------------------------------------------------------------------
\* Faulty variant: the ingredients are locked in any order.
NextToLockAny(r, g) == g \in toLock[r]

\* One per distinct ingredient, ascending.
NextToLock(r, g) == IsLowest(g, toLock[r])

\* Faulty variant: findByIngredient instead of findByIngredientForUpdate.
LockLevelUnlocked(r) ==
    /\ pc[r] = "lock"
    /\ \E g \in Ingredients :
          /\ NextToLock(r, g)
          /\ IF stored[g] - reserved[g] < Need[r][g] THEN Fail(r)
             ELSE /\ toLock' = [toLock EXCEPT ![r] = @ \ {g}]
                  /\ UNCHANGED <<rowVars, reserved, movements, pc, line, toSave>>

\* ReserveStock, one ingredient: SELECT ... FOR UPDATE, sum, compare.
LockLevel(r) ==
    /\ pc[r] = "lock"
    /\ \E g \in Ingredients :
          /\ NextToLock(r, g)
          /\ lock[g] = None
          /\ IF stored[g] - reserved[g] < Need[r][g] THEN Fail(r)
             ELSE /\ lock' = [lock EXCEPT ![g] = r]
                  /\ pending' = [pending EXCEPT ![g] = stored[g]]
                  /\ toLock' = [toLock EXCEPT ![r] = @ \ {g}]
                  /\ UNCHANGED <<stored, reserved, movements, pc, line, toSave>>

\* Every ingredient is locked and sufficient: the rows are inserted.
InsertReservations(r) ==
    /\ pc[r] = "lock"
    /\ toLock[r] = {}
    /\ pc' = [pc EXCEPT ![r] = "commit"]
    /\ UNCHANGED <<rowVars, reserved, movements, workVars>>

-----------------------------------------------------------------------------
Current(r) == Lines[r][line[r]]

Available(r, g) == {b \in Batches : BatchOf[b] = g /\ Visible(r, b) > 0}

TotalLeft(r, S) == SumFunctionOnSet([b \in Batches |-> Visible(r, b)], S)

\* What FifoInventoryService.deduct leaves in batch b when q is taken from S.
LeftIn(r, b, S, q) ==
    LET older == TotalLeft(r, {c \in S : c < b})
    IN  IF q <= older THEN Visible(r, b)
        ELSE IF q - older >= Visible(r, b) THEN 0 ELSE Visible(r, b) - (q - older)

\* DeductIngredient: read the batches and deduct in memory.  All that were read
\* are saved, the untouched ones too.
DeductBatches(r) ==
    /\ pc[r] = "batches"
    /\ Current(r).op = "OUT"
    /\ LET q == Current(r).quantity
           S == Available(r, Current(r).ingredient)
       IN  IF TotalLeft(r, S) < q THEN Fail(r)
           ELSE /\ toSave' = [toSave EXCEPT ![r] =
                      {[row |-> b, value |-> LeftIn(r, b, S, q)] : b \in S}]
                /\ pc' = [pc EXCEPT ![r] = "select"]
                /\ UNCHANGED <<rowVars, reserved, movements, line, toLock>>

\* RegisterPurchase and addProducedStock: a new batch.
InsertBatch(r) ==
    /\ pc[r] = "batches"
    /\ Current(r).op = "IN"
    /\ toSave' = [toSave EXCEPT ![r] = {[row |-> NewBatch[r], value |-> Current(r).quantity]}]
    /\ pc' = [pc EXCEPT ![r] = "select"]
    /\ UNCHANGED <<rowVars, reserved, movements, line, toLock>>

\* The level row as increase() or decrease() leaves it.
LevelWrite(r) ==
    LET g == Current(r).ingredient
        q == Current(r).quantity
    IN  [row |-> g, value |-> IF Current(r).op = "IN" THEN Visible(r, g) + q
                                                      ELSE Visible(r, g) - q]

\* Faulty variant: decrease() without ensureSufficientStock.
ReadLevelUnchecked(r) ==
    /\ pc[r] = "level"
    /\ toSave' = [toSave EXCEPT ![r] = {LevelWrite(r)}]
    /\ pc' = [pc EXCEPT ![r] = "select"]
    /\ UNCHANGED <<rowVars, reserved, movements, line, toLock>>

\* findByIngredient, then increase() or decrease() in memory.
ReadLevel(r) ==
    /\ pc[r] = "level"
    /\ IF Current(r).op = "OUT" /\ Visible(r, Current(r).ingredient) < Current(r).quantity
       THEN Fail(r)
       ELSE /\ toSave' = [toSave EXCEPT ![r] = {LevelWrite(r)}]
            /\ pc' = [pc EXCEPT ![r] = "select"]
            /\ UNCHANGED <<rowVars, reserved, movements, line, toLock>>

NextToSave(r, w) == w \in toSave[r] /\ \A v \in toSave[r] : w.row <= v.row

\* w is saved: after the batches comes the level, after the level the next line.
Saved(r, w) ==
    /\ toSave' = [toSave EXCEPT ![r] = @ \ {w}]
    /\ \/ /\ toSave[r] # {w}
          /\ pc' = [pc EXCEPT ![r] = "select"]
          /\ UNCHANGED line
       \/ /\ toSave[r] = {w} /\ w.row \in Batches
          /\ pc' = [pc EXCEPT ![r] = "level"]
          /\ UNCHANGED line
       \/ /\ toSave[r] = {w} /\ w.row \in Ingredients
          /\ pc' = [pc EXCEPT ![r] = Start(r, line[r] + 1)]
          /\ line' = [line EXCEPT ![r] = @ + 1]

\* save(), first half: the row is read again and compared.
SelectRow(r) ==
    /\ pc[r] = "select"
    /\ \E w \in toSave[r] :
          /\ NextToSave(r, w)
          /\ IF Visible(r, w.row) = w.value THEN Saved(r, w)
             ELSE pc' = [pc EXCEPT ![r] = "update"] /\ UNCHANGED <<line, toSave>>
    /\ UNCHANGED <<rowVars, reserved, movements, toLock>>

\* save(), second half: UPDATE (or INSERT) waits for the lock and overwrites.
UpdateRow(r) ==
    /\ pc[r] = "update"
    /\ \E w \in toSave[r] :
          /\ NextToSave(r, w)
          /\ lock[w.row] \in {r, None}
          /\ lock' = [lock EXCEPT ![w.row] = r]
          /\ pending' = [pending EXCEPT ![w.row] = w.value]
          /\ Saved(r, w)
    /\ UNCHANGED <<stored, reserved, movements, toLock>>

Net(r, g) ==
    SumFunctionOnSet([k \in DOMAIN Lines[r] |-> IF Lines[r][k].op = "IN"
                                                 THEN Lines[r][k].quantity
                                                 ELSE 0 - Lines[r][k].quantity],
                     {k \in DOMAIN Lines[r] : Lines[r][k].ingredient = g})

\* COMMIT.  The reservation rows were inserted (SEND) or marked RELEASED
\* (CANCEL) or CONSUMED (CLOSE); a deduction or addition inserted movements.
Commit(r) ==
    /\ pc[r] = "commit"
    /\ pc' = [pc EXCEPT ![r] = "done"]
    /\ stored' = [row \in Rows |-> IF lock[row] = r THEN pending[row] ELSE stored[row]]
    /\ lock' = [row \in Rows |-> IF lock[row] = r THEN None ELSE lock[row]]
    /\ reserved' = [g \in Ingredients |->
          CASE Kind[r] = "SEND" -> reserved[g] + Need[r][g]
            [] Kind[r] \in {"CLOSE", "CANCEL"} -> reserved[g] - Need[r][g]
            [] OTHER -> reserved[g]]
    /\ movements' = [g \in Ingredients |->
          IF Kind[r] \in {"SEND", "CANCEL"} THEN movements[g] ELSE movements[g] + Net(r, g)]
    /\ UNCHANGED <<pending, workVars>>

-----------------------------------------------------------------------------
\* r waits for the lock of a row that request s holds.
WaitsFor(r, s) ==
    \/ /\ pc[r] = "lock"
       /\ \E g \in Ingredients : NextToLock(r, g) /\ lock[g] = s
    \/ /\ pc[r] = "update"
       /\ \E w \in toSave[r] : NextToSave(r, w) /\ lock[w.row] = s

\* Requests that all wait for one another.
Deadlocked(S) == S # {} /\ \A r \in S : \E s \in S \ {r} : WaitsFor(r, s)

\* Postgres' deadlock detector cancels one of them.
AbortDeadlocked(r) ==
    /\ \E S \in SUBSET Requests : r \in S /\ Deadlocked(S)
    /\ Fail(r)

Statement(r) ==
    \/ LockLevel(r)
    \/ InsertReservations(r)
    \/ DeductBatches(r)
    \/ InsertBatch(r)
    \/ ReadLevel(r)
    \/ SelectRow(r)
    \/ UpdateRow(r)
    \/ Commit(r)

Next == \E r \in Requests : Statement(r) \/ AbortDeadlocked(r)

\* Node runs every request to its next statement; Postgres grants a released
\* lock and runs its deadlock detector.
Fairness == \A r \in Requests : WF_vars(Statement(r)) /\ WF_vars(AbortDeadlocked(r))

Spec == Init /\ [][Next]_vars /\ Fairness

-----------------------------------------------------------------------------
\* The types; in particular no level or batch is ever saved negative, stale
\* reads notwithstanding (ensureSufficientStock).
TypeOK ==
    /\ stored \in [Rows -> Nat]
    /\ lock \in [Rows -> Requests \union {None}]
    /\ pending \in [Rows -> Nat]
    /\ reserved \in [Ingredients -> Int]
    /\ movements \in [Ingredients -> Int]
    /\ pc \in [Requests -> {"lock", "batches", "level", "select", "update", "commit",
                            "done", "failed"}]
    /\ line \in [Requests -> Nat \ {0}]
    /\ toLock \in [Requests -> SUBSET Ingredients]
    /\ \A r \in Requests : toSave[r] \subseteq [row : Rows, value : Nat]

Promises ==
    INSTANCE StockPromises WITH
        level <- [g \in Ingredients |-> stored[g]],
        Demands <- {Need[r] : r \in Requests}

\* Concurrent sends behave as if each reserved all it needs in one indivisible
\* step, within the level of that moment, whatever else runs between their
\* statements (the FOR UPDATE lock of ReserveStock).
SendsReserveAtomically == Promises!Spec

\* Sends never wait for one another in a circle, whatever ingredients they name
\* and in whatever order: "Locks are acquired one per distinct ingredient, in
\* ascending ingredientId order" (ReserveStock).
SendsDeadlockFree ==
    ~ \E S \in SUBSET {r \in Requests : Kind[r] = "SEND"} : Deadlocked(S)

\* Every request ends, whatever locks it met on the way: committed, or failed
\* with its locks given back.
EveryRequestEnds == \A r \in Requests : <>(pc[r] \in {"done", "failed"})

AllEnded == \A r \in Requests : pc[r] \in {"done", "failed"}

\* "Level siempre es consistente con Movements", once requests ended.
LevelFollowsMovements ==
    AllEnded => \A g \in Ingredients : stored[g] = InitialLevel[g] + movements[g]
=============================================================================
