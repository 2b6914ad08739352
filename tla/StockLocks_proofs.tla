-------------------------- MODULE StockLocks_proofs --------------------------
(***************************************************************************)
(* Proofs about StockLocks: whatever requests run and however their        *)
(* statements interleave, a send reserves as if in one indivisible step.   *)
(*                                                                         *)
(* What is left in batches is a sum, and stays out of that argument: only  *)
(* levels, which are saved as one value plus or minus another, have to be  *)
(* integers.  It enters the last one: that no level and no batch is ever   *)
(* saved negative.                                                         *)
(***************************************************************************)
EXTENDS StockLocks, DataTheorems, TLAPS

Stages == {"lock", "batches", "level", "select", "update", "commit", "done", "failed"}

WorkingStages == {"batches", "level", "select", "update"}

\* The types the argument needs.
LockTypes ==
    /\ DOMAIN stored = Rows /\ DOMAIN pending = Rows
    /\ \A g \in Ingredients : stored[g] \in Int /\ pending[g] \in Int
    /\ lock \in [Rows -> Requests \union {None}]
    /\ reserved \in [Ingredients -> Int]
    /\ pc \in [Requests -> Stages]
    /\ line \in [Requests -> Nat \ {0}]
    /\ toLock \in [Requests -> SUBSET Ingredients]
    /\ DOMAIN toSave = Requests

\* A request at work on a line has that line, and what it saves is a row.
WorkTypes ==
    \A r \in Requests :
        /\ pc[r] \in WorkingStages => line[r] <= Len(Lines[r])
        /\ \A w \in toSave[r] :
              w.row \in Rows /\ (w.row \in Ingredients => w.value \in Int)

\* A send only ever locks rows: it saves none.
SendSavesNoRow ==
    \A r \in Requests : Kind[r] = "SEND" =>
        /\ pc[r] \notin WorkingStages
        /\ \A row \in Rows : lock[row] = r => pending[row] = stored[row]

\* What a send has checked stays true while it holds the locks.
SendHoldsWhatItChecked ==
    \A r \in Requests : Kind[r] = "SEND" /\ pc[r] \in {"lock", "commit"} =>
        /\ \A g \in Ingredients \ toLock[r] : Need[r][g] > 0 =>
              /\ lock[g] = r
              /\ reserved[g] + Need[r][g] <= stored[g]
        /\ pc[r] = "commit" => toLock[r] = {}

LockInv == LockTypes /\ WorkTypes /\ SendSavesNoRow /\ SendHoldsWhatItChecked

-----------------------------------------------------------------------------
\* No id is that of a level and of a batch.
LEMMA RowsAreDisjoint == Ingredients \intersect Batches = {}
BY StockLocksAssumption DEF Rows

\* The line a request works on is one of its lines.
LEMMA CurrentIsLine ==
    ASSUME LockInv, NEW r \in Requests, pc[r] \in WorkingStages
    PROVE  Current(r) \in Line
BY StockLocksAssumption DEF LockInv, LockTypes, WorkTypes, Current

LEMMA NeedsAreNaturals ==
    ASSUME NEW r \in Requests, NEW g \in Ingredients
    PROVE  Need[r][g] \in Nat
BY StockLocksAssumption

LEMMA LinesHaveLengths ==
    ASSUME NEW r \in Requests
    PROVE  Len(Lines[r]) \in Nat
BY StockLocksAssumption

\* Where a request goes at the start of a line.
LEMMA StartStage ==
    ASSUME NEW r \in Requests, NEW k \in Nat \ {0}
    PROVE  /\ Start(r, k) \in Stages
           /\ Kind[r] = "SEND" => Start(r, k) = "lock"
           /\ Kind[r] # "SEND" => Start(r, k) # "lock"
           /\ Start(r, k) \in WorkingStages => k <= Len(Lines[r])
BY LinesHaveLengths DEF Start, Stages, WorkingStages

\* How the state of a request changes when it saves a row.
LEMMA SavedTypes ==
    ASSUME LockInv, NEW r \in Requests, NEW w \in toSave[r], Saved(r, w),
           pc[r] \in WorkingStages
    PROVE  /\ pc' \in [Requests -> Stages]
           /\ line' \in [Requests -> Nat \ {0}]
           /\ DOMAIN toSave' = Requests
           /\ \A s \in Requests : toSave'[s] \subseteq toSave[s]
           /\ pc'[r] \in WorkingStages => line'[r] <= Len(Lines[r])
           /\ \A s \in Requests \ {r} : pc'[s] = pc[s] /\ line'[s] = line[s]
<1>1. /\ line \in [Requests -> Nat \ {0}] /\ pc \in [Requests -> Stages]
      /\ DOMAIN toSave = Requests
      /\ line[r] <= Len(Lines[r])
  BY DEF LockInv, LockTypes, WorkTypes
<1>2. line[r] + 1 \in Nat \ {0}
  BY <1>1
<1>3. /\ DOMAIN toSave' = Requests
      /\ \A s \in Requests : toSave'[s] \subseteq toSave[s]
  BY <1>1 DEF Saved
<1>4. CASE pc' = [pc EXCEPT ![r] = Start(r, line[r] + 1)]
           /\ line' = [line EXCEPT ![r] = @ + 1]
  BY <1>1, <1>2, <1>3, <1>4, StartStage
<1>5. CASE pc' \in {[pc EXCEPT ![r] = "select"], [pc EXCEPT ![r] = "level"]}
           /\ line' = line
  BY <1>1, <1>3, <1>5 DEF Stages
<1>. QED  BY <1>4, <1>5 DEF Saved

-----------------------------------------------------------------------------
LEMMA InitLockInv == Init => LockInv
<1>. SUFFICES ASSUME Init PROVE LockInv
  OBVIOUS
<1>1. \A r \in Requests : pc[r] = Start(r, 1)
  BY DEF Init
<1>2. LockTypes
  <2>1. \A g \in Ingredients : stored[g] \in Int
    BY StockLocksAssumption DEF Init, Rows
  <2>2. pc \in [Requests -> Stages]
    BY StartStage DEF Init
  <2>. QED  BY <2>1, <2>2, StockLocksAssumption DEF Init, LockTypes
<1>3. WorkTypes
  BY <1>1, StartStage DEF Init, WorkTypes
<1>4. SendSavesNoRow
  BY <1>1, StartStage DEF Init, SendSavesNoRow, WorkingStages
<1>5. SendHoldsWhatItChecked
  BY <1>1, StartStage DEF Init, SendHoldsWhatItChecked
<1>. QED  BY <1>2, <1>3, <1>4, <1>5 DEF LockInv

\* A failing request gives its locks back and disturbs nobody.
LEMMA FailKeepsLockInv ==
    ASSUME LockInv, NEW r \in Requests, Fail(r)
    PROVE  LockInv'
<1>1. LockTypes'
  BY DEF LockInv, LockTypes, Fail, rowVars, workVars, Stages
<1>2. WorkTypes'
  BY DEF LockInv, LockTypes, WorkTypes, Fail, workVars, Stages, WorkingStages
<1>3. SendSavesNoRow'
  BY StockLocksAssumption
  DEF LockInv, LockTypes, SendSavesNoRow, Fail, WorkingStages
<1>4. SendHoldsWhatItChecked'
  BY DEF LockInv, LockTypes, SendHoldsWhatItChecked, Fail, workVars, Rows
<1>. QED  BY <1>1, <1>2, <1>3, <1>4 DEF LockInv

LEMMA LockLevelKeepsLockInv ==
    ASSUME LockInv, NEW r \in Requests, LockLevel(r)
    PROVE  LockInv'
<1>1. PICK g \in Ingredients :
         /\ NextToLock(r, g)
         /\ lock[g] = None
         /\ \/ Fail(r)
            \/ /\ ~(stored[g] - reserved[g] < Need[r][g])
               /\ lock' = [lock EXCEPT ![g] = r]
               /\ pending' = [pending EXCEPT ![g] = stored[g]]
               /\ toLock' = [toLock EXCEPT ![r] = @ \ {g}]
               /\ UNCHANGED <<stored, reserved, movements, pc, line, toSave>>
  BY DEF LockLevel
<1>2. CASE Fail(r)
  BY <1>2, FailKeepsLockInv
<1>3. CASE /\ ~(stored[g] - reserved[g] < Need[r][g])
           /\ lock' = [lock EXCEPT ![g] = r]
           /\ pending' = [pending EXCEPT ![g] = stored[g]]
           /\ toLock' = [toLock EXCEPT ![r] = @ \ {g}]
           /\ UNCHANGED <<stored, reserved, movements, pc, line, toSave>>
  <2>1. g \in Rows /\ pc[r] = "lock"
    BY DEF Rows, LockLevel
  <2>2. LockTypes'
    BY <1>3, <2>1 DEF LockInv, LockTypes
  <2>3. WorkTypes'
    BY <1>3 DEF LockInv, WorkTypes
  <2>4. SendSavesNoRow'
    <3>. SUFFICES ASSUME NEW s \in Requests, Kind[s] = "SEND"
                  PROVE  /\ pc'[s] \notin WorkingStages
                         /\ \A row \in Rows : lock'[row] = s => pending'[row] = stored'[row]
      BY DEF SendSavesNoRow
    <3>1. /\ pc[s] \notin WorkingStages
          /\ \A row \in Rows : lock[row] = s => pending[row] = stored[row]
      BY DEF LockInv, SendSavesNoRow
    <3>2. /\ pending'[g] = stored[g] /\ stored' = stored /\ pc' = pc
          /\ \A row \in Rows \ {g} : lock'[row] = lock[row] /\ pending'[row] = pending[row]
      BY <1>3, <2>1 DEF LockInv, LockTypes
    <3>. QED  BY <3>1, <3>2
  <2>5. reserved[g] + Need[r][g] <= stored[g]
    <3>. stored[g] \in Int /\ reserved[g] \in Int
      BY DEF LockInv, LockTypes
    <3>. QED  BY <1>3, NeedsAreNaturals
  <2>6. SendHoldsWhatItChecked'
    <3>. SUFFICES ASSUME NEW s \in Requests, Kind[s] = "SEND",
                         pc'[s] \in {"lock", "commit"}
                  PROVE  /\ \A h \in Ingredients \ toLock'[s] : Need[s][h] > 0 =>
                              /\ lock'[h] = s
                              /\ reserved'[h] + Need[s][h] <= stored'[h]
                         /\ pc'[s] = "commit" => toLock'[s] = {}
      BY DEF SendHoldsWhatItChecked
    <3>0. /\ \A h \in Ingredients \ toLock[s] : Need[s][h] > 0 =>
               /\ lock[h] = s
               /\ reserved[h] + Need[s][h] <= stored[h]
          /\ pc[s] = "commit" => toLock[s] = {}
          /\ lock \in [Rows -> Requests \union {None}]
          /\ toLock \in [Requests -> SUBSET Ingredients]
      BY <1>3 DEF LockInv, LockTypes, SendHoldsWhatItChecked
    <3>1. CASE s = r
      BY <1>3, <2>1, <2>5, <3>0, <3>1
    <3>2. CASE s # r
      BY <1>1, <1>3, <2>1, <3>0, <3>2, StockLocksAssumption
    <3>. QED  BY <3>1, <3>2
  <2>. QED  BY <2>2, <2>3, <2>4, <2>6 DEF LockInv
<1>. QED  BY <1>1, <1>2, <1>3

LEMMA InsertReservationsKeepsLockInv ==
    ASSUME LockInv, NEW r \in Requests, InsertReservations(r)
    PROVE  LockInv'
<1>1. LockTypes'
  BY DEF LockInv, LockTypes, InsertReservations, rowVars, workVars, Stages
<1>2. WorkTypes'
  BY DEF LockInv, LockTypes, WorkTypes, InsertReservations, workVars, WorkingStages
<1>3. SendSavesNoRow'
  BY DEF LockInv, LockTypes, SendSavesNoRow, InsertReservations, rowVars, WorkingStages
<1>4. SendHoldsWhatItChecked'
  BY DEF LockInv, LockTypes, SendHoldsWhatItChecked, InsertReservations, rowVars, workVars
<1>. QED  BY <1>1, <1>2, <1>3, <1>4 DEF LockInv

\* A request that is not a send and touches no lock cannot disturb one.
LEMMA OthersKeepSends ==
    ASSUME LockInv, NEW r \in Requests, Kind[r] # "SEND", UNCHANGED <<rowVars, reserved, toLock>>,
           \A s \in Requests \ {r} : pc'[s] = pc[s]
    PROVE  SendSavesNoRow' /\ SendHoldsWhatItChecked'
<1>1. \A s \in Requests : Kind[s] = "SEND" => pc'[s] = pc[s]
  OBVIOUS
<1>2. SendSavesNoRow'
  BY <1>1 DEF LockInv, SendSavesNoRow, rowVars
<1>3. SendHoldsWhatItChecked'
  BY <1>1 DEF LockInv, SendHoldsWhatItChecked, rowVars
<1>. QED  BY <1>2, <1>3

\* The request computes what it will save, and saves it next.
LEMMA ToSaveKeepsLockInv ==
    ASSUME LockInv, NEW r \in Requests, pc[r] \in WorkingStages, NEW W,
           \A w \in W : w.row \in Rows /\ (w.row \in Ingredients => w.value \in Int),
           toSave' = [toSave EXCEPT ![r] = W],
           pc' = [pc EXCEPT ![r] = "select"],
           UNCHANGED <<rowVars, reserved, movements, line, toLock>>
    PROVE  LockInv'
<1>1. LockTypes'
  BY DEF LockInv, LockTypes, rowVars, Stages
<1>2. WorkTypes'
  BY DEF LockInv, LockTypes, WorkTypes, WorkingStages
<1>3. Kind[r] # "SEND"
  BY DEF LockInv, SendSavesNoRow
<1>4. SendSavesNoRow' /\ SendHoldsWhatItChecked'
  BY <1>3, OthersKeepSends DEF LockInv, LockTypes
<1>. QED  BY <1>1, <1>2, <1>4 DEF LockInv

LEMMA DeductBatchesKeepsLockInv ==
    ASSUME LockInv, NEW r \in Requests, DeductBatches(r)
    PROVE  LockInv'
<1>. DEFINE q == Current(r).quantity
            S == Available(r, Current(r).ingredient)
            W == {[row |-> b, value |-> LeftIn(r, b, S, q)] : b \in S}
<1>1. CASE Fail(r)
  BY <1>1, FailKeepsLockInv
<1>2. CASE /\ toSave' = [toSave EXCEPT ![r] = W]
           /\ pc' = [pc EXCEPT ![r] = "select"]
           /\ UNCHANGED <<rowVars, reserved, movements, line, toLock>>
  <2>1. ASSUME NEW w \in W PROVE w.row \in Batches
    <3>1. PICK b \in S : w = [row |-> b, value |-> LeftIn(r, b, S, q)]
      OBVIOUS
    <3>. QED  BY <3>1 DEF Available
  <2>2. \A w \in W : w.row \in Rows /\ (w.row \in Ingredients => w.value \in Int)
    BY <2>1, RowsAreDisjoint DEF Rows
  <2>3. pc[r] \in WorkingStages
    BY DEF DeductBatches, WorkingStages
  <2>. HIDE DEF W
  <2>. QED  BY <1>2, <2>2, <2>3, ToSaveKeepsLockInv
<1>. QED  BY <1>1, <1>2 DEF DeductBatches

LEMMA InsertBatchKeepsLockInv ==
    ASSUME LockInv, NEW r \in Requests, InsertBatch(r)
    PROVE  LockInv'
<1>. DEFINE W == {[row |-> NewBatch[r], value |-> Current(r).quantity]}
<1>1. NewBatch[r] \in Batches
  BY StockLocksAssumption
<1>2. \A w \in W : w.row \in Rows /\ (w.row \in Ingredients => w.value \in Int)
  BY <1>1, RowsAreDisjoint DEF Rows
<1>3. pc[r] \in WorkingStages
  BY DEF InsertBatch, WorkingStages
<1>. QED  BY <1>2, <1>3, ToSaveKeepsLockInv DEF InsertBatch

LEMMA ReadLevelKeepsLockInv ==
    ASSUME LockInv, NEW r \in Requests, ReadLevel(r)
    PROVE  LockInv'
<1>1. CASE Fail(r)
  BY <1>1, FailKeepsLockInv
<1>2. CASE /\ toSave' = [toSave EXCEPT ![r] = {LevelWrite(r)}]
           /\ pc' = [pc EXCEPT ![r] = "select"]
           /\ UNCHANGED <<rowVars, reserved, movements, line, toLock>>
  <2>1. pc[r] \in WorkingStages
    BY DEF ReadLevel, WorkingStages
  <2>2. Current(r) \in Line
    BY <2>1, CurrentIsLine
  <2>3. /\ Current(r).ingredient \in Ingredients
        /\ Current(r).quantity \in Nat
        /\ Visible(r, Current(r).ingredient) \in Int
    BY <2>2 DEF Line, Visible, LockInv, LockTypes
  <2>4. \A w \in {LevelWrite(r)} :
           w.row \in Rows /\ (w.row \in Ingredients => w.value \in Int)
    BY <2>3, StockLocksAssumption DEF LevelWrite, Rows
  <2>. QED  BY <1>2, <2>1, <2>4, ToSaveKeepsLockInv
<1>. QED  BY <1>1, <1>2 DEF ReadLevel

\* Saving changes what the saving request has still to do, and nothing else.
LEMMA SavedKeepsWork ==
    ASSUME LockInv, NEW r \in Requests, NEW w \in toSave[r], Saved(r, w),
           pc[r] \in WorkingStages
    PROVE  WorkTypes'
<1>1. /\ \A s \in Requests : toSave'[s] \subseteq toSave[s]
      /\ pc'[r] \in WorkingStages => line'[r] <= Len(Lines[r])
      /\ \A s \in Requests \ {r} : pc'[s] = pc[s] /\ line'[s] = line[s]
  BY SavedTypes
<1>2. WorkTypes
  BY DEF LockInv
<1>. QED  BY <1>1, <1>2 DEF WorkTypes

LEMMA SelectRowKeepsLockInv ==
    ASSUME LockInv, NEW r \in Requests, SelectRow(r)
    PROVE  LockInv'
<1>0. /\ pc[r] = "select" /\ pc[r] \in WorkingStages /\ Kind[r] # "SEND"
      /\ UNCHANGED <<rowVars, reserved, toLock>>
  BY DEF SelectRow, WorkingStages, LockInv, SendSavesNoRow
<1>1. CASE \E w \in toSave[r] : Saved(r, w)
  <2>. PICK w \in toSave[r] : Saved(r, w)
    BY <1>1
  <2>1. /\ pc' \in [Requests -> Stages]
        /\ line' \in [Requests -> Nat \ {0}]
        /\ DOMAIN toSave' = Requests
        /\ \A s \in Requests \ {r} : pc'[s] = pc[s]
    BY <1>0, SavedTypes
  <2>2. LockTypes'
    BY <1>0, <2>1 DEF LockInv, LockTypes, rowVars
  <2>3. WorkTypes'
    BY <1>0, SavedKeepsWork
  <2>4. SendSavesNoRow' /\ SendHoldsWhatItChecked'
    BY <1>0, <2>1, OthersKeepSends
  <2>. QED  BY <2>2, <2>3, <2>4 DEF LockInv
<1>2. CASE pc' = [pc EXCEPT ![r] = "update"] /\ UNCHANGED <<line, toSave>>
  <2>2. LockTypes'
    BY <1>0, <1>2 DEF LockInv, LockTypes, rowVars, Stages
  <2>3. WorkTypes'
    BY <1>0, <1>2 DEF LockInv, LockTypes, WorkTypes, WorkingStages
  <2>4. SendSavesNoRow' /\ SendHoldsWhatItChecked'
    BY <1>0, <1>2, OthersKeepSends DEF LockInv, LockTypes
  <2>. QED  BY <2>2, <2>3, <2>4 DEF LockInv
<1>. QED  BY <1>1, <1>2 DEF SelectRow

LEMMA UpdateRowKeepsLockInv ==
    ASSUME LockInv, NEW r \in Requests, UpdateRow(r)
    PROVE  LockInv'
<1>0. /\ pc[r] \in WorkingStages /\ Kind[r] # "SEND"
      /\ UNCHANGED <<stored, reserved, toLock>>
  BY DEF UpdateRow, WorkingStages, LockInv, SendSavesNoRow
<1>1. PICK w \in toSave[r] :
         /\ lock[w.row] \in {r, None}
         /\ lock' = [lock EXCEPT ![w.row] = r]
         /\ pending' = [pending EXCEPT ![w.row] = w.value]
         /\ Saved(r, w)
  BY DEF UpdateRow
<1>2. w.row \in Rows /\ (w.row \in Ingredients => w.value \in Int)
  BY DEF LockInv, WorkTypes
<1>3. /\ pc' \in [Requests -> Stages]
      /\ line' \in [Requests -> Nat \ {0}]
      /\ DOMAIN toSave' = Requests
      /\ \A s \in Requests \ {r} : pc'[s] = pc[s]
  BY <1>0, <1>1, SavedTypes
<1>4. LockTypes'
  BY <1>0, <1>1, <1>2, <1>3 DEF LockInv, LockTypes, Rows
<1>5. WorkTypes'
  BY <1>0, <1>1, SavedKeepsWork
<1>6. \A s \in Requests, row \in Rows : s # r =>
         /\ lock'[row] = s <=> lock[row] = s
         /\ lock[row] = s => pending'[row] = pending[row]
  <2>1. /\ DOMAIN lock = Rows /\ DOMAIN pending = Rows /\ r # None /\ None \notin Requests
    BY StockLocksAssumption DEF LockInv, LockTypes
  <2>2. /\ lock'[w.row] = r
        /\ \A row \in Rows \ {w.row} : lock'[row] = lock[row] /\ pending'[row] = pending[row]
    BY <1>1, <2>1, <1>2
  <2>. QED  BY <1>1, <2>1, <2>2
<1>7. SendSavesNoRow'
  <2>. SUFFICES ASSUME NEW s \in Requests, Kind[s] = "SEND"
                PROVE  /\ pc'[s] \notin WorkingStages
                       /\ \A row \in Rows : lock'[row] = s => pending'[row] = stored'[row]
    BY DEF SendSavesNoRow
  <2>1. /\ pc[s] \notin WorkingStages
        /\ \A row \in Rows : lock[row] = s => pending[row] = stored[row]
    BY DEF LockInv, SendSavesNoRow
  <2>2. s # r /\ stored' = stored
    BY <1>0, <2>1
  <2>. QED  BY <1>3, <1>6, <2>1, <2>2
<1>8. SendHoldsWhatItChecked'
  BY <1>0, <1>3, <1>6 DEF LockInv, SendHoldsWhatItChecked, Rows
<1>. QED  BY <1>4, <1>5, <1>7, <1>8 DEF LockInv

-----------------------------------------------------------------------------
\* What a commit leaves of the rows another request has locked.
LEMMA CommitKeepsLockInv ==
    ASSUME LockInv, NEW r \in Requests, Commit(r)
    PROVE  LockInv'
<1>1. /\ pc[r] = "commit"
      /\ pc' = [pc EXCEPT ![r] = "done"]
      /\ stored' = [row \in Rows |-> IF lock[row] = r THEN pending[row] ELSE stored[row]]
      /\ lock' = [row \in Rows |-> IF lock[row] = r THEN None ELSE lock[row]]
      /\ UNCHANGED <<pending, line, toLock, toSave>>
  BY DEF Commit, workVars
<1>2. \A g \in Ingredients :
         /\ reserved[g] \in Int
         /\ Kind[r] = "SEND" => reserved'[g] = reserved[g] + Need[r][g]
         /\ Kind[r] \in {"CLOSE", "CANCEL"} => reserved'[g] = reserved[g] - Need[r][g]
         /\ Kind[r] \notin {"SEND", "CLOSE", "CANCEL"} => reserved'[g] = reserved[g]
         /\ reserved'[g] \in Int
  <2>1. \A g \in Ingredients : reserved[g] \in Int /\ Need[r][g] \in Nat
    BY NeedsAreNaturals DEF LockInv, LockTypes
  <2>. QED  BY <2>1 DEF Commit
<1>3. reserved' \in [Ingredients -> Int]
  BY <1>2 DEF Commit
<1>4. LockTypes'
  BY <1>1, <1>3, StockLocksAssumption DEF LockInv, LockTypes, Stages, Rows
<1>5. WorkTypes'
  BY <1>1 DEF LockInv, LockTypes, WorkTypes, WorkingStages
<1>6. SendSavesNoRow'
  BY <1>1, StockLocksAssumption DEF LockInv, LockTypes, SendSavesNoRow, WorkingStages
<1>7. SendHoldsWhatItChecked'
  <2>. SUFFICES ASSUME NEW s \in Requests, Kind[s] = "SEND",
                       pc'[s] \in {"lock", "commit"}
                PROVE  /\ \A g \in Ingredients \ toLock'[s] : Need[s][g] > 0 =>
                            /\ lock'[g] = s
                            /\ reserved'[g] + Need[s][g] <= stored'[g]
                       /\ pc'[s] = "commit" => toLock'[s] = {}
    BY DEF SendHoldsWhatItChecked
  <2>1. s # r /\ pc'[s] = pc[s]
    BY <1>1 DEF LockInv, LockTypes
  <2>2. /\ \A g \in Ingredients \ toLock[s] : Need[s][g] > 0 =>
             /\ lock[g] = s
             /\ reserved[g] + Need[s][g] <= stored[g]
        /\ pc[s] = "commit" => toLock[s] = {}
    BY <2>1 DEF LockInv, SendHoldsWhatItChecked
  <2>3. ASSUME NEW g \in Ingredients \ toLock[s], Need[s][g] > 0
        PROVE  lock'[g] = s /\ reserved'[g] + Need[s][g] <= stored'[g]
    <3>1. lock[g] = s /\ reserved[g] + Need[s][g] <= stored[g] /\ stored[g] \in Int
      BY <2>2, <2>3 DEF LockInv, LockTypes
    <3>2. lock'[g] = s /\ stored'[g] = stored[g]
      BY <1>1, <2>1, <3>1 DEF Rows
    <3>3. Need[r][g] \in Nat /\ Need[s][g] \in Nat
      BY NeedsAreNaturals
    <3>4. Kind[r] = "SEND" => Need[r][g] = 0
      BY <1>1, <2>1, <3>1, <3>3 DEF LockInv, SendHoldsWhatItChecked
    <3>5. reserved'[g] <= reserved[g]
      BY <1>2, <3>3, <3>4
    <3>. QED  BY <1>2, <3>1, <3>2, <3>3, <3>5
  <2>. QED  BY <1>1, <2>1, <2>2, <2>3
<1>. QED  BY <1>4, <1>5, <1>6, <1>7 DEF LockInv

LEMMA StepKeepsLockInv == LockInv /\ [Next]_vars => LockInv'
<1>. SUFFICES ASSUME LockInv, [Next]_vars PROVE LockInv'
  OBVIOUS
<1>1. CASE UNCHANGED vars
  BY <1>1 DEF LockInv, LockTypes, WorkTypes, SendSavesNoRow, SendHoldsWhatItChecked,
              vars, rowVars, workVars
<1>2. CASE Next
  <2>. PICK r \in Requests : Statement(r) \/ AbortDeadlocked(r)
    BY <1>2 DEF Next
  <2>1. CASE LockLevel(r)
    BY <2>1, LockLevelKeepsLockInv
  <2>2. CASE InsertReservations(r)
    BY <2>2, InsertReservationsKeepsLockInv
  <2>3. CASE DeductBatches(r)
    BY <2>3, DeductBatchesKeepsLockInv
  <2>4. CASE ReadLevel(r)
    BY <2>4, ReadLevelKeepsLockInv
  <2>5. CASE SelectRow(r)
    BY <2>5, SelectRowKeepsLockInv
  <2>6. CASE UpdateRow(r)
    BY <2>6, UpdateRowKeepsLockInv
  <2>7. CASE Commit(r)
    BY <2>7, CommitKeepsLockInv
  <2>8. CASE AbortDeadlocked(r)
    BY <2>8, FailKeepsLockInv DEF AbortDeadlocked
  <2>9. CASE InsertBatch(r)
    BY <2>9, InsertBatchKeepsLockInv
  <2>. QED  BY <2>1, <2>2, <2>3, <2>4, <2>5, <2>6, <2>7, <2>8, <2>9 DEF Statement
<1>. QED  BY <1>1, <1>2

-----------------------------------------------------------------------------
\* A commit is where a request takes effect for the promises: a send reserves,
\* a closing or a cancellation settles, the others move levels.
LEMMA CommitImplementsPromises ==
    ASSUME LockInv, NEW r \in Requests, Commit(r)
    PROVE  Promises!Next
<1>. DEFINE level == [g \in Ingredients |-> stored[g]]
<1>1. Ingredients \subseteq Rows
  BY DEF Rows
<1>2. level' \in [Ingredients -> Int]
  BY <1>1 DEF Commit, LockInv, LockTypes
<1>3. Need[r] \in {Need[s] : s \in Requests}
  OBVIOUS
<1>4. CASE Kind[r] = "SEND"
  <2>1. pc[r] = "commit" /\ toLock[r] = {}
    BY <1>4 DEF Commit, LockInv, SendHoldsWhatItChecked
  <2>2. \A g \in Ingredients : Need[r][g] > 0 => reserved[g] + Need[r][g] <= level[g]
    BY <1>4, <2>1 DEF LockInv, SendHoldsWhatItChecked
  <2>3. reserved' = [g \in Ingredients |-> reserved[g] + Need[r][g]]
    BY <1>4 DEF Commit
  <2>4. UNCHANGED level
    BY <1>1, <1>4 DEF Commit, LockInv, SendSavesNoRow
  <2>5. Promises!Reserve(Need[r])
    BY <2>2, <2>3, <2>4 DEF Promises!Reserve
  <2>. QED  BY <1>3, <2>5 DEF Promises!Next
<1>5. CASE Kind[r] \in {"CLOSE", "CANCEL"}
  <2>1. reserved' = [g \in Ingredients |-> reserved[g] - Need[r][g]]
    BY <1>5 DEF Commit
  <2>2. Promises!Settle(Need[r])
    BY <1>2, <2>1 DEF Promises!Settle
  <2>. QED  BY <1>3, <2>2 DEF Promises!Next
<1>6. CASE Kind[r] \notin {"SEND", "CLOSE", "CANCEL"}
  <2>1. UNCHANGED reserved
    BY <1>6 DEF Commit, LockInv, LockTypes
  <2>. QED  BY <1>2, <2>1 DEF Promises!Next, Promises!ChangeLevel
<1>. QED  BY <1>4, <1>5, <1>6

LEMMA StepImplementsPromises ==
    LockInv /\ [Next]_vars => [Promises!Next]_(Promises!promiseVars)
<1>. SUFFICES ASSUME LockInv, [Next]_vars, ~ \E r \in Requests : Commit(r)
              PROVE  UNCHANGED Promises!promiseVars
  BY CommitImplementsPromises
<1>1. UNCHANGED <<stored, reserved>>
  BY DEF Next, Statement, AbortDeadlocked, Fail, LockLevel, InsertReservations,
         DeductBatches, InsertBatch, ReadLevel, SelectRow, UpdateRow, vars, rowVars
<1>. QED  BY <1>1 DEF Promises!promiseVars

\* However the statements of any set of requests interleave, the reservations
\* behave as StockPromises says: a send reserves all it needs in one step, within
\* the levels of that moment, or nothing (ReserveStock under its row locks).
THEOREM SendsAreAtomic == Spec => SendsReserveAtomically
<1>1. Init => Promises!Init
  BY InitLockInv DEF Init, LockInv, LockTypes, Promises!Init
<1>. QED
  BY <1>1, InitLockInv, StepKeepsLockInv, StepImplementsPromises, PTL
  DEF Spec, SendsReserveAtomically, Promises!Spec

-----------------------------------------------------------------------------
\* What a send holds comes before what it still has to lock.
LocksAscend ==
    \A r \in Requests, g \in Ingredients :
        lock[g] = r => \A h \in toLock[r] : g < h

\* Only sends have levels to lock.
OthersLockNothing == \A r \in Requests : Kind[r] # "SEND" => toLock[r] = {}

AscendInv == LocksAscend /\ OthersLockNothing

\* Rows that are updated are those of requests with no level to lock.
LEMMA WorkersLockNothing ==
    ASSUME LockInv, OthersLockNothing, NEW r \in Requests, pc[r] \in WorkingStages
    PROVE  toLock[r] = {}
BY DEF LockInv, SendSavesNoRow, OthersLockNothing

LEMMA StepKeepsLocksAscending ==
    ASSUME LockInv, AscendInv, [Next]_vars
    PROVE  AscendInv'
<1>0. /\ lock \in [Rows -> Requests \union {None}]
      /\ toLock \in [Requests -> SUBSET Ingredients]
      /\ Ingredients \subseteq Rows /\ Rows \subseteq Nat
      /\ None \notin Requests
  BY StockLocksAssumption DEF LockInv, LockTypes, Rows
<1>1. \A r \in Requests : toLock'[r] \subseteq toLock[r]
  <2>1. CASE UNCHANGED vars
    BY <2>1 DEF vars, workVars
  <2>2. ASSUME NEW r \in Requests, LockLevel(r) \/ Fail(r)
        PROVE  \A s \in Requests : toLock'[s] \subseteq toLock[s]
    BY <1>0, <2>2 DEF LockLevel, Fail, workVars
  <2>3. ASSUME NEW r \in Requests, Statement(r), ~ LockLevel(r), ~ Fail(r)
        PROVE  toLock' = toLock
    BY <2>3 DEF Statement, InsertReservations, DeductBatches, InsertBatch, ReadLevel,
                SelectRow, UpdateRow, Commit, workVars
  <2>. QED
    BY <2>1, <2>2, <2>3 DEF Next, AbortDeadlocked
<1>2. OthersLockNothing'
  BY <1>1 DEF AscendInv, OthersLockNothing
<1>3. ASSUME \A g \in Ingredients : lock'[g] = lock[g] \/ lock'[g] = None
      PROVE  LocksAscend'
  BY <1>0, <1>1, <1>3 DEF AscendInv, LocksAscend
<1>4. ASSUME NEW r \in Requests, LockLevel(r)  PROVE LocksAscend'
  <2>1. CASE Fail(r)
    BY <1>0, <1>3, <2>1 DEF Fail
  <2>2. CASE \E g \in Ingredients :
               /\ NextToLock(r, g)
               /\ lock[g] = None
               /\ lock' = [lock EXCEPT ![g] = r]
               /\ toLock' = [toLock EXCEPT ![r] = @ \ {g}]
    <3>1. PICK g \in Ingredients :
             /\ g \in toLock[r] /\ \A h \in toLock[r] : g <= h
             /\ lock[g] = None
             /\ lock' = [lock EXCEPT ![g] = r]
             /\ toLock' = [toLock EXCEPT ![r] = @ \ {g}]
      BY <2>2 DEF NextToLock, IsLowest
    <3>2. \A h \in toLock'[r] : g < h
      BY <1>0, <3>1
    <3>3. \A h \in Ingredients : h # g => lock'[h] = lock[h]
      BY <1>0, <3>1
    <3>4. lock'[g] = r
      BY <1>0, <3>1
    <3>. QED  BY <1>1, <3>2, <3>3, <3>4 DEF AscendInv, LocksAscend
  <2>. QED  BY <1>4, <2>1, <2>2 DEF LockLevel
<1>5. ASSUME NEW r \in Requests, UpdateRow(r)  PROVE LocksAscend'
  <2>1. toLock[r] = {}
    BY <1>5, WorkersLockNothing DEF UpdateRow, WorkingStages, AscendInv
  <2>2. PICK row \in Rows : lock' = [lock EXCEPT ![row] = r]
    BY <1>0, <1>5 DEF UpdateRow, LockInv, WorkTypes
  <2>3. \A g \in Ingredients : lock'[g] # lock[g] => lock'[g] = r
    BY <1>0, <2>2
  <2>. QED  BY <1>1, <2>1, <2>3 DEF AscendInv, LocksAscend
<1>6. ASSUME NEW r \in Requests, Commit(r) \/ Fail(r)  PROVE LocksAscend'
  BY <1>0, <1>3, <1>6 DEF Commit, Fail
<1>7. ASSUME NEW r \in Requests,
             InsertReservations(r) \/ DeductBatches(r) \/ InsertBatch(r) \/ ReadLevel(r) \/ SelectRow(r)
      PROVE  LocksAscend' \/ Fail(r)
  BY <1>3, <1>7 DEF InsertReservations, DeductBatches, InsertBatch, ReadLevel, SelectRow, rowVars
<1>8. CASE UNCHANGED vars
  BY <1>2, <1>3, <1>8 DEF vars, rowVars, AscendInv
<1>9. CASE Next
  BY <1>2, <1>4, <1>5, <1>6, <1>7, <1>9 DEF AscendInv, Next, Statement, AbortDeadlocked
<1>. QED  BY <1>8, <1>9

\* A send that waits for one which waits itself waits for the lower id.
LEMMA WaitersAscend ==
    ASSUME LocksAscend,
           NEW r \in Requests, NEW s \in Requests, NEW t \in Requests,
           NEW g \in Ingredients, NEW h \in Ingredients,
           NextToLock(r, g), lock[g] = s, NextToLock(s, h), lock[h] = t
    PROVE  g < h
BY DEF LocksAscend, NextToLock, IsLowest

\* Requests that wait for one another in a circle would wait for ever higher ids.
LEMMA AscendingLocksDoNotDeadlock ==
    ASSUME NEW Highest \in Nat, \A g \in Ingredients : g <= Highest,
           LockInv, AscendInv
    PROVE  SendsDeadlockFree
<1>. SUFFICES ASSUME NEW S \in SUBSET {r \in Requests : Kind[r] = "SEND"}, S # {},
                     \A r \in S : \E s \in S \ {r} : WaitsFor(r, s)
              PROVE  FALSE
  BY DEF SendsDeadlockFree, Deadlocked
<1>. DEFINE Waited(r, g) == NextToLock(r, g) /\ \E s \in S : lock[g] = s
            Distances == {n \in Nat : \E r \in S, g \in Ingredients :
                                         Waited(r, g) /\ n = Highest - g}
<1>0. Ingredients \subseteq Nat
  BY StockLocksAssumption DEF Rows
<1>1. ASSUME NEW r \in S
      PROVE  \E g \in Ingredients : Waited(r, g)
  BY DEF WaitsFor, LockInv, SendSavesNoRow, WorkingStages
<1>2. \A r \in S, g \in Ingredients : Waited(r, g) => Highest - g \in Distances
  BY <1>0
<1>3. Distances # {}
  BY <1>1, <1>2
<1>4. PICK n \in Distances : \A m \in Distances : n <= m
  <2>. HIDE DEF Distances
  <2>1. Distances \in SUBSET Nat
    BY DEF Distances
  <2>. QED  BY <1>3, <2>1, LeastNatural
<1>5. PICK r \in S, g \in Ingredients : Waited(r, g) /\ n = Highest - g
  BY <1>4
<1>6. PICK s \in S : lock[g] = s
  BY <1>5
<1>7. PICK h \in Ingredients : Waited(s, h)
  BY <1>1
<1>8. g < h
  BY <1>5, <1>6, <1>7, WaitersAscend DEF AscendInv
<1>9. Highest - g <= Highest - h
  BY <1>2, <1>4, <1>5, <1>7
<1>. QED  BY <1>0, <1>8, <1>9

\* Sends never deadlock among themselves, whatever ingredients they name, in
\* whatever order, and whatever else runs ("ascending ingredientId order",
\* ReserveStock); ids have a greatest possible value, as 128-bit numbers do.
THEOREM SendsNeverDeadlock ==
    ASSUME NEW Highest \in Nat, \A g \in Ingredients : g <= Highest
    PROVE  Spec => []SendsDeadlockFree
<1>1. Init => AscendInv
  <2>. SUFFICES ASSUME Init PROVE AscendInv
    OBVIOUS
  <2>1. \A row \in Rows, r \in Requests : lock[row] # r
    BY StockLocksAssumption DEF Init
  <2>2. OthersLockNothing
    BY DEF Init, OthersLockNothing
  <2>. QED  BY <2>1, <2>2 DEF AscendInv, LocksAscend, Rows
<1>2. LockInv /\ AscendInv /\ [Next]_vars => LockInv' /\ AscendInv'
  BY StepKeepsLockInv, StepKeepsLocksAscending
<1>3. LockInv /\ AscendInv => SendsDeadlockFree
  BY AscendingLocksDoNotDeadlock
<1>. QED
  BY <1>1, <1>2, <1>3, InitLockInv, PTL DEF Spec

-----------------------------------------------------------------------------
\* The values of the rows, and of those that are still to be saved.
ValueTypes ==
    /\ stored \in [Rows -> Nat] /\ pending \in [Rows -> Nat]
    /\ movements \in [Ingredients -> Int]
    /\ \A r \in Requests : toSave[r] \subseteq [row : Rows, value : Nat]

LEMMA InvariantsGiveTypes == LockInv /\ ValueTypes => TypeOK
BY DEF LockInv, LockTypes, ValueTypes, TypeOK, Stages

\* What a request sees of a row.
LEMMA SeenIsNatural ==
    ASSUME ValueTypes, NEW r \in Requests, NEW row \in Rows
    PROVE  Visible(r, row) \in Nat
BY DEF ValueTypes, Visible

\* Whatever it deducts, a request leaves in a batch no less than nothing: what it
\* takes from the older ones is at least 0, and it takes no more than there is.
LEMMA LeavesNoDebt ==
    ASSUME ValueTypes, NEW r \in Requests, NEW S \in SUBSET Batches, NEW b \in S, NEW q \in Nat
    PROVE  LeftIn(r, b, S, q) \in Nat
<1>. DEFINE older == TotalLeft(r, {c \in S : c < b})
<1>1. \A c \in Batches : Visible(r, c) \in Nat
  BY SeenIsNatural DEF Rows
<1>2. older \in Nat
  <2>. DEFINE T == {c \in S : c < b}
              f == [c \in Batches |-> Visible(r, c)]
  <2>1. T \in SUBSET Batches
    OBVIOUS
  <2>2. IsFiniteSet(T)
    BY <2>1, FS_Subset, StockLocksAssumption
  <2>3. \A c \in T : f[c] \in Nat
    BY <1>1, <2>1
  <2>4. SumFunctionOnSet(f, T) \in Nat
    <3>. HIDE DEF f, T
    <3>. QED  BY <2>2, <2>3, SumIsNatural
  <2>. QED  BY <2>4 DEF TotalLeft
<1>3. LeftIn(r, b, S, q) = IF q <= older THEN Visible(r, b)
                           ELSE IF q - older >= Visible(r, b) THEN 0
                                ELSE Visible(r, b) - (q - older)
  BY DEF LeftIn
<1>4. Visible(r, b) \in Nat
  BY <1>1
<1>. HIDE DEF older
<1>. QED  BY <1>2, <1>3, <1>4

\* What the movements of a request change of an ingredient.
LEMMA NetIsInteger ==
    ASSUME NEW r \in Requests, NEW g \in Ingredients
    PROVE  Net(r, g) \in Int
<1>. DEFINE D == DOMAIN Lines[r]
            K == {k \in D : Lines[r][k].ingredient = g}
            f == [k \in D |-> IF Lines[r][k].op = "IN" THEN Lines[r][k].quantity
                                                       ELSE 0 - Lines[r][k].quantity]
<1>1. Lines[r] \in Seq(Line)
  BY StockLocksAssumption
<1>2. Len(Lines[r]) \in Nat /\ D = 1 .. Len(Lines[r])
  BY <1>1
<1>3. IsFiniteSet(D)
  BY <1>2, FS_Interval
<1>4. IsFiniteSet(K)
  BY <1>3, FS_Subset
<1>5. \A k \in D : Lines[r][k].quantity \in Nat
  <2>1. \A k \in 1 .. Len(Lines[r]) : Lines[r][k] \in Line
    BY <1>1
  <2>. QED  BY <1>2, <2>1 DEF Line
<1>6. \A k \in K : f[k] \in Int
  BY <1>5
<1>7. SumFunctionOnSet(f, K) \in Int
  <2>. HIDE DEF f, K
  <2>. QED  BY <1>4, <1>6, SumType
<1>. QED  BY <1>7 DEF Net

\* A step that stores, locks and computes no value.
LEMMA UnsavedKeepsValues ==
    ASSUME ValueTypes, UNCHANGED <<stored, pending, movements, toSave>>
    PROVE  ValueTypes'
BY DEF ValueTypes

LEMMA ToSaveKeepsValues ==
    ASSUME LockInv, ValueTypes, NEW r \in Requests, NEW W \in SUBSET [row : Rows, value : Nat],
           toSave' = [toSave EXCEPT ![r] = W], UNCHANGED <<stored, pending, movements>>
    PROVE  ValueTypes'
BY DEF ValueTypes, LockInv, LockTypes

LEMMA LockLevelKeepsValues ==
    ASSUME LockInv, ValueTypes, NEW r \in Requests, LockLevel(r)
    PROVE  ValueTypes'
<1>1. CASE Fail(r)
  BY <1>1, UnsavedKeepsValues DEF Fail, workVars
<1>2. CASE ~ Fail(r)
  <2>1. PICK g \in Ingredients : pending' = [pending EXCEPT ![g] = stored[g]]
    BY <1>2 DEF LockLevel
  <2>2. g \in Rows /\ UNCHANGED <<stored, movements, toSave>>
    BY <1>2 DEF LockLevel, Rows
  <2>. QED  BY <2>1, <2>2 DEF ValueTypes
<1>. QED  BY <1>1, <1>2

LEMMA DeductBatchesKeepsValues ==
    ASSUME LockInv, ValueTypes, NEW r \in Requests, DeductBatches(r)
    PROVE  ValueTypes'
<1>. DEFINE q == Current(r).quantity
            S == Available(r, Current(r).ingredient)
            W == {[row |-> b, value |-> LeftIn(r, b, S, q)] : b \in S}
<1>1. CASE Fail(r)
  BY <1>1, UnsavedKeepsValues DEF Fail, workVars
<1>2. CASE /\ toSave' = [toSave EXCEPT ![r] = W]
           /\ UNCHANGED <<rowVars, movements>>
  <2>1. q \in Nat
    BY CurrentIsLine DEF DeductBatches, WorkingStages, Line
  <2>2. S \in SUBSET Batches
    BY DEF Available
  <2>3. \A b \in S : LeftIn(r, b, S, q) \in Nat
    <3>. HIDE DEF q, S
    <3>. QED  BY <2>1, <2>2, LeavesNoDebt
  <2>4. W \in SUBSET [row : Rows, value : Nat]
    <3>. HIDE DEF q, S
    <3>. QED  BY <2>2, <2>3 DEF Rows
  <2>. HIDE DEF W
  <2>. QED  BY <1>2, <2>4, ToSaveKeepsValues DEF rowVars
<1>. QED  BY <1>1, <1>2 DEF DeductBatches

LEMMA InsertBatchKeepsValues ==
    ASSUME LockInv, ValueTypes, NEW r \in Requests, InsertBatch(r)
    PROVE  ValueTypes'
<1>. DEFINE W == {[row |-> NewBatch[r], value |-> Current(r).quantity]}
<1>1. Current(r).quantity \in Nat
  BY CurrentIsLine DEF InsertBatch, WorkingStages, Line
<1>2. W \in SUBSET [row : Rows, value : Nat]
  BY <1>1, StockLocksAssumption DEF Rows
<1>. QED  BY <1>2, ToSaveKeepsValues DEF InsertBatch, rowVars

\* ensureSufficientStock, on the value read just before.
LEMMA ReadLevelKeepsValues ==
    ASSUME LockInv, ValueTypes, NEW r \in Requests, ReadLevel(r)
    PROVE  ValueTypes'
<1>. DEFINE g == Current(r).ingredient
            q == Current(r).quantity
<1>1. CASE Fail(r)
  BY <1>1, UnsavedKeepsValues DEF Fail, workVars
<1>2. CASE ~ Fail(r)
  <2>1. Current(r) \in Line
    BY CurrentIsLine DEF ReadLevel, WorkingStages
  <2>2. /\ g \in Rows /\ q \in Nat
        /\ Current(r).op # "IN" => Current(r).op = "OUT"
    BY <2>1 DEF Line, Rows
  <2>3. Visible(r, g) \in Nat
    BY <2>2, SeenIsNatural
  <2>4. Current(r).op = "OUT" => ~ (Visible(r, g) < q)
    BY <1>2 DEF ReadLevel
  <2>5. LevelWrite(r) \in [row : Rows, value : Nat]
    BY <2>2, <2>3, <2>4 DEF LevelWrite
  <2>6. /\ toSave' = [toSave EXCEPT ![r] = {LevelWrite(r)}]
        /\ UNCHANGED <<stored, pending, movements>>
    BY <1>2 DEF ReadLevel, rowVars
  <2>. QED  BY <2>5, <2>6, ToSaveKeepsValues
<1>. QED  BY <1>1, <1>2

LEMMA SelectRowKeepsValues ==
    ASSUME LockInv, ValueTypes, NEW r \in Requests, SelectRow(r)
    PROVE  ValueTypes'
<1>1. UNCHANGED <<stored, pending, movements>>
  BY DEF SelectRow, rowVars
<1>2. \A s \in Requests : toSave'[s] \subseteq toSave[s]
  BY DEF SelectRow, Saved, LockInv, LockTypes
<1>. QED  BY <1>1, <1>2 DEF ValueTypes

LEMMA UpdateRowKeepsValues ==
    ASSUME LockInv, ValueTypes, NEW r \in Requests, UpdateRow(r)
    PROVE  ValueTypes'
<1>1. PICK w \in toSave[r] :
         /\ pending' = [pending EXCEPT ![w.row] = w.value]
         /\ toSave' = [toSave EXCEPT ![r] = @ \ {w}]
  BY DEF UpdateRow, Saved
<1>2. UNCHANGED <<stored, movements>>
  BY DEF UpdateRow
<1>3. w.row \in Rows /\ w.value \in Nat
  BY DEF ValueTypes
<1>4. \A s \in Requests : toSave'[s] \subseteq toSave[s]
  BY <1>1 DEF LockInv, LockTypes
<1>. QED  BY <1>1, <1>2, <1>3, <1>4 DEF ValueTypes

LEMMA CommitKeepsValues ==
    ASSUME LockInv, ValueTypes, NEW r \in Requests, Commit(r)
    PROVE  ValueTypes'
<1>1. stored' \in [Rows -> Nat]
  BY DEF Commit, ValueTypes
<1>2. movements' \in [Ingredients -> Int]
  <2>1. \A g \in Ingredients : movements[g] \in Int /\ Net(r, g) \in Int
    BY NetIsInteger DEF ValueTypes
  <2>2. \A g \in Ingredients : movements[g] + Net(r, g) \in Int
    BY <2>1
  <2>. QED  BY <2>1, <2>2 DEF Commit
<1>3. UNCHANGED <<pending, toSave>>
  BY DEF Commit, workVars
<1>. QED  BY <1>1, <1>2, <1>3 DEF ValueTypes

LEMMA StepKeepsValues == LockInv /\ ValueTypes /\ [Next]_vars => ValueTypes'
<1>. SUFFICES ASSUME LockInv, ValueTypes, [Next]_vars PROVE ValueTypes'
  OBVIOUS
<1>1. CASE UNCHANGED vars
  BY <1>1, UnsavedKeepsValues DEF vars, rowVars, workVars
<1>2. CASE Next
  <2>. PICK r \in Requests : Statement(r) \/ AbortDeadlocked(r)
    BY <1>2 DEF Next
  <2>1. CASE LockLevel(r)
    BY <2>1, LockLevelKeepsValues
  <2>2. CASE InsertReservations(r)
    BY <2>2, UnsavedKeepsValues DEF InsertReservations, rowVars, workVars
  <2>3. CASE DeductBatches(r)
    BY <2>3, DeductBatchesKeepsValues
  <2>4. CASE InsertBatch(r)
    BY <2>4, InsertBatchKeepsValues
  <2>5. CASE ReadLevel(r)
    BY <2>5, ReadLevelKeepsValues
  <2>6. CASE SelectRow(r)
    BY <2>6, SelectRowKeepsValues
  <2>7. CASE UpdateRow(r)
    BY <2>7, UpdateRowKeepsValues
  <2>8. CASE Commit(r)
    BY <2>8, CommitKeepsValues
  <2>9. CASE AbortDeadlocked(r)
    BY <2>9, UnsavedKeepsValues DEF AbortDeadlocked, Fail, workVars
  <2>. QED  BY <2>1, <2>2, <2>3, <2>4, <2>5, <2>6, <2>7, <2>8, <2>9 DEF Statement
<1>. QED  BY <1>1, <1>2

LEMMA InitValues == Init => ValueTypes
<1>. SUFFICES ASSUME Init PROVE ValueTypes
  OBVIOUS
<1>1. stored \in [Rows -> Nat]
  <2>1. \A row \in Rows : (IF row \in Ingredients THEN InitialLevel[row]
                                                  ELSE InitialRemaining[row]) \in Nat
    BY StockLocksAssumption DEF Rows
  <2>. QED  BY <2>1 DEF Init
<1>. QED  BY <1>1 DEF Init, ValueTypes

\* No level and no batch is ever saved negative, however the statements of the
\* requests interleave and whatever stale values they were computed from
\* (FifoInventoryService.deduct, InventoryLevel.ensureSufficientStock).
THEOREM StockStaysNatural == Spec => []TypeOK
BY InitLockInv, InitValues, StepKeepsLockInv, StepKeepsValues, InvariantsGiveTypes, PTL DEF Spec

-----------------------------------------------------------------------------
(***************************************************************************)
(* Levels and movements.  "Level siempre es consistente con Movements" is  *)
(* not so: of two requests that save one level the second overwrites what  *)
(* the first wrote.  It is so of every ingredient whose level one request  *)
(* at most writes, whatever reservations, batches and other ingredients    *)
(* the requests share.                                                     *)
(***************************************************************************)
Writers == {"CLOSE", "PURCHASE", "TRANSFORM"}

Writes(r, g) == Kind[r] \in Writers /\ \E k \in DOMAIN Lines[r] : Lines[r][k].ingredient = g

OneWriter(g) == \A r, s \in Requests : Writes(r, g) /\ Writes(s, g) => r = s

SoleWritersKeepTheBooks ==
    \A g \in Ingredients : OneWriter(g) => stored[g] = InitialLevel[g] + movements[g]

\* What line k of a request adds to its ingredient, and what the lines before the n-th
\* add to ingredient g.
Signed(r, k) == IF Lines[r][k].op = "IN" THEN Lines[r][k].quantity ELSE 0 - Lines[r][k].quantity

Moved(r, g, n) ==
    SumFunctionOnSet([k \in DOMAIN Lines[r] |-> Signed(r, k)],
                     {k \in DOMAIN Lines[r] : Lines[r][k].ingredient = g /\ k < n})

\* A request saves levels of its own lines only, one at a time.
SavesItsLines(r) ==
    /\ pc[r] \in WorkingStages => Kind[r] \in Writers
    /\ pc[r] = "commit" /\ Kind[r] \in Writers => line[r] > Len(Lines[r])
    /\ pc[r] = "lock" => Kind[r] = "SEND"
    /\ \A w \in toSave[r] :
          pc[r] \in {"select", "update"} /\ w.row \in Ingredients =>
              toSave[r] = {w} /\ w.row = Current(r).ingredient
    /\ \A g \in Ingredients : lock[g] = r /\ Kind[r] # "SEND" => Writes(r, g)

\* The one writer of g sees there what its lines so far made of it.
Ledger(g) ==
    /\ stored[g] = InitialLevel[g] + movements[g]
    /\ \A r \in Requests : Writes(r, g) /\ pc[r] \notin {"done", "failed"} =>
          /\ movements[g] = 0
          /\ Visible(r, g) = InitialLevel[g] + Moved(r, g, line[r])
          /\ \A w \in toSave[r] : pc[r] \in {"select", "update"} /\ w.row = g =>
                w.value = Visible(r, g) + Signed(r, line[r])

BooksInv ==
    /\ \A r \in Requests : SavesItsLines(r)
    /\ \A g \in Ingredients : OneWriter(g) => Ledger(g)

\* Sums over the lines of a request.
LEMMA SignedType ==
    ASSUME NEW r \in Requests, NEW k \in DOMAIN Lines[r]
    PROVE  Signed(r, k) \in Int /\ k \in Nat \ {0} /\ k <= Len(Lines[r])
<1>1. Lines[r] \in Seq(Line) /\ DOMAIN Lines[r] = 1 .. Len(Lines[r])
  BY StockLocksAssumption
<1>2. Lines[r][k] \in Line
  BY <1>1
<1>3. Lines[r][k].quantity \in Nat
  BY <1>2 DEF Line
<1>. QED  BY <1>1, <1>3, LinesHaveLengths DEF Signed

LEMMA MovedFacts ==
    ASSUME NEW r \in Requests, NEW g \in Ingredients, NEW n \in Nat \ {0}
    PROVE  /\ Moved(r, g, n) \in Int
           /\ Moved(r, g, 1) = 0
           /\ n <= Len(Lines[r]) =>
                 Moved(r, g, n + 1) = IF Lines[r][n].ingredient = g
                                      THEN Moved(r, g, n) + Signed(r, n) ELSE Moved(r, g, n)
           /\ n > Len(Lines[r]) => Moved(r, g, n) = Net(r, g)
           /\ (\A k \in DOMAIN Lines[r] : Lines[r][k].ingredient # g) => Net(r, g) = 0
<1>. DEFINE D == DOMAIN Lines[r]
            f == [k \in D |-> Signed(r, k)]
            K(m) == {k \in D : Lines[r][k].ingredient = g /\ k < m}
            A == {k \in D : Lines[r][k].ingredient = g}
<1>1. /\ \A k \in D : f[k] \in Int /\ f[k] = Signed(r, k)
      /\ \A k \in D : k \in Nat \ {0} /\ k <= Len(Lines[r])
      /\ \A k \in Nat \ {0} : k <= Len(Lines[r]) => k \in D
      /\ IsFiniteSet(D)
  <2>1. D = 1 .. Len(Lines[r]) /\ Len(Lines[r]) \in Nat
    BY StockLocksAssumption
  <2>2. IsFiniteSet(D)
    BY <2>1, FS_Interval
  <2>3. \A k \in D : Signed(r, k) \in Int
    BY SignedType
  <2>. QED  BY <2>1, <2>2, <2>3
<1>2. /\ \A m : Moved(r, g, m) = SumFunctionOnSet(f, K(m))
      /\ Net(r, g) = SumFunctionOnSet(f, A)
  BY DEF Moved, Net, Signed
<1>3. \A m : K(m) \in SUBSET D /\ IsFiniteSet(K(m))
  BY <1>1, FS_Subset
<1>4. K(1) = {}
  BY <1>1
<1>5. ASSUME n <= Len(Lines[r])
      PROVE  /\ n \in D /\ n \notin K(n)
             /\ K(n + 1) = IF Lines[r][n].ingredient = g THEN K(n) \cup {n} ELSE K(n)
  BY <1>1, <1>5
<1>6. n > Len(Lines[r]) => K(n) = A
  BY <1>1, LinesHaveLengths
<1>7. (\A k \in D : Lines[r][k].ingredient # g) => A = {}
  OBVIOUS
<1>. HIDE DEF D, f, K, A
<1>8. Moved(r, g, n) \in Int
  BY <1>1, <1>2, <1>3, SumType
<1>9. Moved(r, g, 1) = 0
  BY <1>2, <1>4, SumOfNothing
<1>10. ASSUME n <= Len(Lines[r])
       PROVE  Moved(r, g, n + 1) = IF Lines[r][n].ingredient = g
                                   THEN Moved(r, g, n) + Signed(r, n) ELSE Moved(r, g, n)
  <2>1. CASE Lines[r][n].ingredient = g
    <3>1. K(n + 1) = K(n) \cup {n} /\ n \notin K(n) /\ n \in D
      BY <1>5, <1>10, <2>1
    <3>2. \A x \in K(n) \cup {n} : f[x] \in Int
      BY <1>1, <1>3, <3>1
    <3>3. SumFunctionOnSet(f, K(n) \cup {n}) = SumFunctionOnSet(f, K(n)) + f[n]
      BY <1>3, <3>1, <3>2, SumGrows
    <3>. QED  BY <1>1, <1>2, <2>1, <3>1, <3>3
  <2>2. CASE Lines[r][n].ingredient # g
    BY <1>2, <1>5, <1>10, <2>2
  <2>. QED  BY <2>1, <2>2
<1>11. n > Len(Lines[r]) => Moved(r, g, n) = Net(r, g)
  BY <1>2, <1>6
<1>12. (\A k \in DOMAIN Lines[r] : Lines[r][k].ingredient # g) => Net(r, g) = 0
  BY <1>2, <1>7, SumOfNothing DEF D
<1>. QED  BY <1>8, <1>9, <1>10, <1>11, <1>12

\* Where a request goes at the start of a line, by its kind.
LEMMA StartByKind ==
    ASSUME NEW r \in Requests, NEW k \in Nat \ {0}
    PROVE  /\ Start(r, k) \notin {"select", "update", "done", "failed"}
           /\ Start(r, k) \in WorkingStages => Kind[r] \in Writers
           /\ Start(r, k) = "commit" /\ Kind[r] \in Writers => k > Len(Lines[r])
           /\ Start(r, k) = "lock" => Kind[r] = "SEND"
<1>1. Kind[r] \in Kinds
  BY StockLocksAssumption
<1>. QED  BY <1>1 DEF Start, WorkingStages, Writers, Kinds

\* What the statement of one request leaves alone of the others.
LEMMA OthersAreLeftAlone ==
    ASSUME LockInv, NEW r \in Requests, Statement(r) \/ Fail(r), NEW s \in Requests \ {r}
    PROVE  /\ pc'[s] = pc[s] /\ line'[s] = line[s] /\ toSave'[s] = toSave[s]
           /\ \A row \in Rows : lock'[row] = s <=> lock[row] = s
           /\ \A row \in Rows : lock[row] = s => pending'[row] = pending[row]
<1>0. /\ DOMAIN lock = Rows /\ DOMAIN pending = Rows
      /\ r # None /\ s # None /\ s # r
      /\ Ingredients \subseteq Rows
      /\ \A q \in Requests : \A w \in toSave[q] : w.row \in Rows
      /\ pc \in [Requests -> Stages] /\ line \in [Requests -> Nat \ {0}]
      /\ DOMAIN toSave = Requests
  BY StockLocksAssumption DEF LockInv, LockTypes, WorkTypes, Rows
<1>1. CASE Fail(r)
  BY <1>0, <1>1 DEF Fail, workVars
<1>2. CASE LockLevel(r)
  <2>1. CASE ~ Fail(r)
    <3>1. PICK g \in Ingredients :
             /\ lock[g] = None
             /\ lock' = [lock EXCEPT ![g] = r]
             /\ pending' = [pending EXCEPT ![g] = stored[g]]
             /\ UNCHANGED <<pc, line, toSave>>
      BY <1>2, <2>1 DEF LockLevel
    <3>. QED  BY <1>0, <3>1
  <2>. QED  BY <1>1, <2>1
<1>3. CASE InsertReservations(r)
  BY <1>0, <1>3 DEF InsertReservations, rowVars, workVars
<1>4. CASE DeductBatches(r)
  BY <1>0, <1>1, <1>4 DEF DeductBatches, rowVars
<1>5. CASE InsertBatch(r)
  BY <1>0, <1>5 DEF InsertBatch, rowVars
<1>6. CASE ReadLevel(r)
  BY <1>0, <1>1, <1>6 DEF ReadLevel, rowVars
<1>7. ASSUME NEW w \in toSave[r], Saved(r, w)
      PROVE  pc'[s] = pc[s] /\ line'[s] = line[s] /\ toSave'[s] = toSave[s]
  BY <1>0, <1>7 DEF Saved
<1>8. CASE SelectRow(r)
  <2>1. UNCHANGED <<lock, pending>>
    BY <1>8 DEF SelectRow, rowVars
  <2>2. PICK w \in toSave[r] :
           Saved(r, w) \/ (pc' = [pc EXCEPT ![r] = "update"] /\ UNCHANGED <<line, toSave>>)
    BY <1>8 DEF SelectRow
  <2>. QED  BY <1>0, <1>7, <2>1, <2>2
<1>9. CASE UpdateRow(r)
  <2>1. PICK w \in toSave[r] :
           /\ lock[w.row] \in {r, None}
           /\ lock' = [lock EXCEPT ![w.row] = r]
           /\ pending' = [pending EXCEPT ![w.row] = w.value]
           /\ Saved(r, w)
    BY <1>9 DEF UpdateRow
  <2>2. w.row \in Rows
    BY <1>0
  <2>. QED  BY <1>0, <1>7, <2>1, <2>2
<1>10. CASE Commit(r)
  BY <1>0, <1>10 DEF Commit, workVars
<1>. QED  BY <1>1, <1>2, <1>3, <1>4, <1>5, <1>6, <1>8, <1>9, <1>10 DEF Statement

LEMMA OthersSaveTheirLines ==
    ASSUME LockInv, NEW r \in Requests, Statement(r) \/ Fail(r), NEW s \in Requests \ {r},
           SavesItsLines(s)
    PROVE  SavesItsLines(s)'
<1>1. /\ pc'[s] = pc[s] /\ line'[s] = line[s] /\ toSave'[s] = toSave[s]
      /\ \A row \in Rows : lock'[row] = s <=> lock[row] = s
  BY OthersAreLeftAlone
<1>. QED  BY <1>1 DEF SavesItsLines, Current, Writes, Rows

\* A failing request has no lock left, and nothing to do.
LEMMA FailSavesItsLines ==
    ASSUME LockInv, NEW r \in Requests, Fail(r)
    PROVE  SavesItsLines(r)'
<1>1. pc'[r] = "failed" /\ \A row \in Rows : lock'[row] # r
  BY StockLocksAssumption DEF Fail, LockInv, LockTypes
<1>. QED  BY <1>1 DEF SavesItsLines, WorkingStages, Rows

\* What is said of the saves when a request has computed what it will save.
LEMMA ToSaveSavesItsLines ==
    ASSUME LockInv, NEW r \in Requests, SavesItsLines(r), pc[r] \in WorkingStages, NEW W,
           \A w \in W : w.row \in Ingredients => W = {w} /\ w.row = Current(r).ingredient,
           toSave' = [toSave EXCEPT ![r] = W],
           pc' = [pc EXCEPT ![r] = "select"],
           UNCHANGED <<rowVars, line>>
    PROVE  SavesItsLines(r)'
<1>1. pc'[r] = "select" /\ toSave'[r] = W /\ line' = line /\ lock' = lock
  BY DEF LockInv, LockTypes, rowVars
<1>2. Current(r)' = Current(r)
  BY <1>1 DEF Current
<1>. QED  BY <1>1, <1>2 DEF SavesItsLines, WorkingStages, Writes

\* A row is saved: what is left to save was there before.
LEMMA SavedSavesItsLines ==
    ASSUME LockInv, NEW r \in Requests, SavesItsLines(r), pc[r] \in {"select", "update"},
           NEW w \in toSave[r], Saved(r, w),
           \A g \in Ingredients : lock'[g] = r => lock[g] = r \/ g = w.row
    PROVE  SavesItsLines(r)'
<1>1. /\ pc \in [Requests -> Stages] /\ line \in [Requests -> Nat \ {0}]
      /\ DOMAIN toSave = Requests
      /\ line[r] \in Nat \ {0} /\ line[r] <= Len(Lines[r])
      /\ line[r] + 1 \in Nat \ {0}
      /\ Kind[r] \in Writers /\ Kind[r] # "SEND"
  BY DEF LockInv, LockTypes, WorkTypes, SavesItsLines, WorkingStages, Writers
<1>2. \A g \in Ingredients : lock'[g] = r => Writes(r, g)
  <2>1. w.row \in Ingredients => w.row = Current(r).ingredient
    BY DEF SavesItsLines
  <2>2. line[r] \in DOMAIN Lines[r]
    BY <1>1, StockLocksAssumption
  <2>3. w.row \in Ingredients => Writes(r, w.row)
    BY <1>1, <2>1, <2>2 DEF Writes, Current
  <2>. QED  BY <1>1, <2>3 DEF SavesItsLines
<1>3. toSave'[r] = toSave[r] \ {w}
  BY <1>1 DEF Saved
<1>4. CASE toSave[r] # {w} /\ pc' = [pc EXCEPT ![r] = "select"] /\ line' = line
  <2>1. pc'[r] = "select"
    BY <1>1, <1>4
  <2>2. \A v \in toSave[r] : v.row \in Ingredients => toSave[r] = {v}
    BY DEF SavesItsLines
  <2>3. \A v \in toSave'[r] : v.row \notin Ingredients
    BY <1>3, <1>4, <2>2
  <2>. QED  BY <1>1, <1>2, <2>1, <2>3 DEF SavesItsLines, WorkingStages, Writes
<1>5. CASE toSave[r] = {w} /\ pc' = [pc EXCEPT ![r] = "level"] /\ line' = line
  BY <1>1, <1>2, <1>3, <1>5 DEF SavesItsLines, WorkingStages, Writes
<1>6. CASE /\ toSave[r] = {w}
           /\ pc' = [pc EXCEPT ![r] = Start(r, line[r] + 1)]
           /\ line' = [line EXCEPT ![r] = @ + 1]
  <2>1. pc'[r] = Start(r, line[r] + 1) /\ line'[r] = line[r] + 1 /\ toSave'[r] = {}
    BY <1>1, <1>3, <1>6
  <2>2. /\ pc'[r] \in WorkingStages => Kind[r] \in Writers
        /\ pc'[r] = "commit" /\ Kind[r] \in Writers => line'[r] > Len(Lines[r])
        /\ pc'[r] = "lock" => Kind[r] = "SEND"
    BY <1>1, <2>1, StartByKind
  <2>. QED  BY <1>2, <2>1, <2>2 DEF SavesItsLines, Writes
<1>. QED  BY <1>4, <1>5, <1>6 DEF Saved

LEMMA StatementSavesItsLines ==
    ASSUME LockInv, NEW r \in Requests, SavesItsLines(r), Statement(r)
    PROVE  SavesItsLines(r)'
<1>1. CASE Fail(r)
  BY <1>1, FailSavesItsLines
<1>2. CASE LockLevel(r) /\ ~ Fail(r)
  <2>1. pc[r] = "lock" /\ UNCHANGED <<pc, line, toSave>>
    BY <1>2 DEF LockLevel
  <2>2. Kind[r] = "SEND"
    BY <2>1 DEF SavesItsLines
  <2>. QED  BY <2>1, <2>2 DEF SavesItsLines, Current, WorkingStages
<1>3. CASE InsertReservations(r)
  <2>1. /\ pc[r] = "lock" /\ pc'[r] = "commit" /\ Kind[r] = "SEND"
        /\ UNCHANGED <<lock, line, toSave>>
    BY <1>3 DEF InsertReservations, SavesItsLines, LockInv, LockTypes, rowVars, workVars
  <2>. QED  BY <2>1 DEF SavesItsLines, WorkingStages, Writers
<1>4. CASE DeductBatches(r) /\ ~ Fail(r)
  <2>. DEFINE q == Current(r).quantity
              S == Available(r, Current(r).ingredient)
              W == {[row |-> b, value |-> LeftIn(r, b, S, q)] : b \in S}
  <2>1. /\ toSave' = [toSave EXCEPT ![r] = W]
        /\ pc' = [pc EXCEPT ![r] = "select"]
        /\ UNCHANGED <<rowVars, line>>
        /\ pc[r] \in WorkingStages
    BY <1>4 DEF DeductBatches, WorkingStages
  <2>2. ASSUME NEW w \in W PROVE w.row \notin Ingredients
    <3>1. PICK b \in S : w = [row |-> b, value |-> LeftIn(r, b, S, q)]
      OBVIOUS
    <3>. QED  BY <3>1, RowsAreDisjoint DEF Available
  <2>. HIDE DEF W
  <2>. QED  BY <2>1, <2>2, ToSaveSavesItsLines
<1>5. CASE InsertBatch(r)
  <2>. DEFINE W == {[row |-> NewBatch[r], value |-> Current(r).quantity]}
  <2>1. /\ toSave' = [toSave EXCEPT ![r] = W]
        /\ pc' = [pc EXCEPT ![r] = "select"]
        /\ UNCHANGED <<rowVars, line>>
        /\ pc[r] \in WorkingStages
    BY <1>5 DEF InsertBatch, WorkingStages
  <2>2. \A w \in W : w.row \notin Ingredients
    <3>1. NewBatch[r] \in Batches
      BY StockLocksAssumption
    <3>. QED  BY <3>1, RowsAreDisjoint
  <2>. HIDE DEF W
  <2>. QED  BY <2>1, <2>2, ToSaveSavesItsLines
<1>6. CASE ReadLevel(r) /\ ~ Fail(r)
  <2>. DEFINE W == {LevelWrite(r)}
  <2>1. /\ toSave' = [toSave EXCEPT ![r] = W]
        /\ pc' = [pc EXCEPT ![r] = "select"]
        /\ UNCHANGED <<rowVars, line>>
        /\ pc[r] \in WorkingStages
    BY <1>6 DEF ReadLevel, WorkingStages
  <2>2. \A w \in W : W = {w} /\ w.row = Current(r).ingredient
    BY DEF LevelWrite
  <2>. HIDE DEF W
  <2>. QED  BY <2>1, <2>2, ToSaveSavesItsLines
<1>7. CASE SelectRow(r)
  <2>0. pc[r] = "select" /\ lock' = lock
    BY <1>7 DEF SelectRow, rowVars
  <2>1. CASE \E w \in toSave[r] : Saved(r, w)
    BY <2>0, <2>1, SavedSavesItsLines
  <2>2. CASE pc' = [pc EXCEPT ![r] = "update"] /\ UNCHANGED <<line, toSave>>
    <3>1. pc'[r] = "update" /\ Kind[r] \in Writers
      BY <2>0, <2>2 DEF LockInv, LockTypes, SavesItsLines, WorkingStages
    <3>. QED  BY <2>0, <2>2, <3>1 DEF SavesItsLines, Current, WorkingStages, Writes
  <2>. QED  BY <1>7, <2>1, <2>2 DEF SelectRow
<1>8. CASE UpdateRow(r)
  <2>1. PICK w \in toSave[r] : lock' = [lock EXCEPT ![w.row] = r] /\ Saved(r, w)
    BY <1>8 DEF UpdateRow
  <2>2. \A g \in Ingredients : lock'[g] = r => lock[g] = r \/ g = w.row
    BY <2>1
  <2>3. pc[r] = "update"
    BY <1>8 DEF UpdateRow
  <2>. QED  BY <2>1, <2>2, <2>3, SavedSavesItsLines
<1>9. CASE Commit(r)
  <2>1. pc'[r] = "done" /\ \A row \in Rows : lock'[row] # r
    BY <1>9, StockLocksAssumption DEF Commit, LockInv, LockTypes
  <2>. QED  BY <2>1 DEF SavesItsLines, WorkingStages, Rows
<1>. QED
  BY <1>1, <1>2, <1>3, <1>4, <1>5, <1>6, <1>7, <1>8, <1>9 DEF Statement

-----------------------------------------------------------------------------
\* A step that moves nothing of an ingredient for the request that writes it.
LEMMA LedgerUntouched ==
    ASSUME NEW g \in Ingredients, Ledger(g),
           stored'[g] = stored[g], movements'[g] = movements[g],
           \A s \in Requests : Writes(s, g) /\ pc'[s] \notin {"done", "failed"} =>
               /\ pc[s] \notin {"done", "failed"}
               /\ line'[s] = line[s]
               /\ Visible(s, g)' = Visible(s, g)
               /\ \A w \in toSave'[s] : pc'[s] \in {"select", "update"} /\ w.row = g =>
                     \/ w \in toSave[s] /\ pc[s] \in {"select", "update"}
                     \/ w.value = Visible(s, g) + Signed(s, line[s])
    PROVE  Ledger(g)'
<1>1. ASSUME NEW s \in Requests, Writes(s, g), pc'[s] \notin {"done", "failed"}
      PROVE  /\ movements'[g] = 0
             /\ Visible(s, g)' = InitialLevel[g] + Moved(s, g, line'[s])
             /\ \A w \in toSave'[s] : pc'[s] \in {"select", "update"} /\ w.row = g =>
                   w.value = Visible(s, g)' + Signed(s, line'[s])
  BY <1>1 DEF Ledger
<1>. QED  BY <1>1 DEF Ledger, Writes, Moved, Signed

\* What others see of a level when the statement of one request leaves it as it was.
LEMMA OthersSeeTheSame ==
    ASSUME LockInv, NEW r \in Requests, Statement(r) \/ Fail(r), NEW s \in Requests \ {r},
           NEW g \in Ingredients, stored'[g] = stored[g]
    PROVE  /\ pc'[s] = pc[s] /\ line'[s] = line[s] /\ toSave'[s] = toSave[s]
           /\ Visible(s, g)' = Visible(s, g)
  BY OthersAreLeftAlone DEF Visible, Rows

\* The statements in which request r reads, computes or fails.
LEMMA QuietStepKeepsLedger ==
    ASSUME LockInv, NEW r \in Requests, Statement(r) \/ Fail(r),
           NEW g \in Ingredients, Ledger(g),
           stored'[g] = stored[g], movements'[g] = movements[g],
           Writes(r, g) /\ pc'[r] \notin {"done", "failed"} =>
               /\ pc[r] \notin {"done", "failed"}
               /\ line'[r] = line[r]
               /\ Visible(r, g)' = Visible(r, g)
               /\ \A w \in toSave'[r] : pc'[r] \in {"select", "update"} /\ w.row = g =>
                     \/ w \in toSave[r] /\ pc[r] \in {"select", "update"}
                     \/ w.value = Visible(r, g) + Signed(r, line[r])
    PROVE  Ledger(g)'
<1>1. \A s \in Requests : Writes(s, g) /\ pc'[s] \notin {"done", "failed"} =>
         /\ pc[s] \notin {"done", "failed"}
         /\ line'[s] = line[s]
         /\ Visible(s, g)' = Visible(s, g)
         /\ \A w \in toSave'[s] : pc'[s] \in {"select", "update"} /\ w.row = g =>
               \/ w \in toSave[s] /\ pc[s] \in {"select", "update"}
               \/ w.value = Visible(s, g) + Signed(s, line[s])
  <2>. TAKE s \in Requests
  <2>1. CASE s = r
    BY <2>1
  <2>2. CASE s # r
    <3>1. /\ pc'[s] = pc[s] /\ line'[s] = line[s] /\ toSave'[s] = toSave[s]
          /\ Visible(s, g)' = Visible(s, g)
      BY <2>2, OthersSeeTheSame
    <3>. QED  BY <3>1
  <2>. QED  BY <2>1, <2>2
<1>. QED  BY <1>1, LedgerUntouched

\* The row w is saved: of the level it is saved for, its value is what the writer sees.
LEMMA SavingKeepsLedger ==
    ASSUME LockInv, ValueTypes, NEW r \in Requests, Statement(r), SavesItsLines(r),
           NEW g \in Ingredients, Ledger(g),
           pc[r] \in {"select", "update"}, NEW w \in toSave[r], Saved(r, w),
           stored'[g] = stored[g], movements'[g] = movements[g],
           Visible(r, g)' = IF w.row = g THEN w.value ELSE Visible(r, g)
    PROVE  Ledger(g)'
<1>1. /\ pc \in [Requests -> Stages] /\ line \in [Requests -> Nat \ {0}]
      /\ DOMAIN toSave = Requests
      /\ line[r] \in Nat \ {0} /\ line[r] <= Len(Lines[r])
      /\ w.row \in Rows
  BY DEF LockInv, LockTypes, WorkTypes, WorkingStages
<1>2. /\ toSave'[r] = toSave[r] \ {w}
      /\ w.row \in Ingredients => toSave[r] = {w} /\ w.row = Lines[r][line[r]].ingredient
  BY <1>1 DEF Saved, SavesItsLines, Current
<1>3. CASE line' = line /\ pc'[r] \notin {"done", "failed"}
           /\ (toSave[r] # {w} \/ w.row \in Batches)
  <2>1. w.row # g
    BY <1>2, <1>3, RowsAreDisjoint
  <2>. QED  BY <1>2, <1>3, <2>1, QuietStepKeepsLedger
<1>4. CASE /\ toSave[r] = {w} /\ w.row \in Ingredients
           /\ pc'[r] = Start(r, line[r] + 1) /\ line'[r] = line[r] + 1
  <2>1. CASE ~ Writes(r, g)
    BY <2>1, QuietStepKeepsLedger
  <2>2. CASE Writes(r, g)
    <3>1. /\ movements[g] = 0
          /\ Visible(r, g) = InitialLevel[g] + Moved(r, g, line[r])
          /\ w.row = g => w.value = Visible(r, g) + Signed(r, line[r])
      BY <2>2 DEF Ledger
    <3>2. Moved(r, g, line[r] + 1) = IF w.row = g
              THEN Moved(r, g, line[r]) + Signed(r, line[r]) ELSE Moved(r, g, line[r])
      BY <1>1, <1>2, <1>4, MovedFacts
    <3>3. Signed(r, line[r]) \in Int /\ Moved(r, g, line[r]) \in Int /\ InitialLevel[g] \in Int
      BY <1>1, MovedFacts, SignedType, StockLocksAssumption
    <3>4. Visible(r, g)' = InitialLevel[g] + Moved(r, g, line'[r])
      BY <1>4, <3>1, <3>2, <3>3
    <3>5. toSave'[r] = {}
      BY <1>2, <1>4
    <3>6. ASSUME NEW s \in Requests, Writes(s, g), pc'[s] \notin {"done", "failed"}
          PROVE  /\ movements'[g] = 0
                 /\ Visible(s, g)' = InitialLevel[g] + Moved(s, g, line'[s])
                 /\ \A v \in toSave'[s] : pc'[s] \in {"select", "update"} /\ v.row = g =>
                       v.value = Visible(s, g)' + Signed(s, line'[s])
      <4>1. CASE s = r
        BY <3>1, <3>4, <3>5, <4>1
      <4>2. CASE s # r
        <5>1. /\ pc'[s] = pc[s] /\ line'[s] = line[s] /\ toSave'[s] = toSave[s]
              /\ Visible(s, g)' = Visible(s, g)
          BY <4>2, OthersSeeTheSame
        <5>. QED  BY <3>6, <5>1 DEF Ledger
      <4>. QED  BY <4>1, <4>2
    <3>. QED  BY <3>6 DEF Ledger, Writes, Moved, Signed
  <2>. QED  BY <2>1, <2>2
<1>5. \/ line' = line /\ pc'[r] = "select" /\ toSave[r] # {w}
      \/ line' = line /\ pc'[r] = "level" /\ w.row \in Batches
      \/ /\ toSave[r] = {w} /\ w.row \in Ingredients
         /\ pc'[r] = Start(r, line[r] + 1) /\ line'[r] = line[r] + 1
  BY <1>1 DEF Saved
<1>. QED  BY <1>3, <1>4, <1>5

LEMMA ReadLevelKeepsLedger ==
    ASSUME LockInv, ValueTypes, NEW r \in Requests, ReadLevel(r), ~ Fail(r),
           NEW g \in Ingredients, Ledger(g)
    PROVE  Ledger(g)'
<1>1. /\ Statement(r) /\ pc[r] = "level" /\ pc'[r] = "select"
      /\ toSave'[r] = {LevelWrite(r)}
      /\ UNCHANGED <<stored, lock, pending, movements, line>>
  BY DEF ReadLevel, Statement, LockInv, LockTypes, rowVars
<1>2. Current(r) \in Line
  BY <1>1, CurrentIsLine DEF WorkingStages
<1>3. /\ Current(r).quantity \in Nat /\ Visible(r, g) \in Nat
      /\ Current(r).op = Lines[r][line[r]].op /\ Current(r).quantity = Lines[r][line[r]].quantity
  BY <1>2, SeenIsNatural DEF Line, Current, Rows
<1>4. LevelWrite(r).row = g => LevelWrite(r).value = Visible(r, g) + Signed(r, line[r])
  BY <1>3 DEF LevelWrite, Signed
<1>5. Visible(r, g)' = Visible(r, g)
  BY <1>1 DEF Visible
<1>. QED  BY <1>1, <1>4, <1>5, QuietStepKeepsLedger

\* A commit books what its lines moved; what others hold is not touched.
LEMMA CommitKeepsLedger ==
    ASSUME LockInv, ValueTypes, NEW r \in Requests, Commit(r), SavesItsLines(r),
           NEW g \in Ingredients, OneWriter(g), Ledger(g)
    PROVE  Ledger(g)'
<1>1. /\ Statement(r) /\ pc[r] = "commit" /\ pc'[r] = "done"
      /\ g \in Rows
      /\ stored'[g] = IF lock[g] = r THEN pending[g] ELSE stored[g]
      /\ movements'[g] = IF Kind[r] \in {"SEND", "CANCEL"} THEN movements[g]
                                                           ELSE movements[g] + Net(r, g)
  BY DEF Commit, Statement, LockInv, LockTypes, Rows
<1>2. /\ Net(r, g) \in Int /\ movements[g] \in Int /\ InitialLevel[g] \in Int
      /\ line[r] \in Nat \ {0}
      /\ Kind[r] \in Kinds
  BY NetIsInteger, StockLocksAssumption DEF ValueTypes, LockInv, LockTypes
<1>3. CASE Writes(r, g)
  <2>1. line[r] > Len(Lines[r]) /\ Kind[r] \notin {"SEND", "CANCEL"}
    BY <1>1, <1>3 DEF SavesItsLines, Writes, Writers
  <2>2. Moved(r, g, line[r]) = Net(r, g)
    BY <1>2, <2>1, MovedFacts
  <2>3. movements[g] = 0 /\ Visible(r, g) = InitialLevel[g] + Moved(r, g, line[r])
    BY <1>1, <1>3 DEF Ledger
  <2>4. stored'[g] = InitialLevel[g] + movements'[g]
    BY <1>1, <1>2, <2>1, <2>2, <2>3 DEF Visible
  <2>5. \A s \in Requests : Writes(s, g) => pc'[s] = "done"
    BY <1>1, <1>3 DEF OneWriter
  <2>. QED  BY <2>4, <2>5 DEF Ledger, Writes
<1>4. CASE ~ Writes(r, g)
  <2>1. stored'[g] = stored[g]
    <3>1. lock[g] = r => Kind[r] = "SEND"
      BY <1>4 DEF SavesItsLines
    <3>2. lock[g] = r => pending[g] = stored[g]
      BY <1>1, <3>1 DEF LockInv, SendSavesNoRow
    <3>. QED  BY <1>1, <3>2
  <2>2. movements'[g] = movements[g]
    <3>1. CASE Kind[r] \in {"SEND", "CANCEL"}
      BY <1>1, <3>1
    <3>2. CASE Kind[r] \notin {"SEND", "CANCEL"}
      <4>1. \A k \in DOMAIN Lines[r] : Lines[r][k].ingredient # g
        BY <1>2, <1>4, <3>2 DEF Writes, Writers, Kinds
      <4>2. Net(r, g) = 0
        BY <1>2, <4>1, MovedFacts
      <4>. QED  BY <1>1, <1>2, <3>2, <4>2
    <3>. QED  BY <3>1, <3>2
  <2>. QED  BY <1>1, <1>4, <2>1, <2>2, QuietStepKeepsLedger
<1>. QED  BY <1>3, <1>4

LEMMA StatementKeepsLedger ==
    ASSUME LockInv, ValueTypes, NEW r \in Requests, Statement(r), SavesItsLines(r),
           NEW g \in Ingredients, OneWriter(g), Ledger(g)
    PROVE  Ledger(g)'
<1>1. CASE Fail(r)
  <2>1. pc'[r] = "failed" /\ UNCHANGED <<stored, movements>>
    BY <1>1 DEF Fail, LockInv, LockTypes
  <2>. QED  BY <1>1, <2>1, QuietStepKeepsLedger
<1>2. CASE (LockLevel(r) /\ ~ Fail(r)) \/ InsertReservations(r)
  <2>1. pc[r] = "lock" /\ UNCHANGED <<stored, movements>>
    BY <1>2 DEF LockLevel, InsertReservations, rowVars
  <2>2. ~ Writes(r, g)
    BY <2>1 DEF SavesItsLines, Writes, Writers
  <2>. QED  BY <2>1, <2>2, QuietStepKeepsLedger
<1>3. CASE (DeductBatches(r) /\ ~ Fail(r)) \/ InsertBatch(r)
  <2>1. /\ pc[r] = "batches"
        /\ UNCHANGED <<stored, lock, pending, movements, line>>
    BY <1>3 DEF DeductBatches, InsertBatch, rowVars
  <2>2. \A w \in toSave'[r] : w.row # g
    <3>1. CASE DeductBatches(r) /\ ~ Fail(r)
      <4>. DEFINE q == Current(r).quantity
                  S == Available(r, Current(r).ingredient)
      <4>1. toSave'[r] = {[row |-> b, value |-> LeftIn(r, b, S, q)] : b \in S}
        BY <3>1 DEF DeductBatches, LockInv, LockTypes
      <4>2. \A b \in S : b # g
        BY RowsAreDisjoint DEF Available
      <4>. HIDE DEF S, q
      <4>. QED  BY <4>1, <4>2
    <3>2. CASE InsertBatch(r)
      <4>1. toSave'[r] = {[row |-> NewBatch[r], value |-> Current(r).quantity]}
        BY <3>2 DEF InsertBatch, LockInv, LockTypes
      <4>2. NewBatch[r] # g
        BY RowsAreDisjoint, StockLocksAssumption
      <4>. QED  BY <4>1, <4>2
    <3>. QED  BY <1>3, <3>1, <3>2
  <2>3. Visible(r, g)' = Visible(r, g)
    BY <2>1 DEF Visible
  <2>. QED  BY <2>1, <2>2, <2>3, QuietStepKeepsLedger
<1>4. CASE ReadLevel(r) /\ ~ Fail(r)
  BY <1>4, ReadLevelKeepsLedger
<1>5. CASE SelectRow(r)
  <2>1. /\ pc[r] = "select" /\ UNCHANGED <<stored, lock, pending, movements>>
    BY <1>5 DEF SelectRow, rowVars
  <2>2. Visible(r, g)' = Visible(r, g)
    BY <2>1 DEF Visible
  <2>3. CASE \E w \in toSave[r] : Visible(r, w.row) = w.value /\ Saved(r, w)
    <3>1. PICK w \in toSave[r] : Visible(r, w.row) = w.value /\ Saved(r, w)
      BY <2>3
    <3>. QED  BY <2>1, <2>2, <3>1, SavingKeepsLedger
  <2>4. CASE pc' = [pc EXCEPT ![r] = "update"] /\ UNCHANGED <<line, toSave>>
    BY <2>1, <2>2, <2>4, QuietStepKeepsLedger
  <2>. QED  BY <1>5, <2>3, <2>4 DEF SelectRow
<1>6. CASE UpdateRow(r)
  <2>1. PICK w \in toSave[r] :
           /\ lock' = [lock EXCEPT ![w.row] = r]
           /\ pending' = [pending EXCEPT ![w.row] = w.value]
           /\ Saved(r, w)
    BY <1>6 DEF UpdateRow
  <2>2. pc[r] = "update" /\ UNCHANGED <<stored, movements>>
    BY <1>6 DEF UpdateRow
  <2>3. /\ g \in Rows /\ w.row \in Rows
        /\ DOMAIN lock = Rows /\ DOMAIN pending = Rows
    BY DEF LockInv, LockTypes, WorkTypes, Rows
  <2>4. Visible(r, g)' = IF w.row = g THEN w.value ELSE Visible(r, g)
    BY <2>1, <2>2, <2>3 DEF Visible
  <2>. QED  BY <2>1, <2>2, <2>4, SavingKeepsLedger
<1>7. CASE Commit(r)
  BY <1>7, CommitKeepsLedger
<1>. QED  BY <1>1, <1>2, <1>3, <1>4, <1>5, <1>6, <1>7 DEF Statement

LEMMA StepKeepsBooks ==
    LockInv /\ ValueTypes /\ BooksInv /\ [Next]_vars => BooksInv'
<1>. SUFFICES ASSUME LockInv, ValueTypes, BooksInv, [Next]_vars PROVE BooksInv'
  OBVIOUS
<1>1. CASE UNCHANGED vars
  <2>1. UNCHANGED <<stored, lock, pending, movements, pc, line, toSave>>
    BY <1>1 DEF vars, rowVars, workVars
  <2>2. ASSUME NEW s \in Requests PROVE SavesItsLines(s)'
    BY <2>1 DEF BooksInv, SavesItsLines, Current, Writes
  <2>3. ASSUME NEW g \in Ingredients, OneWriter(g) PROVE Ledger(g)'
    <3>1. Ledger(g) /\ \A s \in Requests : Visible(s, g)' = Visible(s, g)
      BY <2>1, <2>3 DEF BooksInv, Visible
    <3>. QED  BY <2>1, <3>1, LedgerUntouched
  <2>4. \A g \in Ingredients : OneWriter(g)' => OneWriter(g)
    BY DEF OneWriter, Writes
  <2>. QED  BY <2>2, <2>3, <2>4 DEF BooksInv
<1>2. CASE Next
  <2>1. PICK r \in Requests : Statement(r) \/ Fail(r)
    BY <1>2 DEF Next, AbortDeadlocked
  <2>2. \A s \in Requests : SavesItsLines(s)'
    <3>. TAKE s \in Requests
    <3>1. CASE s = r
      BY <2>1, <3>1, FailSavesItsLines, StatementSavesItsLines DEF BooksInv
    <3>2. CASE s # r
      BY <2>1, <3>2, OthersSaveTheirLines DEF BooksInv
    <3>. QED  BY <3>1, <3>2
  <2>3. ASSUME NEW g \in Ingredients, OneWriter(g)
        PROVE  Ledger(g)'
    <3>1. Ledger(g) /\ SavesItsLines(r)
      BY <2>3 DEF BooksInv
    <3>2. CASE Statement(r)
      BY <2>3, <3>1, <3>2, StatementKeepsLedger
    <3>3. CASE Fail(r)
      <4>1. pc'[r] = "failed" /\ UNCHANGED <<stored, movements>>
        BY <3>3 DEF Fail, LockInv, LockTypes
      <4>. QED  BY <3>1, <3>3, <4>1, QuietStepKeepsLedger
    <3>. QED  BY <2>1, <3>2, <3>3
  <2>4. \A g \in Ingredients : OneWriter(g)' => OneWriter(g)
    BY DEF OneWriter, Writes
  <2>. QED  BY <2>2, <2>3, <2>4 DEF BooksInv
<1>. QED  BY <1>1, <1>2

LEMMA InitBooks == Init => BooksInv
<1>. SUFFICES ASSUME Init PROVE BooksInv
  OBVIOUS
<1>1. \A r \in Requests : pc[r] = Start(r, 1) /\ line[r] = 1 /\ toSave[r] = {}
  BY DEF Init
<1>2. /\ \A row \in Rows : lock[row] = None
      /\ \A g \in Ingredients : stored[g] = InitialLevel[g] /\ movements[g] = 0
      /\ None \notin Requests
  BY StockLocksAssumption DEF Init, Rows
<1>3. ASSUME NEW r \in Requests PROVE SavesItsLines(r)
  BY <1>1, <1>2, StartByKind DEF SavesItsLines, Rows
<1>4. ASSUME NEW g \in Ingredients PROVE Ledger(g)
  <2>1. InitialLevel[g] \in Int
    BY StockLocksAssumption
  <2>2. ASSUME NEW r \in Requests
        PROVE  /\ Visible(r, g) = InitialLevel[g]
               /\ Moved(r, g, line[r]) = 0
    BY <1>1, <1>2, MovedFacts DEF Visible, Rows
  <2>. QED  BY <1>1, <1>2, <2>1, <2>2 DEF Ledger
<1>. QED  BY <1>3, <1>4 DEF BooksInv

\* Of an ingredient whose level one request at most writes, level and movements agree in
\* every state, whatever else runs: sends and cancels of it, other writers of the batches
\* and levels of other ingredients, failures and aborted deadlocks.  So a level parts from
\* its movements only where two requests write it (findByIngredient takes no lock, save()
\* overwrites), which is how LevelFollowsMovements is violated.
THEOREM SoleWritersLoseNothing == Spec => []SoleWritersKeepTheBooks
<1>1. BooksInv => SoleWritersKeepTheBooks
  BY DEF BooksInv, SoleWritersKeepTheBooks, Ledger
<1>. QED
  BY <1>1, InitLockInv, InitValues, InitBooks, StepKeepsLockInv, StepKeepsValues,
     StepKeepsBooks, PTL DEF Spec
=============================================================================
