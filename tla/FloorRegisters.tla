--------------------------- MODULE FloorRegisters ---------------------------
(***************************************************************************)
(* The registers of the dining room, src/contexts/restaurant: zones, the   *)
(* elements drawn on the floor plan, and tables with their occupation.     *)
(***************************************************************************)
EXTENDS Registers

CONSTANTS Zones,        \* zone ids a request may carry
          Places,       \* positions on the floor plan
          TableOrders,  \* orders that may occupy a table
          NoOrderHere   \* the null of current_order_id

FloorRegs == {"zones", "floor_elements", "tables"}

-----------------------------------------------------------------------------
(* Zones *)

ZoneRow == [name : Names, isActive : BOOLEAN]
CreateZoneRequest == [id : Ids, name : Names]
UpdateZoneRequest == [name : Names, isActive : BOOLEAN]

NewZone(q) == [name |-> q.name, isActive |-> TRUE]
EditedZone(q) == [name |-> q.name, isActive |-> q.isActive]

\* POST /zones: the name must not be taken.
CreateZone(c) ==
    \E q \in CreateZoneRequest :
        /\ Named(q.name) = {}
        /\ Decide(c, SaveRow(q.id, NewZone(q)))

\* PATCH /zones/:id: a new name must not be taken.
UpdateZone(c) ==
    \E id \in DOMAIN rows, q \in UpdateZoneRequest :
        /\ rows[id].name # q.name => Named(q.name) = {}
        /\ Decide(c, SaveRow(id, EditedZone(q)))

\* Faulty variant: the table has no unique index on the name.
SaveZoneUnindexed(c) == SelectRow(c, {}) \/ SaveStatement(c, FALSE)

SaveZone(c) == SelectRow(c, {}) \/ SaveStatement(c, TRUE)

Zone(c) ==
    /\ reg = "zones"
    /\ \/ CreateZone(c)
       \/ UpdateZone(c)
       \/ SaveZone(c)

-----------------------------------------------------------------------------
(* Floor elements: nothing about them is unique, and the zone they are drawn
   in is stored as it was sent. *)

FloorElementRow == [name : Names, zoneId : Zones, place : Places, isActive : BOOLEAN]

CreateFloorElementRequest == [id : Ids, name : Names, zoneId : Zones, place : Places]
UpdateFloorElementRequest == [name : Names, place : Places, isActive : BOOLEAN]
MoveFloorElementRequest == [place : Places]

NewFloorElement(q) ==
    [name |-> q.name, zoneId |-> q.zoneId, place |-> q.place, isActive |-> TRUE]

EditedFloorElement(e, q) ==
    [e EXCEPT !.name = q.name, !.place = q.place, !.isActive = q.isActive]
MovedFloorElement(e, q) == [e EXCEPT !.place = q.place]

\* POST /floor-elements.
CreateFloorElement(c) ==
    \E q \in CreateFloorElementRequest : Decide(c, SaveRow(q.id, NewFloorElement(q)))

\* PATCH /floor-elements/:id: what the request leaves out keeps its value.
UpdateFloorElement(c) ==
    \E id \in DOMAIN rows, q \in UpdateFloorElementRequest :
        Decide(c, SaveRow(id, EditedFloorElement(rows[id], q)))

\* PATCH /floor-elements/:id/position.
MoveFloorElement(c) ==
    \E id \in DOMAIN rows, q \in MoveFloorElementRequest :
        Decide(c, SaveRow(id, MovedFloorElement(rows[id], q)))

\* DELETE /floor-elements/:id.
DeleteFloorElement(c) ==
    \E id \in DOMAIN rows : Decide(c, DeleteRow(id))

SaveFloorElement(c) == SelectRow(c, {}) \/ SaveStatement(c, FALSE)
RemoveFloorElement(c) == DeleteStatement(c, FALSE)

FloorElement(c) ==
    /\ reg = "floor_elements"
    /\ \/ CreateFloorElement(c)
       \/ UpdateFloorElement(c)
       \/ MoveFloorElement(c)
       \/ DeleteFloorElement(c)
       \/ SaveFloorElement(c)
       \/ RemoveFloorElement(c)

-----------------------------------------------------------------------------
(* Tables.  Their use cases write the whole row they loaded, the occupation
   included. *)

TableStatus == {"AVAILABLE", "OCCUPIED", "RESERVED", "INACTIVE"}

TableRow == [name : Names, status : TableStatus,
             currentOrderId : TableOrders \cup {NoOrderHere}]

CreateTableRequest == [id : Ids, name : Names]
UpdateTableRequest == [name : Names]
ChangeTableStatusRequest == [status : TableStatus]

NewTable(q) == [name |-> q.name, status |-> "AVAILABLE", currentOrderId |-> NoOrderHere]
EditedTable(t, q) == [t EXCEPT !.name = q.name]

\* Where a table stands is not in this model, so moving it changes nothing.
MovedTable(t) == t

\* An occupied table is not taken out of service; any other status is accepted.
MayChangeStatus(t, s) == ~(t.status = "OCCUPIED" /\ s = "INACTIVE")
SetCurrentOrder(t, o) == [t EXCEPT !.currentOrderId = o, !.status = "OCCUPIED"]
ClearCurrentOrder(t) == [t EXCEPT !.currentOrderId = NoOrderHere, !.status = "AVAILABLE"]
EnsureIsAvailable(t) == t.status \notin {"INACTIVE", "OCCUPIED"}

\* POST /tables.
CreateTable(c) ==
    \E q \in CreateTableRequest :
        /\ Named(q.name) = {}
        /\ Decide(c, SaveRow(q.id, NewTable(q)))

\* PATCH /tables/:id.
UpdateTable(c) ==
    \E id \in DOMAIN rows, q \in UpdateTableRequest :
        /\ rows[id].name # q.name => Named(q.name) = {}
        /\ Decide(c, SaveRow(id, EditedTable(rows[id], q)))

\* PATCH /tables/:id/position.
MoveTable(c) ==
    \E id \in DOMAIN rows : Decide(c, SaveRow(id, MovedTable(rows[id])))

\* PATCH /tables/:id/status.
ChangeTableStatus(c) ==
    \E id \in DOMAIN rows, q \in ChangeTableStatusRequest :
        /\ MayChangeStatus(rows[id], q.status)
        /\ Decide(c, SaveRow(id, [rows[id] EXCEPT !.status = q.status]))

\* An order is opened at the table.
OccupyTable(c) ==
    \E id \in DOMAIN rows, o \in TableOrders :
        /\ EnsureIsAvailable(rows[id])
        /\ Decide(c, SaveRow(id, SetCurrentOrder(rows[id], o)))

\* Its order is closed or cancelled.
ReleaseTable(c) ==
    \E id \in DOMAIN rows : Decide(c, SaveRow(id, ClearCurrentOrder(rows[id])))

SaveTable(c) == SelectRow(c, {}) \/ SaveStatement(c, TRUE)

TableRequest(c) ==
    /\ reg = "tables"
    /\ \/ CreateTable(c)
       \/ UpdateTable(c)
       \/ MoveTable(c)
       \/ ChangeTableStatus(c)
       \/ OccupyTable(c)
       \/ ReleaseTable(c)
       \/ SaveTable(c)

FloorNext == \E c \in RegisterClerks : Zone(c) \/ FloorElement(c) \/ TableRequest(c)
=============================================================================
