--------------------------- MODULE PrinterRegister ---------------------------
(***************************************************************************)
(* Printers that the agents discovered, src/contexts/kitchen-operations/   *)
(* printer-discovery: a register that no clerk edits.  Agents report what  *)
(* they see and how it is, one message each, and messages of several       *)
(* agents overlap like the requests of clerks.  A printer is known by its  *)
(* address or USB identifier, its `name' here.                             *)
(***************************************************************************)
EXTENDS Registers

CONSTANTS Models   \* printer models an agent may resolve

PrinterRegs == {"printers"}

AgentStatus == {"online", "offline"}   \* what an agent may send

PrinterRow == [name : Names, model : Models, status : AgentStatus \cup {"unknown"}]

\* report-devices: one message may bring several printers; each is recorded by itself.
ReportDevicesPayload == [name : Names, model : Models]

ReportDeviceStatusPayload == [name : Names, status : AgentStatus]

NewPrinter(q) == [name |-> q.name, model |-> q.model, status |-> "unknown"]
Touched(row, q) == [row EXCEPT !.model = q.model]
WithStatus(row, q) == [row EXCEPT !.status = q.status]

\* Uuid.random(): an id nobody has.
FreshIds == {id \in Ids \ DOMAIN rows :
                \A c \in RegisterClerks : request[c] # NoRequest => request[c].id # id}

\* RecordDiscoveredDevice: a printer that was seen before keeps its row.
RecordDiscoveredDevice(c) ==
    \E q \in ReportDevicesPayload :
        \/ \E id \in Named(q.name) : Decide(c, SaveRow(id, Touched(rows[id], q)))
        \/ /\ Named(q.name) = {}
           /\ \E id \in FreshIds : Decide(c, SaveRow(id, NewPrinter(q)))

\* RecordDeviceStatus: of a printer that was discovered, and never of another one.
RecordDeviceStatus(c) ==
    \E q \in ReportDeviceStatusPayload : \E id \in Named(q.name) :
        Decide(c, SaveRow(id, WithStatus(rows[id], q)))

SavePrinter(c) == SelectRow(c, {}) \/ SaveStatement(c, TRUE)

Printer(c) ==
    /\ reg = "printers"
    /\ \/ RecordDiscoveredDevice(c)
       \/ RecordDeviceStatus(c)
       \/ SavePrinter(c)

PrinterNext == \E c \in RegisterClerks : Printer(c)
=============================================================================
