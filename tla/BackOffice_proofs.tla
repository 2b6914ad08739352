-------------------------- MODULE BackOffice_proofs ---------------------------
(***************************************************************************)
(* Theorems about the registers and the requests of the back office:       *)
(* floor and stations (BackOffice), ingredients and menu (Menu), users and *)
(* tokens (Accounts), the settings (Establishment) and the money of an     *)
(* order (OrderMoney), for any number of clients, of ids and of values;    *)
(* and, with the theorems of Trade_proofs, about the back office as a      *)
(* whole (BackOfficeParts).                                                *)
(***************************************************************************)
EXTENDS BackOfficeParts, Trade_proofs, DataTheorems, TLAPS

-------------------------------------------------------------------------------
(* Registers of the floor, of the catalogue and of stations: module BackOffice. *)

(* Registers: the inductive invariant *)

\* A request wants a station that prints to name a discovered printer, and any other
\* to name none.
Wired(row) ==
    reg = "stations" =>
        IF row.outputDevice = "printer" THEN row.device \in Devices ELSE row.device = NoDevice

\* What a clerk may be about to issue.
Statements ==
    [do : {"select", "insert", "update"}, id : Ids, row : {row \in RowSet : Wired(row)},
     columns : SUBSET RowColumns]
    \cup [do : {"delete"}, id : Ids]

RegistersIInv ==
    /\ reg \in AllRegs
    /\ DOMAIN rows \in SUBSET Ids
    /\ rows \in [DOMAIN rows -> RowSet]
    /\ links \in SUBSET Ids
    /\ request \in [RegisterClerks -> Statements \cup {NoRequest}]
    /\ blended \in SUBSET DOMAIN rows
    /\ RegistersStaySound

-----------------------------------------------------------------------------
(* Statements *)

LEMMA RegistersRowSets ==
    /\ reg = "zones" => RowSet = ZoneRow
    /\ reg = "floor_elements" => RowSet = FloorElementRow
    /\ reg = "tables" => RowSet = TableRow
    /\ reg = "units" => RowSet = NamedRow
    /\ reg = "ingredient_categories" => RowSet = NamedRow
    /\ reg = "product_categories" => RowSet = NamedRow
    /\ reg = "suppliers" => RowSet = NamedRow
    /\ reg = "recipes" => RowSet = RecipeRow
    /\ reg = "stations" => RowSet = StationRow
    /\ reg = "positions" => RowSet = [name : Names]
    /\ reg = "roles" => RowSet = [name : Names]
    /\ reg = "printers" => RowSet = PrinterRow
  BY DEF RowSet, UnitRow, IngredientCategoryRow, ProductCategoryRow, SupplierRow,
         PositionRow, RoleRow

\* What an UPDATE of some columns leaves of a row is a row of the register.
LEMMA RegistersColumns ==
    ASSUME reg \in AllRegs, NEW row \in RowSet, NEW given \in RowSet, NEW columns,
           NEW left, left = WithColumns(row, given, columns)
    PROVE  left \in RowSet /\ DOMAIN given \in SUBSET RowColumns
<1>1. ASSUME NEW row1 \in ZoneRow, NEW given1 \in ZoneRow
      PROVE  WithColumns(row1, given1, columns) \in ZoneRow /\ DOMAIN given1 \in SUBSET RowColumns
  <2>1. DOMAIN row1 = {"name", "isActive"} /\ DOMAIN given1 = {"name", "isActive"}
    BY DEF ZoneRow
  <2>2. PICK m : m = WithColumns(row1, given1, columns)
    OBVIOUS
  <2>3. /\ m = [name |-> m.name, isActive |-> m.isActive]
        /\ m.name \in {row1.name, given1.name} /\ m.isActive \in {row1.isActive, given1.isActive}
    BY <2>1, <2>2 DEF WithColumns
  <2> QED
    BY <2>1, <2>2, <2>3 DEF ZoneRow, RowColumns
<1>2. ASSUME NEW row1 \in FloorElementRow, NEW given1 \in FloorElementRow
      PROVE  /\ WithColumns(row1, given1, columns) \in FloorElementRow
             /\ DOMAIN given1 \in SUBSET RowColumns
  <2>1. /\ DOMAIN row1 = {"name", "zoneId", "place", "isActive"}
        /\ DOMAIN given1 = {"name", "zoneId", "place", "isActive"}
    BY DEF FloorElementRow
  <2>2. PICK m : m = WithColumns(row1, given1, columns)
    OBVIOUS
  <2>3. /\ m = [name |-> m.name, zoneId |-> m.zoneId, place |-> m.place, isActive |-> m.isActive]
        /\ m.name \in {row1.name, given1.name} /\ m.isActive \in {row1.isActive, given1.isActive}
        /\ m.zoneId \in {row1.zoneId, given1.zoneId} /\ m.place \in {row1.place, given1.place}
    BY <2>1, <2>2 DEF WithColumns
  <2> QED
    BY <2>1, <2>2, <2>3 DEF FloorElementRow, RowColumns
<1>3. ASSUME NEW row1 \in TableRow, NEW given1 \in TableRow
      PROVE  WithColumns(row1, given1, columns) \in TableRow /\ DOMAIN given1 \in SUBSET RowColumns
  <2>1. /\ DOMAIN row1 = {"name", "status", "currentOrderId"}
        /\ DOMAIN given1 = {"name", "status", "currentOrderId"}
    BY DEF TableRow
  <2>2. PICK m : m = WithColumns(row1, given1, columns)
    OBVIOUS
  <2>3. /\ m = [name |-> m.name, status |-> m.status, currentOrderId |-> m.currentOrderId]
        /\ m.name \in {row1.name, given1.name} /\ m.status \in {row1.status, given1.status}
        /\ m.currentOrderId \in {row1.currentOrderId, given1.currentOrderId}
    BY <2>1, <2>2 DEF WithColumns
  <2> QED
    BY <2>1, <2>2, <2>3 DEF TableRow, RowColumns
<1>4. NamedRow = ZoneRow
  BY DEF NamedRow, ZoneRow
<1>5. ASSUME NEW row1 \in RecipeRow, NEW given1 \in RecipeRow
      PROVE  WithColumns(row1, given1, columns) \in RecipeRow /\ DOMAIN given1 \in SUBSET RowColumns
  <2>1. DOMAIN row1 = {"name", "items"} /\ DOMAIN given1 = {"name", "items"}
    BY DEF RecipeRow
  <2>2. PICK m : m = WithColumns(row1, given1, columns)
    OBVIOUS
  <2>3. /\ m = [name |-> m.name, items |-> m.items]
        /\ m.name \in {row1.name, given1.name} /\ m.items \in {row1.items, given1.items}
    BY <2>1, <2>2 DEF WithColumns
  <2> QED
    BY <2>1, <2>2, <2>3 DEF RecipeRow, RowColumns
<1>6. ASSUME NEW row1 \in StationRow, NEW given1 \in StationRow
      PROVE  WithColumns(row1, given1, columns) \in StationRow /\ DOMAIN given1 \in SUBSET RowColumns
  <2>1. /\ DOMAIN row1 = {"name", "isActive", "outputDevice", "device"}
        /\ DOMAIN given1 = {"name", "isActive", "outputDevice", "device"}
    BY DEF StationRow
  <2>2. PICK m : m = WithColumns(row1, given1, columns)
    OBVIOUS
  <2>3. /\ m = [name |-> m.name, isActive |-> m.isActive, outputDevice |-> m.outputDevice,
                device |-> m.device]
        /\ m.name \in {row1.name, given1.name} /\ m.isActive \in {row1.isActive, given1.isActive}
        /\ m.outputDevice \in {row1.outputDevice, given1.outputDevice}
        /\ m.device \in {row1.device, given1.device}
    BY <2>1, <2>2 DEF WithColumns
  <2> QED
    BY <2>1, <2>2, <2>3 DEF StationRow, RowColumns
<1>7. ASSUME NEW row1 \in [name : Names], NEW given1 \in [name : Names]
      PROVE  /\ WithColumns(row1, given1, columns) \in [name : Names]
             /\ DOMAIN given1 \in SUBSET RowColumns
  <2>1. DOMAIN row1 = {"name"} /\ DOMAIN given1 = {"name"}
    OBVIOUS
  <2>2. PICK m : m = WithColumns(row1, given1, columns)
    OBVIOUS
  <2>3. m = [name |-> m.name] /\ m.name \in {row1.name, given1.name}
    BY <2>1, <2>2 DEF WithColumns
  <2> QED
    BY <2>1, <2>2, <2>3 DEF RowColumns
<1>8. ASSUME NEW row1 \in PrinterRow, NEW given1 \in PrinterRow
      PROVE  WithColumns(row1, given1, columns) \in PrinterRow /\ DOMAIN given1 \in SUBSET RowColumns
  <2>1. DOMAIN row1 = {"name", "model", "status"} /\ DOMAIN given1 = {"name", "model", "status"}
    BY DEF PrinterRow
  <2>2. PICK m : m = WithColumns(row1, given1, columns)
    OBVIOUS
  <2>3. /\ m = [name |-> m.name, model |-> m.model, status |-> m.status]
        /\ m.name \in {row1.name, given1.name} /\ m.model \in {row1.model, given1.model}
        /\ m.status \in {row1.status, given1.status}
    BY <2>1, <2>2 DEF WithColumns
  <2> QED
    BY <2>1, <2>2, <2>3 DEF PrinterRow, RowColumns
<1>9. RowSet \in {ZoneRow, FloorElementRow, TableRow, NamedRow, RecipeRow, StationRow,
                 [name : Names], PrinterRow}
  BY RegistersRowSets DEF AllRegs, FloorRegs, CatalogRegs, PrinterRegs
<1>10. PICK R : R = RowSet
  OBVIOUS
<1> QED
  BY <1>1, <1>2, <1>3, <1>4, <1>5, <1>6, <1>7, <1>8, <1>9, <1>10

LEMMA RegistersStatementFacts ==
    /\ \A id \in Ids, row \in RowSet : Wired(row) =>
          /\ SaveRow(id, row) \in Statements
    /\ \A id \in Ids : DeleteRow(id) \in Statements
    /\ \A s \in Statements : s.do \in {"select", "insert", "update"} =>
          s.id \in Ids /\ s.row \in RowSet /\ Wired(s.row)
    /\ \A s \in Statements : s.do = "select" =>
          /\ [s EXCEPT !.do = "insert"] \in Statements
          /\ \A columns \in SUBSET RowColumns :
                [s EXCEPT !.do = "update", !.columns = columns] \in Statements
    /\ NoRequest \notin Statements
<1>1. \A id \in Ids, row \in RowSet : Wired(row) => SaveRow(id, row) \in Statements
  BY DEF SaveRow, Statements
<1>2. \A id \in Ids : DeleteRow(id) \in Statements
  BY DEF DeleteRow, Statements
<1>3. \A s \in Statements : s.do \in {"select", "insert", "update", "delete"}
  BY DEF Statements
<1>4. \A s \in Statements : s.do \in {"select", "insert", "update"} =>
          s.id \in Ids /\ s.row \in RowSet /\ Wired(s.row)
  BY DEF Statements
<1>5. NoRequest.do = "nothing"
  BY DEF NoRequest
<1>6. \A s \in Statements : s.do = "select" =>
          /\ [s EXCEPT !.do = "insert"] \in Statements
          /\ \A columns \in SUBSET RowColumns :
                [s EXCEPT !.do = "update", !.columns = columns] \in Statements
  BY DEF Statements
<1> QED
  BY <1>1, <1>2, <1>3, <1>4, <1>5, <1>6

LEMMA RegistersDecidePreserves ==
    ASSUME RegistersIInv, NEW c \in RegisterClerks, NEW s \in Statements, Decide(c, s)
    PROVE  RegistersIInv'
<1>1. Statements' = Statements /\ RowSet' = RowSet
  BY DEF Decide, Statements, RowSet, Wired
<1>2. request' \in [RegisterClerks -> Statements \cup {NoRequest}]
  BY DEF Decide, RegistersIInv
<1>3. RegistersStaySound'
  BY DEF Decide, RegistersIInv, RegistersStaySound, NamesStayUnique,
         PrintingStationsHaveAPrinter, ReferredRowsStay
<1> QED
  BY <1>1, <1>2, <1>3 DEF Decide, RegistersIInv

UniqueRegs == {"zones", "tables", "stations", "ingredient_categories", "positions", "roles",
               "printers"}
ReferredRegs == {"units", "product_categories", "suppliers", "positions"}

\* The SELECT of save().
LEMMA RegistersSelectPreserves ==
    ASSUME RegistersIInv, NEW c \in RegisterClerks, NEW anew \in SUBSET RowColumns,
           SelectRow(c, anew)
    PROVE  RegistersIInv'
<1>1. PICK s : s = request[c]
  OBVIOUS
<1>2. PICK columns : columns = Differing(s.row, rows[s.id]) \cup anew
  OBVIOUS
<1>3. /\ s.do = "select"
      /\ request' = [request EXCEPT ![c] =
            IF s.id \notin DOMAIN rows THEN [s EXCEPT !.do = "insert"]
            ELSE IF columns = {} THEN NoRequest
            ELSE [s EXCEPT !.do = "update", !.columns = columns]]
      /\ UNCHANGED <<reg, rows, links, blended>>
  BY <1>1, <1>2 DEF SelectRow
<1>4. s \in Statements
  BY <1>1, <1>3 DEF RegistersIInv, NoRequest
<1>5. columns \in SUBSET RowColumns
  <2>1. DOMAIN s.row \in SUBSET RowColumns
    <3>1. PICK given \in RowSet : given = s.row
      BY <1>3, <1>4, RegistersStatementFacts
    <3>2. PICK left : left = WithColumns(given, given, {})
      OBVIOUS
    <3>3. reg \in AllRegs
      BY DEF RegistersIInv
    <3> QED
      BY <3>1, <3>2, <3>3, RegistersColumns
  <2> QED
    BY <1>2, <2>1 DEF Differing
<1>6. Statements' = Statements /\ RowSet' = RowSet
  BY <1>3 DEF Statements, RowSet, Wired
<1>7. PICK w \in Statements \cup {NoRequest} : request' = [request EXCEPT ![c] = w]
  BY <1>3, <1>4, <1>5, RegistersStatementFacts
<1>8. request' \in [RegisterClerks -> Statements \cup {NoRequest}]
  BY <1>7 DEF RegistersIInv
<1>9. RegistersStaySound'
  BY <1>3 DEF RegistersIInv, RegistersStaySound, NamesStayUnique,
     PrintingStationsHaveAPrinter, ReferredRowsStay
<1> QED
  BY <1>3, <1>6, <1>8, <1>9 DEF RegistersIInv

\* A row that is inserted, or some of whose columns are written.
LEMMA RegistersSavePreserves ==
    ASSUME RegistersIInv, NEW c \in RegisterClerks, NEW unique \in BOOLEAN,
           reg \in UniqueRegs => unique, SaveStatement(c, unique)
    PROVE  RegistersIInv'
<1>1. PICK s : s = request[c]
  OBVIOUS
<1>2. /\ InsertSaved(s, unique) \/ UpdateSaved(s, unique)
      /\ request' = [request EXCEPT ![c] = NoRequest]
      /\ UNCHANGED <<reg, links>>
  BY <1>1 DEF SaveStatement
<1>3. /\ Statements' = Statements /\ RowSet' = RowSet
      /\ request' \in [RegisterClerks -> Statements \cup {NoRequest}]
  BY <1>2 DEF RegistersIInv, Statements, RowSet, Wired
<1>4. s.id \in Ids /\ s.row \in RowSet /\ Wired(s.row)
  <2>1. s.do \in {"insert", "update"}
    BY <1>2 DEF InsertSaved, UpdateSaved
  <2>2. s \in Statements
    BY <1>1, <2>1 DEF RegistersIInv, NoRequest
  <2> QED
    BY <2>1, <2>2, RegistersStatementFacts
\* The row that is left, in whichever way it was written.
<1>5. ASSUME NEW row \in RowSet, row # s.row => s.id \in blended',
             unique => Named(row.name) \subseteq {s.id},
             DOMAIN rows' = DOMAIN rows \cup {s.id}, rows'[s.id] = row,
             rows' = [i \in DOMAIN rows' |-> rows'[i]],
             \A i \in DOMAIN rows : i # s.id => rows'[i] = rows[i],
             blended' \in SUBSET DOMAIN rows',
             blended \ {s.id} \subseteq blended'
      PROVE  RegistersIInv'
  <2>1. rows' \in [DOMAIN rows' -> RowSet] /\ DOMAIN rows' \in SUBSET Ids
    BY <1>4, <1>5 DEF RegistersIInv
  <2>2. NamesStayUnique'
    <3> SUFFICES ASSUME reg \in UniqueRegs, NEW i \in DOMAIN rows', NEW j \in DOMAIN rows',
                        rows'[i].name = rows'[j].name
                 PROVE  i = j
      BY <1>2 DEF NamesStayUnique, UniqueRegs
    <3>1. \A k \in DOMAIN rows : rows[k].name = row.name => k = s.id
      BY <1>5 DEF Named
    <3> QED
      BY <1>5, <3>1 DEF RegistersIInv, RegistersStaySound, NamesStayUnique, UniqueRegs
  <2>3. PrintingStationsHaveAPrinter'
    BY <1>2, <1>4, <1>5 DEF RegistersIInv, RegistersStaySound, PrintingStationsHaveAPrinter,
       Wired
  <2>4. ReferredRowsStay'
    BY <1>2, <1>5 DEF RegistersIInv, RegistersStaySound, ReferredRowsStay
  <2> QED
    BY <1>2, <1>3, <1>5, <2>1, <2>2, <2>3, <2>4 DEF RegistersIInv, RegistersStaySound
<1>6. CASE InsertSaved(s, unique)
  <2>1. /\ s.id \notin DOMAIN rows /\ blended' = blended
        /\ unique => Named(s.row.name) = {}
        /\ rows' = [i \in {s.id} \cup DOMAIN rows |-> IF i \in {s.id} THEN s.row ELSE rows[i]]
    BY <1>6 DEF InsertSaved, WrittenOver, OneRow
  <2>2. /\ DOMAIN rows' = DOMAIN rows \cup {s.id} /\ rows'[s.id] = s.row
        /\ rows' = [i \in DOMAIN rows' |-> rows'[i]]
        /\ \A i \in DOMAIN rows : i # s.id => rows'[i] = rows[i]
    BY <2>1
  <2>3. blended' \in SUBSET DOMAIN rows' /\ blended \ {s.id} \subseteq blended'
    BY <2>1, <2>2 DEF RegistersIInv
  <2>4. unique => Named(s.row.name) \subseteq {s.id}
    BY <2>1
  <2> QED
    BY <1>4, <1>5, <2>2, <2>3, <2>4
<1>7. CASE UpdateSaved(s, unique) /\ s.id \in DOMAIN rows
  <2>1. PICK row : row = WithColumns(rows[s.id], s.row, s.columns)
    OBVIOUS
  <2>2. /\ unique => Named(row.name) \subseteq {s.id}
        /\ rows' = [rows EXCEPT ![s.id] = row]
        /\ blended' = IF row = s.row THEN blended \ {s.id} ELSE blended \cup {s.id}
    BY <1>7, <2>1 DEF UpdateSaved
  <2>3. rows \in [DOMAIN rows -> RowSet] /\ reg \in AllRegs /\ blended \in SUBSET DOMAIN rows
    BY DEF RegistersIInv
  <2>4. row \in RowSet
    BY <1>4, <1>7, <2>1, <2>3, RegistersColumns
  <2>5. /\ DOMAIN rows' = DOMAIN rows \cup {s.id} /\ rows'[s.id] = row
        /\ rows' = [i \in DOMAIN rows' |-> rows'[i]]
        /\ \A i \in DOMAIN rows : i # s.id => rows'[i] = rows[i]
    BY <1>7, <2>2, <2>3
  <2>6. /\ blended' \in SUBSET DOMAIN rows' /\ blended \ {s.id} \subseteq blended'
        /\ row # s.row => s.id \in blended'
    BY <1>7, <2>2, <2>3, <2>5
  <2> QED
    BY <1>5, <2>2, <2>4, <2>5, <2>6
<1>8. CASE UpdateSaved(s, unique) /\ s.id \notin DOMAIN rows
  <2>1. UNCHANGED <<reg, rows, links, blended>>
    BY <1>2, <1>8 DEF UpdateSaved
  <2>2. RegistersStaySound'
    BY <2>1 DEF RegistersIInv, RegistersStaySound, NamesStayUnique,
       PrintingStationsHaveAPrinter, ReferredRowsStay
  <2> QED
    BY <1>3, <2>1, <2>2 DEF RegistersIInv
<1> QED
  BY <1>2, <1>6, <1>7, <1>8

\* save() as a whole.
LEMMA RegistersWritePreserves ==
    ASSUME RegistersIInv, NEW c \in RegisterClerks, NEW unique \in BOOLEAN,
           reg \in UniqueRegs => unique, SelectRow(c, {}) \/ SaveStatement(c, unique)
    PROVE  RegistersIInv'
<1>1. {} \in SUBSET RowColumns
  OBVIOUS
<1> QED
  BY <1>1, RegistersSelectPreserves, RegistersSavePreserves

LEMMA RegistersDeletePreserves ==
    ASSUME RegistersIInv, NEW c \in RegisterClerks, NEW foreignKey \in BOOLEAN,
           reg \in ReferredRegs => foreignKey, DeleteStatement(c, foreignKey)
    PROVE  RegistersIInv'
<1>1. PICK s : s = request[c]
  OBVIOUS
<1>2. /\ foreignKey => s.id \notin links
      /\ rows' = [i \in DOMAIN rows \ {s.id} |-> rows[i]]
      /\ blended' = blended \ {s.id}
      /\ request' = [request EXCEPT ![c] = NoRequest]
      /\ UNCHANGED <<reg, links>>
  BY <1>1 DEF DeleteStatement
<1>3. /\ DOMAIN rows' = DOMAIN rows \ {s.id}
      /\ \A i \in DOMAIN rows' : rows'[i] = rows[i]
  BY <1>2
<1>4. Statements' = Statements /\ RowSet' = RowSet
  BY <1>2 DEF Statements, RowSet, Wired
<1>5. request' \in [RegisterClerks -> Statements \cup {NoRequest}]
  BY <1>2 DEF RegistersIInv
<1>6. rows' \in [DOMAIN rows' -> RowSet] /\ DOMAIN rows' \in SUBSET Ids
  BY <1>2, <1>3 DEF RegistersIInv
<1>7. NamesStayUnique' /\ PrintingStationsHaveAPrinter'
  BY <1>2, <1>3 DEF RegistersIInv, RegistersStaySound, NamesStayUnique,
     PrintingStationsHaveAPrinter
<1>8. blended' \in SUBSET DOMAIN rows'
  BY <1>2, <1>3 DEF RegistersIInv
<1>9. ReferredRowsStay'
  BY <1>2, <1>3 DEF RegistersIInv, RegistersStaySound, ReferredRowsStay, ReferredRegs
<1> QED
  BY <1>2, <1>4, <1>5, <1>6, <1>7, <1>9, <1>8 DEF RegistersIInv, RegistersStaySound

\* Rows of other tables come and go; a request fails.
LEMMA RegistersLinksPreserve ==
    ASSUME RegistersIInv, UNCHANGED <<reg, rows, blended>>, links' \in SUBSET Ids,
           request' \in [RegisterClerks -> Statements \cup {NoRequest}],
           reg \in ReferredRegs => links' \subseteq links \cup DOMAIN rows
    PROVE  RegistersIInv'
<1>1. Statements' = Statements /\ RowSet' = RowSet
  BY DEF Statements, RowSet, Wired
<1>2. NamesStayUnique' /\ PrintingStationsHaveAPrinter'
  BY DEF RegistersIInv, RegistersStaySound, NamesStayUnique, PrintingStationsHaveAPrinter
<1>3. ReferredRowsStay'
  BY DEF RegistersIInv, RegistersStaySound, ReferredRowsStay, ReferredRegs
<1> QED
  BY <1>1, <1>2, <1>3 DEF RegistersIInv, RegistersStaySound

-----------------------------------------------------------------------------
(* What the use cases decide on *)

LEMMA RegistersFloorPreserves ==
    ASSUME RegistersIInv, NEW c \in RegisterClerks, Zone(c) \/ FloorElement(c) \/ TableRequest(c)
    PROVE  RegistersIInv'
<1>1. \A id \in DOMAIN rows : id \in Ids /\ rows[id] \in RowSet
  BY DEF RegistersIInv
<1>2. ASSUME reg = "zones", CreateZone(c) \/ UpdateZone(c)
      PROVE  \E s \in Statements : Decide(c, s)
  <2>1. \A q \in CreateZoneRequest : NewZone(q) \in RowSet /\ q.id \in Ids
    BY <1>2, RegistersRowSets DEF CreateZoneRequest, NewZone, ZoneRow
  <2>2. \A q \in UpdateZoneRequest : EditedZone(q) \in RowSet
    BY <1>2, RegistersRowSets DEF UpdateZoneRequest, EditedZone, ZoneRow
  <2>3. \A row : Wired(row)
    BY <1>2 DEF Wired
  <2> QED
    BY <1>1, <1>2, <2>1, <2>2, <2>3, RegistersStatementFacts DEF CreateZone, UpdateZone
<1>3. ASSUME reg = "floor_elements",
             \/ CreateFloorElement(c) \/ UpdateFloorElement(c) \/ MoveFloorElement(c)
             \/ DeleteFloorElement(c)
      PROVE  \E s \in Statements : Decide(c, s)
  <2>1. \A q \in CreateFloorElementRequest : NewFloorElement(q) \in RowSet /\ q.id \in Ids
    BY <1>3, RegistersRowSets DEF CreateFloorElementRequest, NewFloorElement, FloorElementRow
  <2>2. ASSUME NEW row \in FloorElementRow
        PROVE  /\ \A q \in UpdateFloorElementRequest : EditedFloorElement(row, q) \in FloorElementRow
               /\ \A q \in MoveFloorElementRequest : MovedFloorElement(row, q) \in FloorElementRow
    BY DEF UpdateFloorElementRequest, EditedFloorElement, MoveFloorElementRequest,
           MovedFloorElement, FloorElementRow
  <2>3. RowSet = FloorElementRow
    BY <1>3, RegistersRowSets
  <2>4. \A row : Wired(row)
    BY <1>3 DEF Wired
  <2> QED
    BY <1>1, <1>3, <2>1, <2>2, <2>3, <2>4, RegistersStatementFacts
       DEF CreateFloorElement, UpdateFloorElement, MoveFloorElement, DeleteFloorElement
<1>4. ASSUME reg = "tables",
             \/ CreateTable(c) \/ UpdateTable(c) \/ MoveTable(c) \/ ChangeTableStatus(c)
             \/ OccupyTable(c) \/ ReleaseTable(c)
      PROVE  \E s \in Statements : Decide(c, s)
  <2>1. \A q \in CreateTableRequest : NewTable(q) \in RowSet /\ q.id \in Ids
    BY <1>4, RegistersRowSets DEF CreateTableRequest, NewTable, TableRow, TableStatus
  <2>2. ASSUME NEW row \in TableRow
        PROVE  /\ \A q \in UpdateTableRequest : EditedTable(row, q) \in TableRow
               /\ MovedTable(row) \in TableRow
               /\ \A q \in ChangeTableStatusRequest : [row EXCEPT !.status = q.status] \in TableRow
               /\ \A o \in TableOrders : SetCurrentOrder(row, o) \in TableRow
               /\ ClearCurrentOrder(row) \in TableRow
    BY DEF UpdateTableRequest, EditedTable, MovedTable, ChangeTableStatusRequest,
           SetCurrentOrder, ClearCurrentOrder, TableRow, TableStatus
  <2>3. \A row : Wired(row)
    BY <1>4 DEF Wired
  <2>4. RowSet = TableRow
    BY <1>4, RegistersRowSets
  <2> QED
    BY <1>1, <1>4, <2>1, <2>2, <2>3, <2>4, RegistersStatementFacts
       DEF CreateTable, UpdateTable, MoveTable, ChangeTableStatus, OccupyTable, ReleaseTable
<1>5. ASSUME SaveZone(c) \/ SaveTable(c)
      PROVE  RegistersIInv'
  BY <1>5, RegistersWritePreserves DEF SaveZone, SaveTable
<1>6. ASSUME SaveFloorElement(c), reg = "floor_elements"
      PROVE  RegistersIInv'
  BY <1>6, RegistersWritePreserves DEF SaveFloorElement, UniqueRegs
<1>7. ASSUME RemoveFloorElement(c), reg = "floor_elements"
      PROVE  RegistersIInv'
  BY <1>7, RegistersDeletePreserves DEF RemoveFloorElement, ReferredRegs
<1>8. (\E s \in Statements : Decide(c, s)) => RegistersIInv'
  BY RegistersDecidePreserves
<1>9. CASE Zone(c)
  BY <1>2, <1>5, <1>8, <1>9 DEF Zone
<1>10. CASE FloorElement(c)
  BY <1>3, <1>6, <1>7, <1>8, <1>10 DEF FloorElement
<1>11. CASE TableRequest(c)
  BY <1>4, <1>5, <1>8, <1>11 DEF TableRequest
<1> QED
  BY <1>9, <1>10, <1>11
\* Registers of names: what is decided on, saved and removed.
LEMMA RegistersNamedPreserves ==
    ASSUME RegistersIInv, NEW c \in RegisterClerks,
           \/ Unit(c) \/ IngredientCategory(c) \/ ProductCategory(c) \/ Supplier(c)
           \/ Position(c) \/ Role(c)
    PROVE  RegistersIInv'
<1>1. \A id \in DOMAIN rows : id \in Ids
  BY DEF RegistersIInv
<1>2. reg # "stations"
  BY DEF Unit, IngredientCategory, ProductCategory, Supplier, Position, Role
<1>3. \A row \in RowSet : Wired(row)
  BY <1>2 DEF Wired
<1>4. (\E s \in Statements : Decide(c, s)) => RegistersIInv'
  BY RegistersDecidePreserves
<1>5. /\ \A q \in [id : Ids, name : Names, isActive : BOOLEAN] : q.id \in Ids /\ Row(q) \in NamedRow
      /\ \A q \in [name : Names, isActive : BOOLEAN] : Row(q) \in NamedRow
      /\ \A q \in [id : Ids, name : Names] : q.id \in Ids /\ [name |-> q.name] \in [name : Names]
      /\ \A q \in [name : Names] : [name |-> q.name] \in [name : Names]
  BY DEF Row, NamedRow
<1>6. CASE Unit(c)
  <2>1. RowSet = NamedRow
    BY <1>6, RegistersRowSets DEF Unit
  <2>2. CASE CreateUnit(c) \/ UpdateUnit(c) \/ DeleteUnit(c)
    BY <1>1, <1>3, <1>4, <1>5, <2>1, <2>2, RegistersStatementFacts
       DEF CreateUnit, UpdateUnit, DeleteUnit, NewUnit, EditedUnit, CreateUnitRequest,
           UpdateUnitRequest
  <2>3. CASE SaveUnit(c)
    BY <1>6, <2>3, RegistersWritePreserves DEF Unit, SaveUnit, UniqueRegs
  <2>4. CASE RemoveUnit(c)
    BY <2>4, RegistersDeletePreserves DEF RemoveUnit
  <2> QED
    BY <1>6, <2>2, <2>3, <2>4 DEF Unit
<1>7. CASE IngredientCategory(c)
  <2>1. RowSet = NamedRow
    BY <1>7, RegistersRowSets DEF IngredientCategory
  <2>2. CASE CreateIngredientCategory(c) \/ UpdateIngredientCategory(c)
    BY <1>1, <1>3, <1>4, <1>5, <2>1, <2>2, RegistersStatementFacts
       DEF CreateIngredientCategory, UpdateIngredientCategory, NewIngredientCategory,
           EditedIngredientCategory, CreateIngredientCategoryRequest,
           UpdateIngredientCategoryRequest
  <2>3. CASE SaveIngredientCategory(c)
    BY <2>3, RegistersWritePreserves DEF SaveIngredientCategory
  <2> QED
    BY <1>7, <2>2, <2>3 DEF IngredientCategory
<1>8. CASE ProductCategory(c)
  <2>1. RowSet = NamedRow
    BY <1>8, RegistersRowSets DEF ProductCategory
  <2>2. CASE CreateProductCategory(c) \/ UpdateProductCategory(c) \/ DeleteProductCategory(c)
    BY <1>1, <1>3, <1>4, <1>5, <2>1, <2>2, RegistersStatementFacts
       DEF CreateProductCategory, UpdateProductCategory, DeleteProductCategory,
           NewProductCategory, EditedProductCategory, CreateProductCategoryRequest,
           UpdateProductCategoryRequest
  <2>3. CASE SaveProductCategory(c)
    BY <1>8, <2>3, RegistersWritePreserves DEF ProductCategory, SaveProductCategory, UniqueRegs
  <2>4. CASE RemoveProductCategory(c)
    BY <2>4, RegistersDeletePreserves DEF RemoveProductCategory
  <2> QED
    BY <1>8, <2>2, <2>3, <2>4 DEF ProductCategory
<1>9. CASE Supplier(c)
  <2>1. RowSet = NamedRow
    BY <1>9, RegistersRowSets DEF Supplier
  <2>2. CASE CreateSupplier(c) \/ UpdateSupplier(c)
    BY <1>1, <1>3, <1>4, <1>5, <2>1, <2>2, RegistersStatementFacts
       DEF CreateSupplier, UpdateSupplier, NewSupplier, EditedSupplier,
           CreateSupplierRequest, UpdateSupplierRequest
  <2>3. CASE SaveSupplier(c)
    BY <1>9, <2>3, RegistersWritePreserves DEF Supplier, SaveSupplier, UniqueRegs
  <2> QED
    BY <1>9, <2>2, <2>3 DEF Supplier
<1>10. CASE Position(c)
  <2>1. RowSet = [name : Names]
    BY <1>10, RegistersRowSets DEF Position
  <2>2. CASE CreatePosition(c) \/ UpdatePosition(c) \/ DeletePosition(c)
    BY <1>1, <1>3, <1>4, <1>5, <2>1, <2>2, RegistersStatementFacts
       DEF CreatePosition, UpdatePosition, DeletePosition, NewPosition, EditedPosition,
           CreatePositionRequest, UpdatePositionRequest
  <2>3. CASE SavePosition(c)
    BY <2>3, RegistersWritePreserves DEF SavePosition
  <2>4. CASE RemovePosition(c)
    BY <2>4, RegistersDeletePreserves DEF RemovePosition
  <2> QED
    BY <1>10, <2>2, <2>3, <2>4 DEF Position
<1>11. CASE Role(c)
  <2>1. RowSet = [name : Names]
    BY <1>11, RegistersRowSets DEF Role
  <2>2. CASE CreateRole(c) \/ UpdateRole(c) \/ DeleteRole(c)
    BY <1>1, <1>3, <1>4, <1>5, <2>1, <2>2, RegistersStatementFacts
       DEF CreateRole, UpdateRole, DeleteRole, NewRole, EditedRole, CreateRoleRequest,
           UpdateRoleRequest
  <2>3. CASE SaveRole(c)
    BY <2>3, RegistersWritePreserves DEF SaveRole
  <2>4. CASE RemoveRole(c)
    BY <1>11, <2>4, RegistersDeletePreserves DEF Role, RemoveRole, ReferredRegs
  <2> QED
    BY <1>11, <2>2, <2>3, <2>4 DEF Role
<1> QED
  BY <1>6, <1>7, <1>8, <1>9, <1>10, <1>11

LEMMA RegistersRecipePreserves ==
    ASSUME RegistersIInv, NEW c \in RegisterClerks, Recipe(c)
    PROVE  RegistersIInv'
<1>1. \A id \in DOMAIN rows : id \in Ids
  BY DEF RegistersIInv
<1>2. reg = "recipes" /\ RowSet = RecipeRow
  BY RegistersRowSets DEF Recipe
<1>3. \A row \in RowSet : Wired(row)
  BY <1>2 DEF Wired
<1>4. (\E s \in Statements : Decide(c, s)) => RegistersIInv'
  BY RegistersDecidePreserves
<1>5. CASE CreateRecipe(c) \/ UpdateRecipe(c) \/ DeleteRecipe(c)
  <2>1. \A q \in CreateRecipeRequest : EnsureHasItems(q.items) =>
            q.id \in Ids /\ NewRecipe(q) \in RecipeRow
    BY DEF CreateRecipeRequest, EnsureHasItems, NewRecipe, RecipeRow
  <2>2. \A q \in UpdateRecipeRequest : EnsureHasItems(q.items) => EditedRecipe(q) \in RecipeRow
    BY DEF UpdateRecipeRequest, EnsureHasItems, EditedRecipe, RecipeRow
  <2> QED
    BY <1>1, <1>2, <1>3, <1>4, <1>5, <2>1, <2>2, RegistersStatementFacts
       DEF CreateRecipe, UpdateRecipe, DeleteRecipe
<1>6. CASE SaveRecipe(c)
  <2>1. {"items"} \in SUBSET RowColumns
    BY DEF RowColumns
  <2>2. CASE SelectRow(c, {"items"})
    BY <2>1, <2>2, RegistersSelectPreserves
  <2>3. CASE SaveStatement(c, FALSE)
    BY <1>2, <2>3, RegistersSavePreserves DEF UniqueRegs
  <2> QED
    BY <1>6, <2>2, <2>3 DEF SaveRecipe
<1>7. CASE RemoveRecipe(c)
  BY <1>2, <1>7, RegistersDeletePreserves DEF RemoveRecipe, ReferredRegs
<1> QED
  BY <1>5, <1>6, <1>7 DEF Recipe

LEMMA RegistersStationPreserves ==
    ASSUME RegistersIInv, NEW c \in RegisterClerks, Station(c)
    PROVE  RegistersIInv'
<1>1. \A id \in DOMAIN rows : id \in Ids /\ rows[id] \in RowSet
  BY DEF RegistersIInv
<1>2. reg = "stations" /\ RowSet = StationRow
  BY RegistersRowSets DEF Station
<1>3. (\E s \in Statements : Decide(c, s)) => RegistersIInv'
  BY RegistersDecidePreserves
<1>4. CASE CreateStation(c)
  <2>1. PICK q \in CreateStationRequest :
            /\ Discovered(q.device) /\ MayUseDevice(q.outputDevice, q.device)
            /\ Decide(c, SaveRow(q.id, NewStation(q)))
    BY <1>4 DEF CreateStation
  <2>2. q.id \in Ids /\ NewStation(q) \in StationRow /\ Wired(NewStation(q))
    BY <2>1 DEF Discovered, MayUseDevice, CreateStationRequest, NewStation, DeviceOf,
       StationRow, Wired, Outputs, StationDevice
  <2> QED
    BY <1>2, <1>3, <2>1, <2>2, RegistersStatementFacts
<1>5. CASE UpdateStation(c)
  <2>1. PICK id \in DOMAIN rows, q \in UpdateStationRequest :
            /\ Discovered(q.device) /\ MayUseDevice(q.outputDevice, q.device)
            /\ Decide(c, SaveRow(id, EditedStation(q)))
    BY <1>5 DEF UpdateStation
  <2>2. EditedStation(q) \in StationRow /\ Wired(EditedStation(q))
    BY <2>1 DEF Discovered, MayUseDevice, UpdateStationRequest, EditedStation, DeviceOf,
       StationRow, Wired, Outputs, StationDevice
  <2> QED
    BY <1>1, <1>2, <1>3, <2>1, <2>2, RegistersStatementFacts
<1>6. CASE DeleteStation(c)
  <2>1. PICK id \in DOMAIN rows :
            /\ MayUseDevice(rows[id].outputDevice, rows[id].device)
            /\ Decide(c, SaveRow(id, RetiredStation(rows[id])))
    BY <1>6 DEF DeleteStation
  <2>2. ASSUME NEW row \in StationRow, MayUseDevice(row.outputDevice, row.device)
        PROVE  RetiredStation(row) \in StationRow /\ Wired(RetiredStation(row))
    BY <2>2 DEF StationRow, Wired, RetiredStation, MayUseDevice, DeviceOf
  <2> QED
    BY <1>1, <1>2, <1>3, <2>1, <2>2, RegistersStatementFacts
<1>7. CASE SaveStation(c)
  BY <1>7, RegistersWritePreserves DEF SaveStation
<1> QED
  BY <1>4, <1>5, <1>6, <1>7 DEF Station

LEMMA RegistersPrinterPreserves ==
    ASSUME RegistersIInv, NEW c \in RegisterClerks, Printer(c)
    PROVE  RegistersIInv'
<1>1. \A id \in DOMAIN rows : id \in Ids /\ rows[id] \in RowSet
  BY DEF RegistersIInv
<1>2. reg = "printers" /\ RowSet = PrinterRow
  BY RegistersRowSets DEF Printer
<1>3. \A row \in RowSet : Wired(row)
  BY <1>2 DEF Wired
<1>4. (\E s \in Statements : Decide(c, s)) => RegistersIInv'
  BY RegistersDecidePreserves
<1>5. \A q \in ReportDevicesPayload : NewPrinter(q) \in PrinterRow
  BY DEF ReportDevicesPayload, NewPrinter, PrinterRow
<1>6. ASSUME NEW row \in PrinterRow
      PROVE  /\ \A q \in ReportDevicesPayload : Touched(row, q) \in PrinterRow
             /\ \A q \in ReportDeviceStatusPayload : WithStatus(row, q) \in PrinterRow
  BY DEF ReportDevicesPayload, ReportDeviceStatusPayload, Touched, WithStatus, PrinterRow
<1>7. \A n : Named(n) \subseteq DOMAIN rows
  BY DEF Named
<1>8. FreshIds \subseteq Ids
  BY DEF FreshIds
<1>9. CASE RecordDiscoveredDevice(c)
  BY <1>1, <1>2, <1>3, <1>4, <1>5, <1>6, <1>7, <1>8, <1>9, RegistersStatementFacts
     DEF RecordDiscoveredDevice
<1>10. CASE RecordDeviceStatus(c)
  BY <1>1, <1>2, <1>3, <1>4, <1>6, <1>7, <1>10, RegistersStatementFacts
     DEF RecordDeviceStatus
<1>11. CASE SavePrinter(c)
  BY <1>11, RegistersWritePreserves DEF SavePrinter
<1> QED
  BY <1>9, <1>10, <1>11 DEF Printer

LEMMA RegistersReferencesPreserve ==
    ASSUME RegistersIInv, References
    PROVE  RegistersIInv'
<1>1. UNCHANGED <<reg, rows, request, blended>>
  BY DEF References, UnitReference, ProductOfCategory, OrderOfSupplier, EmployeeOfPosition,
     UserOfRole, Refer, Unrefer
<1>2. links' \in SUBSET Ids
  BY DEF References, UnitReference, ProductOfCategory, OrderOfSupplier, EmployeeOfPosition,
     UserOfRole, Refer, Unrefer, RegistersIInv
<1>3. reg \in ReferredRegs => links' \subseteq links \cup DOMAIN rows
  BY DEF References, UnitReference, ProductOfCategory, OrderOfSupplier, EmployeeOfPosition,
     UserOfRole, Refer, Unrefer, ReferredRegs
<1>4. request' \in [RegisterClerks -> Statements \cup {NoRequest}]
  BY <1>1 DEF RegistersIInv
<1> QED
  BY <1>1, <1>2, <1>3, <1>4, RegistersLinksPreserve

-----------------------------------------------------------------------------
(* The theorems *)

LEMMA RegistersInitIInv == RegistersInit(AllRegs) => RegistersIInv
<1> SUFFICES ASSUME RegistersInit(AllRegs)
             PROVE  RegistersIInv
  OBVIOUS
<1>1. DOMAIN rows = {} /\ rows \in [{} -> RowSet]
  BY DEF RegistersInit
<1> QED
  BY <1>1 DEF RegistersInit, RegistersIInv, RegistersStaySound, NamesStayUnique,
     PrintingStationsHaveAPrinter, ReferredRowsStay

LEMMA RegistersNextIInv == RegistersIInv /\ [RegistersNext]_registerVars => RegistersIInv'
<1> SUFFICES ASSUME RegistersIInv, [RegistersNext]_registerVars
             PROVE  RegistersIInv'
  OBVIOUS
<1>1. CASE FloorNext
  BY <1>1, RegistersFloorPreserves DEF FloorNext
<1>2. CASE CatalogNext
  BY <1>2, RegistersNamedPreserves, RegistersRecipePreserves, RegistersStationPreserves,
     RegistersReferencesPreserve DEF CatalogNext
<1>3. CASE PrinterNext
  BY <1>3, RegistersPrinterPreserves DEF PrinterNext
<1>4. ASSUME UNCHANGED <<reg, rows, links, blended>>,
             request' \in [RegisterClerks -> Statements \cup {NoRequest}]
      PROVE  RegistersIInv'
  BY <1>4, RegistersLinksPreserve DEF RegistersIInv
<1>5. CASE \E c \in RegisterClerks : FailRequest(c)
  <2>1. UNCHANGED <<reg, rows, links, blended>>
    BY <1>5 DEF FailRequest
  <2>2. request' \in [RegisterClerks -> Statements \cup {NoRequest}]
    BY <1>5 DEF FailRequest, RegistersIInv
  <2> QED
    BY <1>4, <2>1, <2>2
<1>6. CASE UNCHANGED registerVars
  BY <1>4, <1>6 DEF registerVars, RegistersIInv
<1> QED
  BY <1>1, <1>2, <1>3, <1>5, <1>6 DEF RegistersNext

LEMMA RegistersIInvImplies ==
    ASSUME RegistersIInv
    PROVE  RegistersTypeOK /\ RegistersStaySound
<1>1. \A s \in Statements :
          s \in [do : {"select", "insert", "update"}, id : Ids, row : RowSet,
                 columns : SUBSET RowColumns]
                \cup [do : {"delete"}, id : Ids]
  BY DEF Statements
<1> QED
  BY <1>1 DEF RegistersIInv, RegistersTypeOK

THEOREM RegistersInvariance == RegistersSpec => []RegistersIInv
  BY RegistersInitIInv, RegistersNextIInv, PTL DEF RegistersSpec

\* The rows of a register and the statements about to be issued keep their types.
THEOREM RegistersTypeCorrect == RegistersSpec => []RegistersTypeOK
<1>1. RegistersIInv => RegistersTypeOK
  BY RegistersIInvImplies
<1> QED
  BY <1>1, RegistersInvariance, PTL

\* Through every overlap of requests, whichever columns an UPDATE leaves: unique names
\* stay unique, rows that others refer to are there, and a station has a printer if and
\* only if it prints, except those whose columns are of two edits.
THEOREM RegistersAreSound == RegistersSpec => []RegistersStaySound
<1>1. RegistersIInv => RegistersStaySound
  BY RegistersIInvImplies
<1> QED
  BY <1>1, RegistersInvariance, PTL

-------------------------------------------------------------------------------
(* Ingredients, products and option groups: module Menu. *)

(* Menu: the inductive invariant *)

Cooking(c) == bench[c] # AtBench

MenuTypes ==
    /\ menu \in Menus
    /\ DOMAIN ingredients \in SUBSET IngredientIds
    /\ ingredients \in [DOMAIN ingredients -> UnitIds]
    /\ levels \in [DOMAIN levels -> UnitIds]
    /\ DOMAIN products \in SUBSET ProductIds
    /\ products \in [DOMAIN products -> ProductRow]
    /\ recipes \in SUBSET ProductIds
    /\ DOMAIN groups \in SUBSET GroupIds
    /\ groups \in [DOMAIN groups -> BOOLEAN]
    /\ assigned \in SUBSET (ProductIds \X GroupIds)
    /\ images \in SUBSET ImageKeys
    /\ asked \in [ProductIds -> SUBSET GroupIds]
    /\ mingled \in SUBSET DOMAIN products
    /\ resent \in BOOLEAN /\ late \in BOOLEAN
    /\ DOMAIN bench = Cooks

\* An ingredient that is written is new, or is written as it is.
IngredientsMakeSense(r) ==
    /\ DOMAIN r.ingredients \in SUBSET IngredientIds
    /\ r.ingredients \in [DOMAIN r.ingredients -> UnitIds]
    /\ r.created \in SUBSET DOMAIN r.ingredients
    /\ \A i \in DOMAIN r.ingredients \ r.created :
          /\ i \in DOMAIN ingredients
          /\ ~resent => r.ingredients[i] = ingredients[i]
    /\ DOMAIN r.readIngredients \in SUBSET DOMAIN ingredients

WorkedOn(r) == DOMAIN r.products \cup r.dropped

\* One product, written or dropped, and what is written can be served.
ProductsMakeSense(r) ==
    /\ DOMAIN r.products \in SUBSET ProductIds
    /\ r.products \in [DOMAIN r.products -> ProductRow]
    /\ r.dropped \in SUBSET ProductIds
    /\ r.recipe \in SUBSET ProductIds
    /\ \A p, q \in WorkedOn(r) : p = q
    /\ DOMAIN r.products \cap r.dropped = {}
    /\ \A p \in DOMAIN r.products :
          ValidInventoryConfig(r.products[p].strategy, r.products[p].ingredientId)

GroupsMakeSense(r) ==
    /\ DOMAIN r.groups \in SUBSET GroupIds
    /\ r.groups \in [DOMAIN r.groups -> BOOLEAN]

\* Only what is assigned to one product is replaced, by groups that are there.
AssignmentMakesSense(r) ==
    /\ r.assignees \in SUBSET ProductIds
    /\ \A p, q \in r.assignees : p = q
    /\ r.cleared \in SUBSET (r.assignees \X GroupIds)
    /\ r.pairs \in SUBSET (r.assignees \X DOMAIN groups)
    /\ r.assignees # {} => r.dropped = {}

Fits(w) ==
    /\ DOMAIN w = DOMAIN Writing
    /\ w.at \in {"select", "write"} /\ w.touched \in BOOLEAN
    /\ IngredientsMakeSense(w)
    /\ ProductsMakeSense(w)
    /\ GroupsMakeSense(w)
    /\ AssignmentMakesSense(w)

CookingMakesSense == \A c \in Cooks : Cooking(c) => Fits(bench[c])

\* The image of a product is no other product's, in rows and in requests.
ImagesAreTheirOwn ==
    /\ \A p, q \in DOMAIN products :
          products[p].image = products[q].image => p = q \/ products[p].image = NoImage
    /\ \A c \in Cooks : Cooking(c) =>
          \A p \in DOMAIN bench[c].products, q \in DOMAIN products :
              bench[c].products[p].image = products[q].image
                  => p = q \/ products[q].image = NoImage
    /\ \A c, d \in Cooks : Cooking(c) /\ Cooking(d) =>
          \A p \in DOMAIN bench[c].products, q \in DOMAIN bench[d].products :
              bench[c].products[p].image = bench[d].products[q].image
                  => p = q \/ bench[d].products[q].image = NoImage

\* A request that changed the storage brings a new image, if any: it is there, and no
\* row and no other request has it.
NewImagesAreStored ==
    \A c \in Cooks : Cooking(c) /\ bench[c].touched =>
        \A p \in DOMAIN bench[c].products :
            LET k == bench[c].products[p].image IN
            k # NoImage =>
                /\ k \in images
                /\ \A q \in DOMAIN products : products[q].image # k
                /\ \A d \in Cooks \ {c} : Cooking(d) =>
                      \A q \in DOMAIN bench[d].products : bench[d].products[q].image # k

\* One that did not keeps the image it read.
OldImagesWereRead ==
    ~late => \A c \in Cooks : Cooking(c) /\ ~bench[c].touched =>
        \A p \in DOMAIN bench[c].products :
            bench[c].products[p].image # NoImage =>
                /\ p \in DOMAIN bench[c].read
                /\ bench[c].read[p].image = bench[c].products[p].image

\* Some request changed the storage for the sake of this product.
BeingChanged(p) ==
    \E c \in Cooks : Cooking(c) /\ bench[c].touched /\ p \in WorkedOn(bench[c])

\* A row's image is in the storage, unless a request has just taken it away; so is the
\* image a request keeps, or the row has it no more.
MissingImagesAreReplaced ==
    ~late =>
        /\ \A p \in DOMAIN products :
              products[p].image \in images \cup {NoImage} \/ BeingChanged(p)
        /\ \A c \in Cooks : Cooking(c) /\ ~bench[c].touched =>
              \A p \in DOMAIN bench[c].products :
                  \/ bench[c].products[p].image \in images \cup {NoImage}
                  \/ BeingChanged(p)
                  \/ p \notin DOMAIN products
                  \/ products[p].image # bench[c].products[p].image

\* Also of products that are gone.
AssignedAsAsked ==
    /\ \A pg \in assigned : pg[1] \in DOMAIN products /\ pg[2] \in DOMAIN groups
    /\ ~late => \A p \in ProductIds : GroupsOf(p) = asked[p]

MenuIInv ==
    /\ MenuTypes
    /\ LevelsFollowIngredients
    /\ InventoryConfigIsValid
    /\ CookingMakesSense
    /\ ImagesAreTheirOwn
    /\ NewImagesAreStored
    /\ OldImagesWereRead
    /\ MissingImagesAreReplaced
    /\ AssignedAsAsked

-----------------------------------------------------------------------------
(* What a request is to be when it is submitted *)

\* Only the image of the product that is worked on is taken away.
OnlyOwnImageLost(w) ==
    \A k \in images \ images' :
        w.touched /\ \E p \in DOMAIN products : p \in WorkedOn(w) /\ products[p].image = k

\* A new image is there, and nobody else's.
NewImageIsFresh(w) ==
    w.touched => \A p \in DOMAIN w.products : w.products[p].image # NoImage =>
        /\ w.products[p].image \in images'
        /\ \A q \in DOMAIN products : products[q].image # w.products[p].image
        /\ \A d \in Cooks : Cooking(d) =>
              \A q \in DOMAIN bench[d].products :
                  bench[d].products[q].image # w.products[p].image

KeptImageIsRead(w) ==
    ~w.touched => \A p \in DOMAIN w.products : w.products[p].image # NoImage =>
        /\ p \in DOMAIN w.read /\ w.read[p].image = w.products[p].image
        /\ p \in DOMAIN products /\ products[p].image = w.products[p].image

StorageFits(w) ==
    /\ images' \in SUBSET ImageKeys
    /\ OnlyOwnImageLost(w)
    /\ NewImageIsFresh(w)
    /\ KeptImageIsRead(w)

LEMMA MenuSubmitPreserves ==
    ASSUME MenuIInv, NEW c \in Cooks, NEW w, Prepare(c, w), Fits(w), StorageFits(w)
    PROVE  MenuIInv'
<1>1. /\ bench' = [bench EXCEPT ![c] = w] /\ ~Cooking(c) /\ DOMAIN bench = Cooks
      /\ menu' = menu /\ ingredients' = ingredients /\ levels' = levels
      /\ products' = products /\ recipes' = recipes /\ groups' = groups
      /\ assigned' = assigned /\ asked' = asked /\ resent' = resent /\ late' = late
      /\ mingled' = mingled
  BY DEF Prepare, Cooking, MenuIInv, MenuTypes
<1>2. w # AtBench
  BY DEF Fits, AtBench
<1>3. /\ bench'[c] = w /\ Cooking(c)'
      /\ \A d \in Cooks \ {c} : bench'[d] = bench[d] /\ (Cooking(d)' <=> Cooking(d))
  BY <1>1, <1>2 DEF Cooking, AtBench
<1>4. \A p : BeingChanged(p) => BeingChanged(p)'
  BY <1>1, <1>3 DEF BeingChanged, WorkedOn
<1>5. \A p : w.touched /\ p \in WorkedOn(w) => BeingChanged(p)'
  BY <1>3 DEF BeingChanged, WorkedOn
<1>6. MenuTypes'
  BY <1>1 DEF MenuIInv, MenuTypes, StorageFits
<1>7. LevelsFollowIngredients' /\ InventoryConfigIsValid'
  BY <1>1 DEF MenuIInv, LevelsFollowIngredients, InventoryConfigIsValid
<1>8. CookingMakesSense'
  <2> SUFFICES ASSUME NEW d \in Cooks, bench'[d] # AtBench
               PROVE  Fits(bench[d])'
    BY DEF CookingMakesSense, Cooking
  <2>1. CASE d = c
    BY <2>1, <1>1, <1>3 DEF Fits, IngredientsMakeSense, ProductsMakeSense, GroupsMakeSense,
        AssignmentMakesSense, WorkedOn
  <2>2. CASE d # c
    <3>1. bench'[d] = bench[d] /\ Cooking(d)
      BY <2>2, <1>3 DEF Cooking
    <3>2. Fits(bench[d])
      BY <3>1 DEF MenuIInv, CookingMakesSense
    <3> QED
      BY <3>1, <3>2, <1>1 DEF Fits, IngredientsMakeSense, ProductsMakeSense,
          GroupsMakeSense, AssignmentMakesSense, WorkedOn
  <2> QED
    BY <2>1, <2>2
<1>9. ImagesAreTheirOwn'
  <2>1. \A p, q \in DOMAIN products' :
           products'[p].image = products'[q].image => p = q \/ products'[p].image = NoImage
    BY <1>1 DEF MenuIInv, ImagesAreTheirOwn
  <2>2. \A p \in DOMAIN w.products, q \in DOMAIN products :
           w.products[p].image = products[q].image => p = q \/ products[q].image = NoImage
    BY DEF MenuIInv, ImagesAreTheirOwn, StorageFits, NewImageIsFresh, KeptImageIsRead, Fits
  <2>3. \A d \in Cooks : Cooking(d)' =>
           \A p \in DOMAIN bench'[d].products, q \in DOMAIN products' :
               bench'[d].products[p].image = products'[q].image
                   => p = q \/ products'[q].image = NoImage
    BY <2>2, <1>1, <1>3 DEF MenuIInv, ImagesAreTheirOwn
  <2>4. \A d \in Cooks : Cooking(d) =>
           \A p \in DOMAIN w.products, q \in DOMAIN bench[d].products :
               w.products[p].image = bench[d].products[q].image
                   => p = q \/ bench[d].products[q].image = NoImage
    BY DEF MenuIInv, ImagesAreTheirOwn, StorageFits, NewImageIsFresh, KeptImageIsRead, Fits
  <2>5. \A p, q \in DOMAIN w.products : p = q
    BY DEF Fits, ProductsMakeSense, WorkedOn
  <2>6. ASSUME NEW d \in Cooks, NEW e \in Cooks, Cooking(d)', Cooking(e)',
               NEW p \in DOMAIN bench'[d].products, NEW q \in DOMAIN bench'[e].products,
               bench'[d].products[p].image = bench'[e].products[q].image
        PROVE  p = q \/ bench'[e].products[q].image = NoImage
    <3>1. CASE d = c /\ e = c
      BY <3>1, <2>5, <2>6, <1>3
    <3>2. CASE d = c /\ e # c
      BY <3>2, <2>4, <2>6, <1>3
    <3>3. CASE d # c /\ e = c
      BY <3>3, <2>4, <2>6, <1>3
    <3>4. CASE d # c /\ e # c
      BY <3>4, <2>6, <1>3 DEF MenuIInv, ImagesAreTheirOwn
    <3> QED
      BY <3>1, <3>2, <3>3, <3>4
  <2> QED
    BY <2>1, <2>3, <2>6 DEF ImagesAreTheirOwn
<1>10. NewImagesAreStored'
  <2> SUFFICES ASSUME NEW d \in Cooks, Cooking(d)', bench'[d].touched,
                      NEW p \in DOMAIN bench'[d].products, NEW k,
                      k = bench'[d].products[p].image, k # NoImage
               PROVE  /\ k \in images'
                      /\ \A q \in DOMAIN products' : products'[q].image # k
                      /\ \A e \in Cooks \ {d} : Cooking(e)' =>
                            \A q \in DOMAIN bench'[e].products :
                                bench'[e].products[q].image # k
    BY DEF NewImagesAreStored
  <2>1. CASE d = c
    BY <2>1, <1>1, <1>3 DEF StorageFits, NewImageIsFresh
  <2>2. CASE d # c
    <3>1. /\ k \in images /\ \A q \in DOMAIN products : products[q].image # k
          /\ \A e \in Cooks \ {d} : Cooking(e) =>
                \A q \in DOMAIN bench[e].products : bench[e].products[q].image # k
      BY <2>2, <1>3 DEF MenuIInv, NewImagesAreStored
    <3>2. k \in images'
      BY <3>1 DEF StorageFits, OnlyOwnImageLost
    <3>3. \A q \in DOMAIN w.products : w.products[q].image # k
      BY <3>1, <2>2, <1>3 DEF StorageFits, NewImageIsFresh, KeptImageIsRead, Fits
    <3> QED
      BY <3>1, <3>2, <3>3, <1>1, <1>3
  <2> QED
    BY <2>1, <2>2
<1>11. OldImagesWereRead'
  BY <1>1, <1>3 DEF MenuIInv, OldImagesWereRead, StorageFits, KeptImageIsRead
<1>12. MissingImagesAreReplaced'
  <2> SUFFICES ASSUME ~late
               PROVE  /\ \A p \in DOMAIN products :
                            products[p].image \in images' \cup {NoImage} \/ BeingChanged(p)'
                      /\ \A d \in Cooks : Cooking(d)' /\ ~bench'[d].touched =>
                            \A p \in DOMAIN bench'[d].products :
                                \/ bench'[d].products[p].image \in images' \cup {NoImage}
                                \/ BeingChanged(p)'
                                \/ p \notin DOMAIN products
                                \/ products[p].image # bench'[d].products[p].image
    BY <1>1 DEF MissingImagesAreReplaced
  <2>1. \A p \in DOMAIN products :
           products[p].image \in images' \cup {NoImage} \/ BeingChanged(p)'
    <3> TAKE p \in DOMAIN products
    <3>1. CASE products[p].image \in images \ images'
      <4>1. PICK q \in DOMAIN products :
                w.touched /\ q \in WorkedOn(w) /\ products[q].image = products[p].image
        BY <3>1 DEF StorageFits, OnlyOwnImageLost
      <4> QED
        BY <4>1, <1>5 DEF MenuIInv, ImagesAreTheirOwn
    <3> QED
      BY <3>1, <1>4 DEF MenuIInv, MissingImagesAreReplaced
  <2>2. ASSUME NEW d \in Cooks, Cooking(d)', ~bench'[d].touched,
               NEW p \in DOMAIN bench'[d].products
        PROVE  \/ bench'[d].products[p].image \in images' \cup {NoImage}
               \/ BeingChanged(p)'
               \/ p \notin DOMAIN products
               \/ products[p].image # bench'[d].products[p].image
    <3>1. CASE d = c
      BY <3>1, <2>1, <2>2, <1>3
    <3>2. CASE d # c
      BY <3>2, <2>1, <2>2, <1>3
    <3> QED
      BY <3>1, <3>2
  <2> QED
    BY <2>1, <2>2
<1>13. AssignedAsAsked'
  BY <1>1 DEF MenuIInv, AssignedAsAsked, GroupsOf
<1> QED
  BY <1>6, <1>7, <1>8, <1>9, <1>10, <1>11, <1>12, <1>13 DEF MenuIInv

-----------------------------------------------------------------------------
(* Submissions *)

\* A request that has nothing to do with products leaves the storage alone.
LEMMA MenuOtherRequestFits ==
    ASSUME MenuIInv, NEW w, w.products = Nothing, w.dropped = {}, images' = images
    PROVE  StorageFits(w)
<1>1. DOMAIN w.products = {}
  BY DEF Nothing
<1>2. images' \in SUBSET ImageKeys
  BY DEF MenuIInv, MenuTypes
<1> QED
  BY <1>1, <1>2 DEF StorageFits, OnlyOwnImageLost, NewImageIsFresh, KeptImageIsRead

LEMMA MenuNothingFits ==
    /\ DOMAIN Nothing = {}
    /\ \A S : Nothing \in [DOMAIN Nothing -> S]
<1>1. DOMAIN Nothing = {}
  BY DEF Nothing
<1>2. Nothing = [i \in {} |-> Nothing[i]]
  BY DEF Nothing
<1> QED
  BY <1>1, <1>2

LEMMA MenuBodies ==
    ASSUME MenuIInv
    PROVE  /\ menu.ingredients \in SUBSET IngredientIds /\ menu.products \in SUBSET ProductIds
           /\ menu.strategies \in SUBSET Strategies /\ menu.units \in SUBSET UnitIds
           /\ menu.skus \in SUBSET Skus
           /\ menu.groups \in SUBSET GroupIds /\ menu.images \in SUBSET ImageKeys
<1>1. menu \in [ingredients : SUBSET IngredientIds, products : SUBSET ProductIds,
                strategies : SUBSET Strategies, units : SUBSET UnitIds,
                skus : SUBSET Skus, groups : SUBSET GroupIds, images : SUBSET ImageKeys]
  BY MenuAssumption DEF MenuIInv, MenuTypes
<1> QED
  BY <1>1

\* An ingredient, new or as it is.
LEMMA MenuIngredientSubmits ==
    ASSUME MenuIInv, NEW c \in Cooks, NEW i \in IngredientIds, NEW u \in UnitIds,
           NEW new \in SUBSET {i}, NEW w, DOMAIN w = DOMAIN Writing,
           w.at = "select", w.touched = FALSE, w.products = Nothing, w.dropped = {},
           w.recipe = {}, w.groups = Nothing, w.cleared = {}, w.assignees = {},
           w.pairs = {}, w.ingredients = OneRow(i, u), w.created = new,
           w.readIngredients = CurrentRows(ingredients, {i}),
           new = {} => i \in DOMAIN ingredients /\ u = ingredients[i],
           Prepare(c, w), images' = images
    PROVE  MenuIInv'
<1>1. IngredientsMakeSense(w)
  <2>1. DOMAIN w.readIngredients \in SUBSET DOMAIN ingredients
    BY DEF CurrentRows
  <2> QED
    BY <2>1 DEF IngredientsMakeSense, OneRow
<1>2. ProductsMakeSense(w)
  BY MenuNothingFits DEF ProductsMakeSense, WorkedOn
<1>3. GroupsMakeSense(w) /\ AssignmentMakesSense(w)
  BY MenuNothingFits DEF GroupsMakeSense, AssignmentMakesSense
<1>4. Fits(w)
  BY <1>1, <1>2, <1>3 DEF Fits
<1> QED
  BY <1>4, MenuOtherRequestFits, MenuSubmitPreserves

\* An option group.
LEMMA MenuGroupSubmits ==
    ASSUME MenuIInv, NEW c \in Cooks, NEW g \in GroupIds, NEW active \in BOOLEAN,
           Prepare(c, WriteGroup(g, active)), images' = images
    PROVE  MenuIInv'
<1>1. PICK w : w = WriteGroup(g, active)
  OBVIOUS
<1>2. /\ w.at = "select" /\ w.touched = FALSE /\ w.products = Nothing /\ w.dropped = {}
      /\ w.recipe = {} /\ w.ingredients = Nothing /\ w.created = {} /\ w.cleared = {}
      /\ w.assignees = {} /\ w.pairs = {} /\ w.groups = OneRow(g, active)
      /\ w.readIngredients = Nothing /\ DOMAIN w = DOMAIN Writing
  BY <1>1 DEF Writing, Selecting, WriteGroup
<1>3. IngredientsMakeSense(w)
  BY <1>2, MenuNothingFits DEF IngredientsMakeSense
<1>4. ProductsMakeSense(w)
  BY <1>2, MenuNothingFits DEF ProductsMakeSense, WorkedOn
<1>5. GroupsMakeSense(w) /\ AssignmentMakesSense(w)
  BY <1>2 DEF GroupsMakeSense, AssignmentMakesSense, OneRow
<1>6. Fits(w)
  BY <1>2, <1>3, <1>4, <1>5 DEF Fits
<1> QED
  BY <1>1, <1>2, <1>6, MenuOtherRequestFits, MenuSubmitPreserves

\* The groups of a product are replaced.
LEMMA MenuAssignmentSubmits ==
    ASSUME MenuIInv, NEW c \in Cooks, AssignProductOptionGroups(c)
    PROVE  MenuIInv'
<1>1. PICK p \in DOMAIN products, q \in AssignProductOptionGroupsRequest :
          Prepare(c, [Writing EXCEPT !.cleared = {<<p, g>> : g \in GroupsOf(p)},
                                     !.assignees = {p},
                                     !.pairs = {<<p, g>> : g \in q.optionGroupIds}])
  BY DEF AssignProductOptionGroups
<1>2. PICK w : w = [Writing EXCEPT !.cleared = {<<p, g>> : g \in GroupsOf(p)},
                                   !.assignees = {p},
                                   !.pairs = {<<p, g>> : g \in q.optionGroupIds}]
  OBVIOUS
<1>3. /\ w.at = "write" /\ w.touched = FALSE /\ w.products = Nothing /\ w.dropped = {}
      /\ w.recipe = {} /\ w.ingredients = Nothing /\ w.created = {} /\ w.groups = Nothing
      /\ w.assignees = {p} /\ w.cleared = {<<p, g>> : g \in GroupsOf(p)}
      /\ w.pairs = {<<p, g>> : g \in q.optionGroupIds}
      /\ w.readIngredients = Nothing /\ DOMAIN w = DOMAIN Writing
  BY <1>2 DEF Writing
<1>4. p \in ProductIds /\ q.optionGroupIds \in SUBSET DOMAIN groups
  BY DEF MenuIInv, MenuTypes, AssignProductOptionGroupsRequest
<1>5. IngredientsMakeSense(w)
  BY <1>3, MenuNothingFits DEF IngredientsMakeSense
<1>6. ProductsMakeSense(w)
  BY <1>3, MenuNothingFits DEF ProductsMakeSense, WorkedOn
<1>7. GroupsMakeSense(w) /\ AssignmentMakesSense(w)
  <2>1. w.cleared \in SUBSET (w.assignees \X GroupIds)
    <3>1. GroupsOf(p) \in SUBSET GroupIds
      BY DEF GroupsOf
    <3> QED
      BY <3>1, <1>3
  <2>2. w.pairs \in SUBSET (w.assignees \X DOMAIN groups)
    BY <1>3, <1>4
  <2> QED
    BY <1>3, <1>4, <2>1, <2>2, MenuNothingFits DEF GroupsMakeSense, AssignmentMakesSense
<1>8. Fits(w)
  BY <1>3, <1>5, <1>6, <1>7 DEF Fits
<1>9. Prepare(c, w) /\ images' = images
  BY <1>1, <1>2 DEF AssignProductOptionGroups
<1> QED
  BY <1>3, <1>8, <1>9, MenuOtherRequestFits, MenuSubmitPreserves

\* A product row that is written, and perhaps the recipe with it.
LEMMA MenuProductFits ==
    ASSUME MenuIInv, NEW p \in ProductIds, NEW row \in ProductRow, NEW changed \in BOOLEAN,
           NEW w, DOMAIN w = DOMAIN Writing, w.readIngredients = Nothing,
           w.at = "select", w.touched = changed, w.products = OneRow(p, row), w.dropped = {}, w.recipe \in SUBSET ProductIds, w.groups = Nothing,
           w.cleared = {}, w.assignees = {}, w.pairs = {}, w.ingredients = Nothing,
           w.created = {}, ValidInventoryConfig(row.strategy, row.ingredientId)
    PROVE  Fits(w)
<1>1. w.touched \in BOOLEAN
  OBVIOUS
<1>2. IngredientsMakeSense(w)
  BY MenuNothingFits DEF IngredientsMakeSense
<1>3. ProductsMakeSense(w)
  BY DEF ProductsMakeSense, WorkedOn, OneRow
<1>4. GroupsMakeSense(w) /\ AssignmentMakesSense(w)
  BY MenuNothingFits DEF GroupsMakeSense, AssignmentMakesSense
<1> QED
  BY <1>1, <1>2, <1>3, <1>4 DEF Fits

LEMMA MenuCreateProduct ==
    ASSUME MenuIInv, NEW c \in Cooks, CreateProduct(c)
    PROVE  MenuIInv'
<1>1. PICK q \in CreateProductRequest :
         /\ q.image # NoImage => FreshImage(q.image)
         /\ ValidInventoryConfig(q.strategy, q.ingredientId)
         /\ images' = images \cup ({q.image} \ {NoImage})
         /\ Prepare(c, [WriteProduct(q.id, NewProduct(q)) EXCEPT !.touched = q.image # NoImage])
  BY DEF CreateProduct
<1>2. /\ q.id \in ProductIds /\ NewProduct(q) \in ProductRow
      /\ NewProduct(q).strategy = q.strategy /\ NewProduct(q).ingredientId = q.ingredientId
      /\ NewProduct(q).image = q.image /\ q.image \in ImageKeys \cup {NoImage}
  BY MenuBodies DEF CreateProductRequest, NewProduct, ProductRow
<1>3. PICK row, changed : row = NewProduct(q) /\ changed = (q.image # NoImage)
  OBVIOUS
<1>4. PICK w : w = [WriteProduct(q.id, NewProduct(q)) EXCEPT !.touched = q.image # NoImage]
  OBVIOUS
<1>5. /\ w.at = "select" /\ w.touched = changed /\ w.products = OneRow(q.id, row)
      /\ w.dropped = {} /\ w.read = CurrentRows(products, {q.id})
      /\ w.recipe = {} /\ w.groups = Nothing /\ w.cleared = {} /\ w.assignees = {}
      /\ w.pairs = {} /\ w.ingredients = Nothing /\ w.created = {}
      /\ w.readIngredients = Nothing /\ DOMAIN w = DOMAIN Writing
  BY <1>3, <1>4 DEF WriteProduct, Writing, Selecting
<1>6. Fits(w)
  <2>1. row \in ProductRow /\ changed \in BOOLEAN
        /\ ValidInventoryConfig(row.strategy, row.ingredientId)
    BY <1>1, <1>2, <1>3
  <2> QED
    BY <2>1, <1>2, <1>5, MenuProductFits
<1>7. StorageFits(w)
  <2>1. images' \in SUBSET ImageKeys
    BY <1>1, <1>2 DEF MenuIInv, MenuTypes
  <2>2. OnlyOwnImageLost(w) /\ KeptImageIsRead(w)
    BY <1>1, <1>2, <1>3, <1>5 DEF OnlyOwnImageLost, KeptImageIsRead, OneRow
  <2>3. NewImageIsFresh(w)
    BY <1>1, <1>2, <1>3, <1>5 DEF NewImageIsFresh, OneRow, FreshImage, Cooking
  <2> QED
    BY <2>1, <2>2, <2>3 DEF StorageFits
<1> QED
  BY <1>1, <1>4, <1>6, <1>7, MenuSubmitPreserves

LEMMA MenuUpdateProduct ==
    ASSUME MenuIInv, NEW c \in Cooks, UpdateProduct(c)
    PROVE  MenuIInv'
<1>1. PICK p \in DOMAIN products, q \in UpdateProductRequest :
         /\ q.image \notin {NoImage, products[p].image} => FreshImage(q.image)
         /\ ValidInventoryConfig(q.strategy, q.ingredientId)
         /\ images' = IF q.image = products[p].image THEN images
                      ELSE (images \ {products[p].image}) \cup ({q.image} \ {NoImage})
         /\ Prepare(c, [WriteProduct(p, EditedProduct(products[p], q))
                        EXCEPT !.touched = q.image # products[p].image])
  BY DEF UpdateProduct
<1>2. PICK row, changed : /\ row = EditedProduct(products[p], q)
                          /\ changed = (q.image # products[p].image)
  OBVIOUS
<1>3. /\ p \in ProductIds /\ row \in ProductRow /\ row.strategy = q.strategy
      /\ row.ingredientId = q.ingredientId /\ row.image = q.image
      /\ q.image \in ImageKeys \cup {NoImage}
  <2>1. products[p] \in ProductRow /\ p \in ProductIds
    BY DEF MenuIInv, MenuTypes
  <2>2. /\ q.strategy \in Strategies /\ q.ingredientId \in IngredientIds \cup {NoIngredient}
        /\ q.image \in ImageKeys \cup {NoImage}
    BY MenuBodies DEF UpdateProductRequest
  <2> QED
    BY <2>1, <2>2, <1>2 DEF EditedProduct, ProductRow
<1>4. PICK w : w = [WriteProduct(p, EditedProduct(products[p], q))
                    EXCEPT !.touched = q.image # products[p].image]
  OBVIOUS
<1>5. /\ w.at = "select" /\ w.touched = changed /\ w.products = OneRow(p, row)
      /\ w.dropped = {} /\ w.read = CurrentRows(products, {p})
      /\ w.recipe = {} /\ w.groups = Nothing /\ w.cleared = {} /\ w.assignees = {}
      /\ w.pairs = {} /\ w.ingredients = Nothing /\ w.created = {}
      /\ w.readIngredients = Nothing /\ DOMAIN w = DOMAIN Writing
  BY <1>2, <1>4 DEF WriteProduct, Writing, Selecting
<1>6. Fits(w)
  <2>1. changed \in BOOLEAN /\ ValidInventoryConfig(row.strategy, row.ingredientId)
    BY <1>1, <1>2, <1>3
  <2> QED
    BY <2>1, <1>3, <1>5, MenuProductFits
<1>7. StorageFits(w)
  <2>1. images' \in SUBSET ImageKeys
    BY <1>1, <1>3 DEF MenuIInv, MenuTypes
  <2>2. OnlyOwnImageLost(w)
    BY <1>1, <1>2, <1>5 DEF OnlyOwnImageLost, WorkedOn, OneRow
  <2>3. KeptImageIsRead(w)
    <3>1. /\ DOMAIN w.products = {p} /\ w.products[p] = row
          /\ p \in DOMAIN w.read /\ w.read[p] = products[p]
      BY <1>1, <1>5 DEF OneRow, CurrentRows
    <3>2. ~changed => row.image = products[p].image
      BY <1>2, <1>3
    <3>3. ~w.touched => ~changed
      BY <1>5
    <3> HIDE DEF OneRow, CurrentRows
    <3> QED
      BY <1>1, <3>1, <3>2, <3>3 DEF KeptImageIsRead
  <2>4. NewImageIsFresh(w)
    <3> SUFFICES ASSUME changed, q.image # NoImage
                 PROVE  /\ q.image \in images'
                        /\ \A o \in DOMAIN products : products[o].image # q.image
                        /\ \A d \in Cooks : Cooking(d) =>
                              \A o \in DOMAIN bench[d].products :
                                  bench[d].products[o].image # q.image
      BY <1>3, <1>5 DEF NewImageIsFresh, OneRow
    <3>1. FreshImage(q.image) /\ q.image # products[p].image
      BY <1>1, <1>2
    <3> QED
      BY <3>1, <1>1 DEF FreshImage, Cooking
  <2> QED
    BY <2>1, <2>2, <2>3, <2>4 DEF StorageFits
<1> QED
  BY <1>1, <1>4, <1>6, <1>7, MenuSubmitPreserves

LEMMA MenuDeleteProduct ==
    ASSUME MenuIInv, NEW c \in Cooks, DeleteProduct(c)
    PROVE  MenuIInv'
<1>1. PICK p \in DOMAIN products, keptImage \in BOOLEAN :
         /\ images' = IF keptImage THEN images ELSE images \ {products[p].image}
         /\ Prepare(c, [Writing EXCEPT !.dropped = {p}, !.touched = TRUE,
                                       !.read = CurrentRows(products, {p})])
  BY DEF DeleteProduct
<1>2. PICK w : w = [Writing EXCEPT !.dropped = {p}, !.touched = TRUE,
                                   !.read = CurrentRows(products, {p})]
  OBVIOUS
<1>3. /\ w.at = "write" /\ w.touched = TRUE /\ w.products = Nothing /\ w.dropped = {p}
      /\ w.recipe = {} /\ w.ingredients = Nothing /\ w.created = {} /\ w.groups = Nothing
      /\ w.assignees = {} /\ w.cleared = {} /\ w.pairs = {}
      /\ w.readIngredients = Nothing /\ DOMAIN w = DOMAIN Writing
  BY <1>2 DEF Writing
<1>4. p \in ProductIds
  BY DEF MenuIInv, MenuTypes
<1>5. IngredientsMakeSense(w)
  BY <1>3, MenuNothingFits DEF IngredientsMakeSense
<1>6. ProductsMakeSense(w)
  BY <1>3, <1>4, MenuNothingFits DEF ProductsMakeSense, WorkedOn
<1>7. GroupsMakeSense(w) /\ AssignmentMakesSense(w)
  BY <1>3, MenuNothingFits DEF GroupsMakeSense, AssignmentMakesSense
<1>8. Fits(w)
  BY <1>3, <1>5, <1>6, <1>7 DEF Fits
<1>9. StorageFits(w)
  BY <1>1, <1>3, MenuNothingFits DEF StorageFits, OnlyOwnImageLost, NewImageIsFresh,
      KeptImageIsRead, WorkedOn, MenuIInv, MenuTypes
<1> QED
  BY <1>1, <1>2, <1>8, <1>9, MenuSubmitPreserves

\* The recipe makes its product one that names no ingredient.
LEMMA MenuSaveProductRecipe ==
    ASSUME MenuIInv, NEW c \in Cooks, SaveProductRecipe(c)
    PROVE  MenuIInv'
<1>1. PICK q \in SaveProductRecipeRequest :
         Prepare(c, [UpdateStrategyOnRecipeSaved(q.productId) EXCEPT !.recipe = {q.productId}])
  BY DEF SaveProductRecipe
<1>2. PICK p : p = q.productId /\ p \in ProductIds
  BY MenuBodies DEF SaveProductRecipeRequest
<1>3. images' = images
  BY DEF SaveProductRecipe
<1>4. CASE p \in DOMAIN products /\ products[p].strategy # "RECIPE"
  <2>1. PICK row : row = MarkAsRecipe(products[p])
    OBVIOUS
  <2>2. /\ row \in ProductRow /\ row.strategy = "RECIPE" /\ row.ingredientId = NoIngredient
        /\ row.image = products[p].image
    <3>1. products[p] \in ProductRow
      BY <1>4 DEF MenuIInv, MenuTypes
    <3> QED
      BY <3>1, <2>1 DEF MarkAsRecipe, ProductRow, Strategies
  <2>3. PICK w : w = [WriteProduct(p, row) EXCEPT !.recipe = {p}]
    OBVIOUS
  <2>4. /\ w.at = "select" /\ w.touched = FALSE /\ w.products = OneRow(p, row)
        /\ w.dropped = {} /\ w.read = CurrentRows(products, {p})
        /\ w.recipe = {p} /\ w.groups = Nothing /\ w.cleared = {} /\ w.assignees = {}
        /\ w.pairs = {} /\ w.ingredients = Nothing /\ w.created = {}
        /\ w.readIngredients = Nothing /\ DOMAIN w = DOMAIN Writing
    BY <2>3 DEF WriteProduct, Writing, Selecting
  <2>5. Prepare(c, w)
    BY <1>1, <1>2, <1>4, <2>1, <2>3 DEF UpdateStrategyOnRecipeSaved
  <2>6. Fits(w)
    <3>1. w.recipe \in SUBSET ProductIds /\ w.touched \in BOOLEAN
          /\ ValidInventoryConfig(row.strategy, row.ingredientId)
      BY <1>2, <2>2, <2>4 DEF ValidInventoryConfig
    <3> QED
      BY <3>1, <1>2, <2>2, <2>4, MenuProductFits
  <2>7. StorageFits(w)
    <3>1. images' \in SUBSET ImageKeys
      BY <1>3 DEF MenuIInv, MenuTypes
    <3>2. KeptImageIsRead(w)
      BY <1>4, <2>2, <2>4 DEF KeptImageIsRead, OneRow, CurrentRows
    <3>3. NewImageIsFresh(w) /\ OnlyOwnImageLost(w)
      BY <1>3, <2>4 DEF NewImageIsFresh, OnlyOwnImageLost
    <3> QED
      BY <3>1, <3>2, <3>3 DEF StorageFits
  <2> QED
    BY <2>5, <2>6, <2>7, MenuSubmitPreserves
<1>5. CASE ~(p \in DOMAIN products /\ products[p].strategy # "RECIPE")
  <2>1. PICK w : w = [Writing EXCEPT !.recipe = {p}]
    OBVIOUS
  <2>2. Prepare(c, w)
    BY <1>1, <1>2, <1>5, <2>1 DEF UpdateStrategyOnRecipeSaved
  <2>3. /\ w.at = "write" /\ w.touched = FALSE /\ w.products = Nothing /\ w.dropped = {}
        /\ w.recipe = {p} /\ w.ingredients = Nothing /\ w.created = {} /\ w.groups = Nothing
        /\ w.assignees = {} /\ w.cleared = {} /\ w.pairs = {}
        /\ w.readIngredients = Nothing /\ DOMAIN w = DOMAIN Writing
    BY <2>1 DEF Writing
  <2>4. IngredientsMakeSense(w)
    BY <2>3, MenuNothingFits DEF IngredientsMakeSense
  <2>5. ProductsMakeSense(w)
    BY <1>2, <2>3, MenuNothingFits DEF ProductsMakeSense, WorkedOn
  <2>6. GroupsMakeSense(w) /\ AssignmentMakesSense(w)
    BY <2>3, MenuNothingFits DEF GroupsMakeSense, AssignmentMakesSense
  <2>7. Fits(w)
    BY <2>3, <2>4, <2>5, <2>6 DEF Fits
  <2> QED
    BY <1>3, <2>2, <2>3, <2>7, MenuOtherRequestFits, MenuSubmitPreserves
<1> QED
  BY <1>4, <1>5

-----------------------------------------------------------------------------
(* The commit *)

\* What it is to have written new rows over old ones.
Overlays(table, new, old, S) ==
    /\ table \in [DOMAIN new \cup DOMAIN old -> S]
    /\ DOMAIN table = DOMAIN new \cup DOMAIN old
    /\ \A i \in DOMAIN new : table[i] = new[i]
    /\ \A i \in DOMAIN old \ DOMAIN new : table[i] = old[i]

LEMMA MenuWrittenOver ==
    ASSUME NEW S, NEW new, new \in [DOMAIN new -> S], NEW old, old \in [DOMAIN old -> S]
    PROVE  Overlays(WrittenOver(new, old), new, old, S)
  BY DEF WrittenOver, Overlays

\* UPDATE of the columns that differ from what was selected.
LeftInRow(left, given, read, row) ==
    /\ left \in ProductRow
    /\ left.image \in {given.image, row.image}
    /\ read = row => left = given

LEMMA MenuColumns ==
    ASSUME NEW given \in ProductRow, NEW read, NEW row \in ProductRow,
           NEW left, left = ColumnsWritten(given, read, row)
    PROVE  LeftInRow(left, given, read, row)
<1>1. /\ DOMAIN row = {"sku", "strategy", "ingredientId", "image"}
      /\ DOMAIN given = {"sku", "strategy", "ingredientId", "image"}
  BY DEF ProductRow
<1>2. left = [sku |-> left.sku, strategy |-> left.strategy,
              ingredientId |-> left.ingredientId, image |-> left.image]
  BY <1>1 DEF ColumnsWritten, WithColumns
<1>3. /\ left.sku \in {given.sku, row.sku} /\ left.strategy \in {given.strategy, row.strategy}
      /\ left.ingredientId \in {given.ingredientId, row.ingredientId}
      /\ left.image \in {given.image, row.image}
  BY <1>1 DEF ColumnsWritten, WithColumns
<1>4. left \in ProductRow
  BY <1>2, <1>3 DEF ProductRow
<1>5. ASSUME read = row
      PROVE  left = given
  <2>1. left = [c \in DOMAIN row |-> given[c]]
    BY <1>1, <1>5 DEF ColumnsWritten, WithColumns, Differing
  <2>2. given = [c \in DOMAIN given |-> given[c]]
    BY DEF ProductRow
  <2> QED
    BY <1>1, <2>1, <2>2
<1> QED
  BY <1>3, <1>4, <1>5 DEF LeftInRow

\* What save() leaves of the products it was given.
LeftOfProducts(saved, r) ==
    /\ DOMAIN saved \in SUBSET DOMAIN r.products
    /\ saved \in [DOMAIN saved -> ProductRow]
    /\ \A p \in DOMAIN saved :
          \/ saved[p].image = r.products[p].image
          \/ p \in DOMAIN products /\ saved[p].image = products[p].image
    /\ r.read = CurrentRows(products, DOMAIN r.products \cup r.dropped)
         => /\ DOMAIN saved = DOMAIN r.products
            /\ \A p \in DOMAIN saved : saved[p] = r.products[p]

LEMMA MenuSavedProducts ==
    ASSUME NEW r, r.products \in [DOMAIN r.products -> ProductRow],
           products \in [DOMAIN products -> ProductRow],
           NEW saved, saved = SavedProducts(r)
    PROVE  LeftOfProducts(saved, r)
<1>1. /\ DOMAIN saved = Reached(r.products, r.read, products)
      /\ \A p \in DOMAIN saved :
            saved[p] = IF p \in DOMAIN r.read
                       THEN ColumnsWritten(r.products[p], r.read[p], products[p])
                       ELSE r.products[p]
      /\ saved = [p \in DOMAIN saved |-> saved[p]]
  BY DEF SavedProducts
<1>2. /\ DOMAIN saved \in SUBSET DOMAIN r.products
      /\ \A p \in DOMAIN saved : p \in DOMAIN r.read => p \in DOMAIN products
  BY <1>1 DEF Reached
<1>3. \A p \in DOMAIN saved :
         /\ saved[p] \in ProductRow
         /\ \/ saved[p].image = r.products[p].image
            \/ p \in DOMAIN products /\ saved[p].image = products[p].image
         /\ (p \in DOMAIN r.read => r.read[p] = products[p]) => saved[p] = r.products[p]
  <2> TAKE p \in DOMAIN saved
  <2>1. r.products[p] \in ProductRow /\ p \in DOMAIN r.products
    BY <1>2
  <2>2. CASE p \in DOMAIN r.read
    <3>1. products[p] \in ProductRow /\ p \in DOMAIN products
      BY <2>2, <1>2
    <3>2. PICK given, read, row : /\ given = r.products[p] /\ read = r.read[p]
                                  /\ row = products[p]
      OBVIOUS
    <3>3. PICK left : left = ColumnsWritten(given, read, row) /\ left = saved[p]
      BY <3>2, <2>2, <1>1
    <3>4. given \in ProductRow /\ row \in ProductRow
      BY <2>1, <3>1, <3>2
    <3>5. LeftInRow(left, given, read, row)
      BY <3>3, <3>4, MenuColumns
    <3> QED
      BY <3>1, <3>2, <3>3, <3>5, <2>2 DEF LeftInRow
  <2>3. CASE p \notin DOMAIN r.read
    BY <2>1, <2>3, <1>1
  <2> QED
    BY <2>2, <2>3
<1>4. ASSUME r.read = CurrentRows(products, DOMAIN r.products \cup r.dropped)
      PROVE  DOMAIN saved = DOMAIN r.products /\ \A p \in DOMAIN saved : saved[p] = r.products[p]
  <2>1. \A p \in DOMAIN r.read : p \in DOMAIN products /\ r.read[p] = products[p]
    BY <1>4 DEF CurrentRows
  <2> QED
    BY <2>1, <1>1, <1>3 DEF Reached
<1> QED
  BY <1>1, <1>2, <1>3, <1>4 DEF LeftOfProducts

\* What save() leaves of ingredients and option groups.
LeftOfValues(saved, given, selected, table, S) ==
    /\ DOMAIN saved \in SUBSET DOMAIN given
    /\ saved \in [DOMAIN saved -> S]
    /\ \A i \in DOMAIN saved :
          saved[i] = given[i] \/ (i \in DOMAIN table /\ saved[i] = table[i])
    /\ DOMAIN selected \in SUBSET DOMAIN table => DOMAIN saved = DOMAIN given

LEMMA MenuSavedValues ==
    ASSUME NEW S, NEW given, given \in [DOMAIN given -> S], NEW selected,
           NEW table, table \in [DOMAIN table -> S],
           NEW saved, saved = SavedValues(given, selected, table)
    PROVE  LeftOfValues(saved, given, selected, table, S)
<1>1. /\ DOMAIN saved = Reached(given, selected, table)
      /\ \A i \in DOMAIN saved :
            saved[i] = IF i \in DOMAIN selected /\ given[i] = selected[i]
                       THEN table[i] ELSE given[i]
      /\ saved = [i \in DOMAIN saved |-> saved[i]]
  BY DEF SavedValues
<1>2. /\ DOMAIN saved \in SUBSET DOMAIN given
      /\ \A i \in DOMAIN saved : i \in DOMAIN selected => i \in DOMAIN table
      /\ DOMAIN selected \in SUBSET DOMAIN table => DOMAIN saved = DOMAIN given
  BY <1>1 DEF Reached
<1>3. \A i \in DOMAIN saved :
         saved[i] = given[i] \/ (i \in DOMAIN table /\ saved[i] = table[i])
  BY <1>1, <1>2
<1>4. \A i \in DOMAIN saved : saved[i] \in S
  BY <1>2, <1>3
<1> QED
  BY <1>1, <1>2, <1>3, <1>4 DEF LeftOfValues

\* What a commit does to the products.
ProductsCommitted(r) ==
    /\ DOMAIN products' \in SUBSET ((DOMAIN r.products \cup DOMAIN products) \ r.dropped)
    /\ products' \in [DOMAIN products' -> ProductRow]
    /\ DOMAIN products \ r.dropped \in SUBSET DOMAIN products'
    /\ \A p \in DOMAIN products' :
          \/ p \in DOMAIN r.products /\ products'[p].image = r.products[p].image
          \/ p \in DOMAIN products /\ products'[p].image = products[p].image
    /\ \A p \in DOMAIN products' :
          p \notin DOMAIN r.products => products'[p] = products[p]
    /\ \A p \in DOMAIN products' \ mingled' :
          \/ p \in DOMAIN r.products /\ products'[p] = r.products[p]
          \/ p \in DOMAIN products \ mingled /\ products'[p] = products[p]
    /\ \A p \in DOMAIN products' :
          \/ products'[p].ingredientId \in DOMAIN ingredients \cup {NoIngredient}
          \/ p \in DOMAIN products /\ products'[p] = products[p]
    /\ mingled' \in SUBSET DOMAIN products'
    /\ ~late' =>
          /\ DOMAIN products' = (DOMAIN r.products \cup DOMAIN products) \ r.dropped
          /\ \A p \in DOMAIN r.products : products'[p] = r.products[p]

LEMMA MenuProductsCommitted ==
    ASSUME MenuIInv, NEW c \in Cooks, CommitMenu(c), NEW r, r = bench[c],
           r.products \in [DOMAIN r.products -> ProductRow],
           DOMAIN r.products \cap r.dropped = {}
    PROVE  ProductsCommitted(r)
<1>1. PICK saved : saved = SavedProducts(r)
  OBVIOUS
<1>2. PICK overlaid : overlaid = WrittenOver(saved, products)
  OBVIOUS
<1>3. /\ products' = [p \in DOMAIN overlaid \ r.dropped |-> overlaid[p]]
      /\ \A p \in DOMAIN saved :
            saved[p].ingredientId \in DOMAIN ingredients \cup {NoIngredient}
      /\ mingled' = {p \in (mingled \cup DOMAIN saved) \ r.dropped :
                        p \in DOMAIN saved => saved[p] # r.products[p]}
      /\ late' = (late \/ ~IsCurrent(r))
  BY <1>1, <1>2 DEF CommitMenu
<1>4. /\ products \in [DOMAIN products -> ProductRow] /\ mingled \in SUBSET DOMAIN products
  BY DEF MenuIInv, MenuTypes
<1>5. /\ DOMAIN saved \in SUBSET DOMAIN r.products
      /\ saved \in [DOMAIN saved -> ProductRow]
      /\ \A p \in DOMAIN saved :
            \/ saved[p].image = r.products[p].image
            \/ p \in DOMAIN products /\ saved[p].image = products[p].image
      /\ r.read = CurrentRows(products, DOMAIN r.products \cup r.dropped)
           => /\ DOMAIN saved = DOMAIN r.products
              /\ \A p \in DOMAIN saved : saved[p] = r.products[p]
  <2>1. LeftOfProducts(saved, r)
    BY <1>1, <1>4, MenuSavedProducts
  <2> QED
    BY <2>1 DEF LeftOfProducts
<1>6. /\ DOMAIN overlaid = DOMAIN saved \cup DOMAIN products
      /\ overlaid \in [DOMAIN overlaid -> ProductRow]
      /\ \A p \in DOMAIN saved : overlaid[p] = saved[p]
      /\ \A p \in DOMAIN products \ DOMAIN saved : overlaid[p] = products[p]
  <2>1. Overlays(overlaid, saved, products, ProductRow)
    BY <1>2, <1>4, <1>5, MenuWrittenOver
  <2> QED
    BY <2>1 DEF Overlays
<1>7. /\ DOMAIN products' = (DOMAIN saved \cup DOMAIN products) \ r.dropped
      /\ products' \in [DOMAIN products' -> ProductRow]
      /\ \A p \in DOMAIN products' : products'[p] = overlaid[p]
  BY <1>3, <1>6
<1>8. \A p \in DOMAIN products' :
         \/ p \in DOMAIN saved /\ p \in DOMAIN r.products /\ products'[p] = saved[p]
         \/ p \notin DOMAIN saved /\ p \in DOMAIN products /\ products'[p] = products[p]
  BY <1>5, <1>6, <1>7
<1>9. /\ DOMAIN products' \in SUBSET ((DOMAIN r.products \cup DOMAIN products) \ r.dropped)
      /\ DOMAIN products \ r.dropped \in SUBSET DOMAIN products'
  BY <1>5, <1>7
<1>10. \A p \in DOMAIN products' :
          \/ p \in DOMAIN r.products /\ products'[p].image = r.products[p].image
          \/ p \in DOMAIN products /\ products'[p].image = products[p].image
  BY <1>5, <1>8
<1>11. \A p \in DOMAIN products' : p \notin DOMAIN r.products => products'[p] = products[p]
  BY <1>8
<1>12. \A p \in DOMAIN products' \ mingled' :
          \/ p \in DOMAIN r.products /\ products'[p] = r.products[p]
          \/ p \in DOMAIN products \ mingled /\ products'[p] = products[p]
  BY <1>3, <1>7, <1>8
<1>13. \A p \in DOMAIN products' :
          \/ products'[p].ingredientId \in DOMAIN ingredients \cup {NoIngredient}
          \/ p \in DOMAIN products /\ products'[p] = products[p]
  BY <1>3, <1>8
<1>14. mingled' \in SUBSET DOMAIN products'
  BY <1>3, <1>4, <1>7
<1>15. ASSUME ~late'
       PROVE  /\ DOMAIN products' = (DOMAIN r.products \cup DOMAIN products) \ r.dropped
              /\ \A p \in DOMAIN r.products : products'[p] = r.products[p]
  <2>1. r.read = CurrentRows(products, DOMAIN r.products \cup r.dropped)
    BY <1>3, <1>15 DEF IsCurrent
  <2>2. DOMAIN saved = DOMAIN r.products /\ \A p \in DOMAIN saved : saved[p] = r.products[p]
    BY <2>1, <1>5
  <2> QED
    BY <2>2, <1>6, <1>7
<1> QED
  BY <1>7, <1>9, <1>10, <1>11, <1>12, <1>13, <1>14, <1>15 DEF ProductsCommitted

\* What a commit does, row by row.
Committed(c, r) ==
    /\ Cooking(c) /\ Fits(r) /\ bench' = [bench EXCEPT ![c] = AtBench]
    /\ menu' = menu /\ images' = images
    /\ ingredients' \in [DOMAIN r.ingredients \cup DOMAIN ingredients -> UnitIds]
    /\ DOMAIN ingredients' = DOMAIN r.ingredients \cup DOMAIN ingredients
    /\ \A i \in DOMAIN r.ingredients :
          \/ ingredients'[i] = r.ingredients[i]
          \/ i \in DOMAIN ingredients /\ ingredients'[i] = ingredients[i]
    /\ \A i \in DOMAIN ingredients \ DOMAIN r.ingredients :
          ingredients'[i] = ingredients[i]
    /\ levels' \in [r.created \cup DOMAIN levels -> UnitIds]
    /\ DOMAIN levels' = r.created \cup DOMAIN levels
    /\ \A i \in DOMAIN levels : levels'[i] = levels[i]
    /\ \A i \in r.created \ DOMAIN levels : levels'[i] = r.ingredients[i]
    /\ groups' \in [DOMAIN groups' -> BOOLEAN]
    /\ DOMAIN groups' \in SUBSET (DOMAIN r.groups \cup DOMAIN groups)
    /\ DOMAIN groups \in SUBSET DOMAIN groups'
    /\ resent' \in BOOLEAN /\ late' \in BOOLEAN
    /\ ~resent' => ~resent /\ \A i \in r.created \cap DOMAIN levels :
                                 levels[i] = r.ingredients[i]
    /\ ~late' => ~late /\ IsCurrent(r)

LEMMA MenuCommitFacts ==
    ASSUME MenuIInv, NEW c \in Cooks, CommitMenu(c)
    PROVE  Committed(c, bench[c]) /\ ProductsCommitted(bench[c])
<1>1. PICK r : r = bench[c]
  OBVIOUS
<1>2. r.at = "write" /\ Cooking(c)
  BY <1>1 DEF CommitMenu, Cooking, AtBench
<1>3. Fits(r)
  BY <1>1, <1>2 DEF MenuIInv, CookingMakesSense
<1>4. /\ r.ingredients \in [DOMAIN r.ingredients -> UnitIds]
      /\ r.products \in [DOMAIN r.products -> ProductRow]
      /\ r.groups \in [DOMAIN r.groups -> BOOLEAN]
      /\ r.created \in SUBSET DOMAIN r.ingredients
      /\ DOMAIN r.readIngredients \in SUBSET DOMAIN ingredients
      /\ DOMAIN r.products \cap r.dropped = {}
  BY <1>3 DEF Fits, IngredientsMakeSense, ProductsMakeSense, GroupsMakeSense
<1>5. /\ ingredients \in [DOMAIN ingredients -> UnitIds] /\ levels \in [DOMAIN levels -> UnitIds]
      /\ groups \in [DOMAIN groups -> BOOLEAN]
      /\ resent \in BOOLEAN /\ late \in BOOLEAN
  BY DEF MenuIInv, MenuTypes
<1>6. PICK saved, kept :
         /\ saved = SavedValues(r.ingredients, r.readIngredients, ingredients)
         /\ kept = SavedValues(r.groups, r.readGroups, groups)
  OBVIOUS
<1>7. /\ ingredients' = WrittenOver(saved, ingredients)
      /\ levels' = WrittenOver(levels, CurrentRows(r.ingredients, r.created))
      /\ groups' = WrittenOver(kept, groups)
      /\ bench' = [bench EXCEPT ![c] = AtBench] /\ menu' = menu /\ images' = images
      /\ late' = (late \/ ~IsCurrent(r))
      /\ resent' = (resent \/ \E i \in r.created :
                                 i \in DOMAIN levels /\ levels[i] # r.ingredients[i])
  BY <1>1, <1>6 DEF CommitMenu, InitializeLevels
<1>8. /\ DOMAIN saved = DOMAIN r.ingredients /\ saved \in [DOMAIN saved -> UnitIds]
      /\ \A i \in DOMAIN saved :
            \/ saved[i] = r.ingredients[i]
            \/ i \in DOMAIN ingredients /\ saved[i] = ingredients[i]
  <2>1. PICK given, selected : given = r.ingredients /\ selected = r.readIngredients
    OBVIOUS
  <2>2. /\ given \in [DOMAIN given -> UnitIds] /\ saved = SavedValues(given, selected, ingredients)
        /\ DOMAIN selected \in SUBSET DOMAIN ingredients
    BY <2>1, <1>4, <1>6
  <2>3. LeftOfValues(saved, given, selected, ingredients, UnitIds)
    BY <2>2, <1>5, MenuSavedValues
  <2> QED
    BY <2>1, <2>2, <2>3 DEF LeftOfValues
<1>9. DOMAIN kept \in SUBSET DOMAIN r.groups /\ kept \in [DOMAIN kept -> BOOLEAN]
  <2>1. PICK given, selected : given = r.groups /\ selected = r.readGroups
    OBVIOUS
  <2>2. given \in [DOMAIN given -> BOOLEAN] /\ kept = SavedValues(given, selected, groups)
    BY <2>1, <1>4, <1>6
  <2>3. LeftOfValues(kept, given, selected, groups, BOOLEAN)
    BY <2>2, <1>5, MenuSavedValues
  <2> QED
    BY <2>1, <2>3 DEF LeftOfValues
<1>10. Overlays(ingredients', saved, ingredients, UnitIds)
  BY <1>5, <1>7, <1>8, MenuWrittenOver
<1>11. /\ levels' \in [r.created \cup DOMAIN levels -> UnitIds]
       /\ DOMAIN levels' = r.created \cup DOMAIN levels
       /\ \A i \in DOMAIN levels : levels'[i] = levels[i]
       /\ \A i \in r.created \ DOMAIN levels : levels'[i] = r.ingredients[i]
  <2>1. PICK f : f = CurrentRows(r.ingredients, r.created)
    OBVIOUS
  <2>2. /\ DOMAIN f = r.created /\ f \in [DOMAIN f -> UnitIds]
        /\ \A i \in r.created : f[i] = r.ingredients[i]
    <3>1. r.created \cap DOMAIN r.ingredients = r.created
      BY <1>4
    <3> QED
      BY <2>1, <3>1, <1>4 DEF CurrentRows
  <2>3. Overlays(levels', levels, f, UnitIds)
    BY <2>1, <2>2, <1>5, <1>7, MenuWrittenOver
  <2>4. DOMAIN levels \cup DOMAIN f = r.created \cup DOMAIN levels
    BY <2>2
  <2> QED
    BY <2>2, <2>3, <2>4 DEF Overlays
<1>12. Overlays(groups', kept, groups, BOOLEAN)
  BY <1>5, <1>7, <1>9, MenuWrittenOver
<1>13. /\ ingredients' \in [DOMAIN r.ingredients \cup DOMAIN ingredients -> UnitIds]
       /\ DOMAIN ingredients' = DOMAIN r.ingredients \cup DOMAIN ingredients
       /\ \A i \in DOMAIN r.ingredients :
             \/ ingredients'[i] = r.ingredients[i]
             \/ i \in DOMAIN ingredients /\ ingredients'[i] = ingredients[i]
       /\ \A i \in DOMAIN ingredients \ DOMAIN r.ingredients :
             ingredients'[i] = ingredients[i]
  BY <1>8, <1>10 DEF Overlays
<1>14. /\ groups' \in [DOMAIN groups' -> BOOLEAN]
       /\ DOMAIN groups' \in SUBSET (DOMAIN r.groups \cup DOMAIN groups)
       /\ DOMAIN groups \in SUBSET DOMAIN groups'
  BY <1>9, <1>12 DEF Overlays
<1>15. resent' \in BOOLEAN /\ late' \in BOOLEAN
  BY <1>5, <1>7
<1>16. ~resent' => ~resent /\ \A i \in r.created \cap DOMAIN levels :
                                 levels[i] = r.ingredients[i]
  BY <1>7
<1>17. ~late' => ~late /\ IsCurrent(r)
  BY <1>7
<1>18. Committed(c, r)
  BY <1>2, <1>3, <1>7, <1>11, <1>13, <1>14, <1>15, <1>16, <1>17 DEF Committed
<1>19. ProductsCommitted(r)
  BY <1>1, <1>4, MenuProductsCommitted
<1> QED
  BY <1>1, <1>18, <1>19

LEMMA MenuCommitPreserves ==
    ASSUME MenuIInv, NEW c \in Cooks, CommitMenu(c)
    PROVE  MenuIInv'
<1>1. PICK r : r = bench[c] /\ Committed(c, r) /\ ProductsCommitted(r)
  BY MenuCommitFacts
<1>2. /\ Cooking(c) /\ Fits(r) /\ bench' = [bench EXCEPT ![c] = AtBench]
      /\ menu' = menu /\ images' = images /\ resent' \in BOOLEAN /\ late' \in BOOLEAN
  BY <1>1 DEF Committed
<1>3. /\ ingredients' \in [DOMAIN r.ingredients \cup DOMAIN ingredients -> UnitIds]
      /\ DOMAIN ingredients' = DOMAIN r.ingredients \cup DOMAIN ingredients
      /\ \A i \in DOMAIN r.ingredients :
            \/ ingredients'[i] = r.ingredients[i]
            \/ i \in DOMAIN ingredients /\ ingredients'[i] = ingredients[i]
      /\ \A i \in DOMAIN ingredients \ DOMAIN r.ingredients :
            ingredients'[i] = ingredients[i]
  BY <1>1 DEF Committed
<1>4. /\ levels' \in [r.created \cup DOMAIN levels -> UnitIds]
      /\ DOMAIN levels' = r.created \cup DOMAIN levels
      /\ \A i \in DOMAIN levels : levels'[i] = levels[i]
      /\ \A i \in r.created \ DOMAIN levels : levels'[i] = r.ingredients[i]
      /\ ~resent' => ~resent /\ \A i \in r.created \cap DOMAIN levels :
                                   levels[i] = r.ingredients[i]
  BY <1>1 DEF Committed
<1>5. /\ DOMAIN products' \in SUBSET ((DOMAIN r.products \cup DOMAIN products) \ r.dropped)
      /\ products' \in [DOMAIN products' -> ProductRow]
      /\ DOMAIN products \ r.dropped \in SUBSET DOMAIN products'
      /\ \A p \in DOMAIN products' :
            \/ p \in DOMAIN r.products /\ products'[p].image = r.products[p].image
            \/ p \in DOMAIN products /\ products'[p].image = products[p].image
      /\ \A p \in DOMAIN products' :
            p \notin DOMAIN r.products => products'[p] = products[p]
      /\ mingled' \in SUBSET DOMAIN products'
      /\ ~late' =>
            /\ DOMAIN products' = (DOMAIN r.products \cup DOMAIN products) \ r.dropped
            /\ \A p \in DOMAIN r.products : products'[p] = r.products[p]
  BY <1>1 DEF ProductsCommitted
<1>6. /\ groups' \in [DOMAIN groups' -> BOOLEAN]
      /\ DOMAIN groups' \in SUBSET (DOMAIN r.groups \cup DOMAIN groups)
      /\ DOMAIN groups \in SUBSET DOMAIN groups'
      /\ ~late' => ~late /\ IsCurrent(r)
  BY <1>1 DEF Committed
<1>7. /\ recipes' = recipes \cup r.recipe /\ assigned' = AssignedAfter(r)
      /\ asked' = [p \in ProductIds |->
             IF p \in r.assignees THEN {pg[2] : pg \in r.pairs}
             ELSE IF p \in r.dropped THEN {} ELSE asked[p]]
      /\ r.pairs # {} => r.assignees \subseteq DOMAIN products
  BY <1>1 DEF CommitMenu
<1>8. /\ \A d \in Cooks : Cooking(d)' => d # c /\ Cooking(d) /\ bench'[d] = bench[d]
      /\ \A d \in Cooks \ {c} : Cooking(d) => Cooking(d)' /\ bench'[d] = bench[d]
      /\ DOMAIN bench' = Cooks
  BY <1>2 DEF MenuIInv, MenuTypes, Cooking
<1>9. /\ DOMAIN r.products \in SUBSET ProductIds /\ r.dropped \in SUBSET ProductIds
      /\ \A p, q \in WorkedOn(r) : p = q
      /\ DOMAIN r.products \cap r.dropped = {} /\ r.recipe \in SUBSET ProductIds
      /\ \A p \in DOMAIN r.products :
            ValidInventoryConfig(r.products[p].strategy, r.products[p].ingredientId)
  BY <1>2 DEF Fits, ProductsMakeSense
<1>10. /\ r.assignees \in SUBSET ProductIds /\ \A p, q \in r.assignees : p = q
       /\ r.cleared \in SUBSET (r.assignees \X GroupIds)
       /\ r.pairs \in SUBSET (r.assignees \X DOMAIN groups)
       /\ r.assignees # {} => r.dropped = {}
  BY <1>2 DEF Fits, AssignmentMakesSense
<1>11. /\ DOMAIN r.ingredients \in SUBSET IngredientIds
       /\ r.created \in SUBSET DOMAIN r.ingredients
       /\ \A i \in DOMAIN r.ingredients \ r.created :
             /\ i \in DOMAIN ingredients
             /\ ~resent => r.ingredients[i] = ingredients[i]
       /\ DOMAIN r.groups \in SUBSET GroupIds
  BY <1>2 DEF Fits, IngredientsMakeSense, GroupsMakeSense
<1>12. /\ DOMAIN levels = DOMAIN ingredients
       /\ ~resent => levels = ingredients
       /\ DOMAIN ingredients \in SUBSET IngredientIds
  BY DEF MenuIInv, LevelsFollowIngredients, MenuTypes
<1>13. /\ DOMAIN products \in SUBSET ProductIds /\ DOMAIN groups \in SUBSET GroupIds
       /\ assigned \in SUBSET (ProductIds \X GroupIds)
       /\ asked \in [ProductIds -> SUBSET GroupIds]
       /\ \A pg \in assigned : pg[1] \in DOMAIN products /\ pg[2] \in DOMAIN groups
       /\ ~late => \A p \in ProductIds : GroupsOf(p) = asked[p]
  BY DEF MenuIInv, MenuTypes, AssignedAsAsked
<1>14. \A pg \in assigned' : /\ pg \in r.pairs \/ pg \in assigned \ r.cleared
                             /\ pg[1] \notin r.dropped
  BY <1>7 DEF AssignedAfter
<1>15. MenuTypes'
  <2>1. assigned' \in SUBSET (ProductIds \X GroupIds)
    BY <1>10, <1>13, <1>14
  <2>2. asked' \in [ProductIds -> SUBSET GroupIds]
    <3>1. {pg[2] : pg \in r.pairs} \in SUBSET GroupIds
      BY <1>10, <1>13
    <3> QED
      BY <3>1, <1>7, <1>13
  <2>3. /\ menu' \in Menus /\ DOMAIN ingredients' \in SUBSET IngredientIds
        /\ ingredients' \in [DOMAIN ingredients' -> UnitIds]
        /\ levels' \in [DOMAIN levels' -> UnitIds]
    BY <1>2, <1>3, <1>4, <1>11, <1>12 DEF MenuIInv, MenuTypes
  <2>4. /\ DOMAIN products' \in SUBSET ProductIds
        /\ products' \in [DOMAIN products' -> ProductRow]
        /\ recipes' \in SUBSET ProductIds
    BY <1>5, <1>7, <1>9, <1>13 DEF MenuIInv, MenuTypes
  <2>5. /\ DOMAIN groups' \in SUBSET GroupIds /\ groups' \in [DOMAIN groups' -> BOOLEAN]
        /\ images' \in SUBSET ImageKeys
    BY <1>2, <1>6, <1>11, <1>13 DEF MenuIInv, MenuTypes
  <2>6. mingled' \in SUBSET DOMAIN products' /\ resent' \in BOOLEAN /\ late' \in BOOLEAN
        /\ DOMAIN bench' = Cooks
    BY <1>2, <1>5, <1>8
  <2> QED
    BY <2>1, <2>2, <2>3, <2>4, <2>5, <2>6 DEF MenuTypes
\* An ingredient that is there is not changed.
<1>16. ~resent' => \A i \in DOMAIN ingredients : ingredients'[i] = ingredients[i]
  BY <1>3, <1>4, <1>11, <1>12
<1>17. LevelsFollowIngredients'
  <2>1. DOMAIN levels' = DOMAIN ingredients'
    BY <1>3, <1>4, <1>11, <1>12
  <2>2. ASSUME ~resent', NEW i \in DOMAIN levels'
        PROVE  levels'[i] = ingredients'[i]
    BY <2>2, <1>3, <1>4, <1>11, <1>12, <1>16
  <2>3. levels' \in [DOMAIN levels' -> UnitIds] /\ ingredients' \in [DOMAIN ingredients' -> UnitIds]
    BY <1>3, <1>4
  <2>4. ~resent' => levels' = ingredients'
    BY <2>1, <2>2, <2>3
  <2> QED
    BY <2>1, <2>4 DEF LevelsFollowIngredients
<1>18. InventoryConfigIsValid'
  <2>1. \A p \in DOMAIN products' \ mingled' :
           ValidInventoryConfig(products'[p].strategy, products'[p].ingredientId)
    <3>1. \A p \in DOMAIN products' \ mingled' :
             \/ p \in DOMAIN r.products /\ products'[p] = r.products[p]
             \/ p \in DOMAIN products \ mingled /\ products'[p] = products[p]
      BY <1>1 DEF ProductsCommitted
    <3>2. \A p \in DOMAIN products \ mingled :
             ValidInventoryConfig(products[p].strategy, products[p].ingredientId)
      BY DEF MenuIInv, InventoryConfigIsValid
    <3> QED
      BY <3>1, <3>2, <1>9
  <2>2. \A p \in DOMAIN products' :
           products'[p].ingredientId \in DOMAIN ingredients' \cup {NoIngredient}
    <3>1. \A p \in DOMAIN products' :
             \/ products'[p].ingredientId \in DOMAIN ingredients \cup {NoIngredient}
             \/ p \in DOMAIN products /\ products'[p] = products[p]
      BY <1>1 DEF ProductsCommitted
    <3>2. \A p \in DOMAIN products :
             products[p].ingredientId \in DOMAIN ingredients \cup {NoIngredient}
      BY DEF MenuIInv, InventoryConfigIsValid
    <3> QED
      BY <3>1, <3>2, <1>3
  <2>3. \A a, b : ValidInventoryConfig(a, b)' <=> ValidInventoryConfig(a, b)
    BY DEF ValidInventoryConfig
  <2> QED
    BY <2>1, <2>2, <2>3 DEF InventoryConfigIsValid, ValidInventoryConfig
<1>19. CookingMakesSense'
  <2> SUFFICES ASSUME NEW d \in Cooks, bench'[d] # AtBench
               PROVE  Fits(bench[d])'
    BY DEF CookingMakesSense, Cooking
  <2>1. bench'[d] = bench[d] /\ Cooking(d)
    BY <1>8 DEF Cooking
  <2>2. Fits(bench[d])
    BY <2>1 DEF MenuIInv, CookingMakesSense
  <2>3. PICK w : w = bench[d]
    OBVIOUS
  <2>4. IngredientsMakeSense(w)'
    BY <2>2, <2>3, <1>3, <1>4, <1>16 DEF Fits, IngredientsMakeSense
  <2>5. AssignmentMakesSense(w)'
    BY <2>2, <2>3, <1>6 DEF Fits, AssignmentMakesSense
  <2>6. Fits(w)'
    BY <2>2, <2>3, <2>4, <2>5 DEF Fits, ProductsMakeSense, GroupsMakeSense, WorkedOn
  <2>7. \A x : x = w => (Fits(x)' <=> Fits(w)')
    OBVIOUS
  <2>8. bench'[d] = w
    BY <2>1, <2>3
  <2> QED
    BY <2>6, <2>8 DEF Fits, IngredientsMakeSense, ProductsMakeSense, GroupsMakeSense,
        AssignmentMakesSense, WorkedOn
\* A row's image is the one it had or the one that is written.
<1>20. \A p \in DOMAIN products' :
          \/ p \in DOMAIN r.products /\ products'[p].image = r.products[p].image
          \/ p \in DOMAIN products /\ products'[p].image = products[p].image
  BY <1>5
<1>21. ImagesAreTheirOwn'
  <2>1. \A p, q \in DOMAIN products' :
           products'[p].image = products'[q].image => p = q \/ products'[p].image = NoImage
    <3> TAKE p \in DOMAIN products', q \in DOMAIN products'
    <3> DEFINE Anew(o) == o \in DOMAIN r.products /\ products'[o].image = r.products[o].image
               AsItWas(o) == o \in DOMAIN products /\ products'[o].image = products[o].image
    <3>1. CASE Anew(p) /\ Anew(q)
      BY <3>1, <1>9 DEF WorkedOn
    <3>2. CASE Anew(p) /\ AsItWas(q)
      BY <3>2, <1>1, <1>2 DEF MenuIInv, ImagesAreTheirOwn
    <3>3. CASE AsItWas(p) /\ Anew(q)
      BY <3>3, <1>1, <1>2 DEF MenuIInv, ImagesAreTheirOwn
    <3>4. CASE AsItWas(p) /\ AsItWas(q)
      BY <3>4 DEF MenuIInv, ImagesAreTheirOwn
    <3> QED
      BY <3>1, <3>2, <3>3, <3>4, <1>20
  <2>2. \A d \in Cooks : Cooking(d)' =>
           \A p \in DOMAIN bench'[d].products, q \in DOMAIN products' :
               bench'[d].products[p].image = products'[q].image
                   => p = q \/ products'[q].image = NoImage
    BY <1>1, <1>2, <1>8, <1>20 DEF MenuIInv, ImagesAreTheirOwn
  <2>3. \A d, e \in Cooks : Cooking(d)' /\ Cooking(e)' =>
           \A p \in DOMAIN bench'[d].products, q \in DOMAIN bench'[e].products :
               bench'[d].products[p].image = bench'[e].products[q].image
                   => p = q \/ bench'[e].products[q].image = NoImage
    BY <1>8 DEF MenuIInv, ImagesAreTheirOwn
  <2> QED
    BY <2>1, <2>2, <2>3 DEF ImagesAreTheirOwn
<1>22. NewImagesAreStored'
  <2> SUFFICES ASSUME NEW d \in Cooks, Cooking(d)', bench'[d].touched,
                      NEW p \in DOMAIN bench'[d].products, NEW k,
                      k = bench'[d].products[p].image, k # NoImage
               PROVE  /\ k \in images'
                      /\ \A q \in DOMAIN products' : products'[q].image # k
                      /\ \A e \in Cooks \ {d} : Cooking(e)' =>
                            \A q \in DOMAIN bench'[e].products :
                                bench'[e].products[q].image # k
    BY DEF NewImagesAreStored
  <2>1. /\ d # c /\ k \in images /\ \A q \in DOMAIN products : products[q].image # k
        /\ \A e \in Cooks \ {d} : Cooking(e) =>
              \A q \in DOMAIN bench[e].products : bench[e].products[q].image # k
    BY <1>8 DEF MenuIInv, NewImagesAreStored
  <2>2. \A q \in DOMAIN r.products : r.products[q].image # k
    BY <2>1, <1>1, <1>2
  <2> QED
    BY <2>1, <2>2, <1>2, <1>8, <1>20
<1>23. OldImagesWereRead'
  BY <1>6, <1>8 DEF MenuIInv, OldImagesWereRead
<1>24. MissingImagesAreReplaced'
  <2> SUFFICES ASSUME ~late'
               PROVE  /\ \A p \in DOMAIN products' :
                            products'[p].image \in images \cup {NoImage} \/ BeingChanged(p)'
                      /\ \A d \in Cooks : Cooking(d)' /\ ~bench'[d].touched =>
                            \A p \in DOMAIN bench'[d].products :
                                \/ bench'[d].products[p].image \in images \cup {NoImage}
                                \/ BeingChanged(p)'
                                \/ p \notin DOMAIN products'
                                \/ products'[p].image # bench'[d].products[p].image
    BY <1>2 DEF MissingImagesAreReplaced
  <2>1. /\ ~late /\ r.read = CurrentRows(products, DOMAIN r.products \cup r.dropped)
        /\ \A p \in DOMAIN products' :
              \/ p \in DOMAIN r.products /\ products'[p].image = r.products[p].image
              \/ p \in DOMAIN products /\ p \notin WorkedOn(r) /\ products'[p] = products[p]
    <3>1. ~late /\ r.read = CurrentRows(products, DOMAIN r.products \cup r.dropped)
      BY <1>6 DEF IsCurrent
    <3>2. \A p \in DOMAIN products' :
             \/ p \in DOMAIN r.products /\ products'[p].image = r.products[p].image
             \/ p \in DOMAIN products /\ p \notin WorkedOn(r) /\ products'[p] = products[p]
      BY <1>5 DEF WorkedOn
    <3> QED
      BY <3>1, <3>2
  <2>2. \A p : p \in DOMAIN r.read => p \in DOMAIN products /\ r.read[p] = products[p]
    <3>1. PICK R : R = DOMAIN r.products \cup r.dropped
      OBVIOUS
    <3>2. r.read = CurrentRows(products, R)
      BY <2>1, <3>1
    <3> QED
      BY <3>2 DEF CurrentRows
  \* An image that was kept is the one of the row.
  <2>3. ~r.touched => \A p \in DOMAIN r.products : r.products[p].image # NoImage =>
           p \in DOMAIN products /\ products[p].image = r.products[p].image
    <3>1. ~late
      BY <2>1
    <3> QED
      BY <2>2, <3>1, <1>1, <1>2 DEF MenuIInv, OldImagesWereRead
  <2>4. r.touched => \A p \in DOMAIN r.products : r.products[p].image # NoImage =>
           /\ r.products[p].image \in images
           /\ \A q \in DOMAIN products : products[q].image # r.products[p].image
           /\ \A d \in Cooks \ {c} : Cooking(d) =>
                 \A q \in DOMAIN bench[d].products :
                     bench[d].products[q].image # r.products[p].image
    BY <1>1, <1>2 DEF MenuIInv, NewImagesAreStored
  <2>5. \A p : BeingChanged(p) => BeingChanged(p)' \/ (r.touched /\ p \in WorkedOn(r))
    BY <1>1, <1>8 DEF BeingChanged, WorkedOn
  <2>6. r.touched \in BOOLEAN
    BY <1>2 DEF Fits
  <2>7. /\ \A p \in DOMAIN products :
              products[p].image \in images \cup {NoImage} \/ BeingChanged(p)
        /\ \A d \in Cooks : Cooking(d) /\ ~bench[d].touched =>
              \A p \in DOMAIN bench[d].products :
                  \/ bench[d].products[p].image \in images \cup {NoImage}
                  \/ BeingChanged(p)
                  \/ p \notin DOMAIN products
                  \/ products[p].image # bench[d].products[p].image
    BY <2>1 DEF MenuIInv, MissingImagesAreReplaced
  <2>8. \A p \in DOMAIN products' :
           products'[p].image \in images \cup {NoImage} \/ BeingChanged(p)'
    <3> TAKE p \in DOMAIN products'
    <3>1. CASE p \in DOMAIN r.products
      <4>1. products'[p].image = r.products[p].image
        BY <3>1, <2>1 DEF WorkedOn
      <4>2. CASE r.touched
        BY <3>1, <4>1, <4>2, <2>4
      <4>3. CASE ~r.touched
        BY <3>1, <4>1, <4>3, <2>3, <2>5, <2>7
      <4> QED
        BY <4>2, <4>3
    <3>2. CASE p \notin DOMAIN r.products
      BY <3>2, <2>1, <2>5, <2>7
    <3> QED
      BY <3>1, <3>2
  <2>9. ASSUME NEW d \in Cooks, Cooking(d)', ~bench'[d].touched,
               NEW p \in DOMAIN bench'[d].products
        PROVE  \/ bench'[d].products[p].image \in images \cup {NoImage}
               \/ BeingChanged(p)'
               \/ p \notin DOMAIN products'
               \/ products'[p].image # bench'[d].products[p].image
    <3>1. d # c /\ Cooking(d) /\ bench'[d] = bench[d]
      BY <2>9, <1>8
    <3>2. PICK k : k = bench[d].products[p].image
      OBVIOUS
    <3> SUFFICES ASSUME k \notin images, k # NoImage, p \in DOMAIN products',
                        products'[p].image = k
                 PROVE  BeingChanged(p)'
      BY <3>1, <3>2
    <3>3. ~r.touched \/ p \notin WorkedOn(r)
      <4>1. p \notin r.dropped
        BY <1>5
      <4>2. p \in DOMAIN r.products => products'[p].image = r.products[p].image
        BY <2>1 DEF WorkedOn
      <4> QED
        BY <4>1, <4>2, <3>1, <3>2, <2>9, <2>4 DEF WorkedOn
    <3>4. p \in DOMAIN products /\ products[p].image = k
      BY <3>3, <2>1, <2>3, <2>6 DEF WorkedOn
    <3>5. BeingChanged(p)
      BY <3>1, <3>2, <3>4, <2>7, <2>9
    <3> QED
      BY <3>3, <3>5, <2>5
  <2> QED
    BY <2>8, <2>9
<1>25. AssignedAsAsked'
  <2>1. \A pg \in assigned' : pg[1] \in DOMAIN products' /\ pg[2] \in DOMAIN groups'
    <3> TAKE pg \in assigned'
    <3>1. CASE pg \in r.pairs
      <4>1. pg[1] \in r.assignees /\ pg[2] \in DOMAIN groups /\ pg[1] \in DOMAIN products
        BY <3>1, <1>7, <1>10
      <4> QED
        BY <4>1, <1>5, <1>6, <1>14
    <3>2. CASE pg \in assigned \ r.cleared
      BY <3>2, <1>5, <1>6, <1>13, <1>14
    <3> QED
      BY <3>1, <3>2, <1>14
  <2>2. ASSUME ~late', NEW p \in ProductIds
        PROVE  GroupsOf(p)' = asked'[p]
    <3>1. GroupsOf(p) = asked[p] /\ \A o \in r.assignees : r.cleared = {<<o, g>> : g \in GroupsOf(o)}
      BY <2>2, <1>6, <1>13 DEF IsCurrent
    <3>2. GroupsOf(p)' = {g \in GroupIds : <<p, g>> \in assigned'}
      BY DEF GroupsOf
    <3>3. CASE p \in r.assignees
      <4>1. asked'[p] = {pg[2] : pg \in r.pairs}
        BY <3>3, <1>7
      <4>2. \A pg \in r.pairs : pg = <<p, pg[2]>> /\ pg[2] \in GroupIds
        BY <3>3, <1>10, <1>13
      <4>3. \A g \in GroupIds : <<p, g>> \in assigned => <<p, g>> \in r.cleared
        BY <3>1, <3>3 DEF GroupsOf
      <4>4. \A g \in GroupIds : <<p, g>> \in assigned' <=> <<p, g>> \in r.pairs
        BY <4>3, <3>3, <1>7, <1>10 DEF AssignedAfter
      <4>5. ASSUME NEW g
            PROVE  g \in {pg[2] : pg \in r.pairs} <=> g \in GroupIds /\ <<p, g>> \in r.pairs
        BY <4>2
      <4> QED
        BY <4>1, <4>4, <4>5, <3>2
    <3>4. CASE p \notin r.assignees /\ p \in r.dropped
      <4>1. asked'[p] = {}
        BY <3>4, <1>7
      <4>2. \A g : <<p, g>> \notin assigned'
        BY <3>4, <1>14
      <4> QED
        BY <4>1, <4>2, <3>2
    <3>5. CASE p \notin r.assignees /\ p \notin r.dropped
      <4>1. asked'[p] = asked[p]
        BY <3>5, <1>7
      <4>2. \A g \in GroupIds : <<p, g>> \in assigned' <=> <<p, g>> \in assigned
        BY <3>5, <1>7, <1>10 DEF AssignedAfter
      <4>3. GroupsOf(p)' = GroupsOf(p)
        BY <4>2, <3>2 DEF GroupsOf
      <4> QED
        BY <4>1, <4>3, <3>1
    <3> QED
      BY <3>3, <3>4, <3>5
  <2> QED
    BY <2>1, <2>2 DEF AssignedAsAsked
<1> QED
  BY <1>15, <1>17, <1>18, <1>19, <1>21, <1>22, <1>23, <1>24, <1>25 DEF MenuIInv

-----------------------------------------------------------------------------
(* The SELECT of save() *)

\* Only what the request read is replaced.
ReadAgain(w, r, i, p, g) ==
    /\ DOMAIN w = DOMAIN Writing /\ w.at = "write"
    /\ w.readIngredients = i /\ w.read = p /\ w.readGroups = g
    /\ w.ingredients = r.ingredients /\ w.created = r.created
    /\ w.products = r.products /\ w.dropped = r.dropped /\ w.recipe = r.recipe
    /\ w.groups = r.groups /\ w.cleared = r.cleared /\ w.assignees = r.assignees
    /\ w.pairs = r.pairs /\ w.touched = r.touched

LEMMA MenuSelected ==
    ASSUME NEW r, DOMAIN r = DOMAIN Writing, NEW i, NEW p, NEW g, NEW w,
           w = [r EXCEPT !.at = "write", !.readIngredients = i, !.read = p, !.readGroups = g]
    PROVE  ReadAgain(w, r, i, p, g)
<1>1. DOMAIN r = {"at", "ingredients", "readIngredients", "created", "products", "read",
                  "dropped", "recipe", "groups", "readGroups", "cleared", "assignees",
                  "pairs", "touched"}
  BY DEF Writing
<1> QED
  BY <1>1 DEF ReadAgain

LEMMA MenuSelectPreserves ==
    ASSUME MenuIInv, NEW c \in Cooks, SelectMenu(c)
    PROVE  MenuIInv'
<1>1. PICK r : r = bench[c]
  OBVIOUS
<1>2. r.at = "select" /\ Cooking(c)
  BY <1>1 DEF SelectMenu, Cooking, AtBench
<1>3. Fits(r)
  BY <1>1, <1>2 DEF MenuIInv, CookingMakesSense
<1>4. PICK i, p, g : /\ i = CurrentRows(ingredients, DOMAIN r.ingredients)
                     /\ p = CurrentRows(products, DOMAIN r.products)
                     /\ g = CurrentRows(groups, DOMAIN r.groups)
  OBVIOUS
<1>5. PICK w : w = [r EXCEPT !.at = "write", !.readIngredients = i, !.read = p,
                             !.readGroups = g]
  OBVIOUS
<1>6. /\ DOMAIN w = DOMAIN Writing /\ w.at = "write"
      /\ w.readIngredients = i /\ w.read = p /\ w.readGroups = g
      /\ w.ingredients = r.ingredients /\ w.created = r.created
      /\ w.products = r.products /\ w.dropped = r.dropped /\ w.recipe = r.recipe
      /\ w.groups = r.groups /\ w.cleared = r.cleared /\ w.assignees = r.assignees
      /\ w.pairs = r.pairs /\ w.touched = r.touched
  <2>1. DOMAIN r = DOMAIN Writing
    BY <1>3 DEF Fits
  <2>2. ReadAgain(w, r, i, p, g)
    BY <2>1, <1>5, MenuSelected
  <2> QED
    BY <2>2 DEF ReadAgain
<1>7. /\ bench' = [bench EXCEPT ![c] = w] /\ late' = (late \/ ~IsCurrent(r))
      /\ menu' = menu /\ ingredients' = ingredients /\ levels' = levels
      /\ products' = products /\ recipes' = recipes /\ groups' = groups
      /\ assigned' = assigned /\ images' = images /\ asked' = asked
      /\ mingled' = mingled /\ resent' = resent
  BY <1>1, <1>4, <1>5 DEF SelectMenu
<1>8. /\ bench'[c] = w /\ Cooking(c)' /\ DOMAIN bench' = Cooks
      /\ \A d \in Cooks \ {c} : bench'[d] = bench[d]
      /\ \A d \in Cooks : Cooking(d)' <=> Cooking(d)
      /\ \A d \in Cooks : Cooking(d) =>
            /\ bench'[d].products = bench[d].products /\ bench'[d].dropped = bench[d].dropped
            /\ bench'[d].touched = bench[d].touched
  <2>1. bench'[c] = w /\ DOMAIN bench' = Cooks
    BY <1>7 DEF MenuIInv, MenuTypes
  <2>2. \A d \in Cooks \ {c} : bench'[d] = bench[d]
    BY <1>7 DEF MenuIInv, MenuTypes
  <2>3. w # AtBench
    BY <1>6 DEF AtBench
  <2> QED
    BY <2>1, <2>2, <2>3, <1>1, <1>2, <1>6 DEF Cooking
<1>9. late' \in BOOLEAN /\ (~late' => ~late)
  BY <1>7 DEF MenuIInv, MenuTypes
<1>10. MenuTypes'
  BY <1>7, <1>8, <1>9 DEF MenuIInv, MenuTypes
<1>11. LevelsFollowIngredients' /\ InventoryConfigIsValid'
  BY <1>7 DEF MenuIInv, LevelsFollowIngredients, InventoryConfigIsValid
<1>12. Fits(w)
  <2>1. DOMAIN w.readIngredients \in SUBSET DOMAIN ingredients
    BY <1>4, <1>6 DEF CurrentRows
  <2> QED
    BY <2>1, <1>3, <1>6 DEF Fits, IngredientsMakeSense, ProductsMakeSense, GroupsMakeSense,
        AssignmentMakesSense, WorkedOn
<1>13. CookingMakesSense'
  <2> SUFFICES ASSUME NEW d \in Cooks, bench'[d] # AtBench
               PROVE  Fits(bench[d])'
    BY DEF CookingMakesSense, Cooking
  <2>1. PICK x : x = bench'[d] /\ Fits(x)
    BY <1>8, <1>12 DEF MenuIInv, CookingMakesSense, Cooking
  <2> QED
    BY <2>1, <1>7 DEF Fits, IngredientsMakeSense, ProductsMakeSense, GroupsMakeSense,
        AssignmentMakesSense, WorkedOn
<1>14. ImagesAreTheirOwn'
  BY <1>7, <1>8 DEF MenuIInv, ImagesAreTheirOwn
<1>15. NewImagesAreStored'
  <2> SUFFICES ASSUME NEW d \in Cooks, Cooking(d)', bench'[d].touched,
                      NEW o \in DOMAIN bench'[d].products, NEW k,
                      k = bench'[d].products[o].image, k # NoImage
               PROVE  /\ k \in images'
                      /\ \A q \in DOMAIN products' : products'[q].image # k
                      /\ \A e \in Cooks \ {d} : Cooking(e)' =>
                            \A q \in DOMAIN bench'[e].products :
                                bench'[e].products[q].image # k
    BY DEF NewImagesAreStored
  <2>1. /\ k \in images /\ \A q \in DOMAIN products : products[q].image # k
        /\ \A e \in Cooks \ {d} : Cooking(e) =>
              \A q \in DOMAIN bench[e].products : bench[e].products[q].image # k
    BY <1>8 DEF MenuIInv, NewImagesAreStored
  <2> QED
    BY <2>1, <1>7, <1>8
\* What was read before is read again, unless it is no longer so.
<1>16. OldImagesWereRead'
  <2> SUFFICES ASSUME ~late', NEW d \in Cooks, Cooking(d), ~bench[d].touched,
                      NEW o \in DOMAIN bench[d].products, bench[d].products[o].image # NoImage
               PROVE  /\ o \in DOMAIN bench'[d].read
                      /\ bench'[d].read[o].image = bench[d].products[o].image
    BY <1>8 DEF OldImagesWereRead
  <2>1. /\ o \in DOMAIN bench[d].read
        /\ bench[d].read[o].image = bench[d].products[o].image
    BY <1>9 DEF MenuIInv, OldImagesWereRead
  <2>2. CASE d # c
    BY <2>1, <2>2, <1>8
  <2>3. CASE d = c
    <3>1. r.read = CurrentRows(products, DOMAIN r.products \cup r.dropped)
      BY <1>7 DEF IsCurrent
    <3>2. o \in DOMAIN p /\ p[o] = r.read[o]
      BY <3>1, <2>1, <2>3, <1>1, <1>4 DEF CurrentRows
    <3> QED
      BY <3>2, <2>1, <2>3, <1>1, <1>6, <1>8
  <2> QED
    BY <2>2, <2>3
<1>17. MissingImagesAreReplaced'
  <2>1. \A o : BeingChanged(o) <=> BeingChanged(o)'
    BY <1>8 DEF BeingChanged, WorkedOn
  <2> QED
    BY <2>1, <1>7, <1>8, <1>9 DEF MenuIInv, MissingImagesAreReplaced
<1>18. AssignedAsAsked'
  BY <1>7, <1>9 DEF MenuIInv, AssignedAsAsked, GroupsOf
<1> QED
  BY <1>10, <1>11, <1>13, <1>14, <1>15, <1>16, <1>17, <1>18 DEF MenuIInv

-----------------------------------------------------------------------------
(* A request that dies *)

LEMMA MenuAbandonPreserves ==
    ASSUME MenuIInv, NEW c \in Cooks, AbandonMenu(c)
    PROVE  MenuIInv'
<1>1. /\ Cooking(c) /\ late' = (late \/ bench[c].touched)
      /\ bench' = [bench EXCEPT ![c] = AtBench] /\ menu' = menu
      /\ ingredients' = ingredients /\ levels' = levels /\ products' = products
      /\ recipes' = recipes /\ groups' = groups /\ assigned' = assigned
      /\ images' = images /\ asked' = asked /\ resent' = resent /\ mingled' = mingled
  BY DEF AbandonMenu, Cooking
<1>2. /\ \A d \in Cooks : Cooking(d)' => d # c /\ Cooking(d) /\ bench'[d] = bench[d]
      /\ \A d \in Cooks \ {c} : Cooking(d) => Cooking(d)' /\ bench'[d] = bench[d]
      /\ DOMAIN bench' = Cooks
  BY <1>1 DEF MenuIInv, MenuTypes, Cooking
<1>3. bench[c].touched \in BOOLEAN
  BY <1>1 DEF MenuIInv, CookingMakesSense, Fits
<1>4. MenuTypes'
  BY <1>1, <1>2, <1>3 DEF MenuIInv, MenuTypes
<1>5. LevelsFollowIngredients' /\ InventoryConfigIsValid'
  BY <1>1 DEF MenuIInv, LevelsFollowIngredients, InventoryConfigIsValid
<1>6. CookingMakesSense'
  <2> SUFFICES ASSUME NEW d \in Cooks, bench'[d] # AtBench
               PROVE  Fits(bench[d])'
    BY DEF CookingMakesSense, Cooking
  <2>1. PICK x : x = bench'[d] /\ Fits(x)
    BY <1>2 DEF MenuIInv, CookingMakesSense, Cooking
  <2>2. ingredients' = ingredients /\ groups' = groups /\ resent' = resent
    BY <1>1
  <2> QED
    BY <2>1, <2>2 DEF Fits, IngredientsMakeSense, ProductsMakeSense, GroupsMakeSense,
        AssignmentMakesSense, WorkedOn
<1>7. ImagesAreTheirOwn'
  BY <1>1, <1>2 DEF MenuIInv, ImagesAreTheirOwn
<1>8. NewImagesAreStored'
  BY <1>1, <1>2 DEF MenuIInv, NewImagesAreStored
<1>9. OldImagesWereRead'
  <2>1. ~late' => ~late
    BY <1>1, <1>3
  <2> QED
    BY <2>1, <1>2 DEF MenuIInv, OldImagesWereRead
<1>10. MissingImagesAreReplaced'
  <2> SUFFICES ASSUME ~late'
               PROVE  MissingImagesAreReplaced'
    BY DEF MissingImagesAreReplaced
  <2>1. ~late /\ ~bench[c].touched
    BY <1>1, <1>3
  <2>2. \A p : BeingChanged(p) => BeingChanged(p)'
    BY <2>1, <1>2 DEF BeingChanged, WorkedOn
  <2> QED
    BY <2>1, <2>2, <1>1, <1>2 DEF MenuIInv, MissingImagesAreReplaced
<1>11. AssignedAsAsked'
  BY <1>1, <1>3 DEF MenuIInv, AssignedAsAsked, GroupsOf
<1> QED
  BY <1>4, <1>5, <1>6, <1>7, <1>8, <1>9, <1>10, <1>11 DEF MenuIInv

-----------------------------------------------------------------------------
LEMMA MenuInitialized ==
    ASSUME MenuInit
    PROVE  MenuIInv
<1>1. /\ menu \in Menus /\ ingredients = Nothing /\ levels = Nothing /\ products = Nothing
      /\ recipes = {} /\ groups = Nothing /\ assigned = {} /\ images = {}
      /\ bench = [c \in Cooks |-> AtBench] /\ asked = [p \in ProductIds |-> {}]
      /\ mingled = {} /\ resent = FALSE /\ late = FALSE
  BY DEF MenuInit
<1>2. \A c \in Cooks : ~Cooking(c)
  BY <1>1 DEF Cooking
<1>3. DOMAIN products = {} /\ DOMAIN groups = {} /\ DOMAIN ingredients = {} /\ DOMAIN levels = {}
  BY <1>1, MenuNothingFits
<1>4. MenuTypes
  BY <1>1, MenuNothingFits DEF MenuTypes
<1>5. LevelsFollowIngredients /\ InventoryConfigIsValid /\ CookingMakesSense
  BY <1>1, <1>2, <1>3 DEF LevelsFollowIngredients, InventoryConfigIsValid, CookingMakesSense
<1>6. ImagesAreTheirOwn /\ NewImagesAreStored /\ OldImagesWereRead
  BY <1>2, <1>3 DEF ImagesAreTheirOwn, NewImagesAreStored, OldImagesWereRead
<1>7. MissingImagesAreReplaced /\ AssignedAsAsked
  BY <1>1, <1>2, <1>3 DEF MissingImagesAreReplaced, AssignedAsAsked, GroupsOf
<1> QED
  BY <1>4, <1>5, <1>6, <1>7 DEF MenuIInv

LEMMA MenuIngredientCommands ==
    ASSUME MenuIInv, NEW c \in Cooks, IngredientCommand(c)
    PROVE  MenuIInv'
<1>1. CASE CreateIngredient(c)
  <2>1. PICK q \in CreateIngredientRequest :
           Prepare(c, [WriteIngredient(q.id, NewIngredient(q)) EXCEPT !.created = {q.id}])
    BY <1>1 DEF CreateIngredient
  <2>2. PICK i, u : i = q.id /\ u = NewIngredient(q)
    OBVIOUS
  <2>3. i \in IngredientIds /\ u \in UnitIds /\ images' = images
    BY <1>1, <2>2, MenuBodies DEF CreateIngredientRequest, NewIngredient, CreateIngredient
  <2>4. PICK w : w = [WriteIngredient(i, u) EXCEPT !.created = {i}]
    OBVIOUS
  <2>5. Prepare(c, w)
    BY <2>1, <2>2, <2>4
  <2>6. PICK one : one = {i}
    OBVIOUS
  <2>7. /\ w.at = "select" /\ w.touched = FALSE /\ w.products = Nothing /\ w.dropped = {}
        /\ w.recipe = {} /\ w.groups = Nothing /\ w.cleared = {} /\ w.assignees = {}
        /\ w.pairs = {} /\ w.ingredients = OneRow(i, u) /\ w.created = one
        /\ w.readIngredients = CurrentRows(ingredients, {i}) /\ DOMAIN w = DOMAIN Writing
        /\ one \in SUBSET {i} /\ one # {}
    BY <2>4, <2>6 DEF WriteIngredient, Selecting, Writing
  <2> QED
    BY <2>3, <2>5, <2>7, MenuIngredientSubmits
<1>2. CASE UpdateIngredient(c)
  <2>1. PICK i \in DOMAIN ingredients :
           Prepare(c, WriteIngredient(i, ingredients[i]))
    BY <1>2 DEF UpdateIngredient
  <2>2. PICK u, none : u = ingredients[i] /\ none = {}
    OBVIOUS
  <2>3. i \in IngredientIds /\ u \in UnitIds /\ images' = images
    BY <1>2, <2>2 DEF MenuIInv, MenuTypes, UpdateIngredient
  <2>4. PICK w : w = WriteIngredient(i, u)
    OBVIOUS
  <2>5. Prepare(c, w)
    BY <2>1, <2>2, <2>4
  <2>6. /\ w.at = "select" /\ w.touched = FALSE /\ w.products = Nothing /\ w.dropped = {}
        /\ w.recipe = {} /\ w.groups = Nothing /\ w.cleared = {} /\ w.assignees = {}
        /\ w.pairs = {} /\ w.ingredients = OneRow(i, u) /\ w.created = none
        /\ w.readIngredients = CurrentRows(ingredients, {i}) /\ DOMAIN w = DOMAIN Writing
    BY <2>2, <2>4 DEF WriteIngredient, Selecting, Writing
  <2>7. none \in SUBSET {i}
    BY <2>2
  <2> QED
    BY <2>2, <2>3, <2>5, <2>6, <2>7, MenuIngredientSubmits
<1> QED
  BY <1>1, <1>2 DEF IngredientCommand

LEMMA MenuOptionGroupCommands ==
    ASSUME MenuIInv, NEW c \in Cooks, OptionGroupCommand(c)
    PROVE  MenuIInv'
<1>1. images' = images
  BY DEF OptionGroupCommand, CreateOptionGroup, UpdateOptionGroup, DeactivateOptionGroup
<1>2. PICK g \in GroupIds, active \in BOOLEAN : Prepare(c, WriteGroup(g, active))
  <2>1. /\ groups \in [DOMAIN groups -> BOOLEAN] /\ DOMAIN groups \in SUBSET GroupIds
    BY DEF MenuIInv, MenuTypes
  <2>2. CASE CreateOptionGroup(c)
    BY <2>2, MenuBodies DEF CreateOptionGroup, CreateOptionGroupRequest, NewOptionGroup
  <2>3. CASE UpdateOptionGroup(c)
    BY <2>1, <2>3 DEF UpdateOptionGroup
  <2>4. CASE DeactivateOptionGroup(c)
    BY <2>1, <2>4 DEF DeactivateOptionGroup, Deactivated
  <2> QED
    BY <2>2, <2>3, <2>4 DEF OptionGroupCommand
<1> QED
  BY <1>1, <1>2, MenuGroupSubmits

LEMMA MenuStepPreserves ==
    ASSUME MenuIInv, NEW c \in Cooks,
           \/ IngredientCommand(c) \/ ProductCommand(c) \/ OptionGroupCommand(c)
           \/ SaveProductRecipe(c) \/ AssignProductOptionGroups(c)
           \/ SelectMenu(c) \/ CommitMenu(c) \/ AbandonMenu(c)
    PROVE  MenuIInv'
<1>1. ProductCommand(c) => MenuIInv'
  BY MenuCreateProduct, MenuUpdateProduct, MenuDeleteProduct DEF ProductCommand
<1> QED
  BY <1>1, MenuIngredientCommands, MenuOptionGroupCommands, MenuSaveProductRecipe,
     MenuAssignmentSubmits, MenuSelectPreserves, MenuCommitPreserves, MenuAbandonPreserves

LEMMA MenuStutterPreserves ==
    ASSUME MenuIInv, UNCHANGED menuVars
    PROVE  MenuIInv'
<1>1. /\ menu' = menu /\ ingredients' = ingredients /\ levels' = levels
      /\ products' = products /\ recipes' = recipes /\ groups' = groups
      /\ assigned' = assigned /\ images' = images /\ bench' = bench /\ asked' = asked
      /\ mingled' = mingled /\ resent' = resent /\ late' = late
  BY DEF menuVars
<1>2. MenuTypes' /\ LevelsFollowIngredients' /\ InventoryConfigIsValid'
  BY <1>1 DEF MenuIInv, MenuTypes, LevelsFollowIngredients, InventoryConfigIsValid
<1>3. CookingMakesSense'
  <2> SUFFICES ASSUME NEW d \in Cooks, bench'[d] # AtBench
               PROVE  Fits(bench[d])'
    BY DEF CookingMakesSense, Cooking
  <2>1. Fits(bench[d])
    BY <1>1 DEF MenuIInv, CookingMakesSense, Cooking
  <2> QED
    BY <1>1, <2>1 DEF Fits, IngredientsMakeSense, ProductsMakeSense, GroupsMakeSense,
        AssignmentMakesSense, WorkedOn
<1>4. ImagesAreTheirOwn' /\ NewImagesAreStored' /\ OldImagesWereRead'
  BY <1>1 DEF MenuIInv, ImagesAreTheirOwn, NewImagesAreStored, OldImagesWereRead, Cooking
<1>5. MissingImagesAreReplaced' /\ AssignedAsAsked'
  BY <1>1 DEF MenuIInv, MissingImagesAreReplaced, AssignedAsAsked, BeingChanged, Cooking,
      WorkedOn, GroupsOf
<1> QED
  BY <1>2, <1>3, <1>4, <1>5 DEF MenuIInv

\* MenuIInv holds in every reachable state of the ingredients, products and groups
\* (the requests of contexts/inventory/ingredient and contexts/menu).
THEOREM MenuInvariance == MenuSpec => []MenuIInv
<1>1. MenuInit => MenuIInv
  BY MenuInitialized
<1>2. MenuIInv /\ [MenuNext]_menuVars => MenuIInv'
  BY MenuStepPreserves, MenuStutterPreserves DEF MenuNext
<1> QED
  BY <1>1, <1>2, PTL DEF MenuSpec

\* The committed rows, the storage and the history have their types.
THEOREM MenuTypeCorrect == MenuSpec => []MenuTypeOK
<1>1. MenuIInv => MenuTypeOK
  BY DEF MenuIInv, MenuTypes, MenuTypeOK, IngredientRow, OptionGroupRow
<1> QED
  BY <1>1, MenuInvariance, PTL

\* Ingredients and stock levels are created together, and no edit or overlap of edits
\* separates their units (CreateInventoryLevelOnIngredientCreated, Ingredient.update).
THEOREM MenuLevelsFollow == MenuSpec => []LevelsFollowIngredients
<1>1. MenuIInv => LevelsFollowIngredients
  BY DEF MenuIInv
<1> QED
  BY <1>1, MenuInvariance, PTL

\* A product whose row holds what its last request wanted says how it is deducted, its
\* ingredient exists whoever wrote its columns, and its image is in the storage when no
\* request is working on it (ensureValidInventoryConfig, the image adapters).
THEOREM MenuProductsAreServed == MenuSpec => []ProductsCanBeServed
<1>1. MenuIInv => ProductsCanBeServed
  BY DEF MenuIInv, MissingImagesAreReplaced, ProductsCanBeServed, ProductImagesAreStored,
      BeingChanged, WorkedOn, Cooking
<1> QED
  BY <1>1, MenuInvariance, PTL

\* A product has the groups last assigned to it, of products and groups that exist
\* (AssignProductOptionGroups).
THEOREM MenuAssignmentsLast == MenuSpec => []AssignmentIsTheLastOneAsked
<1>1. MenuIInv => AssignmentIsTheLastOneAsked
  BY DEF MenuIInv, MenuTypes, AssignedAsAsked, AssignmentIsTheLastOneAsked
<1> QED
  BY <1>1, MenuInvariance, PTL

-------------------------------------------------------------------------------
(* Users, employees and refresh tokens: module Accounts. *)

(* What requests still have to write *)

\* Request c has a statement at place k that saves token t.
Pending(c, k, t) == k \in DOMAIN session[c] /\ t \in DOMAIN session[c][k].tokens
PendingRow(c, k, t) == session[c][k].tokens[t]

IsList(ss) == \E S : ss \in Seq(S)

\* A row of refresh_tokens; one that names a successor was revoked.
IsToken(row) ==
    /\ row \in [userId : {row.userId}, isRevoked : BOOLEAN, isExpired : {row.isExpired},
                replacedByJti : {row.replacedByJti}]
    /\ row.replacedByJti # NoToken => row.isRevoked

\* A row that is not revoked is the first of its token: the table has none yet, and
\* no other statement saves one.
IsFirst(c, k, t) ==
    /\ t \notin DOMAIN tokens
    /\ \A d \in IamClerks, n \in Nat : Pending(d, n, t) => d = c /\ n = k

\* The strengthening that every step preserves.
TokenInv ==
    /\ topic \in Topics
    /\ session = [c \in IamClerks |-> session[c]]
    /\ \A c \in IamClerks : IsList(session[c])
    /\ \A t \in DOMAIN tokens : IsToken(tokens[t])
    /\ \A c \in IamClerks, k \in Nat : \A t :
          Pending(c, k, t) => /\ IsToken(PendingRow(c, k, t))
                              /\ PendingRow(c, k, t).isRevoked \/ IsFirst(c, k, t)

-----------------------------------------------------------------------------
(* The statements of requests *)

\* Tokens are changed by no other method.
LEMMA TokenMethods ==
    /\ \A u : IsToken(CreateToken(u)) /\ ~CreateToken(u).isRevoked
    /\ \A row : IsToken(row) => IsToken(Revoke(row)) /\ Revoke(row).isRevoked
    /\ \A row, next : IsToken(row) => /\ IsToken(MarkAsReplaced(row, next))
                                      /\ MarkAsReplaced(row, next).isRevoked
<1>1. \A u : IsToken(CreateToken(u)) /\ ~CreateToken(u).isRevoked
  BY DEF IsToken, CreateToken
<1>2. ASSUME NEW row, NEW next, IsToken(row)
      PROVE  /\ IsToken(Revoke(row)) /\ Revoke(row).isRevoked
             /\ IsToken(MarkAsReplaced(row, next)) /\ MarkAsReplaced(row, next).isRevoked
  <2>1. /\ Revoke(row) \in [userId : {row.userId}, isRevoked : BOOLEAN,
                            isExpired : {row.isExpired}, replacedByJti : {row.replacedByJti}]
        /\ Revoke(row).isRevoked
    BY <1>2 DEF IsToken, Revoke
  <2>2. /\ MarkAsReplaced(row, next) \in [userId : {row.userId}, isRevoked : BOOLEAN,
                            isExpired : {row.isExpired}, replacedByJti : {next}]
        /\ MarkAsReplaced(row, next).isRevoked
    BY <1>2 DEF IsToken, Revoke, MarkAsReplaced
  <2> QED
    BY <2>1, <2>2 DEF IsToken
<1> QED
  BY <1>1, <1>2

LEMMA StatementTokens ==
    /\ Statement.tokens = NoRows
    /\ \A u, row : SaveUser(u, row).tokens = NoRows
    /\ \A e, row : SaveEmployee(e, row).tokens = NoRows
    /\ \A t, row : SaveToken(t, row).tokens = OneRow(t, row)
  BY DEF Statement, SaveUser, SaveEmployee, SaveToken

LEMMA RowsOfTables ==
    /\ DOMAIN NoRows = {}
    /\ \A id, row : DOMAIN OneRow(id, row) = {id} /\ OneRow(id, row)[id] = row
  BY DEF NoRows, OneRow

LEMMA StatementLists ==
    /\ IsList(<< >>) /\ DOMAIN << >> = {}
    /\ \A s : IsList(<<s>>) /\ DOMAIN <<s>> = {1} /\ <<s>>[1] = s
    /\ \A s, r : /\ IsList(<<s, r>>) /\ DOMAIN <<s, r>> = {1, 2}
                 /\ <<s, r>>[1] = s /\ <<s, r>>[2] = r
<1>1. IsList(<< >>)
  <2>1. << >> \in Seq({})
    OBVIOUS
  <2> QED
    BY <2>1 DEF IsList
<1>2. ASSUME NEW s
      PROVE  IsList(<<s>>) /\ DOMAIN <<s>> = {1} /\ <<s>>[1] = s
  <2>1. <<s>> \in Seq({s})
    OBVIOUS
  <2>2. IsList(<<s>>)
    BY <2>1 DEF IsList
  <2>3. DOMAIN <<s>> = {1} /\ <<s>>[1] = s
    OBVIOUS
  <2> QED
    BY <2>2, <2>3
<1>3. ASSUME NEW s, NEW r
      PROVE  /\ IsList(<<s, r>>) /\ DOMAIN <<s, r>> = {1, 2}
             /\ <<s, r>>[1] = s /\ <<s, r>>[2] = r
  <2>1. <<s, r>> \in Seq({s, r})
    OBVIOUS
  <2>2. IsList(<<s, r>>)
    BY <2>1 DEF IsList
  <2>3. DOMAIN <<s, r>> = {1, 2} /\ <<s, r>>[1] = s /\ <<s, r>>[2] = r
    OBVIOUS
  <2> QED
    BY <2>2, <2>3
<1> QED
  BY <1>1, <1>2, <1>3

\* What is left of a request after its first statement.
LEMMA Tails ==
    ASSUME NEW ss, IsList(ss), ss # << >>
    PROVE  /\ IsList(Tail(ss)) /\ 1 \in DOMAIN ss /\ Head(ss) = ss[1]
           /\ \A k \in Nat : k \in DOMAIN Tail(ss) =>
                 k + 1 \in DOMAIN ss /\ k + 1 # 1 /\ Tail(ss)[k] = ss[k + 1]
<1>1. PICK S : ss \in Seq(S)
  BY DEF IsList
<1>2. Tail(ss) \in Seq(S) /\ Len(ss) > 0
  BY <1>1
<1>3. \A k \in Nat : k \in DOMAIN Tail(ss) =>
          k + 1 \in DOMAIN ss /\ k + 1 # 1 /\ Tail(ss)[k] = ss[k + 1]
  BY <1>1, <1>2
<1>4. 1 \in DOMAIN ss /\ Head(ss) = ss[1]
  BY <1>1, <1>2
<1> QED
  BY <1>2, <1>3, <1>4 DEF IsList

\* A request may begin when the rows it will save are revoked rows of tokens that
\* exist, or first rows of tokens that nobody has.
MayBegin(ss) ==
    \A k \in DOMAIN ss : \A t \in DOMAIN ss[k].tokens :
        /\ IsToken(ss[k].tokens[t])
        /\ \/ ss[k].tokens[t].isRevoked /\ t \in DOMAIN tokens
           \/ /\ t \notin DOMAIN tokens
              /\ \A d \in IamClerks, n \in Nat : ~Pending(d, n, t)
              /\ \A n \in DOMAIN ss : t \in DOMAIN ss[n].tokens => n = k

LEMMA RunKeeps ==
    ASSUME TokenInv, NEW c \in IamClerks, NEW ss, IsList(ss), MayBegin(ss), Run(c, ss)
    PROVE  TokenInv'
<1>1. /\ session' = [session EXCEPT ![c] = ss] /\ session[c] = << >>
      /\ UNCHANGED <<topic, tokens>>
  BY DEF Run
<1>2. \A d \in IamClerks : session'[d] = IF d = c THEN ss ELSE session[d]
  BY <1>1 DEF TokenInv
<1>3. \A n \in Nat : \A t : ~Pending(c, n, t)
  BY <1>1, StatementLists DEF Pending
<1>4. session' = [d \in IamClerks |-> session'[d]]
  BY <1>1 DEF TokenInv
<1>5. \A d \in IamClerks : IsList(session'[d])
  BY <1>2 DEF TokenInv
<1>6. ASSUME NEW d \in IamClerks, NEW k \in Nat, NEW t, Pending(d, k, t)'
      PROVE  /\ IsToken(PendingRow(d, k, t)')
             /\ PendingRow(d, k, t)'.isRevoked \/ IsFirst(d, k, t)'
  <2>1. CASE d = c
    <3>1. k \in DOMAIN ss /\ t \in DOMAIN ss[k].tokens /\ PendingRow(d, k, t)' = ss[k].tokens[t]
      BY <1>2, <1>6, <2>1 DEF Pending, PendingRow
    <3>2. CASE ss[k].tokens[t].isRevoked /\ t \in DOMAIN tokens
      BY <3>1, <3>2 DEF MayBegin
    <3>3. CASE /\ t \notin DOMAIN tokens
               /\ \A e \in IamClerks, n \in Nat : ~Pending(e, n, t)
               /\ \A n \in DOMAIN ss : t \in DOMAIN ss[n].tokens => n = k
      <4>1. IsFirst(d, k, t)'
        BY <1>1, <1>2, <2>1, <3>3 DEF IsFirst, Pending
      <4> QED
        BY <3>1, <4>1 DEF MayBegin
    <3> QED
      BY <3>1, <3>2, <3>3 DEF MayBegin
  <2>2. CASE d # c
    <3>1. Pending(d, k, t) /\ PendingRow(d, k, t)' = PendingRow(d, k, t)
      BY <1>2, <1>6, <2>2 DEF Pending, PendingRow
    <3>2. ASSUME IsFirst(d, k, t)
          PROVE  IsFirst(d, k, t)'
      <4>1. t \notin DOMAIN tokens
        BY <3>2 DEF IsFirst
      <4>2. \A n \in DOMAIN ss : t \notin DOMAIN ss[n].tokens
        BY <3>1, <4>1 DEF MayBegin
      <4>3. \A e \in IamClerks, n \in Nat : Pending(e, n, t)' => e = d /\ n = k
        BY <1>2, <3>2, <4>2 DEF IsFirst, Pending
      <4> QED
        BY <1>1, <4>1, <4>3 DEF IsFirst
    <3> QED
      BY <3>1, <3>2 DEF TokenInv
  <2> QED
    BY <2>1, <2>2
<1> QED
  BY <1>1, <1>4, <1>5, <1>6 DEF TokenInv

\* A request that saves no token.
LEMMA QuietRunKeeps ==
    ASSUME TokenInv, NEW c \in IamClerks, NEW s, s.tokens = NoRows, Run(c, <<s>>)
    PROVE  TokenInv'
<1>1. MayBegin(<<s>>)
  BY StatementLists, RowsOfTables DEF MayBegin
<1> QED
  BY <1>1, StatementLists, RunKeeps

LEMMA UserCommandKeeps ==
    ASSUME TokenInv, NEW c \in IamClerks, UserCommand(c)
    PROVE  TokenInv'
<1>1. CASE RegisterUser(c)
  <2>1. PICK q : Run(c, <<[SaveUser(q.id, CreateUser(q.username))
                            EXCEPT !.says = OneRow(q.id, TRUE)]>>)
    BY <1>1 DEF RegisterUser
  <2>2. [SaveUser(q.id, CreateUser(q.username)) EXCEPT !.says = OneRow(q.id, TRUE)].tokens = NoRows
    BY DEF SaveUser, Statement
  <2> QED
    BY <2>1, <2>2, QuietRunKeeps
<1>2. CASE UpdateUser(c)
  <2>1. PICK u, q : Run(c, <<SaveUser(u, EditedUser(users[u], q))>>)
    BY <1>2 DEF UpdateUser
  <2> QED
    BY <2>1, StatementTokens, QuietRunKeeps
<1>3. ASSUME NEW active, SetUserActive(c, active)
      PROVE  TokenInv'
  <2>1. PICK u : Run(c, <<[SaveUser(u, [users[u] EXCEPT !.isActive = active])
                            EXCEPT !.says = OneRow(u, active)]>>)
    BY <1>3 DEF SetUserActive
  <2>2. [SaveUser(u, [users[u] EXCEPT !.isActive = active])
            EXCEPT !.says = OneRow(u, active)].tokens = NoRows
    BY DEF SaveUser, Statement
  <2> QED
    BY <2>1, <2>2, QuietRunKeeps
<1> QED
  BY <1>1, <1>2, <1>3 DEF UserCommand, ActivateUser, DeactivateUser

LEMMA EmployeeCommandKeeps ==
    ASSUME TokenInv, NEW c \in IamClerks, EmployeeCommand(c)
    PROVE  TokenInv'
<1>1. CASE CreateEmployee(c)
  <2>1. PICK q : Run(c, <<[SaveEmployee(q.id, NewEmployee) EXCEPT !.born = {q.id}]>>)
    BY <1>1 DEF CreateEmployee
  <2>2. [SaveEmployee(q.id, NewEmployee) EXCEPT !.born = {q.id}].tokens = NoRows
    BY DEF SaveEmployee, Statement
  <2> QED
    BY <2>1, <2>2, QuietRunKeeps
<1>2. CASE UpdateEmployee(c)
  <2>1. PICK e, q : Run(c, <<SaveEmployee(e, EditedEmployee(employees[e], q))>>)
    BY <1>2 DEF UpdateEmployee
  <2> QED
    BY <2>1, StatementTokens, QuietRunKeeps
<1>3. CASE DeleteEmployee(c)
  <2>1. PICK e : Run(c, <<[Statement EXCEPT !.gone = {e}]>>)
    BY <1>3 DEF DeleteEmployee
  <2>2. [Statement EXCEPT !.gone = {e}].tokens = NoRows
    BY DEF Statement
  <2> QED
    BY <2>1, <2>2, QuietRunKeeps
<1>4. CASE GrantAccess(c)
  <2>1. PICK e, q :
            Run(c, <<[SaveUser(q.userId, CreateUser(q.username)) EXCEPT
                        !.employees = OneRow(e, AccessGranted(employees[e], q.userId)),
                        !.readEmployees = Rows(employees, {e}),
                        !.says = OneRow(q.userId, TRUE), !.grants = OneRow(e, {q.userId})]>>)
    BY <1>4 DEF GrantAccess
  <2>2. [SaveUser(q.userId, CreateUser(q.username)) EXCEPT
            !.employees = OneRow(e, AccessGranted(employees[e], q.userId)),
            !.readEmployees = Rows(employees, {e}),
            !.says = OneRow(q.userId, TRUE), !.grants = OneRow(e, {q.userId})].tokens = NoRows
    BY DEF SaveUser, Statement
  <2> QED
    BY <2>1, <2>2, QuietRunKeeps
<1> QED
  BY <1>1, <1>2, <1>3, <1>4 DEF EmployeeCommand

\* A jti that is fresh is in no table and in no request.
LEMMA FreshToken ==
    ASSUME NEW t, Fresh(t)
    PROVE  t \notin DOMAIN tokens /\ \A d \in IamClerks, n \in Nat : ~Pending(d, n, t)
  BY DEF Fresh, Pending

LEMMA AuthCommandKeeps ==
    ASSUME TokenInv, NEW c \in IamClerks, AuthCommand(c)
    PROVE  TokenInv'
<1>1. CASE Login(c)
  <2>1. PICK u, t : /\ Fresh(t)
                    /\ Run(c, <<SaveToken(t, CreateToken(u)), SaveUser(u, RecordLogin(users[u]))>>)
    BY <1>1 DEF Login
  <2> DEFINE s == SaveToken(t, CreateToken(u))
             r == SaveUser(u, RecordLogin(users[u]))
  <2>2. DOMAIN s.tokens = {t} /\ s.tokens[t] = CreateToken(u) /\ DOMAIN r.tokens = {}
    BY StatementTokens, RowsOfTables
  <2> HIDE DEF s, r
  <2>3. MayBegin(<<s, r>>)
    BY <2>1, <2>2, StatementLists, TokenMethods, FreshToken DEF MayBegin
  <2> QED
    BY <2>1, <2>3, StatementLists, RunKeeps DEF s, r
<1>2. CASE RefreshSession(c)
  <2>1. PICK t, next :
            /\ t \in DOMAIN tokens /\ Fresh(next)
            /\ Run(c, <<SaveToken(t, MarkAsReplaced(tokens[t], next)),
                        SaveToken(next, CreateToken(tokens[t].userId))>>)
    BY <1>2 DEF RefreshSession
  <2> DEFINE s == SaveToken(t, MarkAsReplaced(tokens[t], next))
             r == SaveToken(next, CreateToken(tokens[t].userId))
  <2>2. /\ DOMAIN s.tokens = {t} /\ s.tokens[t] = MarkAsReplaced(tokens[t], next)
        /\ DOMAIN r.tokens = {next} /\ r.tokens[next] = CreateToken(tokens[t].userId)
    BY StatementTokens, RowsOfTables
  <2>3. IsToken(s.tokens[t]) /\ s.tokens[t].isRevoked /\ IsToken(r.tokens[next])
    BY <2>1, <2>2, TokenMethods DEF TokenInv
  <2>4. next # t /\ next \notin DOMAIN tokens /\ \A d \in IamClerks, n \in Nat : ~Pending(d, n, next)
    BY <2>1, FreshToken
  <2> HIDE DEF s, r
  <2>5. MayBegin(<<s, r>>)
    BY <2>1, <2>2, <2>3, <2>4, StatementLists DEF MayBegin
  <2> QED
    BY <2>1, <2>5, StatementLists, RunKeeps DEF s, r
<1>3. CASE RejectRefresh(c)
  <2>1. PICK t : Run(c, <<[Statement EXCEPT !.revokeOf = tokens[t].userId]>>)
    BY <1>3 DEF RejectRefresh
  <2>2. [Statement EXCEPT !.revokeOf = tokens[t].userId].tokens = NoRows
    BY DEF Statement
  <2> QED
    BY <2>1, <2>2, QuietRunKeeps
<1>4. CASE Logout(c)
  <2>1. PICK t \in DOMAIN tokens : Run(c, <<SaveToken(t, Revoke(tokens[t]))>>)
    BY <1>4 DEF Logout
  <2> DEFINE s == SaveToken(t, Revoke(tokens[t]))
  <2>2. DOMAIN s.tokens = {t} /\ s.tokens[t] = Revoke(tokens[t])
    BY StatementTokens, RowsOfTables
  <2>3. IsToken(s.tokens[t]) /\ s.tokens[t].isRevoked
    BY <2>2, TokenMethods DEF TokenInv
  <2> HIDE DEF s
  <2>4. MayBegin(<<s>>)
    BY <2>2, <2>3, StatementLists DEF MayBegin
  <2> QED
    BY <2>1, <2>4, StatementLists, RunKeeps DEF s
<1> QED
  BY <1>1, <1>2, <1>3, <1>4 DEF AuthCommand

-----------------------------------------------------------------------------
(* Statements *)

\* What becomes of one token when a statement is issued: the table has the row that
\* was saved, revoked if the statement revokes the user's tokens.
LEMMA IssuedTokens ==
    ASSUME NEW toSave, NEW u, NEW t
    PROVE  LET after == Revoked(WrittenOver(SavedTokens(toSave), tokens), u) IN
           /\ DOMAIN after = DOMAIN toSave \cup DOMAIN tokens
           /\ t \in DOMAIN toSave /\ IsToken(toSave[t]) =>
                 IsToken(after[t]) /\ (toSave[t].isRevoked => after[t].isRevoked)
           /\ t \in DOMAIN tokens \ DOMAIN toSave /\ IsToken(tokens[t]) =>
                 IsToken(after[t]) /\ (tokens[t].isRevoked => after[t].isRevoked)
<1> DEFINE saved == WrittenOver(SavedTokens(toSave), tokens)
           after == Revoked(saved, u)
<1>1. DOMAIN after = DOMAIN toSave \cup DOMAIN tokens
  BY DEF Revoked, WrittenOver, SavedTokens
<1>2. t \in DOMAIN after => after[t] \in {saved[t], Revoke(saved[t])}
  BY DEF Revoked
<1>3. ASSUME IsToken(saved[t]), t \in DOMAIN after
      PROVE  IsToken(after[t]) /\ (saved[t].isRevoked => after[t].isRevoked)
  BY <1>2, <1>3, TokenMethods
<1>4. ASSUME t \in DOMAIN toSave, IsToken(toSave[t])
      PROVE  IsToken(saved[t]) /\ (toSave[t].isRevoked => saved[t].isRevoked)
  <2> DEFINE e == toSave[t].isExpired \/ (t \in DOMAIN tokens /\ tokens[t].isExpired)
  <2>1. saved[t] = [toSave[t] EXCEPT !.isExpired = e]
    BY <1>4 DEF WrittenOver, SavedTokens
  <2> HIDE DEF e, saved
  <2> QED
    BY <1>4, <2>1 DEF IsToken
<1>5. t \in DOMAIN tokens \ DOMAIN toSave => saved[t] = tokens[t]
  BY DEF WrittenOver, SavedTokens
<1> HIDE DEF saved, after
<1>6. /\ DOMAIN after = DOMAIN toSave \cup DOMAIN tokens
      /\ t \in DOMAIN toSave /\ IsToken(toSave[t]) =>
            IsToken(after[t]) /\ (toSave[t].isRevoked => after[t].isRevoked)
      /\ t \in DOMAIN tokens \ DOMAIN toSave /\ IsToken(tokens[t]) =>
            IsToken(after[t]) /\ (tokens[t].isRevoked => after[t].isRevoked)
  BY <1>1, <1>3, <1>4, <1>5
<1> QED
  BY <1>6 DEF after, saved

\* What RevokedStaysRevoked says of one step.
RevocationsLast ==
    \A t \in DOMAIN tokens' :
        /\ (t \in DOMAIN tokens /\ tokens[t].isRevoked) => tokens'[t].isRevoked
        /\ tokens'[t].replacedByJti # NoToken => tokens'[t].isRevoked

\* A step that leaves the tokens alone.
LEMMA TokensUnchanged ==
    ASSUME TokenInv, UNCHANGED tokens
    PROVE  RevocationsLast
  BY DEF TokenInv, RevocationsLast, IsToken

LEMMA IssueKeeps ==
    ASSUME TokenInv, NEW c \in IamClerks, IssueStatement(c)
    PROVE  TokenInv' /\ RevocationsLast
<1> DEFINE s == Head(session[c])
<1>1. /\ tokens' = Revoked(WrittenOver(SavedTokens(s.tokens), tokens), s.revokeOf)
      /\ session[c] # << >> /\ session' = [session EXCEPT ![c] = Tail(@)] /\ UNCHANGED topic
  BY DEF IssueStatement
<1>2. \A d \in IamClerks : session'[d] = IF d = c THEN Tail(session[c]) ELSE session[d]
  BY <1>1 DEF TokenInv
<1>3. /\ IsList(Tail(session[c])) /\ 1 \in DOMAIN session[c] /\ s = session[c][1]
      /\ \A k \in Nat : k \in DOMAIN Tail(session[c]) =>
            /\ k + 1 \in DOMAIN session[c] /\ k + 1 # 1
            /\ Tail(session[c])[k] = session[c][k + 1]
  BY <1>1, Tails DEF TokenInv
<1>4. \A t \in DOMAIN s.tokens : Pending(c, 1, t) /\ PendingRow(c, 1, t) = s.tokens[t]
  BY <1>3 DEF Pending, PendingRow
<1>5. \A t \in DOMAIN s.tokens :
          IsToken(s.tokens[t]) /\ (s.tokens[t].isRevoked \/ IsFirst(c, 1, t))
  BY <1>4 DEF TokenInv
<1>6. DOMAIN tokens' = DOMAIN s.tokens \cup DOMAIN tokens
  BY <1>1, IssuedTokens
<1>7. ASSUME NEW t \in DOMAIN tokens'
      PROVE  /\ IsToken(tokens[t])'
             /\ (t \in DOMAIN tokens /\ tokens[t].isRevoked) => tokens'[t].isRevoked
  <2>1. CASE t \in DOMAIN s.tokens
    <3>1. IsToken(tokens'[t]) /\ (s.tokens[t].isRevoked => tokens'[t].isRevoked)
      BY <1>1, <1>5, <2>1, IssuedTokens
    <3>2. t \in DOMAIN tokens => s.tokens[t].isRevoked
      BY <1>5, <2>1 DEF IsFirst
    <3> QED
      BY <3>1, <3>2
  <2>2. CASE t \notin DOMAIN s.tokens
    <3>1. t \in DOMAIN tokens /\ IsToken(tokens[t])
      BY <1>6, <2>2 DEF TokenInv
    <3> QED
      BY <1>1, <2>2, <3>1, IssuedTokens
  <2> QED
    BY <2>1, <2>2
<1> HIDE DEF s
<1>8. ASSUME NEW d \in IamClerks, NEW k \in Nat, NEW t, Pending(d, k, t)'
      PROVE  \E n \in Nat : /\ Pending(d, n, t) /\ PendingRow(d, k, t)' = PendingRow(d, n, t)
                            /\ n = (IF d = c THEN k + 1 ELSE k) /\ (d = c => n # 1)
  <2>1. CASE d = c
    <3>1. session'[d] = Tail(session[c])
      BY <1>2, <2>1
    <3>2. k \in DOMAIN Tail(session[c]) /\ t \in DOMAIN Tail(session[c])[k].tokens
      BY <1>8, <3>1 DEF Pending
    <3>3. k + 1 \in DOMAIN session[c] /\ k + 1 # 1 /\ Tail(session[c])[k] = session[c][k + 1]
      BY <1>3, <3>2
    <3>4. Pending(d, k + 1, t)
      BY <2>1, <3>2, <3>3 DEF Pending
    <3>5. PendingRow(d, k, t)' = PendingRow(d, k + 1, t)
      BY <2>1, <3>1, <3>3 DEF PendingRow
    <3> QED
      BY <2>1, <3>3, <3>4, <3>5
  <2>2. CASE d # c
    BY <1>2, <1>8, <2>2 DEF Pending, PendingRow
  <2> QED
    BY <2>1, <2>2
<1>9. ASSUME NEW d \in IamClerks, NEW k \in Nat, NEW t, Pending(d, k, t)'
      PROVE  /\ IsToken(PendingRow(d, k, t)')
             /\ PendingRow(d, k, t)'.isRevoked \/ IsFirst(d, k, t)'
  <2>1. PICK n \in Nat : /\ Pending(d, n, t) /\ PendingRow(d, k, t)' = PendingRow(d, n, t)
                         /\ n = (IF d = c THEN k + 1 ELSE k) /\ (d = c => n # 1)
    BY <1>8, <1>9
  <2>2. IsToken(PendingRow(d, n, t)) /\ (PendingRow(d, n, t).isRevoked \/ IsFirst(d, n, t))
    BY <2>1 DEF TokenInv
  <2>3. ASSUME IsFirst(d, n, t)
        PROVE  IsFirst(d, k, t)'
    <3>1. t \notin DOMAIN s.tokens
      <4>1. SUFFICES ASSUME t \in DOMAIN s.tokens PROVE FALSE
        OBVIOUS
      <4>2. Pending(c, 1, t)
        BY <1>4, <4>1
      <4>3. d = c /\ n = 1
        BY <2>3, <4>2 DEF IsFirst
      <4> QED
        BY <2>1, <4>3
    <3>2. t \notin DOMAIN tokens'
      BY <1>6, <2>3, <3>1 DEF IsFirst
    <3>3. ASSUME NEW e \in IamClerks, NEW m \in Nat, Pending(e, m, t)'
          PROVE  e = d /\ m = k
      <4>1. PICK j \in Nat : Pending(e, j, t) /\ j = (IF e = c THEN m + 1 ELSE m)
        BY <1>8, <3>3
      <4>2. e = d /\ j = n
        BY <2>3, <4>1 DEF IsFirst
      <4> QED
        BY <2>1, <4>1, <4>2
    <3> QED
      BY <3>2, <3>3 DEF IsFirst
  <2> QED
    BY <2>1, <2>2, <2>3
<1>10. /\ topic' \in Topics /\ session' = [d \in IamClerks |-> session'[d]]
       /\ \A d \in IamClerks : IsList(session'[d])
  BY <1>1, <1>2, <1>3 DEF TokenInv
<1>11. TokenInv'
  BY <1>7, <1>9, <1>10 DEF TokenInv
<1> QED
  BY <1>7, <1>11 DEF RevocationsLast, IsToken

LEMMA AbandonKeeps ==
    ASSUME TokenInv, NEW c \in IamClerks, AbandonSession(c)
    PROVE  TokenInv'
<1>1. session' = [session EXCEPT ![c] = << >>] /\ UNCHANGED <<topic, tokens>>
  BY DEF AbandonSession
<1>2. \A d \in IamClerks : session'[d] = IF d = c THEN << >> ELSE session[d]
  BY <1>1 DEF TokenInv
<1>3. \A d \in IamClerks, k \in Nat : \A t : Pending(d, k, t)' =>
          d # c /\ Pending(d, k, t) /\ PendingRow(d, k, t)' = PendingRow(d, k, t)
  BY <1>2, StatementLists DEF Pending, PendingRow
<1>4. \A d \in IamClerks, k \in Nat : \A t : IsFirst(d, k, t) => IsFirst(d, k, t)'
  BY <1>1, <1>3 DEF IsFirst
<1>5. session' = [d \in IamClerks |-> session'[d]] /\ \A d \in IamClerks : IsList(session'[d])
  BY <1>1, <1>2, StatementLists DEF TokenInv
<1> QED
  BY <1>1, <1>3, <1>4, <1>5 DEF TokenInv

LEMMA ExpireKeeps ==
    ASSUME TokenInv, NEW t, Expire(t)
    PROVE  TokenInv' /\ RevocationsLast
<1>1. tokens' = [tokens EXCEPT ![t].isExpired = TRUE] /\ UNCHANGED <<topic, session>>
  BY DEF Expire
<1>2. DOMAIN tokens' = DOMAIN tokens
  BY <1>1
<1>3. ASSUME NEW u \in DOMAIN tokens
      PROVE  IsToken(tokens[u])' /\ (tokens'[u].isRevoked <=> tokens[u].isRevoked)
  <2>1. IsToken(tokens[u])
    BY DEF TokenInv
  <2>2. CASE u = t
    <3>1. tokens'[u] = [tokens[u] EXCEPT !.isExpired = TRUE]
      BY <1>1, <2>2
    <3> QED
      BY <2>1, <3>1 DEF IsToken
  <2>3. CASE u # t
    BY <1>1, <2>1, <2>3
  <2> QED
    BY <2>2, <2>3
<1>4. TokenInv'
  <2>1. \A c \in IamClerks, k \in Nat : \A u :
            /\ Pending(c, k, u)' <=> Pending(c, k, u)
            /\ PendingRow(c, k, u)' = PendingRow(c, k, u)
    BY <1>1 DEF Pending, PendingRow
  <2>2. \A c \in IamClerks, k \in Nat : \A u : IsFirst(c, k, u) => IsFirst(c, k, u)'
    BY <1>2, <2>1 DEF IsFirst
  <2>3. \A c \in IamClerks, k \in Nat : \A u : Pending(c, k, u)' =>
            /\ IsToken(PendingRow(c, k, u))'
            /\ PendingRow(c, k, u)'.isRevoked \/ IsFirst(c, k, u)'
    <3>1. \A c \in IamClerks, k \in Nat : \A u : IsToken(PendingRow(c, k, u)) =>
              IsToken(PendingRow(c, k, u))'
      BY <2>1 DEF IsToken
    <3> QED
      BY <2>1, <2>2, <3>1 DEF TokenInv
  <2>4. \A u \in DOMAIN tokens' : IsToken(tokens[u])'
    BY <1>2, <1>3
  <2>5. /\ topic' \in Topics /\ session' = [c \in IamClerks |-> session'[c]]
        /\ \A c \in IamClerks : IsList(session'[c])
    BY <1>1 DEF TokenInv
  <2> QED
    BY <2>3, <2>4, <2>5 DEF TokenInv
<1> QED
  BY <1>2, <1>3, <1>4 DEF RevocationsLast, IsToken

LEMMA AccountsStep ==
    ASSUME TokenInv, [AccountsNext]_accountVars
    PROVE  TokenInv' /\ RevocationsLast
<1>1. topic.clerks \subseteq IamClerks
  BY AccountsAssumption DEF TokenInv
<1>2. ASSUME NEW c \in IamClerks, UserCommand(c) \/ EmployeeCommand(c) \/ AuthCommand(c)
      PROVE  TokenInv' /\ UNCHANGED tokens
  <2>1. UNCHANGED tokens
    BY <1>2 DEF UserCommand, EmployeeCommand, AuthCommand, RegisterUser, UpdateUser, ActivateUser,
                DeactivateUser, SetUserActive, CreateEmployee, UpdateEmployee, DeleteEmployee,
                GrantAccess, Login, RefreshSession, RejectRefresh, Logout, Run
  <2> QED
    BY <1>2, <2>1, UserCommandKeeps, EmployeeCommandKeeps, AuthCommandKeeps
<1>3. ASSUME NEW c \in IamClerks, AbandonSession(c)
      PROVE  TokenInv' /\ UNCHANGED tokens
  BY <1>3, AbandonKeeps DEF AbandonSession
<1>4. CASE AccountsNext
  BY <1>1, <1>2, <1>3, <1>4, IssueKeeps, ExpireKeeps, TokensUnchanged DEF AccountsNext
<1>5. CASE UNCHANGED accountVars
  <2>1. UNCHANGED <<topic, tokens, session>>
    BY <1>5 DEF accountVars
  <2>2. TokenInv'
    BY <2>1 DEF TokenInv, Pending, PendingRow, IsFirst
  <2> QED
    BY <2>1, <2>2, TokensUnchanged
<1> QED
  BY <1>4, <1>5

\* However logins, refreshes, logouts, reuses of old tokens and expiries interleave, a
\* refresh token once revoked is never saved as valid again, and one that names a
\* successor is revoked (refresh-token.ts, logout.ts).
THEOREM RevocationIsFinal == AccountsSpec => RevokedStaysRevoked
<1>1. AccountsInit => TokenInv
  <2> SUFFICES ASSUME AccountsInit PROVE TokenInv
    OBVIOUS
  <2>1. topic \in Topics /\ DOMAIN tokens = {} /\ session = [c \in IamClerks |-> << >>]
    BY RowsOfTables DEF AccountsInit
  <2>2. \A c \in IamClerks : IsList(session[c]) /\ DOMAIN session[c] = {}
    BY <2>1, StatementLists
  <2> QED
    BY <2>1, <2>2 DEF TokenInv, Pending
<1>2. TokenInv /\ [AccountsNext]_accountVars => TokenInv'
  BY AccountsStep
<1>3. TokenInv /\ [AccountsNext]_accountVars =>
          [\A t \in DOMAIN tokens' :
              /\ (t \in DOMAIN tokens /\ tokens[t].isRevoked) => tokens'[t].isRevoked
              /\ tokens'[t].replacedByJti # NoToken => tokens'[t].isRevoked]_accountVars
  BY AccountsStep DEF RevocationsLast
<1> QED
  BY <1>1, <1>2, <1>3, PTL DEF AccountsSpec, RevokedStaysRevoked

-----------------------------------------------------------------------------
(* Users, employees and what was said and granted: the inductive invariant *)

\* A save of a user tells whether it is active, or leaves that as it was read.
UserFits(s, about, there) ==
    /\ DOMAIN s.users \in SUBSET about.users
    /\ s.users \in [DOMAIN s.users -> UserRow]
    /\ DOMAIN s.says \in SUBSET DOMAIN s.users
    /\ \A u \in DOMAIN s.users :
          IF u \in DOMAIN s.says THEN s.says[u] = s.users[u].isActive
          ELSE /\ u \in there /\ u \in DOMAIN s.readUsers
               /\ s.readUsers[u].isActive = s.users[u].isActive

\* A save of an employee makes a new one, grants an account to one that was read
\* without, or leaves the account as it was read.
EmployeeFits(s, about, there) ==
    /\ DOMAIN s.employees \in SUBSET about.employees
    /\ s.employees \in [DOMAIN s.employees -> EmployeeRow]
    /\ s.born \in SUBSET DOMAIN s.employees
    /\ DOMAIN s.grants \in SUBSET (DOMAIN s.employees \ s.born)
    /\ DOMAIN s.employees \cap s.gone = {}
    /\ \A e \in DOMAIN s.employees :
          /\ s.employees[e].userId \in {NoUser} \cup there \cup DOMAIN s.users
          /\ e \in s.born => s.employees[e].userId = NoUser
          /\ e \notin s.born => e \in DOMAIN s.readEmployees
          /\ e \in DOMAIN s.grants =>
                /\ s.readEmployees[e].userId = NoUser
                /\ s.employees[e].userId \in UserIds
                /\ s.grants[e] = {s.employees[e].userId}
          /\ e \notin s.born \cup DOMAIN s.grants =>
                s.employees[e].userId = s.readEmployees[e].userId

TokenFits(s, about) ==
    /\ DOMAIN s.tokens \in SUBSET about.tokens
    /\ s.tokens \in [DOMAIN s.tokens -> TokenRow]

StatementFits(s, about, there) ==
    /\ UserFits(s, about, there)
    /\ EmployeeFits(s, about, there)
    /\ TokenFits(s, about)

AccountsTypes ==
    /\ topic \in Topics
    /\ DOMAIN users \in SUBSET topic.users
    /\ users \in [DOMAIN users -> UserRow]
    /\ DOMAIN employees \in SUBSET topic.employees
    /\ employees \in [DOMAIN employees -> EmployeeRow]
    /\ DOMAIN tokens \in SUBSET topic.tokens
    /\ tokens \in [DOMAIN tokens -> TokenRow]
    /\ DOMAIN enabled = DOMAIN users
    /\ granted \in [EmployeeIds -> SUBSET UserIds]
    /\ outdated \in BOOLEAN
    /\ session = [c \in IamClerks |-> session[c]]
    /\ \A c \in IamClerks : IsList(session[c])

StatementsFit ==
    \A c \in IamClerks : \A k \in DOMAIN session[c] :
        StatementFits(session[c][k], topic, DOMAIN users)

AccountsIInv ==
    /\ AccountsTypes
    /\ StatementsFit
    /\ GrantedAccountsAreHeld
    /\ LastWordOnActivityHolds

-----------------------------------------------------------------------------
(* What a request begins with *)

LEMMA AccountsTopic ==
    ASSUME AccountsIInv
    PROVE  /\ topic.clerks \in SUBSET IamClerks /\ topic.users \in SUBSET UserIds
           /\ topic.employees \in SUBSET EmployeeIds /\ topic.tokens \in SUBSET TokenIds
<1>1. topic \in [clerks : SUBSET IamClerks, users : SUBSET UserIds,
                 employees : SUBSET EmployeeIds, tokens : SUBSET TokenIds]
  BY AccountsAssumption DEF AccountsIInv, AccountsTypes
<1> QED
  BY <1>1

LEMMA AccountsRunPreserves ==
    ASSUME AccountsIInv, NEW c \in IamClerks, NEW ss, IsList(ss), Run(c, ss),
           \A k \in DOMAIN ss : StatementFits(ss[k], topic, DOMAIN users)
    PROVE  AccountsIInv'
<1>1. /\ session' = [session EXCEPT ![c] = ss]
      /\ topic' = topic /\ users' = users /\ employees' = employees /\ tokens' = tokens
      /\ enabled' = enabled /\ granted' = granted /\ outdated' = outdated
  BY DEF Run
<1>2. \A d \in IamClerks : session'[d] = IF d = c THEN ss ELSE session[d]
  BY <1>1 DEF AccountsIInv, AccountsTypes
<1>3. AccountsTypes'
  <2>1. session' = [d \in IamClerks |-> session'[d]]
    BY <1>1 DEF AccountsIInv, AccountsTypes
  <2>2. \A d \in IamClerks : IsList(session'[d])
    BY <1>2 DEF AccountsIInv, AccountsTypes
  <2> QED
    BY <2>1, <2>2, <1>1 DEF AccountsIInv, AccountsTypes
<1>4. StatementsFit'
  BY <1>1, <1>2 DEF AccountsIInv, StatementsFit
<1>5. GrantedAccountsAreHeld' /\ LastWordOnActivityHolds'
  BY <1>1 DEF AccountsIInv, GrantedAccountsAreHeld, AccessLeadsToAnAccount,
      LastWordOnActivityHolds
<1> QED
  BY <1>3, <1>4, <1>5 DEF AccountsIInv

LEMMA AccountsRunOne ==
    ASSUME AccountsIInv, NEW c \in IamClerks, NEW s, Run(c, <<s>>),
           StatementFits(s, topic, DOMAIN users)
    PROVE  AccountsIInv'
  BY StatementLists, AccountsRunPreserves

\* A statement that only saves one user.
LEMMA AccountsUserFits ==
    ASSUME NEW about, NEW there, NEW s, NEW u \in about.users, NEW row \in UserRow,
           s.users = OneRow(u, row), s.employees = NoRows, s.tokens = NoRows, s.born = {},
           s.grants = NoRows, s.gone = {},
           \/ s.says = OneRow(u, row.isActive)
           \/ /\ s.says = NoRows /\ u \in there /\ u \in DOMAIN s.readUsers
              /\ s.readUsers[u].isActive = row.isActive
    PROVE  StatementFits(s, about, there)
<1>1. UserFits(s, about, there)
  <2>1. DOMAIN s.users = {u} /\ s.users[u] = row /\ s.users \in [DOMAIN s.users -> UserRow]
    BY DEF OneRow
  <2>2. \/ DOMAIN s.says = {u} /\ s.says[u] = row.isActive
        \/ DOMAIN s.says = {} /\ u \in there /\ u \in DOMAIN s.readUsers
              /\ s.readUsers[u].isActive = row.isActive
    BY RowsOfTables DEF OneRow
  <2> QED
    BY <2>1, <2>2 DEF UserFits
<1>2. NoRows \in [DOMAIN NoRows -> EmployeeRow] /\ NoRows \in [DOMAIN NoRows -> TokenRow]
  BY RowsOfTables DEF NoRows
<1>3. EmployeeFits(s, about, there)
  BY <1>2, RowsOfTables DEF EmployeeFits
<1>4. TokenFits(s, about)
  BY <1>2, RowsOfTables DEF TokenFits
<1> QED
  BY <1>1, <1>3, <1>4 DEF StatementFits

\* A statement that only saves one token.
LEMMA AccountsTokenFits ==
    ASSUME NEW about, NEW there, NEW t \in about.tokens, NEW row \in TokenRow
    PROVE  StatementFits(SaveToken(t, row), about, there)
<1>1. PICK s : s = SaveToken(t, row)
  OBVIOUS
<1>2. /\ s.users = NoRows /\ s.says = NoRows /\ s.employees = NoRows /\ s.born = {}
      /\ s.grants = NoRows /\ s.gone = {} /\ s.tokens = OneRow(t, row)
  BY <1>1 DEF SaveToken, Statement
<1>3. NoRows \in [DOMAIN NoRows -> EmployeeRow] /\ NoRows \in [DOMAIN NoRows -> UserRow]
  BY RowsOfTables DEF NoRows
<1>4. UserFits(s, about, there)
  BY <1>2, <1>3, RowsOfTables DEF UserFits
<1>5. EmployeeFits(s, about, there)
  BY <1>2, <1>3, RowsOfTables DEF EmployeeFits
<1>6. TokenFits(s, about)
  BY <1>2 DEF TokenFits, OneRow
<1> QED
  BY <1>1, <1>4, <1>5, <1>6 DEF StatementFits

\* A statement that saves one employee, or none.
LEMMA AccountsEmployeeFits ==
    ASSUME NEW about, NEW there, NEW s, s.users = NoRows, s.says = NoRows, s.tokens = NoRows,
           s.grants = NoRows, EmployeeFits(s, about, there)
    PROVE  StatementFits(s, about, there)
<1>1. NoRows \in [DOMAIN NoRows -> UserRow] /\ NoRows \in [DOMAIN NoRows -> TokenRow]
  BY RowsOfTables DEF NoRows
<1>2. UserFits(s, about, there)
  BY <1>1, RowsOfTables DEF UserFits
<1>3. TokenFits(s, about)
  BY <1>1, RowsOfTables DEF TokenFits
<1> QED
  BY <1>2, <1>3 DEF StatementFits

-----------------------------------------------------------------------------
(* The requests *)

LEMMA AccountsUserCommand ==
    ASSUME AccountsIInv, NEW c \in IamClerks, UserCommand(c)
    PROVE  AccountsIInv'
<1>1. /\ users \in [DOMAIN users -> UserRow] /\ DOMAIN users \in SUBSET topic.users
  BY DEF AccountsIInv, AccountsTypes
<1>2. CASE RegisterUser(c)
  <2>1. PICK q \in RegisterUserRequest :
           Run(c, <<[SaveUser(q.id, CreateUser(q.username)) EXCEPT !.says = OneRow(q.id, TRUE)]>>)
    BY <1>2 DEF RegisterUser
  <2>2. PICK s : s = [SaveUser(q.id, CreateUser(q.username)) EXCEPT !.says = OneRow(q.id, TRUE)]
    OBVIOUS
  <2>3. PICK u, row : u = q.id /\ row = CreateUser(q.username)
    OBVIOUS
  <2>4. u \in topic.users /\ row \in UserRow /\ row.isActive = TRUE
    BY <2>3 DEF RegisterUserRequest, CreateUser, UserRow
  <2>5. /\ s.users = OneRow(u, row) /\ s.employees = NoRows /\ s.tokens = NoRows /\ s.born = {}
        /\ s.grants = NoRows /\ s.gone = {} /\ s.says = OneRow(u, row.isActive)
    BY <2>2, <2>3, <2>4 DEF SaveUser, Statement
  <2>6. StatementFits(s, topic, DOMAIN users)
    BY <2>4, <2>5, AccountsUserFits
  <2> QED
    BY <2>1, <2>2, <2>6, AccountsRunOne
<1>3. CASE UpdateUser(c)
  <2>1. PICK u \in DOMAIN users, q \in UpdateUserRequest :
           Run(c, <<SaveUser(u, EditedUser(users[u], q))>>)
    BY <1>3 DEF UpdateUser
  <2>2. PICK s, row : row = EditedUser(users[u], q) /\ s = SaveUser(u, row)
    OBVIOUS
  <2>3. row \in UserRow /\ row.isActive = users[u].isActive /\ u \in topic.users
    <3>1. users[u] \in UserRow /\ u \in topic.users
      BY <1>1
    <3> QED
      BY <3>1, <2>2 DEF EditedUser, UserRow, UpdateUserRequest
  <2>4. /\ s.users = OneRow(u, row) /\ s.employees = NoRows /\ s.tokens = NoRows /\ s.born = {}
        /\ s.grants = NoRows /\ s.gone = {} /\ s.says = NoRows
        /\ s.readUsers = Rows(users, {u})
    BY <2>2 DEF SaveUser, Statement
  <2>5. u \in DOMAIN s.readUsers /\ s.readUsers[u].isActive = row.isActive
    BY <2>3, <2>4 DEF Rows
  <2>6. StatementFits(s, topic, DOMAIN users)
    BY <2>3, <2>4, <2>5, AccountsUserFits
  <2> QED
    BY <2>1, <2>2, <2>6, AccountsRunOne
<1>4. ASSUME NEW active \in BOOLEAN, SetUserActive(c, active)
      PROVE  AccountsIInv'
  <2>1. PICK u \in DOMAIN users :
           Run(c, <<[SaveUser(u, [users[u] EXCEPT !.isActive = active])
                     EXCEPT !.says = OneRow(u, active)]>>)
    BY <1>4 DEF SetUserActive
  <2>2. PICK s, row : /\ row = [users[u] EXCEPT !.isActive = active]
                      /\ s = [SaveUser(u, row) EXCEPT !.says = OneRow(u, active)]
    OBVIOUS
  <2>3. row \in UserRow /\ row.isActive = active /\ u \in topic.users
    <3>1. users[u] \in UserRow /\ u \in topic.users
      BY <1>1
    <3> QED
      BY <3>1, <2>2 DEF UserRow
  <2>4. /\ s.users = OneRow(u, row) /\ s.employees = NoRows /\ s.tokens = NoRows /\ s.born = {}
        /\ s.grants = NoRows /\ s.gone = {} /\ s.says = OneRow(u, row.isActive)
    BY <2>2, <2>3 DEF SaveUser, Statement
  <2>5. StatementFits(s, topic, DOMAIN users)
    BY <2>3, <2>4, AccountsUserFits
  <2> QED
    BY <2>1, <2>2, <2>5, AccountsRunOne
<1> QED
  BY <1>2, <1>3, <1>4 DEF UserCommand, ActivateUser, DeactivateUser

LEMMA AccountsEmployeeCommand ==
    ASSUME AccountsIInv, NEW c \in IamClerks, EmployeeCommand(c)
    PROVE  AccountsIInv'
<1>1. /\ employees \in [DOMAIN employees -> EmployeeRow]
      /\ DOMAIN employees \in SUBSET topic.employees
      /\ \A e \in DOMAIN employees : employees[e].userId \in {NoUser} \cup DOMAIN users
  BY DEF AccountsIInv, AccountsTypes, GrantedAccountsAreHeld, AccessLeadsToAnAccount
<1>2. CASE CreateEmployee(c)
  <2>1. PICK q \in CreateEmployeeRequest :
           Run(c, <<[SaveEmployee(q.id, NewEmployee) EXCEPT !.born = {q.id}]>>)
    BY <1>2 DEF CreateEmployee
  <2>2. PICK s, e : e = q.id /\ s = [SaveEmployee(e, NewEmployee) EXCEPT !.born = {e}]
    OBVIOUS
  <2>3. /\ s.users = NoRows /\ s.says = NoRows /\ s.tokens = NoRows /\ s.grants = NoRows
        /\ s.employees = OneRow(e, NewEmployee) /\ s.born = {e} /\ s.gone = {}
    BY <2>2 DEF SaveEmployee, Statement
  <2>4. /\ e \in topic.employees /\ NewEmployee \in EmployeeRow /\ NewEmployee.userId = NoUser
        /\ DOMAIN s.employees = {e} /\ s.employees[e] = NewEmployee /\ DOMAIN s.grants = {}
    <3>1. e \in topic.employees
      BY <2>2 DEF CreateEmployeeRequest
    <3>2. NewEmployee \in EmployeeRow /\ NewEmployee.userId = NoUser
      BY DEF NewEmployee, EmployeeRow
    <3>3. PICK row : row = NewEmployee
      OBVIOUS
    <3>4. DOMAIN s.employees = {e} /\ s.employees[e] = row /\ DOMAIN s.grants = {}
      BY <3>3, <2>3, RowsOfTables
    <3> QED
      BY <3>1, <3>2, <3>3, <3>4
  <2>5. s.employees \in [DOMAIN s.employees -> EmployeeRow]
    BY <2>3, <2>4 DEF OneRow
  <2>6. EmployeeFits(s, topic, DOMAIN users)
    BY <2>3, <2>4, <2>5 DEF EmployeeFits
  <2> QED
    BY <2>1, <2>2, <2>3, <2>6, AccountsEmployeeFits, AccountsRunOne
<1>3. CASE UpdateEmployee(c)
  <2>1. PICK e \in DOMAIN employees, q \in UpdateEmployeeRequest :
           Run(c, <<SaveEmployee(e, EditedEmployee(employees[e], q))>>)
    BY <1>3 DEF UpdateEmployee
  <2>2. PICK s, row : row = EditedEmployee(employees[e], q) /\ s = SaveEmployee(e, row)
    OBVIOUS
  <2>3. /\ row \in EmployeeRow /\ row.userId = employees[e].userId /\ e \in topic.employees
        /\ row.userId \in {NoUser} \cup DOMAIN users
    <3>1. /\ employees[e] \in EmployeeRow /\ e \in topic.employees
          /\ employees[e].userId \in {NoUser} \cup DOMAIN users
      BY <1>1
    <3> QED
      BY <3>1, <2>2 DEF EditedEmployee, EmployeeRow, UpdateEmployeeRequest
  <2>4. /\ s.users = NoRows /\ s.says = NoRows /\ s.tokens = NoRows /\ s.grants = NoRows
        /\ s.employees = OneRow(e, row) /\ s.born = {} /\ s.gone = {}
        /\ s.readEmployees = Rows(employees, {e})
    BY <2>2 DEF SaveEmployee, Statement
  <2>5. /\ DOMAIN s.employees = {e} /\ s.employees[e] = row /\ DOMAIN s.grants = {}
        /\ s.employees \in [DOMAIN s.employees -> EmployeeRow]
        /\ e \in DOMAIN s.readEmployees /\ s.readEmployees[e] = employees[e]
    BY <2>3, <2>4, RowsOfTables DEF OneRow, Rows
  <2>6. EmployeeFits(s, topic, DOMAIN users)
    BY <2>3, <2>4, <2>5 DEF EmployeeFits
  <2> QED
    BY <2>1, <2>2, <2>4, <2>6, AccountsEmployeeFits, AccountsRunOne
<1>4. CASE DeleteEmployee(c)
  <2>1. PICK e \in DOMAIN employees : Run(c, <<[Statement EXCEPT !.gone = {e}]>>)
    BY <1>4 DEF DeleteEmployee
  <2>2. PICK s : s = [Statement EXCEPT !.gone = {e}]
    OBVIOUS
  <2>3. /\ s.users = NoRows /\ s.says = NoRows /\ s.tokens = NoRows /\ s.grants = NoRows
        /\ s.employees = NoRows /\ s.born = {} /\ s.gone = {e}
    BY <2>2 DEF Statement
  <2>4. DOMAIN NoRows = {} /\ NoRows \in [DOMAIN NoRows -> EmployeeRow]
    BY RowsOfTables DEF NoRows
  <2>5. EmployeeFits(s, topic, DOMAIN users)
    BY <2>3, <2>4 DEF EmployeeFits
  <2> QED
    BY <2>1, <2>2, <2>3, <2>5, AccountsEmployeeFits, AccountsRunOne
<1>5. CASE GrantAccess(c)
  <2>1. PICK e \in DOMAIN employees, q \in GrantEmployeeAccessRequest :
           /\ MayGrantAccess(employees[e])
           /\ Run(c, <<[SaveUser(q.userId, CreateUser(q.username)) EXCEPT
                           !.employees = OneRow(e, AccessGranted(employees[e], q.userId)),
                           !.readEmployees = Rows(employees, {e}),
                           !.says = OneRow(q.userId, TRUE),
                           !.grants = OneRow(e, {q.userId})]>>)
    BY <1>5 DEF GrantAccess
  <2>2. PICK s : s = [SaveUser(q.userId, CreateUser(q.username)) EXCEPT
                         !.employees = OneRow(e, AccessGranted(employees[e], q.userId)),
                         !.readEmployees = Rows(employees, {e}),
                         !.says = OneRow(q.userId, TRUE),
                         !.grants = OneRow(e, {q.userId})]
    OBVIOUS
  <2>3. PICK u, user, row : /\ u = q.userId /\ user = CreateUser(q.username)
                            /\ row = AccessGranted(employees[e], u)
    OBVIOUS
  <2>4. /\ u \in topic.users /\ u \in UserIds /\ user \in UserRow /\ user.isActive = TRUE
        /\ e \in topic.employees /\ row \in EmployeeRow /\ row.userId = u
        /\ employees[e].userId = NoUser
    <3>1. u \in topic.users /\ u \in UserIds /\ q.username \in Usernames
      BY <2>3, AccountsTopic DEF GrantEmployeeAccessRequest
    <3>2. employees[e] \in EmployeeRow /\ e \in topic.employees
      BY <1>1
    <3>3. user \in UserRow /\ user.isActive = TRUE
      BY <2>3, <3>1 DEF CreateUser, UserRow
    <3>4. row \in EmployeeRow /\ row.userId = u
      BY <2>3, <3>1, <3>2 DEF AccessGranted, EmployeeRow
    <3> QED
      BY <3>1, <3>2, <3>3, <3>4, <2>1 DEF MayGrantAccess
  <2>5. /\ s.users = OneRow(u, user) /\ s.says = OneRow(u, TRUE) /\ s.tokens = NoRows
        /\ s.employees = OneRow(e, row) /\ s.born = {} /\ s.gone = {}
        /\ s.readEmployees = Rows(employees, {e}) /\ s.grants = OneRow(e, {u})
    BY <2>2, <2>3 DEF SaveUser, Statement
  <2>6. /\ DOMAIN s.users = {u} /\ s.users[u] = user
        /\ s.users \in [DOMAIN s.users -> UserRow]
        /\ DOMAIN s.says = {u} /\ s.says[u] = user.isActive
    <3>1. s.says = OneRow(u, user.isActive)
      BY <2>4, <2>5
    <3> QED
      BY <3>1, <2>4, <2>5 DEF OneRow
  <2>7. /\ DOMAIN s.employees = {e} /\ s.employees[e] = row
        /\ s.employees \in [DOMAIN s.employees -> EmployeeRow]
        /\ DOMAIN s.grants = {e} /\ s.grants[e] = {u}
        /\ e \in DOMAIN s.readEmployees /\ s.readEmployees[e] = employees[e]
    BY <2>4, <2>5 DEF OneRow, Rows
  <2>8. UserFits(s, topic, DOMAIN users)
    BY <2>4, <2>6 DEF UserFits
  <2>9. EmployeeFits(s, topic, DOMAIN users)
    BY <2>4, <2>5, <2>6, <2>7 DEF EmployeeFits
  <2>10. TokenFits(s, topic)
    <3>1. DOMAIN NoRows = {} /\ NoRows \in [DOMAIN NoRows -> TokenRow]
      BY RowsOfTables DEF NoRows
    <3> QED
      BY <3>1, <2>5 DEF TokenFits
  <2>11. StatementFits(s, topic, DOMAIN users)
    BY <2>8, <2>9, <2>10 DEF StatementFits
  <2> QED
    BY <2>1, <2>2, <2>11, AccountsRunOne
<1> QED
  BY <1>2, <1>3, <1>4, <1>5 DEF EmployeeCommand

LEMMA TokenRows ==
    /\ \A u \in UserIds : CreateToken(u) \in TokenRow
    /\ \A row \in TokenRow : Revoke(row) \in TokenRow /\ Revoke(row).userId = row.userId
    /\ \A row \in TokenRow, next \in TokenIds : MarkAsReplaced(row, next) \in TokenRow
<1>1. \A u \in UserIds : CreateToken(u) \in TokenRow
  BY DEF CreateToken, TokenRow
<1>2. \A row \in TokenRow : Revoke(row) \in TokenRow /\ Revoke(row).userId = row.userId
  BY DEF Revoke, TokenRow
<1>3. ASSUME NEW row \in TokenRow, NEW next \in TokenIds
      PROVE  MarkAsReplaced(row, next) \in TokenRow
  <2>1. [row EXCEPT !.replacedByJti = next] \in TokenRow
    BY DEF TokenRow
  <2> QED
    BY <2>1, <1>2 DEF MarkAsReplaced
<1> QED
  BY <1>1, <1>2, <1>3

LEMMA AccountsAuthCommand ==
    ASSUME AccountsIInv, NEW c \in IamClerks, AuthCommand(c)
    PROVE  AccountsIInv'
<1>1. /\ users \in [DOMAIN users -> UserRow] /\ DOMAIN users \in SUBSET topic.users
      /\ tokens \in [DOMAIN tokens -> TokenRow] /\ DOMAIN tokens \in SUBSET topic.tokens
      /\ topic.users \in SUBSET UserIds /\ topic.tokens \in SUBSET TokenIds
  BY AccountsTopic DEF AccountsIInv, AccountsTypes
<1>2. CASE Login(c)
  <2>1. PICK u \in DOMAIN users, t \in topic.tokens :
           Run(c, <<SaveToken(t, CreateToken(u)), SaveUser(u, RecordLogin(users[u]))>>)
    BY <1>2 DEF Login
  <2>2. PICK s, r, row : /\ s = SaveToken(t, CreateToken(u)) /\ row = RecordLogin(users[u])
                         /\ r = SaveUser(u, row)
    OBVIOUS
  <2>3. StatementFits(s, topic, DOMAIN users)
    <3>1. CreateToken(u) \in TokenRow
      BY <1>1, TokenRows
    <3> QED
      BY <3>1, <2>2, AccountsTokenFits
  <2>4. row \in UserRow /\ row = users[u] /\ u \in topic.users
    BY <1>1, <2>2 DEF RecordLogin
  <2>5. /\ r.users = OneRow(u, row) /\ r.employees = NoRows /\ r.tokens = NoRows /\ r.born = {}
        /\ r.grants = NoRows /\ r.gone = {} /\ r.says = NoRows
        /\ r.readUsers = Rows(users, {u})
    BY <2>2 DEF SaveUser, Statement
  <2>6. u \in DOMAIN r.readUsers /\ r.readUsers[u].isActive = row.isActive
    BY <2>4, <2>5 DEF Rows
  <2>7. StatementFits(r, topic, DOMAIN users)
    BY <2>4, <2>5, <2>6, AccountsUserFits
  <2>8. \A k \in DOMAIN <<s, r>> : StatementFits(<<s, r>>[k], topic, DOMAIN users)
    BY <2>3, <2>7, StatementLists
  <2> QED
    BY <2>1, <2>2, <2>8, StatementLists, AccountsRunPreserves
<1>3. CASE RefreshSession(c)
  <2>1. PICK t \in DOMAIN tokens, next \in topic.tokens :
            Run(c, <<SaveToken(t, MarkAsReplaced(tokens[t], next)),
                     SaveToken(next, CreateToken(tokens[t].userId))>>)
    BY <1>3 DEF RefreshSession
  <2>2. PICK s, r : /\ s = SaveToken(t, MarkAsReplaced(tokens[t], next))
                    /\ r = SaveToken(next, CreateToken(tokens[t].userId))
    OBVIOUS
  <2>3. /\ MarkAsReplaced(tokens[t], next) \in TokenRow /\ t \in topic.tokens
        /\ CreateToken(tokens[t].userId) \in TokenRow
    <3>1. tokens[t] \in TokenRow /\ next \in TokenIds /\ t \in topic.tokens
      BY <1>1
    <3>2. tokens[t].userId \in UserIds
      BY <3>1 DEF TokenRow
    <3> QED
      BY <3>1, <3>2, TokenRows
  <2>4. StatementFits(s, topic, DOMAIN users) /\ StatementFits(r, topic, DOMAIN users)
    BY <2>2, <2>3, AccountsTokenFits
  <2>5. \A k \in DOMAIN <<s, r>> : StatementFits(<<s, r>>[k], topic, DOMAIN users)
    BY <2>4, StatementLists
  <2> QED
    BY <2>1, <2>2, <2>5, StatementLists, AccountsRunPreserves
<1>4. CASE RejectRefresh(c)
  <2>1. PICK t \in DOMAIN tokens : Run(c, <<[Statement EXCEPT !.revokeOf = tokens[t].userId]>>)
    BY <1>4 DEF RejectRefresh
  <2>2. PICK s : s = [Statement EXCEPT !.revokeOf = tokens[t].userId]
    OBVIOUS
  <2>3. /\ s.users = NoRows /\ s.says = NoRows /\ s.tokens = NoRows /\ s.grants = NoRows
        /\ s.employees = NoRows /\ s.born = {} /\ s.gone = {}
    BY <2>2 DEF Statement
  <2>4. DOMAIN NoRows = {} /\ NoRows \in [DOMAIN NoRows -> EmployeeRow]
    BY RowsOfTables DEF NoRows
  <2>5. EmployeeFits(s, topic, DOMAIN users)
    BY <2>3, <2>4 DEF EmployeeFits
  <2> QED
    BY <2>1, <2>2, <2>3, <2>5, AccountsEmployeeFits, AccountsRunOne
<1>5. CASE Logout(c)
  <2>1. PICK t \in DOMAIN tokens : Run(c, <<SaveToken(t, Revoke(tokens[t]))>>)
    BY <1>5 DEF Logout
  <2>2. Revoke(tokens[t]) \in TokenRow /\ t \in topic.tokens
    BY <1>1, TokenRows
  <2>3. StatementFits(SaveToken(t, Revoke(tokens[t])), topic, DOMAIN users)
    BY <2>2, AccountsTokenFits
  <2> QED
    BY <2>1, <2>3, AccountsRunOne
<1> QED
  BY <1>2, <1>3, <1>4, <1>5 DEF AuthCommand

-----------------------------------------------------------------------------
(* A statement *)

LEMMA AccountsIssue ==
    ASSUME AccountsIInv, NEW c \in IamClerks, IssueStatement(c)
    PROVE  AccountsIInv'
<1>1. PICK s : s = Head(session[c])
  OBVIOUS
<1>2. PICK after : after = WrittenOver(s.employees, employees)
  OBVIOUS
<1>3. /\ session[c] # << >> /\ UniqueAccounts(after)
      /\ users' = WrittenOver(s.users, users)
      /\ employees' = [e \in DOMAIN after \ s.gone |-> after[e]]
      /\ tokens' = Revoked(WrittenOver(SavedTokens(s.tokens), tokens), s.revokeOf)
      /\ enabled' = WrittenOver(s.says, enabled)
      /\ granted' = [e \in EmployeeIds |->
            IF e \in s.born \cup s.gone THEN {}
            ELSE granted[e] \cup (IF e \in DOMAIN s.grants THEN s.grants[e] ELSE {})]
      /\ outdated' = (outdated \/ ~Current(s))
      /\ session' = [session EXCEPT ![c] = Tail(@)] /\ topic' = topic
  BY <1>1, <1>2 DEF IssueStatement
<1>4. /\ \A d \in IamClerks : session'[d] = IF d = c THEN Tail(session[c]) ELSE session[d]
      /\ session' = [d \in IamClerks |-> session'[d]]
  BY <1>3 DEF AccountsIInv, AccountsTypes
<1>5. /\ IsList(Tail(session[c])) /\ 1 \in DOMAIN session[c] /\ s = session[c][1]
      /\ \A k \in Nat : k \in DOMAIN Tail(session[c]) =>
            k + 1 \in DOMAIN session[c] /\ Tail(session[c])[k] = session[c][k + 1]
      /\ \A k \in DOMAIN Tail(session[c]) : k \in Nat
  <2>1. IsList(session[c])
    BY DEF AccountsIInv, AccountsTypes
  <2>2. \A ss : IsList(ss) => \A k \in DOMAIN ss : k \in Nat
    BY DEF IsList
  <2> QED
    BY <2>1, <2>2, <1>1, <1>3, Tails
<1>6. StatementFits(s, topic, DOMAIN users)
  BY <1>5 DEF AccountsIInv, StatementsFit
<1>7. UserFits(s, topic, DOMAIN users) /\ EmployeeFits(s, topic, DOMAIN users) /\ TokenFits(s, topic)
  BY <1>6 DEF StatementFits
<1>8. /\ users \in [DOMAIN users -> UserRow] /\ DOMAIN users \in SUBSET topic.users
      /\ employees \in [DOMAIN employees -> EmployeeRow]
      /\ DOMAIN employees \in SUBSET topic.employees
      /\ tokens \in [DOMAIN tokens -> TokenRow] /\ DOMAIN tokens \in SUBSET topic.tokens
      /\ DOMAIN enabled = DOMAIN users /\ granted \in [EmployeeIds -> SUBSET UserIds]
      /\ outdated \in BOOLEAN /\ topic.employees \in SUBSET EmployeeIds
  BY AccountsTopic DEF AccountsIInv, AccountsTypes
\* The tables, row by row.
<1>9. /\ DOMAIN users' = DOMAIN s.users \cup DOMAIN users
      /\ users' \in [DOMAIN users' -> UserRow] /\ DOMAIN users' \in SUBSET topic.users
      /\ \A u \in DOMAIN s.users : users'[u] = s.users[u]
      /\ \A u \in DOMAIN users \ DOMAIN s.users : users'[u] = users[u]
  BY <1>3, <1>7, <1>8 DEF WrittenOver, UserFits
<1>10. /\ DOMAIN enabled' = DOMAIN users'
       /\ \A u \in DOMAIN s.says : enabled'[u] = s.says[u]
       /\ \A u \in DOMAIN users \ DOMAIN s.says : enabled'[u] = enabled[u]
  <2>1. /\ DOMAIN enabled' = DOMAIN s.says \cup DOMAIN enabled
        /\ \A u \in DOMAIN s.says : enabled'[u] = s.says[u]
        /\ \A u \in DOMAIN enabled \ DOMAIN s.says : enabled'[u] = enabled[u]
    BY <1>3 DEF WrittenOver
  <2>2. /\ DOMAIN s.says \in SUBSET DOMAIN s.users
        /\ \A u \in DOMAIN s.users : u \in DOMAIN s.says \/ u \in DOMAIN users
    BY <1>7 DEF UserFits
  <2>3. DOMAIN s.says \cup DOMAIN users = DOMAIN s.users \cup DOMAIN users
    BY <2>2
  <2> QED
    BY <2>1, <2>3, <1>8, <1>9
<1>11. /\ DOMAIN after = DOMAIN s.employees \cup DOMAIN employees
       /\ after \in [DOMAIN after -> EmployeeRow] /\ DOMAIN after \in SUBSET topic.employees
       /\ \A e \in DOMAIN s.employees : after[e] = s.employees[e]
       /\ \A e \in DOMAIN employees \ DOMAIN s.employees : after[e] = employees[e]
  BY <1>2, <1>7, <1>8 DEF WrittenOver, EmployeeFits
<1>12. /\ DOMAIN employees' = DOMAIN after \ s.gone
       /\ \A e \in DOMAIN employees' : employees'[e] = after[e]
       /\ employees' \in [DOMAIN employees' -> EmployeeRow]
       /\ DOMAIN employees' \in SUBSET topic.employees
  BY <1>3, <1>11
<1>13. DOMAIN tokens' \in SUBSET topic.tokens /\ tokens' \in [DOMAIN tokens' -> TokenRow]
  <2>1. PICK saved, table : /\ saved = SavedTokens(s.tokens)
                            /\ table = WrittenOver(saved, tokens)
    OBVIOUS
  <2>2. DOMAIN s.tokens \in SUBSET topic.tokens /\ s.tokens \in [DOMAIN s.tokens -> TokenRow]
    BY <1>7 DEF TokenFits
  <2>3. DOMAIN saved = DOMAIN s.tokens
    BY <2>1 DEF SavedTokens
  <2>4. ASSUME NEW t \in DOMAIN s.tokens
        PROVE  saved[t] \in TokenRow
    <3>1. PICK row : row = s.tokens[t]
      OBVIOUS
    <3>2. row \in TokenRow
      BY <2>2, <3>1
    <3>3. PICK expired : expired = (row.isExpired \/ (t \in DOMAIN tokens /\ tokens[t].isExpired))
      OBVIOUS
    <3>4. expired \in BOOLEAN
      BY <3>3
    <3>5. saved[t] = [row EXCEPT !.isExpired = expired]
      BY <2>1, <3>1, <3>3 DEF SavedTokens
    <3> QED
      BY <3>2, <3>4, <3>5 DEF TokenRow
  <2>5. saved \in [DOMAIN saved -> TokenRow]
    BY <2>1, <2>3, <2>4 DEF SavedTokens
  <2>6. /\ DOMAIN table = DOMAIN saved \cup DOMAIN tokens
        /\ \A t \in DOMAIN table : table[t] \in TokenRow
    BY <2>1, <2>5, <1>8 DEF WrittenOver
  <2>7. tokens' = Revoked(table, s.revokeOf)
    BY <1>3, <2>1
  <2>8. DOMAIN tokens' = DOMAIN table
    BY <2>7 DEF Revoked
  <2>9. \A t \in DOMAIN table : tokens'[t] = Revoke(table[t]) \/ tokens'[t] = table[t]
    BY <2>7 DEF Revoked
  <2>10. \A t \in DOMAIN table : tokens'[t] \in TokenRow
    BY <2>6, <2>9, TokenRows
  <2>11. tokens' = [t \in DOMAIN tokens' |-> tokens'[t]]
    BY <2>7, <2>8 DEF Revoked
  <2> QED
    BY <2>2, <2>3, <2>6, <2>8, <2>10, <2>11, <1>8
<1>14. granted' \in [EmployeeIds -> SUBSET UserIds]
  <2>1. \A e \in DOMAIN s.grants : s.grants[e] \in SUBSET UserIds
    BY <1>7 DEF EmployeeFits
  <2> QED
    BY <2>1, <1>3, <1>8
<1>15. AccountsTypes'
  <2>1. outdated' \in BOOLEAN
    BY <1>3, <1>8
  <2>2. \A d \in IamClerks : IsList(session'[d])
    BY <1>4, <1>5 DEF AccountsIInv, AccountsTypes
  <2> QED
    BY <2>1, <2>2, <1>3, <1>4, <1>9, <1>10, <1>12, <1>13, <1>14 DEF AccountsIInv, AccountsTypes
<1>16. StatementsFit'
  <2>1. ASSUME NEW r, StatementFits(r, topic, DOMAIN users)
        PROVE  StatementFits(r, topic, DOMAIN users')
    <3>1. DOMAIN users \in SUBSET DOMAIN users'
      BY <1>9
    <3> QED
      BY <2>1, <3>1 DEF StatementFits, UserFits, EmployeeFits, TokenFits
  <2>2. ASSUME NEW d \in IamClerks, NEW k \in DOMAIN session'[d]
        PROVE  StatementFits(session'[d][k], topic, DOMAIN users)
    <3>1. CASE d = c
      <4>1. k + 1 \in DOMAIN session[c] /\ session'[d][k] = session[c][k + 1]
        BY <1>4, <1>5, <2>2, <3>1
      <4> QED
        BY <4>1 DEF AccountsIInv, StatementsFit
    <3>2. CASE d # c
      BY <1>4, <2>2, <3>2 DEF AccountsIInv, StatementsFit
    <3> QED
      BY <3>1, <3>2
  <2> QED
    BY <2>1, <2>2, <1>3 DEF StatementsFit
<1>17. AccessLeadsToAnAccount'
  <2> SUFFICES ASSUME NEW e \in DOMAIN employees', employees'[e].userId # NoUser
               PROVE  /\ employees'[e].userId \in DOMAIN users'
                      /\ \A f \in DOMAIN employees' :
                            employees'[f].userId = employees'[e].userId => e = f
    BY DEF AccessLeadsToAnAccount
  <2>1. e \in DOMAIN after /\ employees'[e] = after[e]
    BY <1>12
  <2>2. after[e].userId \in DOMAIN users'
    <3>1. CASE e \in DOMAIN s.employees
      <4>1. s.employees[e].userId \in {NoUser} \cup DOMAIN users \cup DOMAIN s.users
        BY <1>7, <3>1 DEF EmployeeFits
      <4> QED
        BY <4>1, <3>1, <2>1, <1>9, <1>11
    <3>2. CASE e \notin DOMAIN s.employees
      BY <3>2, <2>1, <1>9, <1>11 DEF AccountsIInv, GrantedAccountsAreHeld, AccessLeadsToAnAccount
    <3> QED
      BY <3>1, <3>2
  <2> QED
    BY <2>1, <2>2, <1>3, <1>12 DEF UniqueAccounts
<1>18. ~outdated' => /\ ~outdated
                     /\ \A u \in DOMAIN s.users : u \in DOMAIN s.readUsers =>
                           u \in DOMAIN users /\ s.readUsers[u] = users[u]
                     /\ \A e \in DOMAIN s.employees : e \in DOMAIN s.readEmployees =>
                           e \in DOMAIN employees /\ s.readEmployees[e] = employees[e]
  BY <1>3, <1>8 DEF Current, Rows
<1>19. ASSUME ~outdated', NEW e \in DOMAIN employees'
       PROVE  granted'[e] = {employees'[e].userId} \ {NoUser}
  <2>1. /\ e \in DOMAIN after /\ e \notin s.gone /\ employees'[e] = after[e] /\ e \in EmployeeIds
    BY <1>8, <1>11, <1>12
  <2>2. \A f \in DOMAIN employees : granted[f] = {employees[f].userId} \ {NoUser}
    BY <1>18, <1>19 DEF AccountsIInv, GrantedAccountsAreHeld
  <2>3. granted'[e] = IF e \in s.born THEN {}
                      ELSE granted[e] \cup (IF e \in DOMAIN s.grants THEN s.grants[e] ELSE {})
    BY <2>1, <1>3
  <2>4. CASE e \notin DOMAIN s.employees
    <3>1. e \notin s.born /\ e \notin DOMAIN s.grants
      BY <2>4, <1>7 DEF EmployeeFits
    <3> QED
      BY <3>1, <2>1, <2>2, <2>3, <2>4, <1>11
  <2>5. CASE e \in s.born
    <3>1. e \in DOMAIN s.employees /\ s.employees[e].userId = NoUser
      BY <2>5, <1>7 DEF EmployeeFits
    <3> QED
      BY <3>1, <2>1, <2>3, <2>5, <1>11
  <2>6. CASE e \in DOMAIN s.employees /\ e \in DOMAIN s.grants /\ e \notin s.born
    <3>1. /\ e \in DOMAIN s.readEmployees /\ s.readEmployees[e].userId = NoUser
          /\ s.employees[e].userId \in UserIds /\ s.grants[e] = {s.employees[e].userId}
      BY <2>6, <1>7 DEF EmployeeFits
    <3>2. granted[e] = {}
      BY <3>1, <2>2, <2>6, <1>18, <1>19
    <3>3. s.employees[e].userId # NoUser
      BY <3>1, AccountsAssumption
    <3> QED
      BY <3>1, <3>2, <3>3, <2>1, <2>3, <2>6, <1>11
  <2>7. CASE e \in DOMAIN s.employees /\ e \notin s.born \cup DOMAIN s.grants
    <3>1. e \in DOMAIN s.readEmployees /\ s.employees[e].userId = s.readEmployees[e].userId
      BY <2>7, <1>7 DEF EmployeeFits
    <3>2. granted[e] = {s.employees[e].userId} \ {NoUser}
      BY <3>1, <2>2, <2>7, <1>18, <1>19
    <3> QED
      BY <3>2, <2>1, <2>3, <2>7, <1>11
  <2> QED
    BY <2>4, <2>5, <2>6, <2>7
<1>20. GrantedAccountsAreHeld'
  BY <1>17, <1>19 DEF GrantedAccountsAreHeld
<1>21. ASSUME ~outdated', NEW u \in DOMAIN users'
       PROVE  users'[u].isActive = enabled'[u]
  <2>1. \A v \in DOMAIN users : users[v].isActive = enabled[v]
    BY <1>18, <1>21 DEF AccountsIInv, LastWordOnActivityHolds
  <2>2. CASE u \in DOMAIN s.says
    <3>1. u \in DOMAIN s.users /\ s.says[u] = s.users[u].isActive
      BY <2>2, <1>7 DEF UserFits
    <3> QED
      BY <3>1, <2>2, <1>9, <1>10
  <2>3. CASE u \in DOMAIN s.users \ DOMAIN s.says
    <3>1. u \in DOMAIN users /\ u \in DOMAIN s.readUsers
          /\ s.readUsers[u].isActive = s.users[u].isActive
      BY <2>3, <1>7 DEF UserFits
    <3> QED
      BY <3>1, <2>1, <2>3, <1>9, <1>10, <1>18, <1>21
  <2>4. CASE u \notin DOMAIN s.users
    <3>1. u \notin DOMAIN s.says /\ u \in DOMAIN users
      BY <2>4, <1>7, <1>9 DEF UserFits
    <3> QED
      BY <3>1, <2>1, <2>4, <1>9, <1>10
  <2> QED
    BY <2>2, <2>3, <2>4
<1>22. LastWordOnActivityHolds'
  BY <1>21 DEF LastWordOnActivityHolds
<1> QED
  BY <1>15, <1>16, <1>20, <1>22 DEF AccountsIInv

LEMMA AccountsAbandon ==
    ASSUME AccountsIInv, NEW c \in IamClerks, AbandonSession(c)
    PROVE  AccountsIInv'
<1>1. /\ session' = [session EXCEPT ![c] = << >>]
      /\ topic' = topic /\ users' = users /\ employees' = employees /\ tokens' = tokens
      /\ enabled' = enabled /\ granted' = granted /\ outdated' = outdated
  BY DEF AbandonSession
<1>2. \A d \in IamClerks : session'[d] = IF d = c THEN << >> ELSE session[d]
  BY <1>1 DEF AccountsIInv, AccountsTypes
<1>3. AccountsTypes'
  <2>1. session' = [d \in IamClerks |-> session'[d]]
    BY <1>1 DEF AccountsIInv, AccountsTypes
  <2>2. \A d \in IamClerks : IsList(session'[d])
    BY <1>2, StatementLists DEF AccountsIInv, AccountsTypes
  <2> QED
    BY <2>1, <2>2, <1>1 DEF AccountsIInv, AccountsTypes
<1>4. StatementsFit'
  BY <1>1, <1>2, StatementLists DEF AccountsIInv, StatementsFit
<1>5. GrantedAccountsAreHeld' /\ LastWordOnActivityHolds'
  BY <1>1 DEF AccountsIInv, GrantedAccountsAreHeld, AccessLeadsToAnAccount,
      LastWordOnActivityHolds
<1> QED
  BY <1>3, <1>4, <1>5 DEF AccountsIInv

LEMMA AccountsExpire ==
    ASSUME AccountsIInv, NEW t, Expire(t)
    PROVE  AccountsIInv'
<1>1. /\ tokens' = [tokens EXCEPT ![t].isExpired = TRUE]
      /\ topic' = topic /\ users' = users /\ employees' = employees /\ session' = session
      /\ enabled' = enabled /\ granted' = granted /\ outdated' = outdated
  BY DEF Expire
<1>2. DOMAIN tokens' \in SUBSET topic.tokens /\ tokens' \in [DOMAIN tokens' -> TokenRow]
  BY <1>1 DEF AccountsIInv, AccountsTypes, TokenRow
<1>3. AccountsTypes'
  BY <1>1, <1>2 DEF AccountsIInv, AccountsTypes
<1>4. StatementsFit'
  BY <1>1 DEF AccountsIInv, StatementsFit
<1>5. GrantedAccountsAreHeld' /\ LastWordOnActivityHolds'
  BY <1>1 DEF AccountsIInv, GrantedAccountsAreHeld, AccessLeadsToAnAccount,
      LastWordOnActivityHolds
<1> QED
  BY <1>3, <1>4, <1>5 DEF AccountsIInv

-----------------------------------------------------------------------------
LEMMA AccountsInitialized ==
    ASSUME AccountsInit
    PROVE  AccountsIInv
<1>1. /\ topic \in Topics /\ users = NoRows /\ employees = NoRows /\ tokens = NoRows
      /\ session = [c \in IamClerks |-> << >>] /\ enabled = NoRows
      /\ granted = [e \in EmployeeIds |-> {}] /\ outdated = FALSE
  BY DEF AccountsInit
<1>2. DOMAIN NoRows = {} /\ \A S : NoRows \in [DOMAIN NoRows -> S]
  BY RowsOfTables DEF NoRows
<1>3. \A c \in IamClerks : IsList(session[c]) /\ DOMAIN session[c] = {}
  BY <1>1, StatementLists
<1>4. AccountsTypes
  BY <1>1, <1>2, <1>3 DEF AccountsTypes
<1>5. StatementsFit
  BY <1>3 DEF StatementsFit
<1>6. GrantedAccountsAreHeld /\ LastWordOnActivityHolds
  BY <1>1, <1>2 DEF GrantedAccountsAreHeld, AccessLeadsToAnAccount, LastWordOnActivityHolds
<1> QED
  BY <1>4, <1>5, <1>6 DEF AccountsIInv

\* AccountsIInv holds in every reachable state of users, employees and tokens.
THEOREM AccountsInvariance == AccountsSpec => []AccountsIInv
<1>1. AccountsInit => AccountsIInv
  BY AccountsInitialized
<1>2. ASSUME AccountsIInv, AccountsNext
      PROVE  AccountsIInv'
  <2>1. topic.clerks \in SUBSET IamClerks
    BY <1>2, AccountsTopic
  <2>2. PICK c : \/ /\ c \in IamClerks
                    /\ \/ UserCommand(c) \/ EmployeeCommand(c) \/ AuthCommand(c)
                       \/ IssueStatement(c) \/ AbandonSession(c)
                 \/ Expire(c)
    BY <1>2, <2>1 DEF AccountsNext
  <2> QED
    BY <1>2, <2>2, AccountsUserCommand, AccountsEmployeeCommand, AccountsAuthCommand,
       AccountsIssue, AccountsAbandon, AccountsExpire
<1>3. ASSUME AccountsIInv, UNCHANGED accountVars
      PROVE  AccountsIInv'
  <2>1. /\ topic' = topic /\ users' = users /\ employees' = employees /\ tokens' = tokens
        /\ session' = session /\ enabled' = enabled /\ granted' = granted
        /\ outdated' = outdated
    BY <1>3 DEF accountVars
  <2>2. AccountsTypes'
    BY <1>3, <2>1 DEF AccountsIInv, AccountsTypes
  <2>3. StatementsFit'
    BY <1>3, <2>1 DEF AccountsIInv, StatementsFit
  <2>4. GrantedAccountsAreHeld' /\ LastWordOnActivityHolds'
    BY <1>3, <2>1 DEF AccountsIInv, GrantedAccountsAreHeld, AccessLeadsToAnAccount,
        LastWordOnActivityHolds
  <2> QED
    BY <2>2, <2>3, <2>4 DEF AccountsIInv
<1> QED
  BY <1>1, <1>2, <1>3, PTL DEF AccountsSpec

\* The committed users, employees and tokens and the history have their types.
THEOREM AccountsTypeCorrect == AccountsSpec => []AccountsTypeOK
<1>1. AccountsIInv => AccountsTypeOK
  BY DEF AccountsIInv, AccountsTypes, AccountsTypeOK
<1> QED
  BY <1>1, AccountsInvariance, PTL

\* An account that was granted is a registered user and one employee's, whatever
\* overlaps with the grant (grant-employee-access.ts, employee.ts).
THEOREM AccountsAreHeld == AccountsSpec => []GrantedAccountsAreHeld
<1>1. AccountsIInv => GrantedAccountsAreHeld
  BY DEF AccountsIInv
<1> QED
  BY <1>1, AccountsInvariance, PTL

\* A user is active as it was last said to be, through logins and edits (user.ts).
THEOREM AccountsLastWord == AccountsSpec => []LastWordOnActivityHolds
<1>1. AccountsIInv => LastWordOnActivityHolds
  BY DEF AccountsIInv
<1> QED
  BY <1>1, AccountsInvariance, PTL

-------------------------------------------------------------------------------
(* The settings of the establishment: module Establishment. *)

(* Types *)

\* The rows that the statements of save() and the requests are about.
LEMMA SettingRowTypes ==
    ASSUME NEW r \in SettingsRow
    PROVE  /\ \A q \in UpdateSettingsRequest : MergedSettings(r, q) \in SettingsRow
           /\ \A row \in SettingsRow : \A base : Updated(r, row, base) \in SettingsRow
  BY EstablishmentAssumption
     DEF SettingsRow, UpdateSettingsRequest, MergedSettings, Updated

\* The stored row of an id is a row with that id, or there is none.
LEMMA StoredRowFacts ==
    ASSUME establishments \in Seq(SettingsRow), NEW id
    PROVE  /\ StoredRow(id) \in SettingsRow \cup {Unset}
           /\ RowOf(id) # {} => \E n \in RowOf(id) : StoredRow(id) = establishments[n]
<1>1. CASE RowOf(id) = {}
  BY <1>1 DEF StoredRow
<1>2. CASE RowOf(id) # {}
  <2> DEFINE k == CHOOSE n \in RowOf(id) : TRUE
  <2>1. k \in RowOf(id)
    BY <1>2
  <2>2. StoredRow(id) = establishments[k]
    BY <1>2 DEF StoredRow
  <2>3. establishments[k] \in SettingsRow
    BY <2>1 DEF RowOf
  <2> HIDE DEF k
  <2> QED
    BY <2>1, <2>2, <2>3
<1> QED
  BY <1>1, <1>2

LEMMA EmptyTypes == EstablishmentInit => EstablishmentTypeOK
<1> SUFFICES ASSUME EstablishmentInit PROVE EstablishmentTypeOK
    OBVIOUS
<1>1. establishments \in Seq(SettingsRow)
  <2>1. << >> \in Seq(SettingsRow)
    OBVIOUS
  <2> QED
    BY <2>1 DEF EstablishmentInit
<1>2. office \in [Managers -> {AtRest}]
  BY DEF EstablishmentInit
<1> QED
  BY <1>1, <1>2 DEF EstablishmentInit, EstablishmentTypeOK

LEMMA EstablishmentTypeStep ==
    EstablishmentTypeOK /\ [EstablishmentNext]_establishmentVars => EstablishmentTypeOK'
<1> SUFFICES ASSUME EstablishmentTypeOK, [EstablishmentNext]_establishmentVars
             PROVE  EstablishmentTypeOK'
    OBVIOUS
<1> USE DEF EstablishmentTypeOK
<1>1. ASSUME NEW m \in Managers, InitializeEstablishment(m) PROVE EstablishmentTypeOK'
  BY <1>1 DEF InitializeEstablishment, SubmitSettings, NewSettings, CreateSettingsRequest
<1>2. ASSUME NEW m \in Managers, UpdateEstablishmentSettings(m) PROVE EstablishmentTypeOK'
  <2>1. establishments # << >> => establishments[1] \in SettingsRow
    OBVIOUS
  <2>2. PICK q \in UpdateSettingsRequest :
            SubmitSettings(m, MergedSettings(establishments[1], q))
    BY <1>2 DEF UpdateEstablishmentSettings
  <2>3. MergedSettings(establishments[1], q) \in SettingsRow
    BY <1>2, <2>1, SettingRowTypes DEF UpdateEstablishmentSettings, CanFindSingleton
  <2> QED
    BY <2>2, <2>3 DEF SubmitSettings
<1>3. ASSUME NEW m \in Managers, SelectSettings(m) PROVE EstablishmentTypeOK'
  <2>1. office[m].row \in SettingsRow
    BY <1>3 DEF SelectSettings, AtRest
  <2>2. StoredRow(office[m].row.id) \in SettingsRow \cup {Unset}
    BY StoredRowFacts
  <2> QED
    BY <1>3, <2>1, <2>2 DEF SelectSettings
<1>4. ASSUME NEW m \in Managers, WriteSettings(m) PROVE EstablishmentTypeOK'
  <2>1. office[m].row \in SettingsRow
    BY <1>4 DEF WriteSettings, AtRest
  <2>2. establishments' \in Seq(SettingsRow)
    <3>1. CASE office[m].base = Unset
      BY <1>4, <2>1, <3>1 DEF WriteSettings
    <3>2. CASE office[m].base # Unset
      <4> DEFINE written(n) ==
                IF n \in RowOf(office[m].row.id)
                THEN Updated(establishments[n], office[m].row, office[m].base)
                ELSE establishments[n]
      <4>1. establishments' = [n \in 1..Len(establishments) |-> written(n)]
        BY <1>4, <3>2 DEF WriteSettings
      <4>2. \A n \in 1..Len(establishments) : written(n) \in SettingsRow
        BY <2>1, SettingRowTypes
      <4> HIDE DEF written
      <4> QED
        BY <4>1, <4>2
    <3> QED
      BY <3>1, <3>2
  <2>3. crossed' \in BOOLEAN /\ office' = [office EXCEPT ![m] = AtRest]
    BY <1>4 DEF WriteSettings
  <2> QED
    BY <2>2, <2>3
<1>5. ASSUME NEW m \in Managers, AbandonSettings(m) PROVE EstablishmentTypeOK'
  BY <1>5 DEF AbandonSettings
<1>6. CASE UNCHANGED establishmentVars
  BY <1>6 DEF establishmentVars
<1> QED
  BY <1>1, <1>2, <1>3, <1>4, <1>5, <1>6 DEF EstablishmentNext

\* The rows and the requests of establishment.entity.ts and of its two DTOs keep
\* their types, whoever overlaps.
THEOREM SettingsTypeCorrect == EstablishmentSpec => []EstablishmentTypeOK
<1>1. EstablishmentInit => EstablishmentTypeOK
  BY EmptyTypes
<1> QED
  BY <1>1, EstablishmentTypeStep, PTL DEF EstablishmentSpec

-----------------------------------------------------------------------------
(* The settings can be read *)

\* There is one row for an id: the primary key.
OneRowPerId ==
    \A n, k \in DOMAIN establishments :
        establishments[n].id = establishments[k].id => n = k

\* What is about to be written was validated as a whole, against the row it was
\* merged with and not against the one that will be there.
RequestsFit ==
    \A m \in Managers : office[m] # AtRest => EnsureTaxRateMatchesTaxType(office[m].row)

\* The strengthening of SettingsCanBeRead that every step preserves.
SettingsInv == EstablishmentTypeOK /\ OneRowPerId /\ RequestsFit /\ SettingsCanBeRead

\* When nothing was written between its two statements, save() leaves the copy.
LEMMA UpdateOfTheSelected ==
    ASSUME NEW row \in SettingsRow, NEW base \in SettingsRow,
           EnsureTaxRateMatchesTaxType(row)
    PROVE  EnsureTaxRateMatchesTaxType(Updated(base, row, base))
  BY DEF Updated, EnsureTaxRateMatchesTaxType, SettingsRow

LEMMA WriteKeepsSettings ==
    ASSUME SettingsInv, NEW m \in Managers, WriteSettings(m)
    PROVE  OneRowPerId' /\ RequestsFit' /\ SettingsCanBeRead'
<1> DEFINE w == office[m]
<1> USE DEF SettingsInv
<1>1. w.row \in SettingsRow /\ w.base \in SettingsRow \cup {Unset} /\ w # AtRest
  BY DEF EstablishmentTypeOK, WriteSettings, AtRest
<1>2. EnsureTaxRateMatchesTaxType(w.row)
  BY <1>1 DEF RequestsFit
<1>3. RequestsFit'
  BY DEF RequestsFit, WriteSettings, EstablishmentTypeOK
<1>4. CASE w.base = Unset
  <2>1. establishments' = Append(establishments, w.row) /\ RowOf(w.row.id) = {}
    BY <1>4 DEF WriteSettings
  <2>2. \A n \in DOMAIN establishments : establishments[n].id # w.row.id
    BY <2>1 DEF RowOf
  <2>3. DOMAIN establishments' = 1..(Len(establishments) + 1)
    BY <2>1, <1>1 DEF EstablishmentTypeOK
  <2>4. \A n \in DOMAIN establishments : establishments'[n] = establishments[n]
    BY <2>1, <1>1 DEF EstablishmentTypeOK
  <2>5. establishments'[Len(establishments) + 1] = w.row
    BY <2>1, <1>1 DEF EstablishmentTypeOK
  <2>6. DOMAIN establishments = 1..Len(establishments) /\ Len(establishments) \in Nat
    BY DEF EstablishmentTypeOK
  <2>7. \A n \in DOMAIN establishments' : n \in DOMAIN establishments \/ n = Len(establishments) + 1
    BY <2>3, <2>6
  <2>8. OneRowPerId'
    BY <2>2, <2>4, <2>5, <2>7 DEF OneRowPerId
  <2>9. SettingsCanBeRead'
    BY <2>4, <2>5, <2>7, <1>2 DEF SettingsCanBeRead, WriteSettings
  <2> QED
    BY <1>3, <2>8, <2>9
<1>5. CASE w.base # Unset
  <2> DEFINE written(n) == IF n \in RowOf(w.row.id)
                           THEN Updated(establishments[n], w.row, w.base)
                           ELSE establishments[n]
  <2>1. establishments' = [n \in DOMAIN establishments |-> written(n)]
    BY <1>5 DEF WriteSettings
  <2>2. \A n \in DOMAIN establishments : written(n).id = establishments[n].id
    BY DEF EstablishmentTypeOK, Updated, SettingsRow
  <2>3. OneRowPerId'
    BY <2>1, <2>2 DEF OneRowPerId
  <2>4. ASSUME ~crossed', NEW n \in DOMAIN establishments
        PROVE  EnsureTaxRateMatchesTaxType(written(n))
    <3>1. ~crossed /\ StoredRow(w.row.id) = w.base
      BY <2>4 DEF WriteSettings
    <3>2. CASE n \in RowOf(w.row.id)
      <4>1. PICK k \in RowOf(w.row.id) : StoredRow(w.row.id) = establishments[k]
        BY <3>2, StoredRowFacts DEF EstablishmentTypeOK
      <4>2. k = n
        BY <3>2, <4>1 DEF RowOf, OneRowPerId
      <4>3. establishments[n] = w.base
        BY <3>1, <4>1, <4>2
      <4> QED
        BY <1>1, <1>2, <1>5, <3>2, <4>3, UpdateOfTheSelected
    <3>3. CASE n \notin RowOf(w.row.id)
      BY <3>1, <3>3 DEF SettingsCanBeRead
    <3> QED
      BY <3>2, <3>3
  <2>5. SettingsCanBeRead'
    BY <2>1, <2>4 DEF SettingsCanBeRead
  <2> QED
    BY <1>3, <2>3, <2>5
<1> QED
  BY <1>4, <1>5

LEMMA SettingsStep ==
    SettingsInv /\ [EstablishmentNext]_establishmentVars => SettingsInv'
<1> SUFFICES ASSUME SettingsInv, [EstablishmentNext]_establishmentVars PROVE SettingsInv'
    OBVIOUS
<1> USE DEF SettingsInv
<1>1. EstablishmentTypeOK'
  BY EstablishmentTypeStep
<1> SUFFICES OneRowPerId' /\ RequestsFit' /\ SettingsCanBeRead'
    BY <1>1
<1>2. ASSUME NEW m \in Managers, NEW row, SubmitSettings(m, row),
             EnsureTaxRateMatchesTaxType(row)
      PROVE  OneRowPerId' /\ RequestsFit' /\ SettingsCanBeRead'
  BY <1>2 DEF SubmitSettings, OneRowPerId, RequestsFit, SettingsCanBeRead, EstablishmentTypeOK
<1>3. ASSUME NEW m \in Managers, InitializeEstablishment(m)
      PROVE  OneRowPerId' /\ RequestsFit' /\ SettingsCanBeRead'
  BY <1>2, <1>3 DEF InitializeEstablishment, NewSettings
<1>4. ASSUME NEW m \in Managers, UpdateEstablishmentSettings(m)
      PROVE  OneRowPerId' /\ RequestsFit' /\ SettingsCanBeRead'
  BY <1>2, <1>4 DEF UpdateEstablishmentSettings, ValidUpdate
<1>5. ASSUME NEW m \in Managers, SelectSettings(m)
      PROVE  OneRowPerId' /\ RequestsFit' /\ SettingsCanBeRead'
  BY <1>5 DEF SelectSettings, AtRest, OneRowPerId, RequestsFit, SettingsCanBeRead,
              EstablishmentTypeOK
<1>6. ASSUME NEW m \in Managers, AbandonSettings(m)
      PROVE  OneRowPerId' /\ RequestsFit' /\ SettingsCanBeRead'
  BY <1>6 DEF AbandonSettings, OneRowPerId, RequestsFit, SettingsCanBeRead, EstablishmentTypeOK
<1>7. CASE UNCHANGED establishmentVars
  BY <1>7 DEF establishmentVars, OneRowPerId, RequestsFit, SettingsCanBeRead
<1> QED
  BY <1>3, <1>4, <1>5, <1>6, <1>7, WriteKeepsSettings DEF EstablishmentNext

\* However many edits overlap (update-establishment-settings.ts), settings that
\* cannot be loaded again appear only when a row changes between the SELECT and the
\* UPDATE of one save().
THEOREM SettingsStayReadable == EstablishmentSpec => []SettingsCanBeRead
<1>1. EstablishmentInit => SettingsInv
  BY EmptyTypes DEF EstablishmentInit, SettingsInv, OneRowPerId, RequestsFit,
                    SettingsCanBeRead
<1>2. SettingsInv => SettingsCanBeRead
  BY DEF SettingsInv
<1> QED
  BY <1>1, <1>2, SettingsStep, PTL DEF EstablishmentSpec

-------------------------------------------------------------------------------
(* The money of an order: module OrderMoney. *)

(* Rounding *)

\* A rounded quotient is within half a unit of the quotient.
LEMMA RoundedBounds ==
    ASSUME NEW n \in Nat, NEW d \in Nat \ {0}
    PROVE  /\ Rounded(n, d) \in Nat
           /\ 2 * d * Rounded(n, d) <= 2 * n + d
           /\ 2 * n < 2 * d * Rounded(n, d) + d
<1>1. PICK e \in Nat \ {0} : e = 2 * d
  OBVIOUS
<1>2. PICK m \in Nat : m = 2 * n + d
  OBVIOUS
<1>3. PICK q : q = m \div e
  OBVIOUS
<1>4. q \in Nat /\ e * q <= m /\ m < e * q + e
  BY <1>3
<1>5. Rounded(n, d) = q
  BY <1>1, <1>2, <1>3 DEF Rounded
<1> QED
  BY <1>1, <1>2, <1>4, <1>5

\* It is not above a whole number that the quotient is not above.
LEMMA RoundedIsBelow ==
    ASSUME NEW n \in Nat, NEW d \in Nat \ {0}, NEW m \in Nat, n <= d * m
    PROVE  Rounded(n, d) <= m
<1>1. PICK r \in Nat : r = Rounded(n, d)
  BY RoundedBounds
<1>2. 2 * d * r <= 2 * n + d
  BY <1>1, RoundedBounds
<1>3. 2 * d * r <= 2 * (d * m) + d
  BY <1>2
<1>4. ASSUME m < r PROVE FALSE
  <2>1. m + 1 <= r
    BY <1>4
  <2>2. d * (m + 1) <= d * r
    BY <2>1
  <2>3. d * (m + 1) = d * m + d /\ 2 * d * r = 2 * (d * r)
    OBVIOUS
  <2> QED
    BY <1>3, <2>2, <2>3
<1> QED
  BY <1>1, <1>4

\* A discount takes no more than there is.
LEMMA DiscountIsWithin ==
    ASSUME NEW d \in Discounts \cup {NoDiscount}, NEW base \in Nat
    PROVE  AmountOn(d, base) \in 0..base
<1>1. CASE d = NoDiscount
  BY <1>1 DEF AmountOn
<1>2. CASE d # NoDiscount
  <2>1. d \in Discounts /\ d.value \in Nat \ {0}
    BY <1>2, OrderMoneyAssumption
  <2>2. CASE d.method = "PERCENTAGE"
    <3>1. d.value <= 100 /\ AmountOn(d, base) = Rounded(base * d.value, 100)
      BY <1>2, <2>1, <2>2, OrderMoneyAssumption DEF AmountOn
    <3>2. PICK v \in Nat : v = d.value
      BY <2>1
    <3>3. base * v \in Nat /\ base * v <= 100 * base
      BY <3>1, <3>2
    <3>4. Rounded(base * v, 100) \in Nat /\ Rounded(base * v, 100) <= base
      BY <3>3, RoundedIsBelow, RoundedBounds
    <3> QED
      BY <3>1, <3>2, <3>4
  <2>3. CASE d.method # "PERCENTAGE"
    <3>1. AmountOn(d, base) = Min({d.value, base})
      BY <1>2, <2>3 DEF AmountOn
    <3>2. PICK v \in Nat : v = d.value
      BY <2>1
    <3>3. \E x \in {v, base} : \A y \in {v, base} : x <= y
      BY <3>2
    <3>4. Min({v, base}) \in {v, base} /\ \A y \in {v, base} : Min({v, base}) <= y
      BY <3>3 DEF Min
    <3> QED
      BY <3>1, <3>2, <3>4
  <2> QED
    BY <2>2, <2>3
<1> QED
  BY <1>1, <1>2

\* The price before tax is not above the price.
LEMMA TaxIsWithin ==
    ASSUME NEW net \in Nat
    PROVE  TaxBase(net) \in 0..net
<1>1. CASE TaxRate = 0
  BY <1>1 DEF TaxBase
<1>2. CASE TaxRate # 0
  <2>1. PICK r \in 0..100 : r = TaxRate
    BY OrderMoneyAssumption
  <2>2. net * 100 \in Nat /\ net * 100 <= (100 + r) * net
    BY <2>1
  <2>3. Rounded(net * 100, 100 + r) \in Nat /\ Rounded(net * 100, 100 + r) <= net
    BY <2>1, <2>2, RoundedIsBelow, RoundedBounds
  <2> QED
    BY <1>2, <2>1, <2>3 DEF TaxBase
<1> QED
  BY <1>1, <1>2

-----------------------------------------------------------------------------
(* Rows, items and totals *)

BillRow ==
    [status : {"OPEN", "IN_PROGRESS", "CLOSED", "CANCELLED"},
     discount : Discounts \cup {NoDiscount}, fee : Nat, tip : Nat, paid : Nat \cup {NotPaid},
     subtotal : Nat, discountTotal : Nat, taxBase : Nat, taxAmount : Nat, total : Nat]

IsMenu(items) ==
    /\ DOMAIN items \subseteq OrderItemIds /\ IsFiniteSet(DOMAIN items)
    /\ items \in [DOMAIN items -> Dish]

LEMMA LineTotals ==
    ASSUME NEW items, IsMenu(items)
    PROVE  /\ ActiveItems(items) \subseteq DOMAIN items /\ IsFiniteSet(ActiveItems(items))
           /\ \A i \in DOMAIN items :
                 /\ LineTotal(items[i]) \in Nat
                 /\ AmountOn(items[i].discount, LineTotal(items[i])) \in 0..LineTotal(items[i])
<1>1. ActiveItems(items) \subseteq DOMAIN items /\ IsFiniteSet(ActiveItems(items))
  BY FS_Subset DEF IsMenu, ActiveItems
<1>2. ASSUME NEW i \in DOMAIN items
      PROVE  /\ LineTotal(items[i]) \in Nat
             /\ items[i].discount \in Discounts \cup {NoDiscount}
  <2>1. items[i] \in Dish
    BY DEF IsMenu
  <2>2. PICK p \in Nat, m \in Nat, q \in Nat :
            p = items[i].unitPrice /\ m = items[i].modifiers /\ q = items[i].quantity
    BY <2>1 DEF Dish
  <2>3. (p + m) * q \in Nat
    OBVIOUS
  <2> QED
    BY <2>1, <2>2, <2>3 DEF LineTotal, Dish
<1> QED
  BY <1>1, <1>2, DiscountIsWithin

LEMMA SubtotalsAreNatural ==
    ASSUME NEW items, IsMenu(items)
    PROVE  /\ Subtotal(items) \in Nat /\ ItemDiscountTotal(items) \in Nat
           /\ ItemDiscountTotal(items) <= Subtotal(items)
<1>1. PICK f : f = [i \in DOMAIN items |-> LineTotal(items[i])]
  OBVIOUS
<1>2. PICK h : h = [i \in DOMAIN items |-> AmountOn(items[i].discount, LineTotal(items[i]))]
  OBVIOUS
<1>3. PICK A : A = ActiveItems(items)
  OBVIOUS
<1>4. IsFiniteSet(A) /\ \A i \in A : f[i] \in Nat /\ h[i] \in Nat /\ h[i] <= f[i]
  BY <1>1, <1>2, <1>3, LineTotals
<1>5. SumFunctionOnSet(f, A) \in Nat /\ SumFunctionOnSet(h, A) \in Nat
  BY <1>4, SumIsNatural
<1>6. SumFunctionOnSet(h, A) <= SumFunctionOnSet(f, A)
  BY <1>4, SumsCompare
<1> QED
  BY <1>1, <1>2, <1>3, <1>5, <1>6 DEF Subtotal, ItemDiscountTotal

LEMMA NoLinesNoAmount ==
    IsMenu(NoLines) /\ Subtotal(NoLines) = 0 /\ ItemDiscountTotal(NoLines) = 0
<1>1. DOMAIN NoLines = {}
  BY DEF NoLines
<1>2. IsMenu(NoLines)
  BY <1>1, FS_EmptySet DEF IsMenu, NoLines
<1>3. ActiveItems(NoLines) = {}
  BY <1>1 DEF ActiveItems
<1> QED
  BY <1>2, <1>3, SumOfNothing DEF Subtotal, ItemDiscountTotal

\* Totals are amounts of their own; base and tax are what is left of the subtotal.
LEMMA TotalsFacts ==
    ASSUME NEW row \in BillRow, NEW items, IsMenu(items), NEW repeated, IsMenu(repeated)
    PROVE  \E g, net, b \in Nat :
              /\ g = Subtotal(items) + Subtotal(repeated)
              /\ net <= g /\ b <= net /\ b = TaxBase(net)
              /\ OrderTotals(row, items, repeated) =
                    [subtotal |-> g, discountTotal |-> g - net, taxBase |-> b,
                     taxAmount |-> net - b, total |-> net + row.fee + row.tip]
<1>1. PICK g \in Nat, h \in Nat :
          /\ g = Subtotal(items) + Subtotal(repeated)
          /\ h = ItemDiscountTotal(items) + ItemDiscountTotal(repeated) /\ h <= g
  <2>1. /\ Subtotal(items) \in Nat /\ ItemDiscountTotal(items) \in Nat
        /\ ItemDiscountTotal(items) <= Subtotal(items)
    BY SubtotalsAreNatural
  <2>2. /\ Subtotal(repeated) \in Nat /\ ItemDiscountTotal(repeated) \in Nat
        /\ ItemDiscountTotal(repeated) <= Subtotal(repeated)
    BY SubtotalsAreNatural
  <2> QED
    BY <2>1, <2>2
<1>2. PICK before \in Nat : before = g - h
  BY <1>1
<1>3. PICK a \in 0..before : a = AmountOn(row.discount, before)
  BY DiscountIsWithin DEF BillRow
<1>4. PICK net \in Nat : net = before - a
  BY <1>3
<1>5. PICK b \in 0..net : b = TaxBase(net)
  BY TaxIsWithin
<1>6. OrderTotals(row, items, repeated) =
          [subtotal |-> g, discountTotal |-> g - net, taxBase |-> b,
           taxAmount |-> net - b, total |-> net + row.fee + row.tip]
  BY <1>1, <1>2, <1>3, <1>4, <1>5 DEF OrderTotals
<1>7. net <= g /\ b <= net /\ b \in Nat
  BY <1>1, <1>2, <1>3, <1>4, <1>5
<1> QED
  BY <1>1, <1>5, <1>6, <1>7

LEMMA TotalsOfItems ==
    ASSUME NEW row \in BillRow, NEW items, IsMenu(items)
    PROVE  \E g, net, b \in Nat :
              /\ g = Subtotal(items) /\ net <= g /\ b <= net /\ b = TaxBase(net)
              /\ OrderTotals(row, items, NoLines) =
                    [subtotal |-> g, discountTotal |-> g - net, taxBase |-> b,
                     taxAmount |-> net - b, total |-> net + row.fee + row.tip]
<1>1. IsMenu(NoLines)
  BY NoLinesNoAmount
<1>2. PICK g, net, b \in Nat :
              /\ g = Subtotal(items) + Subtotal(NoLines)
              /\ net <= g /\ b <= net /\ b = TaxBase(net)
              /\ OrderTotals(row, items, NoLines) =
                    [subtotal |-> g, discountTotal |-> g - net, taxBase |-> b,
                     taxAmount |-> net - b, total |-> net + row.fee + row.tip]
  BY <1>1, TotalsFacts
<1>3. Subtotal(NoLines) = 0 /\ Subtotal(items) \in Nat
  BY NoLinesNoAmount, SubtotalsAreNatural
<1>4. g = Subtotal(items)
  BY <1>2, <1>3
<1> QED
  BY <1>2, <1>4

\* What pricing a row changes and what it leaves.
LEMMA PricedFacts ==
    ASSUME NEW row \in BillRow, NEW items, IsMenu(items), NEW repeated, IsMenu(repeated)
    PROVE  LET t == OrderTotals(row, items, repeated)  p == Priced(row, items, repeated) IN
           /\ p \in BillRow
           /\ p.status = row.status /\ p.discount = row.discount /\ p.fee = row.fee
           /\ p.tip = row.tip /\ p.paid = row.paid
           /\ p.subtotal = t.subtotal /\ p.discountTotal = t.discountTotal
           /\ p.taxBase = t.taxBase /\ p.taxAmount = t.taxAmount /\ p.total = t.total
           /\ p.taxBase + p.taxAmount = p.subtotal - p.discountTotal
<1>1. PICK g, net, b \in Nat :
              /\ g = Subtotal(items) + Subtotal(repeated)
              /\ net <= g /\ b <= net /\ b = TaxBase(net)
              /\ OrderTotals(row, items, repeated) =
                    [subtotal |-> g, discountTotal |-> g - net, taxBase |-> b,
                     taxAmount |-> net - b, total |-> net + row.fee + row.tip]
  BY TotalsFacts
<1>2. row.fee \in Nat /\ row.tip \in Nat
  BY DEF BillRow
<1>3. PICK dt, ta, tt \in Nat : dt = g - net /\ ta = net - b /\ tt = net + row.fee + row.tip
  BY <1>1, <1>2
<1>4. PICK t : t = [subtotal |-> g, discountTotal |-> dt, taxBase |-> b,
                    taxAmount |-> ta, total |-> tt]
  OBVIOUS
<1>5. OrderTotals(row, items, repeated) = t
  BY <1>1, <1>3, <1>4
<1>6. PICK s, d, f, p, q, x1, x2, x3, x4, x5 :
          /\ row = [status |-> s, discount |-> d, fee |-> f, tip |-> p, paid |-> q,
                    subtotal |-> x1, discountTotal |-> x2, taxBase |-> x3, taxAmount |-> x4,
                    total |-> x5]
          /\ s \in {"OPEN", "IN_PROGRESS", "CLOSED", "CANCELLED"}
          /\ d \in Discounts \cup {NoDiscount} /\ f \in Nat /\ p \in Nat
          /\ q \in Nat \cup {NotPaid}
  BY DEF BillRow
<1>7. Priced(row, items, repeated) =
          [status |-> s, discount |-> d, fee |-> f, tip |-> p, paid |-> q,
           subtotal |-> g, discountTotal |-> dt, taxBase |-> b, taxAmount |-> ta, total |-> tt]
  BY <1>4, <1>5, <1>6 DEF Priced, WrittenOver
<1>8. b + ta = g - dt
  BY <1>1, <1>3
<1> QED
  BY <1>3, <1>4, <1>5, <1>6, <1>7, <1>8 DEF BillRow

\* Pricing a row once more changes nothing.
LEMMA PricedOnce ==
    ASSUME NEW row \in BillRow, NEW items, IsMenu(items), NEW repeated, IsMenu(repeated)
    PROVE  Priced(Priced(row, items, repeated), items, repeated) = Priced(row, items, repeated)
<1>1. PICK p : p = Priced(row, items, repeated)
  OBVIOUS
<1>2. p \in BillRow /\ p.discount = row.discount /\ p.fee = row.fee /\ p.tip = row.tip
  BY <1>1, PricedFacts
<1>3. OrderTotals(p, items, repeated) = OrderTotals(row, items, repeated)
  BY <1>2 DEF OrderTotals
<1>4. DOMAIN OrderTotals(row, items, repeated) =
          {"subtotal", "discountTotal", "taxBase", "taxAmount", "total"}
  BY DEF OrderTotals
<1>5. Priced(p, items, repeated) =
          WrittenOver(OrderTotals(row, items, repeated),
                      WrittenOver(OrderTotals(row, items, repeated), row))
  BY <1>1, <1>3 DEF Priced
<1>6. \A t, r : WrittenOver(t, WrittenOver(t, r)) = WrittenOver(t, r)
  BY DEF WrittenOver
<1> QED
  BY <1>1, <1>5, <1>6 DEF Priced

-----------------------------------------------------------------------------
(* The taxes of the items *)

\* What holds D times over holds.
LEMMA DivideThrough ==
    ASSUME NEW r \in Int, NEW T \in Nat, NEW D \in Nat \ {0}, NEW n \in Nat,
           2 * D * r - 2 * T * D <= n * D, 2 * T * D - 2 * D * r <= n * D
    PROVE  2 * (r - T) \in -n..n
<1>1. PICK e \in Int : e = 2 * (r - T)
  OBVIOUS
<1>2. 2 * D * r - 2 * T * D = D * e
  BY <1>1
<1>3. D * e <= D * n /\ -(D * e) <= D * n
  BY <1>2
<1>4. ASSUME n < e PROVE FALSE
  <2>1. n + 1 <= e
    BY <1>4
  <2>2. D * (n + 1) <= D * e /\ D * (n + 1) = D * n + D
    BY <2>1
  <2> QED
    BY <1>3, <2>2
<1>5. ASSUME e < -n PROVE FALSE
  <2>1. n + 1 <= -e
    BY <1>5
  <2>2. D * (n + 1) <= D * (-e) /\ D * (n + 1) = D * n + D /\ D * (-e) = -(D * e)
    BY <2>1
  <2> QED
    BY <1>3, <2>2
<1> QED
  BY <1>1, <1>4, <1>5

\* Shares of an amount, each rounded, come to that amount but for half a cent each.
LEMMA RoundedShares ==
    ASSUME NEW S, IsFiniteSet(S), NEW a \in [S -> Nat], NEW T \in Nat, NEW D \in Nat \ {0},
           NEW R, R = [i \in S |-> Rounded(a[i] * T, D)],
           SumFunctionOnSet(a, S) = D
    PROVE  2 * (SumFunctionOnSet(R, S) - T) \in -Cardinality(S)..Cardinality(S)
<1> DEFINE Near(r, s, n) == 2 * D * r - 2 * T * s <= n * D /\ 2 * T * s - 2 * D * r <= n * D
           C == {U \in SUBSET S :
                    Near(SumFunctionOnSet(R, U), SumFunctionOnSet(a, U), Cardinality(U))}
<1>1. \A i \in S : R[i] \in Nat /\ a[i] \in Nat /\ Near(R[i], a[i], 1)
  <2> TAKE i \in S
  <2>1. PICK p \in Nat : p = a[i] * T
    OBVIOUS
  <2>2. R[i] = Rounded(p, D)
    BY <2>1
  <2>3. /\ Rounded(p, D) \in Nat
        /\ 2 * D * Rounded(p, D) <= 2 * p + D
        /\ 2 * p < 2 * D * Rounded(p, D) + D
    BY RoundedBounds
  <2>4. 2 * T * a[i] = 2 * p
    BY <2>1
  <2> QED
    BY <2>2, <2>3, <2>4
<1>2. {} \in C
  <2>1. SumFunctionOnSet(R, {}) = 0 /\ SumFunctionOnSet(a, {}) = 0 /\ Cardinality({}) = 0
    BY SumOfNothing, FS_EmptySet
  <2> QED
    BY <2>1
<1>3. ASSUME NEW U \in C, NEW x \in S \ U
      PROVE  U \cup {x} \in C
  <2>1. IsFiniteSet(U) /\ U \cup {x} \in SUBSET S /\ Cardinality(U) \in Nat
    BY FS_Subset, FS_CardinalityType
  <2>2. Cardinality(U \cup {x}) = Cardinality(U) + 1
    BY <2>1, FS_AddElement
  <2>3. \A i \in U \cup {x} : R[i] \in Int /\ a[i] \in Int
    BY <1>1
  <2>4. /\ SumFunctionOnSet(R, U \cup {x}) = SumFunctionOnSet(R, U) + R[x]
        /\ SumFunctionOnSet(a, U \cup {x}) = SumFunctionOnSet(a, U) + a[x]
        /\ SumFunctionOnSet(R, U) \in Int /\ SumFunctionOnSet(a, U) \in Int
    BY <2>1, <2>3, SumGrows, SumType
  <2>5. PICK r, s, y, z, n :
            /\ r = SumFunctionOnSet(R, U) /\ s = SumFunctionOnSet(a, U)
            /\ y = R[x] /\ z = a[x] /\ n = Cardinality(U)
    OBVIOUS
  <2>6. /\ r \in Int /\ s \in Int /\ y \in Int /\ z \in Int /\ n \in Nat
        /\ Near(r, s, n) /\ Near(y, z, 1)
    BY <1>1, <2>1, <2>4, <2>5
  <2>7. /\ 2 * D * (r + y) = 2 * D * r + 2 * D * y
        /\ 2 * T * (s + z) = 2 * T * s + 2 * T * z
        /\ (n + 1) * D = n * D + 1 * D
    BY <2>6
  <2>8. Near(r + y, s + z, n + 1)
    BY <2>6, <2>7
  <2> QED
    BY <2>1, <2>2, <2>4, <2>5, <2>8
<1>4. S \in C
  <2> HIDE DEF C
  <2>1. C \in SUBSET SUBSET S
    BY DEF C
  <2> QED
    BY <1>2, <1>3, <2>1, SubsetInduction
<1>5. SumFunctionOnSet(R, S) \in Int /\ Cardinality(S) \in Nat
  BY <1>1, SumType, FS_CardinalityType
<1>6. SumFunctionOnSet(a, S) = D /\ Near(SumFunctionOnSet(R, S), D, Cardinality(S))
  BY <1>4
<1> HIDE DEF C
<1> QED
  BY <1>5, <1>6, DivideThrough

\* What ClosedOrderIsPaid says of a row, its items and the event.
IsPaid(row, items, slip) ==
    LET sold  == DOMAIN slip.items
        taxes == SumFunctionOnSet([i \in sold |-> slip.items[i].taxAmount], sold) IN
    /\ Matches(row.paid, row.total)
    /\ slip.total + slip.tip = row.total
    /\ slip.subtotal = SumFunctionOnSet([i \in sold |-> slip.items[i].lineTotal], sold)
    /\ (/\ row.fee = 0 /\ row.discountTotal = 0
        /\ \A i \in DOMAIN items : items[i].modifiers = 0)
       => 2 * (taxes - slip.taxAmount) \in -Cardinality(sold)..Cardinality(sold)

LEMMA PaidMeansPaid ==
    ClosedOrderIsPaid <=> (bill.status = "CLOSED" => IsPaid(bill, dishes, receipt))
  BY DEF ClosedOrderIsPaid, IsPaid

LEMMA TaxesFollow ==
    ASSUME NEW t, bill \in BillRow, IsMenu(dishes), t = OrderTotals(bill, dishes, NoLines),
           bill.tip = 0, bill.fee = 0, t.discountTotal = 0,
           \A i \in DOMAIN dishes : dishes[i].modifiers = 0,
           NEW A, A = ActiveItems(dishes),
           NEW R, R = [i \in A |-> ProportionalTax(i, t)]
    PROVE  2 * (SumFunctionOnSet(R, A) - t.taxAmount) \in -Cardinality(A)..Cardinality(A)
<1>1. PICK g, net, b \in Nat :
              /\ g = Subtotal(dishes) /\ net <= g /\ b <= net /\ b = TaxBase(net)
              /\ t = [subtotal |-> g, discountTotal |-> g - net, taxBase |-> b,
                      taxAmount |-> net - b, total |-> net + bill.fee + bill.tip]
  BY TotalsOfItems
<1>2. net = g /\ t.total = g /\ t.taxAmount = g - b
  BY <1>1
<1>3. PICK T \in Nat : T = g - b
  BY <1>1, <1>2
<1>4. PICK a : a = [i \in A |-> dishes[i].unitPrice * dishes[i].quantity]
  OBVIOUS
<1>5. \A i \in A : a[i] \in Nat /\ a[i] = LineTotal(dishes[i])
  <2> TAKE i \in A
  <2>1. i \in DOMAIN dishes /\ dishes[i] \in Dish /\ dishes[i].modifiers = 0
    BY LineTotals DEF IsMenu
  <2>2. PICK p \in Nat, q \in Nat : p = dishes[i].unitPrice /\ q = dishes[i].quantity
    BY <2>1 DEF Dish
  <2>3. a[i] = p * q /\ LineTotal(dishes[i]) = (p + 0) * q
    BY <1>4, <2>1, <2>2 DEF LineTotal
  <2> QED
    BY <2>3
<1>6. IsFiniteSet(A) /\ A \subseteq DOMAIN dishes
  BY LineTotals
<1>7. SumFunctionOnSet(a, A) = g
  <2>1. PICK f : f = [i \in DOMAIN dishes |-> LineTotal(dishes[i])]
    OBVIOUS
  <2>2. \A i \in A : f[i] \in Int /\ a[i] = f[i]
    BY <1>5, <1>6, <2>1
  <2>3. SumFunctionOnSet(a, A) = SumFunctionOnSet(f, A)
    BY <1>6, <2>2, SumsEqual
  <2> QED
    BY <1>1, <2>1, <2>3 DEF Subtotal
<1>8. CASE g = 0
  <2>1. \A i \in A : R[i] = 0
    BY <1>2, <1>8 DEF ProportionalTax
  <2>2. SumFunctionOnSet(R, {}) = SumFunctionOnSet(R, A)
    BY <1>6, <2>1, SumOfPart
  <2>3. SumFunctionOnSet(R, A) = 0
    BY <2>2, SumOfNothing
  <2>4. t.taxAmount = 0 /\ Cardinality(A) \in Nat
    BY <1>1, <1>2, <1>6, <1>8, FS_CardinalityType
  <2> QED
    BY <2>3, <2>4
<1>9. CASE g # 0
  <2>1. a \in [A -> Nat]
    BY <1>4, <1>5
  <2>2. R = [i \in A |-> Rounded(a[i] * T, g)]
    BY <1>2, <1>3, <1>4, <1>9 DEF ProportionalTax
  <2>3. 2 * (SumFunctionOnSet(R, A) - T) \in -Cardinality(A)..Cardinality(A)
    BY <1>6, <1>7, <1>9, <2>1, <2>2, RoundedShares
  <2> QED
    BY <1>2, <1>3, <2>3
<1> QED
  BY <1>8, <1>9

LEMMA ClosingBody ==
    ASSUME NEW row \in BillRow, NEW items, IsMenu(items), NEW t, t = OrderTotals(row, items, NoLines),
           NEW r \in CloseOrderRequest(t)
    PROVE  \E tip, paid \in Nat : r = [tip |-> tip, paid |-> paid] /\ Matches(paid, t.total + tip)
<1>1. PICK g, net, b \in Nat :
              /\ g = Subtotal(items) /\ net <= g /\ b <= net /\ b = TaxBase(net)
              /\ t = [subtotal |-> g, discountTotal |-> g - net, taxBase |-> b,
                      taxAmount |-> net - b, total |-> net + row.fee + row.tip]
  BY TotalsOfItems
<1>2. t.subtotal - t.discountTotal = net /\ t.total \in Nat
  BY <1>1 DEF BillRow
<1>3. PICK rate \in TipRates \cup {0} :
          r \in {[tip |-> Rounded(net * rate, 100), paid |-> n] :
                    n \in {n \in 0 .. t.total + Rounded(net * rate, 100) + 1 :
                              Matches(n, t.total + Rounded(net * rate, 100))}}
  BY <1>2 DEF CloseOrderRequest
<1>4. PICK n \in Nat : n = net * rate
  BY OrderMoneyAssumption
<1>5. Rounded(n, 100) \in Nat
  BY RoundedBounds
<1> QED
  BY <1>2, <1>3, <1>4, <1>5

\* The totals of an order without repeated lines.
LEMMA PlainTotals ==
    ASSUME NEW items, IsMenu(items), NEW row, NEW g, g = Subtotal(items),
           NEW before, before = g - ItemDiscountTotal(items),
           NEW net, net = before - AmountOn(row.discount, before),
           NEW u, u = OrderTotals(row, items, NoLines)
    PROVE  /\ u.subtotal = g /\ u.discountTotal = g - net
           /\ u.total = net + row.fee + row.tip
<1>1. g \in Nat /\ ItemDiscountTotal(items) \in Nat
  BY SubtotalsAreNatural
<1>2. Subtotal(NoLines) = 0 /\ ItemDiscountTotal(NoLines) = 0
  BY NoLinesNoAmount
<1>3. PICK a : a = Subtotal(items) + Subtotal(NoLines)
  OBVIOUS
<1>4. PICK b : b = ItemDiscountTotal(items) + ItemDiscountTotal(NoLines)
  OBVIOUS
<1>5. a = g /\ b = ItemDiscountTotal(items)
  BY <1>1, <1>2, <1>3, <1>4
<1>6. u = [subtotal |-> a, discountTotal |-> a - (a - b - AmountOn(row.discount, a - b)),
           taxBase |-> TaxBase(a - b - AmountOn(row.discount, a - b)),
           taxAmount |-> a - b - AmountOn(row.discount, a - b)
                           - TaxBase(a - b - AmountOn(row.discount, a - b)),
           total |-> a - b - AmountOn(row.discount, a - b) + row.fee + row.tip]
  BY <1>3, <1>4, Zenon DEF OrderTotals
<1>7. a - b = before
  BY <1>5
<1>8. a - b - AmountOn(row.discount, a - b) = net
  BY <1>7
<1> QED
  BY <1>5, <1>6, <1>8

LEMMA ClosingIsPaid ==
    ASSUME NEW t, bill \in BillRow, IsMenu(dishes), t = OrderTotals(bill, dishes, NoLines),
           bill.tip = 0, NEW r \in CloseOrderRequest(t),
           NEW row, row = [bill EXCEPT !.status = "CLOSED", !.tip = r.tip, !.paid = r.paid]
    PROVE  /\ row \in BillRow /\ row.status = "CLOSED"
           /\ OrderClosed(t, r.tip) # NoReceipt
           /\ IsPaid(Priced(row, dishes, NoLines), dishes, OrderClosed(t, r.tip))
<1>1. PICK g, net, b \in Nat :
              /\ g = Subtotal(dishes) /\ net <= g /\ b <= net /\ b = TaxBase(net)
              /\ t = [subtotal |-> g, discountTotal |-> g - net, taxBase |-> b,
                      taxAmount |-> net - b, total |-> net + bill.fee + bill.tip]
  BY TotalsOfItems
<1>2. PICK tip \in Nat, n \in Nat :
          r = [tip |-> tip, paid |-> n] /\ Matches(n, t.total + tip)
  BY ClosingBody
<1>3. /\ row \in BillRow /\ row.status = "CLOSED" /\ row.tip = tip /\ row.paid = n
      /\ row.fee = bill.fee /\ row.discount = bill.discount
  BY <1>2 DEF BillRow
<1>4. PICK p : p = Priced(row, dishes, NoLines)
  OBVIOUS
<1>5. PICK u : u = OrderTotals(row, dishes, NoLines)
  OBVIOUS
<1>6. /\ u.subtotal = t.subtotal /\ u.discountTotal = t.discountTotal
      /\ u.total = net + bill.fee + tip
  <2> DEFINE before == Subtotal(dishes) - ItemDiscountTotal(dishes)
             m == before - AmountOn(bill.discount, before)
  <2>1. row.discount = bill.discount /\ row.fee = bill.fee /\ row.tip = tip
    BY <1>3
  <2>2. /\ u.subtotal = Subtotal(dishes) /\ u.discountTotal = Subtotal(dishes) - m
        /\ u.total = m + bill.fee + tip
    <3>1. PICK s, x : s = Subtotal(dishes) /\ x = before
      OBVIOUS
    <3>2. PICK y : y = x - AmountOn(row.discount, x)
      OBVIOUS
    <3>3. PICK w : w = row /\ w.fee = bill.fee /\ w.tip = tip /\ w.discount = bill.discount
      BY <2>1
    <3>4. y = x - AmountOn(w.discount, x) /\ u = OrderTotals(w, dishes, NoLines)
      BY <1>5, <3>2, <3>3
    <3>5. /\ u.subtotal = s /\ u.discountTotal = s - y /\ u.total = y + w.fee + w.tip
      BY <3>1, <3>4, PlainTotals
    <3> QED
      BY <2>1, <3>1, <3>2, <3>3, <3>5
  <2>3. /\ t.subtotal = Subtotal(dishes) /\ t.discountTotal = Subtotal(dishes) - m
        /\ t.total = m + bill.fee + bill.tip
    <3>1. PICK s, x : s = Subtotal(dishes) /\ x = before
      OBVIOUS
    <3>2. PICK y : y = x - AmountOn(bill.discount, x)
      OBVIOUS
    <3>3. /\ t.subtotal = s /\ t.discountTotal = s - y /\ t.total = y + bill.fee + bill.tip
      BY <3>1, <3>2, PlainTotals
    <3> QED
      BY <3>1, <3>2, <3>3
  <2>4. m = net
    <3>1. m \in Int
      <4>1. Subtotal(dishes) \in Nat /\ ItemDiscountTotal(dishes) \in Nat
            /\ ItemDiscountTotal(dishes) <= Subtotal(dishes)
        BY SubtotalsAreNatural
      <4>2. before \in Nat
        BY <4>1
      <4>3. AmountOn(bill.discount, before) \in 0..before
        BY <4>2, DiscountIsWithin DEF BillRow
      <4> QED
        BY <4>2, <4>3
    <3>2. g - m = g - net
      BY <1>1, <2>3
    <3> QED
      BY <3>1, <3>2
  <2> QED
    BY <2>2, <2>3, <2>4
<1>7. /\ p.paid = n /\ p.total = net + bill.fee + tip /\ p.fee = bill.fee
      /\ p.discountTotal = t.discountTotal
  <2>1. /\ p.paid = row.paid /\ p.fee = row.fee
        /\ p.total = u.total /\ p.discountTotal = u.discountTotal
    <3>1. IsMenu(NoLines)
      BY NoLinesNoAmount
    <3>2. PICK w \in BillRow : w = row
      BY <1>3
    <3>3. PICK items : items = dishes /\ IsMenu(items)
      OBVIOUS
    <3>4. PICK q, v : q = Priced(w, items, NoLines) /\ v = OrderTotals(w, items, NoLines)
      OBVIOUS
    <3>5. q.paid = w.paid /\ q.fee = w.fee /\ q.total = v.total /\ q.discountTotal = v.discountTotal
      BY <3>1, <3>3, <3>4, PricedFacts
    <3> QED
      BY <1>4, <1>5, <3>2, <3>3, <3>4, <3>5
  <2> QED
    BY <1>3, <1>6, <2>1
<1>8. PICK A : A = ActiveItems(dishes)
  OBVIOUS
<1>9. PICK its : its = [i \in A |-> [lineTotal |-> LineTotal(dishes[i]),
                                     taxAmount |-> ProportionalTax(i, t)]]
  OBVIOUS
<1>10. PICK e : e = OrderClosed(t, tip)
  OBVIOUS
<1>11. /\ e = WrittenOver([tip |-> tip, items |-> its], t)
       /\ DOMAIN t = {"subtotal", "discountTotal", "taxBase", "taxAmount", "total"}
  BY <1>1, <1>8, <1>9, <1>10 DEF OrderClosed
<1>12. /\ e.tip = tip /\ e.items = its /\ e.total = t.total /\ e.subtotal = t.subtotal
       /\ e.taxAmount = t.taxAmount /\ "tip" \in DOMAIN e
  BY <1>11 DEF WrittenOver
<1>13. e # NoReceipt
  BY <1>12 DEF NoReceipt
<1>14. DOMAIN its = A /\ IsFiniteSet(A) /\ A \subseteq DOMAIN dishes
  BY <1>8, <1>9, LineTotals
<1>15. t.subtotal = SumFunctionOnSet([i \in A |-> its[i].lineTotal], A)
  <2>1. PICK f : f = [i \in DOMAIN dishes |-> LineTotal(dishes[i])]
    OBVIOUS
  <2>2. PICK h : h = [i \in A |-> its[i].lineTotal]
    OBVIOUS
  <2>3. \A i \in A : f[i] \in Int /\ h[i] = f[i]
    BY <1>9, <1>14, <2>1, <2>2, LineTotals
  <2>4. SumFunctionOnSet(h, A) = SumFunctionOnSet(f, A)
    BY <1>14, <2>3, SumsEqual
  <2> QED
    BY <1>1, <1>8, <2>1, <2>2, <2>4 DEF Subtotal
<1>16. ASSUME bill.fee = 0, t.discountTotal = 0,
              \A i \in DOMAIN dishes : dishes[i].modifiers = 0
       PROVE  2 * (SumFunctionOnSet([i \in A |-> its[i].taxAmount], A) - t.taxAmount)
                 \in -Cardinality(A)..Cardinality(A)
  <2>1. [i \in A |-> its[i].taxAmount] = [i \in A |-> ProportionalTax(i, t)]
    BY <1>9
  <2> QED
    BY <1>8, <1>16, <2>1, TaxesFollow
<1>17. t.total = net + bill.fee /\ net + bill.fee + tip = t.total + tip
  BY <1>1 DEF BillRow
<1>18. IsPaid(p, dishes, e)
  BY <1>2, <1>7, <1>12, <1>14, <1>15, <1>16, <1>17 DEF IsPaid
<1> QED
  BY <1>2, <1>3, <1>4, <1>10, <1>13, <1>18

-----------------------------------------------------------------------------
(* Orders and their copies: the inductive invariant *)

Serving(w) == waiter[w] # AtTable

\* A copy of the order that is to be saved; it is priced.
IsCopy(x) ==
    /\ DOMAIN x = {"at", "row", "items", "repeated", "atomic", "event", "seen"}
    /\ x.at \in {"select", "commit", "row", "delete", "items"}
    /\ x.row \in BillRow /\ IsMenu(x.items) /\ IsMenu(x.repeated)
    /\ x.row = Priced(x.row, x.items, x.repeated)
    /\ x.seen[1] \in BillRow /\ IsMenu(x.seen[2])
    /\ x.at \in {"row", "delete", "items"} => ~x.atomic
    /\ ~x.atomic => x.repeated = NoLines

MoneyTypes ==
    /\ bill \in BillRow /\ IsMenu(dishes) /\ IsMenu(replaced)
    /\ DOMAIN waiter = Waiters
    /\ \A w \in Waiters : Serving(w) => IsCopy(waiter[w])
    /\ served \in 0..MaxServed
    /\ torn \in BOOLEAN

\* A copy that closes the order is paid and has the event, and is saved in a transaction;
\* one that is half saved saw its own row, and later its own items at most; one that
\* repeats items saw their lines.
CopyAddsUp(x) ==
    /\ x.row.status = "CLOSED" =>
          x.atomic = TRUE /\ x.event # NoReceipt /\ IsPaid(x.row, x.items, x.event)
    /\ x.row.status # "CLOSED" => x.event = NoReceipt /\ x.row.tip = 0
    /\ x.at \in {"delete", "items"} => x.seen[1] = x.row
    /\ x.at = "items" => DOMAIN x.seen[2] \subseteq DOMAIN x.items
    /\ x.at \in {"select", "commit"} =>
          \A i \in DOMAIN x.repeated : x.repeated[i] = x.seen[2][i]

OrderAddsUp ==
    /\ BeingSaved \/ bill = Priced(bill, dishes, replaced)
    /\ bill.status = "CLOSED" => IsPaid(bill, dishes, receipt)
    /\ bill.status # "CLOSED" => bill.tip = 0
    /\ \A w \in Waiters : Serving(w) => CopyAddsUp(waiter[w])

MoneyIInv == MoneyTypes /\ (~torn => OrderAddsUp)

LEMMA BillHasColumns ==
    \A row \in BillRow :
        DOMAIN row = {"status", "discount", "fee", "tip", "paid", "subtotal", "discountTotal",
                      "taxBase", "taxAmount", "total"}
  BY DEF BillRow

\* The row that a save leaves; it is the copy's when nothing was written meanwhile.
LEMMA OverwrittenFacts ==
    ASSUME MoneyTypes, NEW w \in Waiters, Serving(w)
    PROVE  /\ Overwritten(w) \in BillRow
           /\ ~Interrupted(w) => Overwritten(w) = waiter[w].row
<1>1. PICK old, row : old = bill /\ row = waiter[w].row
  OBVIOUS
<1>2. PICK seen : seen = waiter[w].seen[1]
  OBVIOUS
<1>3. old \in BillRow /\ row \in BillRow
  BY <1>1 DEF MoneyTypes, IsCopy
<1>4. PICK o : o = [c \in DOMAIN old |-> IF row[c] = seen[c] THEN old[c] ELSE row[c]]
  OBVIOUS
<1>5. Overwritten(w) = o
  BY <1>1, <1>2, <1>4 DEF Overwritten
<1>6. DOMAIN o = {"status", "discount", "fee", "tip", "paid", "subtotal", "discountTotal",
                  "taxBase", "taxAmount", "total"}
      /\ \A c \in DOMAIN o : o[c] = old[c] \/ o[c] = row[c]
  BY <1>3, <1>4, BillHasColumns
<1>7. o = [status |-> o.status, discount |-> o.discount, fee |-> o.fee, tip |-> o.tip,
           paid |-> o.paid, subtotal |-> o.subtotal, discountTotal |-> o.discountTotal,
           taxBase |-> o.taxBase, taxAmount |-> o.taxAmount, total |-> o.total]
  BY <1>4, <1>6
<1>8. /\ o.status \in {"OPEN", "IN_PROGRESS", "CLOSED", "CANCELLED"}
      /\ o.discount \in Discounts \cup {NoDiscount} /\ o.fee \in Nat /\ o.tip \in Nat
      /\ o.paid \in Nat \cup {NotPaid} /\ o.subtotal \in Nat /\ o.discountTotal \in Nat
      /\ o.taxBase \in Nat /\ o.taxAmount \in Nat /\ o.total \in Nat
  <2>1. /\ o.status \in {old.status, row.status} /\ o.discount \in {old.discount, row.discount}
        /\ o.fee \in {old.fee, row.fee} /\ o.tip \in {old.tip, row.tip}
        /\ o.paid \in {old.paid, row.paid} /\ o.subtotal \in {old.subtotal, row.subtotal}
        /\ o.discountTotal \in {old.discountTotal, row.discountTotal}
        /\ o.taxBase \in {old.taxBase, row.taxBase}
        /\ o.taxAmount \in {old.taxAmount, row.taxAmount} /\ o.total \in {old.total, row.total}
    BY <1>6
  <2> QED
    BY <1>3, <2>1 DEF BillRow
<1>9. o \in BillRow
  BY <1>7, <1>8 DEF BillRow
<1>10. ASSUME ~Interrupted(w) PROVE o = row
  <2>1. seen = old
    BY <1>1, <1>2, <1>10 DEF Interrupted, LoadedOrder
  <2>2. DOMAIN old = DOMAIN row /\ row = [c \in DOMAIN row |-> row[c]]
    BY <1>3, BillHasColumns DEF BillRow
  <2> QED
    BY <1>4, <2>1, <2>2
<1> QED
  BY <1>1, <1>5, <1>9, <1>10

\* The copy after a statement that is not the last one.
LEMMA SavedFacts ==
    ASSUME MoneyTypes, NEW w \in Waiters, Serving(w), NEW at, Saved(w, at)
    PROVE  /\ DOMAIN waiter' = Waiters
           /\ \A v \in Waiters \ {w} : waiter'[v] = waiter[v]
           /\ DOMAIN waiter'[w] = {"at", "row", "items", "repeated", "atomic", "event", "seen"}
           /\ waiter'[w].at = at /\ waiter'[w].seen = <<bill', dishes'>>
           /\ waiter'[w].row = waiter[w].row /\ waiter'[w].items = waiter[w].items
           /\ waiter'[w].repeated = waiter[w].repeated
           /\ waiter'[w].atomic = waiter[w].atomic /\ waiter'[w].event = waiter[w].event
  BY DEF MoneyTypes, IsCopy, Saved, LoadedOrder

\* One waiter's copy changes, and the rows stay what they are to be.
LEMMA MoneyTypesStep ==
    ASSUME MoneyTypes, NEW w \in Waiters, DOMAIN waiter' = Waiters,
           \A v \in Waiters \ {w} : waiter'[v] = waiter[v],
           waiter'[w] = AtTable \/ IsCopy(waiter'[w]),
           bill' \in BillRow, IsMenu(dishes'), IsMenu(replaced'),
           served' \in 0..MaxServed, torn' \in BOOLEAN
    PROVE  MoneyTypes'
<1>1. \A v \in Waiters : waiter'[v] # AtTable => IsCopy(waiter'[v])
  BY DEF MoneyTypes, Serving
<1> QED
  BY <1>1 DEF MoneyTypes, Serving

LEMMA AddsUpStep ==
    ASSUME OrderAddsUp, NEW w \in Waiters,
           \A v \in Waiters \ {w} : waiter'[v] = waiter[v],
           waiter'[w] = AtTable \/ CopyAddsUp(waiter'[w]),
           \/ bill' = Priced(bill', dishes', replaced')
           \/ waiter'[w].at \in {"delete", "items"}
           \/ /\ bill' = bill /\ dishes' = dishes /\ replaced' = replaced
              /\ waiter[w].at \notin {"delete", "items"},
           bill'.status = "CLOSED" => IsPaid(bill', dishes', receipt'),
           bill'.status # "CLOSED" => bill'.tip = 0
    PROVE  OrderAddsUp'
<1>1. \A v \in Waiters : waiter'[v] # AtTable => CopyAddsUp(waiter'[v])
  BY DEF OrderAddsUp, Serving
<1>2. BeingSaved' \/ bill' = Priced(bill', dishes', replaced')
  BY DEF OrderAddsUp, BeingSaved
<1> QED
  BY <1>1, <1>2 DEF OrderAddsUp, Serving

-----------------------------------------------------------------------------
(* A request begins *)

LEMMA ServeKeeps ==
    ASSUME MoneyIInv, NEW w \in Waiters, NEW row \in BillRow, NEW items, IsMenu(items),
           NEW repeated, IsMenu(repeated), NEW atomic \in BOOLEAN, NEW event,
           Serve(w, row, items, repeated, atomic, event),
           ~atomic => repeated = NoLines,
           \A i \in DOMAIN repeated : repeated[i] = dishes[i],
           OrderAddsUp =>
               \/ row.status # "CLOSED" /\ row.tip = 0 /\ event = NoReceipt
               \/ /\ row.status = "CLOSED" /\ atomic = TRUE /\ event # NoReceipt
                  /\ IsPaid(Priced(row, items, repeated), items, event)
    PROVE  MoneyIInv'
<1>1. PICK p : p = Priced(row, items, repeated)
  OBVIOUS
<1>2. p \in BillRow /\ p = Priced(p, items, repeated) /\ p.status = row.status /\ p.tip = row.tip
  BY <1>1, PricedFacts, PricedOnce
<1>3. PICK x : x = [at |-> "select", row |-> p, items |-> items,
                    repeated |-> repeated, atomic |-> atomic, event |-> event,
                    seen |-> <<bill, dishes>>]
  OBVIOUS
<1>4. /\ waiter[w] = AtTable /\ waiter' = [waiter EXCEPT ![w] = x]
      /\ served < MaxServed /\ served' = served + 1
      /\ bill' = bill /\ dishes' = dishes /\ receipt' = receipt
      /\ replaced' = replaced /\ torn' = torn
  BY <1>1, <1>3 DEF Serve, LoadedOrder
<1>5. /\ DOMAIN waiter' = Waiters /\ waiter'[w] = x
      /\ \A v \in Waiters \ {w} : waiter'[v] = waiter[v]
  BY <1>4 DEF MoneyIInv, MoneyTypes
<1>6. IsCopy(x)
  <2>1. bill \in BillRow /\ IsMenu(dishes)
    BY DEF MoneyIInv, MoneyTypes
  <2> QED
    BY <1>2, <1>3, <2>1 DEF IsCopy
<1>7. MoneyTypes'
  <2>1. bill' \in BillRow /\ IsMenu(dishes') /\ IsMenu(replaced') /\ torn' \in BOOLEAN
    BY <1>4 DEF MoneyIInv, MoneyTypes
  <2>2. served' \in 0..MaxServed
    BY <1>4, OrderMoneyAssumption DEF MoneyIInv, MoneyTypes
  <2> QED
    BY <1>5, <1>6, <2>1, <2>2, MoneyTypesStep DEF MoneyIInv
<1>8. ASSUME ~torn' PROVE OrderAddsUp'
  <2>1. OrderAddsUp
    BY <1>4, <1>8 DEF MoneyIInv
  <2>2. CopyAddsUp(x)
    BY <1>1, <1>2, <1>3, <2>1 DEF CopyAddsUp
  <2>3. waiter[w].at = "table"
    BY <1>4 DEF AtTable
  <2>4. /\ bill'.status = "CLOSED" => IsPaid(bill', dishes', receipt')
        /\ bill'.status # "CLOSED" => bill'.tip = 0
    BY <1>4, <2>1 DEF OrderAddsUp
  <2> QED
    BY <1>4, <1>5, <2>1, <2>2, <2>3, <2>4, AddsUpStep
<1> QED
  BY <1>7, <1>8 DEF MoneyIInv

\* What every request reads.
LEMMA ReadOrder ==
    ASSUME MoneyIInv
    PROVE  /\ bill \in BillRow /\ IsMenu(dishes)
           /\ CanBeModified /\ OrderAddsUp => bill.status # "CLOSED" /\ bill.tip = 0
  BY DEF MoneyIInv, MoneyTypes, OrderAddsUp, CanBeModified

LEMMA ItemsKeep ==
    ASSUME MoneyIInv, CanBeModified, NEW w \in Waiters, NEW items, IsMenu(items),
           ServeItems(w, items)
    PROVE  MoneyIInv'
<1>1. IsMenu(NoLines) /\ DOMAIN NoLines = {}
  BY NoLinesNoAmount DEF NoLines
<1> QED
  BY <1>1, ReadOrder, ServeKeeps DEF ServeItems

LEMMA MenuChanges ==
    ASSUME NEW items, IsMenu(items), NEW i \in OrderItemIds, NEW dish \in Dish
    PROVE  /\ IsMenu(WrittenOver(OneRow(i, dish), items))
           /\ i \in DOMAIN items => IsMenu([items EXCEPT ![i] = dish])
           /\ \A S \in SUBSET DOMAIN items : IsMenu([j \in S |-> items[j]])
<1>1. IsMenu(WrittenOver(OneRow(i, dish), items))
  <2>1. PICK m : m = WrittenOver(OneRow(i, dish), items)
    OBVIOUS
  <2>2. /\ m = [j \in {i} \cup DOMAIN items |-> IF j = i THEN dish ELSE items[j]]
    BY <2>1 DEF WrittenOver, OneRow
  <2>3. IsFiniteSet(DOMAIN items \cup {i})
    BY FS_AddElement DEF IsMenu
  <2>4. {i} \cup DOMAIN items = DOMAIN items \cup {i}
    OBVIOUS
  <2> QED
    BY <2>1, <2>2, <2>3, <2>4 DEF IsMenu
<1>2. ASSUME i \in DOMAIN items PROVE IsMenu([items EXCEPT ![i] = dish])
  BY <1>2 DEF IsMenu
<1>3. ASSUME NEW S \in SUBSET DOMAIN items PROVE IsMenu([j \in S |-> items[j]])
  BY FS_Subset DEF IsMenu
<1> QED
  BY <1>1, <1>2, <1>3

LEMMA DishChanges ==
    /\ \A p \in Prices, a \in Adjustments, q \in Quantities : NewDish(p, a, q) \in Dish
    /\ \A dish \in Dish :
          /\ \A q \in Quantities : WithQuantity(dish, q) \in Dish
          /\ SentDish(dish) \in Dish /\ CancelledDish(dish) \in Dish
          /\ \A d \in Discounts \cup {NoDiscount} : WithDiscount(dish, d) \in Dish
<1>1. \A p \in Prices, a \in Adjustments, q \in Quantities :
          p \in Nat /\ a \in Nat /\ q \in Nat \ {0}
  BY OrderMoneyAssumption
<1>2. \A p \in Prices, a \in Adjustments, q \in Quantities : NewDish(p, a, q) \in Dish
  BY <1>1 DEF NewDish, Dish
<1>3. \A q \in Quantities : q \in Nat \ {0}
  BY OrderMoneyAssumption
<1> QED
  BY <1>2, <1>3 DEF WithQuantity, SentDish, CancelledDish, WithDiscount, Dish

LEMMA BillChanges ==
    ASSUME NEW row \in BillRow
    PROVE  /\ \A s \in {"OPEN", "IN_PROGRESS", "CANCELLED"} :
                 /\ [row EXCEPT !.status = s] \in BillRow
                 /\ [row EXCEPT !.status = s].status = s
                 /\ [row EXCEPT !.status = s].tip = row.tip
           /\ \A d \in Discounts \cup {NoDiscount} :
                 /\ [row EXCEPT !.discount = d] \in BillRow
                 /\ [row EXCEPT !.discount = d].status = row.status
                 /\ [row EXCEPT !.discount = d].tip = row.tip
  BY DEF BillRow

LEMMA AddOrderItemsKeeps ==
    ASSUME MoneyIInv, NEW w \in Waiters, AddOrderItems(w) PROVE MoneyIInv'
<1>1. PICK r \in AddOrderItemsRequest :
          /\ CanBeModified
          /\ Serve(w, bill,
                   WrittenOver(OneRow(r.id, NewDish(r.price, r.adjustment, r.quantity)), dishes),
                   [i \in DOMAIN dishes \cap {r.id} |-> dishes[i]], TRUE, NoReceipt)
  BY DEF AddOrderItems
<1>2. r.id \in OrderItemIds /\ NewDish(r.price, r.adjustment, r.quantity) \in Dish
  BY DishChanges DEF AddOrderItemsRequest
<1>3. PICK new, old :
          /\ new = WrittenOver(OneRow(r.id, NewDish(r.price, r.adjustment, r.quantity)), dishes)
          /\ old = [i \in DOMAIN dishes \cap {r.id} |-> dishes[i]]
  OBVIOUS
<1>4. IsMenu(new)
  BY <1>2, <1>3, MenuChanges, ReadOrder
<1>5. IsMenu(old)
  <2>1. PICK S \in SUBSET DOMAIN dishes : S = DOMAIN dishes \cap {r.id}
    OBVIOUS
  <2>2. IsMenu(dishes) /\ old = [i \in S |-> dishes[i]]
    BY <1>3, <2>1, ReadOrder
  <2> QED
    BY <2>2, FS_Subset DEF IsMenu
<1>6. /\ Serve(w, bill, new, old, TRUE, NoReceipt)
      /\ \A i \in DOMAIN old : old[i] = dishes[i]
  BY <1>1, <1>3
<1> QED
  BY <1>1, <1>4, <1>5, <1>6, ReadOrder, ServeKeeps

LEMMA DishKeeps ==
    ASSUME MoneyIInv, CanBeModified, NEW w \in Waiters, NEW i \in DOMAIN dishes,
           NEW dish \in Dish, ServeItems(w, [dishes EXCEPT ![i] = dish])
    PROVE  MoneyIInv'
<1>1. IsMenu(dishes) /\ i \in OrderItemIds
  BY ReadOrder DEF IsMenu
<1>2. IsMenu([dishes EXCEPT ![i] = dish])
  BY <1>1, MenuChanges
<1> QED
  BY <1>2, ItemsKeep

LEMMA DishesAreDishes ==
    ASSUME MoneyIInv PROVE \A i \in DOMAIN dishes : dishes[i] \in Dish
  BY ReadOrder DEF IsMenu

LEMMA ItemRequestsKeep ==
    ASSUME MoneyIInv, NEW w \in Waiters
    PROVE  /\ UpdateOrderItem(w) => MoneyIInv'
           /\ RemoveOrderItem(w) => MoneyIInv'
           /\ CancelOrderItem(w) => MoneyIInv'
           /\ ApplyItemDiscount(w) => MoneyIInv'
           /\ RemoveItemDiscount(w) => MoneyIInv'
<1>1. ASSUME UpdateOrderItem(w) PROVE MoneyIInv'
  <2>1. PICK i \in DOMAIN dishes, q \in Quantities :
            CanBeModified /\ ServeItems(w, [dishes EXCEPT ![i] = WithQuantity(dishes[i], q)])
    BY <1>1 DEF UpdateOrderItem
  <2>2. WithQuantity(dishes[i], q) \in Dish
    BY DishChanges, DishesAreDishes
  <2> QED
    BY <2>1, <2>2, DishKeeps
<1>2. ASSUME RemoveOrderItem(w) PROVE MoneyIInv'
  <2>1. PICK i \in DOMAIN dishes :
            CanBeModified /\ ServeItems(w, [j \in DOMAIN dishes \ {i} |-> dishes[j]])
    BY <1>2 DEF RemoveOrderItem
  <2>2. IsMenu([j \in DOMAIN dishes \ {i} |-> dishes[j]])
    BY ReadOrder, FS_Subset DEF IsMenu
  <2> QED
    BY <2>1, <2>2, ItemsKeep
<1>3. ASSUME CancelOrderItem(w) PROVE MoneyIInv'
  <2>1. PICK i \in DOMAIN dishes :
            CanBeModified /\ ServeItems(w, [dishes EXCEPT ![i] = CancelledDish(dishes[i])])
    BY <1>3 DEF CancelOrderItem
  <2>2. CancelledDish(dishes[i]) \in Dish
    BY DishChanges, DishesAreDishes
  <2> QED
    BY <2>1, <2>2, DishKeeps
<1>4. ASSUME ApplyItemDiscount(w) PROVE MoneyIInv'
  <2>1. PICK i \in DOMAIN dishes, d \in Discounts :
            CanBeModified /\ ServeItems(w, [dishes EXCEPT ![i] = WithDiscount(dishes[i], d)])
    BY <1>4 DEF ApplyItemDiscount, ApplyDiscountRequest
  <2>2. WithDiscount(dishes[i], d) \in Dish
    BY DishChanges, DishesAreDishes
  <2> QED
    BY <2>1, <2>2, DishKeeps
<1>5. ASSUME RemoveItemDiscount(w) PROVE MoneyIInv'
  <2>1. PICK i \in DOMAIN dishes :
            /\ CanBeModified
            /\ ServeItems(w, [dishes EXCEPT ![i] = WithDiscount(dishes[i], NoDiscount)])
    BY <1>5 DEF RemoveItemDiscount
  <2>2. WithDiscount(dishes[i], NoDiscount) \in Dish
    BY DishChanges, DishesAreDishes
  <2> QED
    BY <2>1, <2>2, DishKeeps
<1> QED
  BY <1>1, <1>2, <1>3, <1>4, <1>5

LEMMA OrderRequestsKeep ==
    ASSUME MoneyIInv, NEW w \in Waiters
    PROVE  /\ SendOrderToKitchen(w) => MoneyIInv'
           /\ CancelOrder(w) => MoneyIInv'
           /\ ApplyOrderDiscount(w) => MoneyIInv'
           /\ RemoveOrderDiscount(w) => MoneyIInv'
<1>1. /\ bill \in BillRow /\ IsMenu(dishes)
      /\ IsMenu(NoLines) /\ \A i \in DOMAIN NoLines : NoLines[i] = dishes[i]
  BY ReadOrder, NoLinesNoAmount DEF NoLines
<1>2. ASSUME SendOrderToKitchen(w) PROVE MoneyIInv'
  <2>1. PICK s, sent :
            /\ CanBeModified
            /\ sent = [i \in DOMAIN dishes |-> IF i \in s THEN SentDish(dishes[i]) ELSE dishes[i]]
            /\ Serve(w, [bill EXCEPT !.status = "IN_PROGRESS"], sent, NoLines, TRUE,
                     NoReceipt)
    BY <1>2 DEF SendOrderToKitchen
  <2>2. IsMenu(sent)
    <3>1. \A i \in DOMAIN dishes : dishes[i] \in Dish /\ SentDish(dishes[i]) \in Dish
      BY DishChanges, DishesAreDishes
    <3> QED
      BY <1>1, <2>1, <3>1 DEF IsMenu
  <2>3. PICK row : row = [bill EXCEPT !.status = "IN_PROGRESS"]
    OBVIOUS
  <2>4. row \in BillRow /\ row.status # "CLOSED" /\ row.tip = bill.tip
    BY <1>1, <2>3, BillChanges
  <2> QED
    BY <1>1, <2>1, <2>2, <2>3, <2>4, ReadOrder, ServeKeeps
<1>3. ASSUME CancelOrder(w) PROVE MoneyIInv'
  <2>1. PICK row : row = [bill EXCEPT !.status = "CANCELLED"]
    OBVIOUS
  <2>2. CanBeModified /\ Serve(w, row, dishes, NoLines, TRUE, NoReceipt)
    BY <1>3, <2>1 DEF CancelOrder
  <2>3. row \in BillRow /\ row.status # "CLOSED" /\ row.tip = bill.tip
    BY <1>1, <2>1, BillChanges
  <2> QED
    BY <1>1, <2>2, <2>3, ReadOrder, ServeKeeps
<1>4. ASSUME NEW d \in Discounts \cup {NoDiscount}, CanBeModified,
             Serve(w, WithOrderDiscount(d), dishes, NoLines, FALSE, NoReceipt)
      PROVE  MoneyIInv'
  <2>1. PICK row : row = WithOrderDiscount(d)
    OBVIOUS
  <2>2. row \in BillRow /\ row.status = bill.status /\ row.tip = bill.tip
    BY <1>1, <2>1, BillChanges DEF WithOrderDiscount
  <2> QED
    BY <1>1, <1>4, <2>1, <2>2, ReadOrder, ServeKeeps
<1> QED
  BY <1>2, <1>3, <1>4 DEF ApplyOrderDiscount, ApplyDiscountRequest, RemoveOrderDiscount

LEMMA CloseOrderKeeps ==
    ASSUME MoneyIInv, NEW w \in Waiters, CloseOrder(w) PROVE MoneyIInv'
<1>1. PICK t, r, row :
          /\ t = OrderTotals(bill, dishes, NoLines) /\ r \in CloseOrderRequest(t)
          /\ row = [bill EXCEPT !.status = "CLOSED", !.tip = r.tip, !.paid = r.paid]
          /\ Serve(w, row, dishes, NoLines, TRUE, OrderClosed(t, r.tip))
  BY DEF CloseOrder
<1>2. /\ bill \in BillRow /\ IsMenu(dishes)
      /\ OrderAddsUp => bill.tip = 0
  BY ReadOrder DEF CloseOrder, CanBeModified
<1>3. row \in BillRow
  <2>1. PICK tip, paid \in Nat : r = [tip |-> tip, paid |-> paid]
    BY <1>1, <1>2, ClosingBody
  <2>2. row = [bill EXCEPT !.status = "CLOSED", !.tip = tip, !.paid = paid]
    BY <1>1, <2>1
  <2> QED
    BY <1>2, <2>2 DEF BillRow
<1>4. ASSUME OrderAddsUp
      PROVE  /\ row.status = "CLOSED" /\ OrderClosed(t, r.tip) # NoReceipt
             /\ IsPaid(Priced(row, dishes, NoLines), dishes, OrderClosed(t, r.tip))
  BY <1>1, <1>2, <1>4, ClosingIsPaid
<1> QED
  <2>1. IsMenu(NoLines) /\ \A i \in DOMAIN NoLines : NoLines[i] = dishes[i]
    BY NoLinesNoAmount DEF NoLines
  <2> QED
    BY <1>1, <1>2, <1>3, <1>4, <2>1, ServeKeeps

-----------------------------------------------------------------------------
(* save(), statement by statement *)

LEMMA WritingCopies ==
    ASSUME MoneyIInv, NEW w \in Waiters, waiter[w].at # "table"
    PROVE  Serving(w) /\ IsCopy(waiter[w]) /\ (OrderAddsUp => CopyAddsUp(waiter[w]))
<1>1. Serving(w)
  BY DEF Serving, AtTable
<1> QED
  BY <1>1 DEF MoneyIInv, MoneyTypes, OrderAddsUp

LEMMA MergedLines ==
    ASSUME NEW new \in Dish, NEW old \in Dish, NEW row
    PROVE  Merged(new, old, row) \in Dish /\ (row = old => Merged(new, old, row) = new)
<1>1. PICK m : m = [c \in DOMAIN new |-> IF new[c] # row[c] THEN new[c] ELSE old[c]]
  OBVIOUS
<1>2. DOMAIN new = {"unitPrice", "modifiers", "quantity", "discount", "status"}
  BY DEF Dish
<1>3. m = [unitPrice |-> m.unitPrice, modifiers |-> m.modifiers, quantity |-> m.quantity,
           discount |-> m.discount, status |-> m.status]
  BY <1>1, <1>2
<1>4. /\ m.unitPrice \in {new.unitPrice, old.unitPrice}
      /\ m.modifiers \in {new.modifiers, old.modifiers}
      /\ m.quantity \in {new.quantity, old.quantity}
      /\ m.discount \in {new.discount, old.discount} /\ m.status \in {new.status, old.status}
  BY <1>1, <1>2
<1>5. m \in Dish
  BY <1>3, <1>4 DEF Dish
<1>6. ASSUME row = old PROVE m = new
  <2>1. new = [c \in DOMAIN new |-> new[c]]
    BY DEF Dish
  <2> QED
    BY <1>1, <1>6, <2>1
<1> QED
  BY <1>1, <1>5, <1>6 DEF Merged

\* The items that a save in a transaction leaves: the copy's when nothing was written
\* meanwhile.
LEMMA SavedItemsFacts ==
    ASSUME MoneyTypes, NEW w \in Waiters, Serving(w)
    PROVE  /\ IsMenu(SavedItems(w))
           /\ (\A i \in DOMAIN waiter[w].repeated : waiter[w].repeated[i] = dishes[i])
                  => SavedItems(w) = waiter[w].items
<1>1. PICK items, old : items = waiter[w].items /\ old = waiter[w].repeated
  OBVIOUS
<1>2. PICK m : m = [i \in DOMAIN items |-> IF i \in DOMAIN old
                                         THEN Merged(items[i], old[i], dishes[i]) ELSE items[i]]
  OBVIOUS
<1>3. SavedItems(w) = m
  BY <1>1, <1>2 DEF SavedItems
<1>4. IsMenu(items) /\ IsMenu(old)
  BY <1>1 DEF MoneyTypes, IsCopy
<1>5. \A i \in DOMAIN items : m[i] \in Dish /\ (i \in DOMAIN old /\ old[i] = dishes[i] => m[i] = items[i])
                             /\ (i \notin DOMAIN old => m[i] = items[i])
  BY <1>2, <1>4, MergedLines DEF IsMenu
<1>6. IsMenu(m)
  BY <1>2, <1>4, <1>5 DEF IsMenu
<1>7. ASSUME \A i \in DOMAIN old : old[i] = dishes[i] PROVE m = items
  <2>1. \A i \in DOMAIN items : m[i] = items[i]
    BY <1>5, <1>7
  <2>2. m = [i \in DOMAIN items |-> m[i]] /\ items = [i \in DOMAIN items |-> items[i]]
    BY <1>2, <1>4 DEF IsMenu
  <2> QED
    BY <2>1, <2>2
<1> QED
  BY <1>1, <1>3, <1>6, <1>7

\* A copy that saw the rows as they are now.
LEMMA SavedCopy ==
    ASSUME MoneyTypes, NEW w \in Waiters, Serving(w), NEW at, Saved(w, at),
           at \in {"commit", "row", "delete", "items"}, at # "commit" => ~waiter[w].atomic,
           bill' \in BillRow, IsMenu(dishes')
    PROVE  IsCopy(waiter'[w])
<1>1. IsCopy(waiter[w])
  BY DEF MoneyTypes
<1> QED
  BY <1>1, SavedFacts DEF IsCopy

LEMMA SelectOrderKeeps ==
    ASSUME MoneyIInv, NEW w \in Waiters, SelectOrder(w) PROVE MoneyIInv'
<1>1. /\ Serving(w) /\ IsCopy(waiter[w]) /\ (OrderAddsUp => CopyAddsUp(waiter[w]))
      /\ waiter[w].at = "select"
  BY WritingCopies DEF SelectOrder
<1>2. PICK at : at = IF waiter[w].atomic THEN "commit" ELSE "row"
  OBVIOUS
<1>3. /\ Saved(w, at) /\ at \in {"commit", "row"}
      /\ at # "commit" => ~waiter[w].atomic
      /\ bill' = bill /\ dishes' = dishes /\ receipt' = receipt /\ served' = served
      /\ replaced' = replaced
      /\ torn' = (torn \/ (waiter[w].repeated # NoLines /\ Interrupted(w)))
  BY <1>2 DEF SelectOrder
<1>4. /\ bill' \in BillRow /\ IsMenu(dishes') /\ IsMenu(replaced')
      /\ served' \in 0..MaxServed /\ torn' \in BOOLEAN
      /\ MoneyTypes
  BY <1>3 DEF MoneyIInv, MoneyTypes, Interrupted
<1>5. /\ DOMAIN waiter' = Waiters
      /\ \A v \in Waiters \ {w} : waiter'[v] = waiter[v]
      /\ waiter'[w].at = at /\ waiter'[w].seen = <<bill', dishes'>>
      /\ waiter'[w].row = waiter[w].row /\ waiter'[w].items = waiter[w].items
      /\ waiter'[w].repeated = waiter[w].repeated
      /\ waiter'[w].atomic = waiter[w].atomic /\ waiter'[w].event = waiter[w].event
  BY <1>1, <1>3, <1>4, SavedFacts
<1>6. MoneyTypes'
  <2>1. IsCopy(waiter'[w])
    BY <1>1, <1>3, <1>4, SavedCopy
  <2> QED
    BY <1>4, <1>5, <2>1, MoneyTypesStep
<1>7. ASSUME ~torn' PROVE OrderAddsUp'
  <2>1. OrderAddsUp
    BY <1>3, <1>7 DEF MoneyIInv
  <2>2. CopyAddsUp(waiter'[w])
    <3>1. \A i \in DOMAIN waiter[w].repeated : waiter[w].repeated[i] = dishes[i]
      <4>1. CASE waiter[w].repeated = NoLines
        BY <4>1 DEF NoLines
      <4>2. CASE waiter[w].seen = <<bill, dishes>>
        BY <1>1, <2>1, <4>2 DEF CopyAddsUp
      <4> QED
        BY <1>3, <1>7, <4>1, <4>2 DEF Interrupted, LoadedOrder
    <3> QED
      BY <1>1, <1>3, <1>5, <2>1, <3>1 DEF CopyAddsUp
  <2>3. /\ bill'.status = "CLOSED" => IsPaid(bill', dishes', receipt')
        /\ bill'.status # "CLOSED" => bill'.tip = 0
    BY <1>3, <2>1 DEF OrderAddsUp
  <2> QED
    BY <1>1, <1>3, <1>5, <2>1, <2>2, <2>3, AddsUpStep
<1> QED
  BY <1>6, <1>7 DEF MoneyIInv

LEMMA CommitOrderKeeps ==
    ASSUME MoneyIInv, NEW w \in Waiters, CommitOrder(w) PROVE MoneyIInv'
<1>1. Serving(w) /\ IsCopy(waiter[w]) /\ (OrderAddsUp => CopyAddsUp(waiter[w]))
  BY WritingCopies DEF CommitOrder
<1>2. PICK x : x = waiter[w]
  OBVIOUS
<1>3. /\ bill' = Overwritten(w) /\ dishes' = SavedItems(w) /\ served' = served
      /\ receipt' = IF x.event = NoReceipt THEN receipt ELSE x.event
      /\ replaced' = x.repeated /\ torn' = (torn \/ Interrupted(w)) /\ x.at = "commit"
      /\ waiter' = [waiter EXCEPT ![w] = AtTable]
  BY <1>2 DEF CommitOrder
<1>4. MoneyTypes
  BY DEF MoneyIInv
<1>5. /\ DOMAIN waiter' = Waiters /\ waiter'[w] = AtTable
      /\ \A v \in Waiters \ {w} : waiter'[v] = waiter[v]
  BY <1>3, <1>4 DEF MoneyTypes
<1>6. MoneyTypes'
  <2>1. bill' \in BillRow /\ IsMenu(dishes') /\ IsMenu(replaced')
    BY <1>1, <1>2, <1>3, <1>4, OverwrittenFacts, SavedItemsFacts DEF IsCopy
  <2>2. served' \in 0..MaxServed /\ torn' \in BOOLEAN
    BY <1>3, <1>4 DEF MoneyTypes, Interrupted
  <2> QED
    BY <1>4, <1>5, <2>1, <2>2, MoneyTypesStep
<1>7. ASSUME ~torn' PROVE OrderAddsUp'
  <2>1. OrderAddsUp /\ ~Interrupted(w)
    BY <1>3, <1>7 DEF MoneyIInv
  <2>2. bill' = x.row /\ CopyAddsUp(x)
    BY <1>1, <1>2, <1>3, <1>4, <2>1, OverwrittenFacts
  <2>3. dishes' = x.items
    <3>1. \A i \in DOMAIN x.repeated : x.repeated[i] = dishes[i]
      BY <1>2, <1>3, <2>1, <2>2 DEF CopyAddsUp, Interrupted, LoadedOrder
    <3> QED
      BY <1>1, <1>2, <1>3, <1>4, <3>1, SavedItemsFacts
  <2>4. bill' = Priced(bill', dishes', replaced')
    BY <1>1, <1>2, <1>3, <2>2, <2>3 DEF IsCopy
  <2>5. /\ bill'.status = "CLOSED" => IsPaid(bill', dishes', receipt')
        /\ bill'.status # "CLOSED" => bill'.tip = 0
    BY <1>3, <2>2, <2>3 DEF CopyAddsUp
  <2> QED
    BY <1>5, <2>1, <2>4, <2>5, AddsUpStep
<1> QED
  BY <1>6, <1>7 DEF MoneyIInv

LEMMA UpdateRowKeeps ==
    ASSUME MoneyIInv, NEW w \in Waiters, UpdateRow(w) PROVE MoneyIInv'
<1>1. /\ Serving(w) /\ IsCopy(waiter[w]) /\ (OrderAddsUp => CopyAddsUp(waiter[w]))
      /\ waiter[w].at = "row"
  BY WritingCopies DEF UpdateRow
<1>2. /\ bill' = Overwritten(w) /\ dishes' = dishes /\ served' = served /\ receipt' = receipt
      /\ replaced' = replaced
      /\ torn' = (torn \/ Interrupted(w)) /\ Saved(w, "delete")
  BY DEF UpdateRow
<1>3. MoneyTypes /\ ~waiter[w].atomic
  BY <1>1 DEF MoneyIInv, IsCopy
<1>4. /\ bill' \in BillRow /\ IsMenu(dishes') /\ IsMenu(replaced')
      /\ served' \in 0..MaxServed /\ torn' \in BOOLEAN
  <2>1. bill' \in BillRow
    BY <1>1, <1>2, <1>3, OverwrittenFacts
  <2> QED
    BY <1>2, <1>3, <2>1 DEF MoneyTypes, Interrupted
<1>5. /\ DOMAIN waiter' = Waiters
      /\ \A v \in Waiters \ {w} : waiter'[v] = waiter[v]
      /\ waiter'[w].at = "delete" /\ waiter'[w].seen = <<bill', dishes'>>
      /\ waiter'[w].row = waiter[w].row /\ waiter'[w].items = waiter[w].items
      /\ waiter'[w].repeated = waiter[w].repeated
      /\ waiter'[w].atomic = waiter[w].atomic /\ waiter'[w].event = waiter[w].event
  BY <1>1, <1>2, <1>3, SavedFacts
<1>6. MoneyTypes'
  <2>1. IsCopy(waiter'[w])
    BY <1>1, <1>2, <1>3, <1>4, SavedCopy
  <2> QED
    BY <1>3, <1>4, <1>5, <2>1, MoneyTypesStep
<1>7. ASSUME ~torn' PROVE OrderAddsUp'
  <2>1. OrderAddsUp /\ ~Interrupted(w)
    BY <1>2, <1>7 DEF MoneyIInv
  <2>2. bill' = waiter[w].row /\ CopyAddsUp(waiter[w])
    BY <1>1, <1>2, <1>3, <2>1, OverwrittenFacts
  <2>3. CopyAddsUp(waiter'[w])
    BY <1>5, <2>2 DEF CopyAddsUp
  <2>4. bill'.status # "CLOSED" /\ bill'.tip = 0
    BY <1>3, <2>2 DEF CopyAddsUp
  <2> QED
    BY <1>5, <2>1, <2>3, <2>4, AddsUpStep
<1> QED
  BY <1>6, <1>7 DEF MoneyIInv

LEMMA DeleteItemsKeeps ==
    ASSUME MoneyIInv, NEW w \in Waiters, DeleteItems(w) PROVE MoneyIInv'
<1>1. /\ Serving(w) /\ IsCopy(waiter[w]) /\ (OrderAddsUp => CopyAddsUp(waiter[w]))
      /\ waiter[w].at = "delete"
  BY WritingCopies DEF DeleteItems
<1>2. /\ dishes' = [i \in DOMAIN dishes \cap DOMAIN waiter[w].items |-> dishes[i]]
      /\ bill' = bill /\ served' = served /\ receipt' = receipt
      /\ replaced' = replaced
      /\ torn' = (torn \/ Interrupted(w)) /\ Saved(w, "items")
  BY DEF DeleteItems
<1>3. MoneyTypes /\ ~waiter[w].atomic
  BY <1>1 DEF MoneyIInv, IsCopy
<1>4. /\ bill' \in BillRow /\ IsMenu(dishes') /\ IsMenu(replaced')
      /\ served' \in 0..MaxServed /\ torn' \in BOOLEAN
  <2>1. PICK S : S = DOMAIN dishes \cap DOMAIN waiter[w].items
    OBVIOUS
  <2>2. IsMenu(dishes) /\ S \subseteq DOMAIN dishes /\ dishes' = [i \in S |-> dishes[i]]
    BY <1>2, <1>3, <2>1 DEF MoneyTypes
  <2>3. IsMenu(dishes')
    BY <2>2, FS_Subset DEF IsMenu
  <2> QED
    BY <1>2, <1>3, <2>3 DEF MoneyTypes, Interrupted
<1>5. /\ DOMAIN waiter' = Waiters
      /\ \A v \in Waiters \ {w} : waiter'[v] = waiter[v]
      /\ waiter'[w].at = "items" /\ waiter'[w].seen = <<bill', dishes'>>
      /\ waiter'[w].row = waiter[w].row /\ waiter'[w].items = waiter[w].items
      /\ waiter'[w].repeated = waiter[w].repeated
      /\ waiter'[w].atomic = waiter[w].atomic /\ waiter'[w].event = waiter[w].event
  BY <1>1, <1>2, <1>3, SavedFacts
<1>6. MoneyTypes'
  <2>1. IsCopy(waiter'[w])
    BY <1>1, <1>2, <1>3, <1>4, SavedCopy
  <2> QED
    BY <1>3, <1>4, <1>5, <2>1, MoneyTypesStep
<1>7. ASSUME ~torn' PROVE OrderAddsUp'
  <2>1. OrderAddsUp /\ ~Interrupted(w)
    BY <1>2, <1>7 DEF MoneyIInv
  <2>2. bill = waiter[w].row /\ CopyAddsUp(waiter[w])
    BY <1>1, <2>1 DEF CopyAddsUp, Interrupted, LoadedOrder
  <2>3. DOMAIN dishes' \subseteq DOMAIN waiter[w].items
    BY <1>2
  <2>4. CopyAddsUp(waiter'[w])
    BY <1>2, <1>5, <2>2, <2>3 DEF CopyAddsUp
  <2>5. bill'.status # "CLOSED" /\ bill'.tip = 0
    BY <1>2, <1>3, <2>2 DEF CopyAddsUp
  <2> QED
    BY <1>5, <2>1, <2>4, <2>5, AddsUpStep
<1> QED
  BY <1>6, <1>7 DEF MoneyIInv

LEMMA SaveItemsKeeps ==
    ASSUME MoneyIInv, NEW w \in Waiters, SaveItems(w) PROVE MoneyIInv'
<1>1. /\ Serving(w) /\ IsCopy(waiter[w]) /\ (OrderAddsUp => CopyAddsUp(waiter[w]))
      /\ waiter[w].at = "items"
  BY WritingCopies DEF SaveItems
<1>2. /\ dishes' = WrittenOver(waiter[w].items, dishes)
      /\ bill' = bill /\ served' = served /\ receipt' = receipt
      /\ replaced' = waiter[w].repeated
      /\ torn' = (torn \/ Interrupted(w)) /\ waiter' = [waiter EXCEPT ![w] = AtTable]
  BY DEF SaveItems
<1>3. MoneyTypes /\ ~waiter[w].atomic /\ IsMenu(waiter[w].repeated)
  BY <1>1 DEF MoneyIInv, IsCopy
<1>4. PICK m, d : m = waiter[w].items /\ d = dishes
  OBVIOUS
<1>5. IsMenu(m) /\ IsMenu(d)
  BY <1>1, <1>3, <1>4 DEF IsCopy, MoneyTypes
<1>6. dishes' = [i \in DOMAIN m \cup DOMAIN d |-> IF i \in DOMAIN m THEN m[i] ELSE d[i]]
  BY <1>2, <1>4 DEF WrittenOver
<1>7. /\ bill' \in BillRow /\ IsMenu(dishes') /\ IsMenu(replaced')
      /\ served' \in 0..MaxServed /\ torn' \in BOOLEAN
  <2>1. IsFiniteSet(DOMAIN m \cup DOMAIN d)
    BY <1>5, FS_Union DEF IsMenu
  <2>2. IsMenu(dishes')
    BY <1>5, <1>6, <2>1 DEF IsMenu
  <2> QED
    BY <1>2, <1>3, <2>2 DEF MoneyTypes, Interrupted
<1>8. /\ DOMAIN waiter' = Waiters /\ waiter'[w] = AtTable
      /\ \A v \in Waiters \ {w} : waiter'[v] = waiter[v]
  BY <1>2, <1>3 DEF MoneyTypes
<1>9. MoneyTypes'
  BY <1>3, <1>7, <1>8, MoneyTypesStep
<1>10. ASSUME ~torn' PROVE OrderAddsUp'
  <2>1. OrderAddsUp /\ ~Interrupted(w)
    BY <1>2, <1>10 DEF MoneyIInv
  <2>2. /\ bill = waiter[w].row /\ CopyAddsUp(waiter[w])
        /\ DOMAIN d \subseteq DOMAIN m
    BY <1>1, <1>4, <2>1 DEF CopyAddsUp, Interrupted, LoadedOrder
  <2>3. dishes' = m
    <3>1. m = [i \in DOMAIN m |-> m[i]]
      BY <1>5 DEF IsMenu
    <3> QED
      BY <1>6, <2>2, <3>1
  <2>4. bill' = Priced(bill', dishes', replaced')
    BY <1>1, <1>2, <1>4, <2>2, <2>3 DEF IsCopy
  <2>5. bill'.status # "CLOSED" /\ bill'.tip = 0
    BY <1>2, <1>3, <2>2 DEF CopyAddsUp
  <2> QED
    BY <1>8, <2>1, <2>4, <2>5, AddsUpStep
<1> QED
  BY <1>9, <1>10 DEF MoneyIInv

LEMMA ServingStopsKeeps ==
    ASSUME MoneyIInv, NEW w \in Waiters, ServingStops(w) PROVE MoneyIInv'
<1>1. /\ waiter' = [waiter EXCEPT ![w] = AtTable]
      /\ torn' = (torn \/ waiter[w].at \in {"delete", "items"})
      /\ bill' = bill /\ dishes' = dishes /\ receipt' = receipt /\ served' = served
      /\ replaced' = replaced
  BY DEF ServingStops
<1>2. MoneyTypes
  BY DEF MoneyIInv
<1>3. /\ DOMAIN waiter' = Waiters /\ waiter'[w] = AtTable
      /\ \A v \in Waiters \ {w} : waiter'[v] = waiter[v]
  BY <1>1, <1>2 DEF MoneyTypes
<1>4. /\ bill' \in BillRow /\ IsMenu(dishes') /\ IsMenu(replaced')
      /\ served' \in 0..MaxServed /\ torn' \in BOOLEAN
  BY <1>1, <1>2 DEF MoneyTypes
<1>5. MoneyTypes'
  BY <1>2, <1>3, <1>4, MoneyTypesStep
<1>6. ASSUME ~torn' PROVE OrderAddsUp'
  <2>1. OrderAddsUp /\ waiter[w].at \notin {"delete", "items"}
    BY <1>1, <1>6 DEF MoneyIInv
  <2>2. /\ bill'.status = "CLOSED" => IsPaid(bill', dishes', receipt')
        /\ bill'.status # "CLOSED" => bill'.tip = 0
    BY <1>1, <2>1 DEF OrderAddsUp
  <2> QED
    BY <1>1, <1>3, <2>1, <2>2, AddsUpStep
<1> QED
  BY <1>5, <1>6 DEF MoneyIInv

-----------------------------------------------------------------------------
(* The theorems *)

LEMMA MoneyBegins == MoneyInit => MoneyIInv
<1> SUFFICES ASSUME MoneyInit PROVE MoneyIInv
  OBVIOUS
<1>1. PICK o \in Begun :
          /\ dishes = o.items
          /\ bill = Priced(IF o.items = << >> THEN NewBill(o.fee)
                           ELSE [NewBill(o.fee) EXCEPT !.status = "IN_PROGRESS"],
                           o.items, NoLines)
  BY DEF MoneyInit
<1>2. o.fee \in Nat /\ IsMenu(o.items)
  BY OrderMoneyAssumption DEF IsMenu
<1>3. IsMenu(NoLines)
  BY NoLinesNoAmount
<1>4. PICK fee \in Nat : fee = o.fee
  BY <1>2
<1>5. PICK blank :
          blank = [status |-> "OPEN", discount |-> NoDiscount, fee |-> fee, tip |-> 0,
                   paid |-> NotPaid, subtotal |-> 0, discountTotal |-> 0, taxBase |-> 0,
                   taxAmount |-> 0, total |-> 0]
  OBVIOUS
<1>6. blank \in BillRow /\ blank.tip = 0 /\ blank.status = "OPEN"
  BY <1>5 DEF BillRow
<1>7. NewBill(fee) = Priced(blank, NoLines, NoLines)
  BY <1>5 DEF NewBill
<1>8. PICK b : b = NewBill(fee)
  OBVIOUS
<1>9. b \in BillRow /\ b.tip = 0 /\ b.status = "OPEN"
  BY <1>3, <1>6, <1>7, <1>8, PricedFacts
<1>10. PICK c : c = IF o.items = << >> THEN b ELSE [b EXCEPT !.status = "IN_PROGRESS"]
  OBVIOUS
<1>11. c \in BillRow /\ c.tip = 0 /\ c.status # "CLOSED"
  BY <1>9, <1>10, BillChanges
<1>12. bill = Priced(c, o.items, NoLines)
  BY <1>1, <1>4, <1>8, <1>10
<1>13. bill \in BillRow /\ bill.tip = 0 /\ bill.status # "CLOSED" /\ bill = Priced(bill, dishes, NoLines)
  BY <1>1, <1>2, <1>3, <1>11, <1>12, PricedFacts, PricedOnce
<1>14. /\ waiter = [w \in Waiters |-> AtTable] /\ served = 0 /\ replaced = NoLines /\ torn = FALSE
       /\ MaxServed \in Nat
  BY OrderMoneyAssumption DEF MoneyInit
<1>15. MoneyTypes
  <2>1. IsMenu(dishes) /\ IsMenu(replaced)
    BY <1>1, <1>2, <1>3, <1>14
  <2>2. served \in 0..MaxServed
    <3>1. served = 0 /\ MaxServed \in Nat
      BY <1>14
    <3> QED
      BY <3>1, SMT
  <2>3. DOMAIN waiter = Waiters /\ \A w \in Waiters : ~Serving(w)
    BY <1>14 DEF Serving
  <2> QED
    BY <1>13, <1>14, <2>1, <2>2, <2>3 DEF MoneyTypes
<1>16. OrderAddsUp
  BY <1>13, <1>14 DEF OrderAddsUp, Serving
<1> QED
  BY <1>15, <1>16 DEF MoneyIInv

LEMMA MoneyStep == MoneyIInv /\ [MoneyNext]_moneyVars => MoneyIInv'
<1> SUFFICES ASSUME MoneyIInv, [MoneyNext]_moneyVars PROVE MoneyIInv'
  OBVIOUS
<1>1. CASE MoneyNext
  BY <1>1, AddOrderItemsKeeps, ItemRequestsKeep, OrderRequestsKeep, CloseOrderKeeps,
     SelectOrderKeeps, CommitOrderKeeps, UpdateRowKeeps, DeleteItemsKeeps, SaveItemsKeeps,
     ServingStopsKeeps DEF MoneyNext
<1>2. CASE UNCHANGED moneyVars
  BY <1>2 DEF moneyVars, MoneyIInv, MoneyTypes, OrderAddsUp, Serving, BeingSaved
<1> QED
  BY <1>1, <1>2

LEMMA MoneyInvariance == MoneySpec => []MoneyIInv
  BY MoneyBegins, MoneyStep, PTL DEF MoneySpec

\* Amounts are never negative: no discount exceeds what it is taken from and no tax the
\* price that includes it, in whatever order requests overwrite each other's.
THEOREM MoneyTypeCorrect == MoneySpec => []MoneyTypeOK
<1>1. MoneyIInv => MoneyTypeOK
  <2> SUFFICES ASSUME MoneyTypes PROVE MoneyTypeOK
    BY DEF MoneyIInv
  <2>1. bill \in BillRow /\ IsMenu(dishes) /\ IsMenu(replaced)
    BY DEF MoneyTypes
  <2>2. \A c \in {"fee", "tip", "subtotal", "discountTotal", "taxBase", "taxAmount", "total"} :
            bill[c] \in Nat
    BY <2>1 DEF BillRow
  <2> QED
    BY <2>1, <2>2 DEF MoneyTypes, MoneyTypeOK, BillRow, IsMenu
<1> QED
  BY <1>1, MoneyInvariance, PTL

\* Totals, items, payments and the OrderClosed event stay those of one order, unless saves
\* overlapped statement by statement or the order's discount was saved in part.
THEOREM OrderMoneyStaysOne == MoneySpec => []OrderMoneyAddsUp
<1>1. MoneyIInv => OrderMoneyAddsUp
  <2> SUFFICES ASSUME MoneyTypes, OrderAddsUp
               PROVE  (BeingSaved \/ TotalsFollowTheItems) /\ ClosedOrderIsPaid
    BY DEF MoneyIInv, OrderMoneyAddsUp
  <2>1. bill \in BillRow /\ IsMenu(dishes) /\ IsMenu(replaced)
    BY DEF MoneyTypes
  <2>2. bill = Priced(bill, dishes, replaced) => TotalsFollowTheItems
    BY <2>1, PricedFacts DEF TotalsFollowTheItems
  <2> QED
    BY <2>2, PaidMeansPaid DEF OrderAddsUp
<1> QED
  BY <1>1, MoneyInvariance, PTL

-------------------------------------------------------------------------------
(* The back office as a whole: module BackOfficeParts. *)

\* What every component does by itself.
EveryPart ==
    /\ PurchaseSpec
    /\ RegistersSpec
    /\ CustomersSpec
    /\ AccountsSpec
    /\ MenuSpec
    /\ TransformationsSpec
    /\ EstablishmentSpec
    /\ BillingSpec
    /\ MoneySpec
    /\ InventorySpec

LEMMA BackOfficeBegins ==
    BackInit =>
        /\ PurchaseInit
        /\ RegistersInit(AllRegs)
        /\ CustomersInit
        /\ AccountsInit
        /\ MenuInit
        /\ TransformationsInit
        /\ EstablishmentInit
        /\ BillingInit
        /\ MoneyInit
        /\ InventoryInit
  BY DEF BackInit

LEMMA BackOfficeSteps ==
    [BackNext]_BackVars =>
        /\ [PurchaseNext]_purchaseVars
        /\ [RegistersNext]_registerVars
        /\ [CustomersNext]_customerVars
        /\ [AccountsNext]_accountVars
        /\ [MenuNext]_menuVars
        /\ [TransformationsNext]_transformationVars
        /\ [EstablishmentNext]_establishmentVars
        /\ [BillingNext]_billingVars
        /\ [MoneyNext]_moneyVars
        /\ [InventoryNext]_inventoryVars
<1> SUFFICES ASSUME [BackNext]_BackVars
             PROVE
               /\ [PurchaseNext]_purchaseVars
               /\ [RegistersNext]_registerVars
               /\ [CustomersNext]_customerVars
               /\ [AccountsNext]_accountVars
               /\ [MenuNext]_menuVars
               /\ [TransformationsNext]_transformationVars
               /\ [EstablishmentNext]_establishmentVars
               /\ [BillingNext]_billingVars
               /\ [MoneyNext]_moneyVars
               /\ [InventoryNext]_inventoryVars
  OBVIOUS
<1>1. CASE PurchasesPart
  BY <1>1 DEF PurchasesPart
<1>2. CASE RegistersPart
  BY <1>2 DEF RegistersPart
<1>3. CASE CustomersPart
  BY <1>3 DEF CustomersPart
<1>4. CASE AccountsPart
  BY <1>4 DEF AccountsPart
<1>5. CASE MenuPart
  BY <1>5 DEF MenuPart
<1>6. CASE TransformationsPart
  BY <1>6 DEF TransformationsPart
<1>7. CASE EstablishmentPart
  BY <1>7 DEF EstablishmentPart
<1>8. CASE BillingPart
  BY <1>8 DEF BillingPart
<1>9. CASE MoneyPart
  BY <1>9 DEF MoneyPart
<1>10. CASE InventoryPart
  BY <1>10 DEF InventoryPart
<1>11. CASE UNCHANGED BackVars
  BY <1>11 DEF BackVars
<1>12. QED
  BY <1>1, <1>2, <1>3, <1>4, <1>5, <1>6, <1>7, <1>8, <1>9, <1>10, <1>11 DEF BackNext

\* Putting the components side by side adds nothing to any of them and takes nothing
\* away: a behaviour of the whole is one of each.
THEOREM BackOfficeIsItsParts == BackSpec => EveryPart
  BY BackOfficeBegins, BackOfficeSteps, PTL
  DEF BackSpec, EveryPart, PurchaseSpec, RegistersSpec, CustomersSpec, AccountsSpec, MenuSpec, TransformationsSpec, EstablishmentSpec, BillingSpec, MoneySpec, InventorySpec

LEMMA PartStays == BackSpec => [](part \in PartNames)
<1>1. BackInit => part \in PartNames
  BY PartsAssumption DEF BackInit
<1>2. part \in PartNames /\ [BackNext]_BackVars => (part \in PartNames)'
  BY DEF BackNext, BackVars, PurchasesPart, RegistersPart, CustomersPart,
         AccountsPart, MenuPart, TransformationsPart, EstablishmentPart,
         BillingPart, MoneyPart, InventoryPart
<1>3. QED  BY <1>1, <1>2, PTL DEF BackSpec

LEMMA EveryPartIsTyped ==
    EveryPart =>
        [](/\ PurchaseTypeOK
           /\ RegistersTypeOK
           /\ CustomersTypeOK
           /\ AccountsTypeOK
           /\ MenuTypeOK
           /\ TransformationsTypeOK
           /\ EstablishmentTypeOK
           /\ BillingTypeOK
           /\ MoneyTypeOK
           /\ InventoryTypeOK)
  BY PurchasesTypeCorrect, RegistersTypeCorrect, CustomersTypeCorrect, AccountsTypeCorrect,
     MenuTypeCorrect, TransformationsTypeCorrect, SettingsTypeCorrect,
     BillingTypeCorrect, MoneyTypeCorrect, InventoryTypeCorrect, PTL DEF EveryPart

\* Type correctness of the component that a behaviour of the whole is about.
THEOREM BackOfficeTypesCorrect == BackSpec => []BackOfficeTypeOK
<1>1. /\ part \in PartNames
      /\ PurchaseTypeOK
      /\ RegistersTypeOK
      /\ CustomersTypeOK
      /\ AccountsTypeOK
      /\ MenuTypeOK
      /\ TransformationsTypeOK
      /\ EstablishmentTypeOK
      /\ BillingTypeOK
      /\ MoneyTypeOK
      /\ InventoryTypeOK
      => BackOfficeTypeOK
  BY DEF PartNames, BackOfficeTypeOK
<1>2. QED
  BY <1>1, BackOfficeIsItsParts, PartStays, EveryPartIsTyped, PTL

\* What is proved of the components one by one holds in the whole.
BackOfficeStaysSound ==
    /\ GoodsComeAfterApprovalAndSending
    /\ StockIsBackedByTheOrder
    /\ RegistersStaySound
    /\ CustomersAreConsistent
    /\ GrantedAccountsAreHeld
    /\ LastWordOnActivityHolds
    /\ OrderMoneyAddsUp
    /\ LevelsFollowIngredients
    /\ ProductsCanBeServed
    /\ AssignmentIsTheLastOneAsked
    /\ TransformationsAreWhole
    /\ SettingsCanBeRead
    /\ OrdersAreInvoiced
    /\ StockBooksAddUp

\* The same of any behaviour in which each component does what it does by itself,
\* however the requests to the different components mix: the components have no
\* variable in common, so none disturbs what another one keeps.
THEOREM EveryPartStaysSound == EveryPart => []BackOfficeStaysSound /\ RevokedStaysRevoked
<1>1. EveryPart => []BackOfficeStaysSound
  BY NoGoodsBeforeApproval, StockIsBacked, RegistersAreSound,
     CustomersStayConsistent, AccountsAreHeld, AccountsLastWord,
     OrderMoneyStaysOne, MenuLevelsFollow, MenuProductsAreServed,
     MenuAssignmentsLast, TransformationsStayWhole, SettingsStayReadable,
     BillingOrdersAreInvoiced, StockBooksStay, PTL
  DEF EveryPart, BackOfficeStaysSound
<1>2. EveryPart => RevokedStaysRevoked
  BY RevocationIsFinal DEF EveryPart
<1>3. QED  BY <1>1, <1>2

\* In particular every invariant that is proved of a component holds in the behaviours
\* of the whole, which are about one component each.
THEOREM BackOfficeIsSound == BackSpec => []BackOfficeStaysSound /\ RevokedStaysRevoked
  BY EveryPartStaysSound, BackOfficeIsItsParts
==============================================================================
