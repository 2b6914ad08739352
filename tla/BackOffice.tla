----------------------------- MODULE BackOffice -----------------------------
(***************************************************************************)
(* All registers under one next-state relation, and what must hold of each *)
(* of them while requests overlap.                                         *)
(***************************************************************************)
EXTENDS FloorRegisters, CatalogRegisters, PrinterRegister

RegistersNext ==
    \/ FloorNext
    \/ CatalogNext
    \/ PrinterNext
    \/ \E c \in RegisterClerks : FailRequest(c)

AllRegs == FloorRegs \cup CatalogRegs \cup PrinterRegs

RegistersSpec == RegistersInit(AllRegs) /\ [][RegistersNext]_registerVars

-----------------------------------------------------------------------------
\* The rows of the register in hand.
RowSet ==
    CASE reg = "zones"                 -> ZoneRow
      [] reg = "floor_elements"        -> FloorElementRow
      [] reg = "tables"                -> TableRow
      [] reg = "units"                 -> UnitRow
      [] reg = "ingredient_categories" -> IngredientCategoryRow
      [] reg = "product_categories"    -> ProductCategoryRow
      [] reg = "suppliers"             -> SupplierRow
      [] reg = "recipes"               -> RecipeRow
      [] reg = "stations"              -> StationRow
      [] reg = "positions"             -> PositionRow
      [] reg = "roles"                 -> RoleRow
      [] reg = "printers"              -> PrinterRow

\* The columns that requests write.
RowColumns == {"name", "isActive", "zoneId", "place", "status", "currentOrderId", "items",
               "outputDevice", "device", "model"}

\* Type correctness of the rows and of the statements about to be issued.
RegistersTypeOK ==
    /\ reg \in AllRegs
    /\ DOMAIN rows \subseteq Ids
    /\ \A id \in DOMAIN rows : rows[id] \in RowSet
    /\ links \subseteq Ids
    /\ \A c \in RegisterClerks :
          request[c] \in {NoRequest}
                         \cup [do : {"select", "insert", "update"}, id : Ids, row : RowSet,
                               columns : SUBSET RowColumns]
                         \cup [do : {"delete"}, id : Ids]
    /\ blended \subseteq DOMAIN rows

NamesStayUnique ==
    reg \in {"zones", "tables", "stations", "ingredient_categories", "positions", "roles",
            "printers"} =>
        \A i, j \in DOMAIN rows : rows[i].name = rows[j].name => i = j

PrintingStationsHaveAPrinter ==
    reg = "stations" =>
        \A i \in DOMAIN rows \ blended :
            IF rows[i].outputDevice = "printer" THEN rows[i].device \in Devices
            ELSE rows[i].device = NoDevice

ReferredRowsStay ==
    reg \in {"units", "product_categories", "suppliers", "positions"} =>
        links \subseteq DOMAIN rows

\* Through every overlap of edits, deletions and creations that are sent again:
\* names stay unique, in the registers that look a name up before they write it
\* and in those that leave it to the database, whichever columns of which request an
\* UPDATE leaves; a station that prints names a printer that was discovered, and no
\* other station names one, unless the columns of two edits were mixed in its row, and
\* again after the next edit that was not; and a row that rows of other tables refer
\* to is not deleted under them, although no use case looks for such rows.
RegistersStaySound ==
    /\ NamesStayUnique
    /\ PrintingStationsHaveAPrinter
    /\ ReferredRowsStay
=============================================================================
