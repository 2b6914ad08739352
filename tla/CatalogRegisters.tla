-------------------------- MODULE CatalogRegisters --------------------------
(***************************************************************************)
(* The registers that describe what the restaurant is made of: units,      *)
(* categories of ingredients and of products, suppliers, kitchen recipes,  *)
(* stations, positions and roles.  They differ in what the use case looks  *)
(* up before it writes, in what the database enforces, and in what a       *)
(* deletion does.                                                          *)
(***************************************************************************)
EXTENDS Registers

CONSTANTS Devices,      \* printers that were discovered; none is ever deleted
          Strangers,    \* printer ids no discovered printer has
          NoDevice,     \* the null of discovered_printer_device_id
          Ingredients   \* what recipe items name

CatalogRegs == {"units", "ingredient_categories", "product_categories",
                "suppliers", "recipes", "stations", "positions", "roles"}

\* Rows that are known by a name and can be switched off; their other columns are
\* only shown.
NamedRow == [name : Names, isActive : BOOLEAN]
Row(q) == [name |-> q.name, isActive |-> q.isActive]

-----------------------------------------------------------------------------
(* Units: referred to by ingredients, levels, batches and items through foreign
   keys. *)

UnitRow == NamedRow
CreateUnitRequest == [id : Ids, name : Names, isActive : BOOLEAN]
UpdateUnitRequest == [name : Names, isActive : BOOLEAN]

NewUnit(q) == Row(q)
EditedUnit(q) == Row(q)

CreateUnit(c) ==
    \E q \in CreateUnitRequest : Decide(c, SaveRow(q.id, NewUnit(q)))
UpdateUnit(c) ==
    \E id \in DOMAIN rows, q \in UpdateUnitRequest : Decide(c, SaveRow(id, EditedUnit(q)))
DeleteUnit(c) == \E id \in DOMAIN rows : Decide(c, DeleteRow(id))

SaveUnit(c) == SelectRow(c, {}) \/ SaveStatement(c, FALSE)

RemoveUnit(c) == DeleteStatement(c, TRUE)

Unit(c) ==
    /\ reg = "units"
    /\ \/ CreateUnit(c)
       \/ UpdateUnit(c)
       \/ DeleteUnit(c)
       \/ SaveUnit(c)
       \/ RemoveUnit(c)

-----------------------------------------------------------------------------
(* Ingredient categories: the index on the name is all that keeps it unique. *)

IngredientCategoryRow == NamedRow
CreateIngredientCategoryRequest == [id : Ids, name : Names, isActive : BOOLEAN]
UpdateIngredientCategoryRequest == [name : Names, isActive : BOOLEAN]

NewIngredientCategory(q) == Row(q)
EditedIngredientCategory(q) == Row(q)

CreateIngredientCategory(c) ==
    \E q \in CreateIngredientCategoryRequest :
        Decide(c, SaveRow(q.id, NewIngredientCategory(q)))
UpdateIngredientCategory(c) ==
    \E id \in DOMAIN rows, q \in UpdateIngredientCategoryRequest :
        Decide(c, SaveRow(id, EditedIngredientCategory(q)))

SaveIngredientCategory(c) == SelectRow(c, {}) \/ SaveStatement(c, TRUE)

IngredientCategory(c) ==
    /\ reg = "ingredient_categories"
    /\ \/ CreateIngredientCategory(c)
       \/ UpdateIngredientCategory(c)
       \/ SaveIngredientCategory(c)

-----------------------------------------------------------------------------
(* Product categories: products refer to them through a foreign key. *)

ProductCategoryRow == NamedRow
CreateProductCategoryRequest == [id : Ids, name : Names, isActive : BOOLEAN]
UpdateProductCategoryRequest == [name : Names, isActive : BOOLEAN]

NewProductCategory(q) == Row(q)
EditedProductCategory(q) == Row(q)

CreateProductCategory(c) ==
    \E q \in CreateProductCategoryRequest :
        Decide(c, SaveRow(q.id, NewProductCategory(q)))
UpdateProductCategory(c) ==
    \E id \in DOMAIN rows, q \in UpdateProductCategoryRequest :
        Decide(c, SaveRow(id, EditedProductCategory(q)))
DeleteProductCategory(c) == \E id \in DOMAIN rows : Decide(c, DeleteRow(id))

SaveProductCategory(c) == SelectRow(c, {}) \/ SaveStatement(c, FALSE)
RemoveProductCategory(c) == DeleteStatement(c, TRUE)

ProductCategory(c) ==
    /\ reg = "product_categories"
    /\ \/ CreateProductCategory(c)
       \/ UpdateProductCategory(c)
       \/ DeleteProductCategory(c)
       \/ SaveProductCategory(c)
       \/ RemoveProductCategory(c)

-----------------------------------------------------------------------------
(* Suppliers: never deleted; purchase orders refer to them. *)

SupplierRow == NamedRow
CreateSupplierRequest == [id : Ids, name : Names, isActive : BOOLEAN]
UpdateSupplierRequest == [name : Names, isActive : BOOLEAN]

NewSupplier(q) == Row(q)
EditedSupplier(q) == Row(q)

CreateSupplier(c) ==
    \E q \in CreateSupplierRequest : Decide(c, SaveRow(q.id, NewSupplier(q)))
UpdateSupplier(c) ==
    \E id \in DOMAIN rows, q \in UpdateSupplierRequest :
        Decide(c, SaveRow(id, EditedSupplier(q)))

SaveSupplier(c) == SelectRow(c, {}) \/ SaveStatement(c, FALSE)

Supplier(c) ==
    /\ reg = "suppliers"
    /\ \/ CreateSupplier(c)
       \/ UpdateSupplier(c)
       \/ SaveSupplier(c)

-----------------------------------------------------------------------------
(* Kitchen recipes: the row and its items are written in the transaction of the
   request: its items are deleted and inserted again, under the lock on the row. *)

RecipeRow == [name : Names, items : (SUBSET Ingredients) \ {{}}]
CreateRecipeRequest == [id : Ids, name : Names, items : SUBSET Ingredients]
UpdateRecipeRequest == [name : Names, items : SUBSET Ingredients]

EnsureHasItems(items) == items # {}
NewRecipe(q) == [name |-> q.name, items |-> q.items]
EditedRecipe(q) == [name |-> q.name, items |-> q.items]

CreateRecipe(c) ==
    \E q \in CreateRecipeRequest :
        /\ EnsureHasItems(q.items)
        /\ Decide(c, SaveRow(q.id, NewRecipe(q)))
UpdateRecipe(c) ==
    \E id \in DOMAIN rows, q \in UpdateRecipeRequest :
        /\ EnsureHasItems(q.items)
        /\ Decide(c, SaveRow(id, EditedRecipe(q)))
DeleteRecipe(c) == \E id \in DOMAIN rows : Decide(c, DeleteRow(id))

SaveRecipe(c) == SelectRow(c, {"items"}) \/ SaveStatement(c, FALSE)
RemoveRecipe(c) == DeleteStatement(c, FALSE)

Recipe(c) ==
    /\ reg = "recipes"
    /\ \/ CreateRecipe(c)
       \/ UpdateRecipe(c)
       \/ DeleteRecipe(c)
       \/ SaveRecipe(c)
       \/ RemoveRecipe(c)

-----------------------------------------------------------------------------
(* Stations, and the printer a station prints on. *)

Outputs == {"kds", "printer", "none"}

StationRow == [name : Names, isActive : BOOLEAN, outputDevice : Outputs,
               device : Devices \cup {NoDevice}]

StationDevice == Devices \cup Strangers \cup {NoDevice}
CreateStationRequest ==
    [id : Ids, name : Names, outputDevice : Outputs, device : StationDevice]
UpdateStationRequest ==
    [name : Names, isActive : BOOLEAN, outputDevice : Outputs, device : StationDevice]

\* resolveDiscoveredPrinterDeviceId: only a printer station keeps a device, and it
\* must be given one.
MayUseDevice(output, d) == output = "printer" => d # NoDevice

DeviceOf(output, d) == IF output = "printer" THEN d ELSE NoDevice

\* A device that the request names must have been discovered.
Discovered(d) == d # NoDevice => d \in Devices

NewStation(q) ==
    [name |-> q.name, isActive |-> TRUE, outputDevice |-> q.outputDevice,
     device |-> DeviceOf(q.outputDevice, q.device)]
EditedStation(q) ==
    [name |-> q.name, isActive |-> q.isActive, outputDevice |-> q.outputDevice,
     device |-> DeviceOf(q.outputDevice, q.device)]

CreateStation(c) ==
    \E q \in CreateStationRequest :
        /\ Named(q.name) = {}
        /\ Discovered(q.device)
        /\ MayUseDevice(q.outputDevice, q.device)
        /\ Decide(c, SaveRow(q.id, NewStation(q)))

\* PATCH /stations/:id: an output that is left out keeps its value, a device that
\* is left out arrives as null.
UpdateStation(c) ==
    \E id \in DOMAIN rows, q \in UpdateStationRequest :
        /\ rows[id].name # q.name => Named(q.name) = {}
        /\ Discovered(q.device)
        /\ MayUseDevice(q.outputDevice, q.device)
        /\ Decide(c, SaveRow(id, EditedStation(q)))

\* Out of service, through update() like an edit.
RetiredStation(row) ==
    [row EXCEPT !.isActive = FALSE, !.device = DeviceOf(row.outputDevice, @)]

\* DELETE /stations/:id only takes the station out of service.
DeleteStation(c) ==
    \E id \in DOMAIN rows :
        /\ MayUseDevice(rows[id].outputDevice, rows[id].device)
        /\ Decide(c, SaveRow(id, RetiredStation(rows[id])))

SaveStation(c) == SelectRow(c, {}) \/ SaveStatement(c, TRUE)

Station(c) ==
    /\ reg = "stations"
    /\ \/ CreateStation(c)
       \/ UpdateStation(c)
       \/ DeleteStation(c)
       \/ SaveStation(c)

-----------------------------------------------------------------------------
(* Positions: employees refer to them through a foreign key.  Roles: users hold
   an id of theirs that no key protects. *)

PositionRow == [name : Names]
CreatePositionRequest == [id : Ids, name : Names]
UpdatePositionRequest == [name : Names]

NewPosition(q) == [name |-> q.name]
EditedPosition(q) == [name |-> q.name]

CreatePosition(c) ==
    \E q \in CreatePositionRequest : Decide(c, SaveRow(q.id, NewPosition(q)))
UpdatePosition(c) ==
    \E id \in DOMAIN rows, q \in UpdatePositionRequest :
        Decide(c, SaveRow(id, EditedPosition(q)))
DeletePosition(c) == \E id \in DOMAIN rows : Decide(c, DeleteRow(id))

SavePosition(c) == SelectRow(c, {}) \/ SaveStatement(c, TRUE)
RemovePosition(c) == DeleteStatement(c, TRUE)

Position(c) ==
    /\ reg = "positions"
    /\ \/ CreatePosition(c)
       \/ UpdatePosition(c)
       \/ DeletePosition(c)
       \/ SavePosition(c)
       \/ RemovePosition(c)

RoleRow == [name : Names]
CreateRoleRequest == [id : Ids, name : Names]
UpdateRoleRequest == [name : Names]

NewRole(q) == [name |-> q.name]
EditedRole(q) == [name |-> q.name]

CreateRole(c) ==
    \E q \in CreateRoleRequest : Decide(c, SaveRow(q.id, NewRole(q)))
UpdateRole(c) ==
    \E id \in DOMAIN rows, q \in UpdateRoleRequest : Decide(c, SaveRow(id, EditedRole(q)))
DeleteRole(c) == \E id \in DOMAIN rows : Decide(c, DeleteRow(id))

SaveRole(c) == SelectRow(c, {}) \/ SaveStatement(c, TRUE)
RemoveRole(c) == DeleteStatement(c, FALSE)

Role(c) ==
    /\ reg = "roles"
    /\ \/ CreateRole(c)
       \/ UpdateRole(c)
       \/ DeleteRole(c)
       \/ SaveRole(c)
       \/ RemoveRole(c)

-----------------------------------------------------------------------------
(* The rows of other tables that hold an id of these registers. *)

UnitReference == Refer("units", TRUE) \/ Unrefer("units")
ProductOfCategory == Refer("product_categories", TRUE) \/ Unrefer("product_categories")
OrderOfSupplier == Refer("suppliers", TRUE)
EmployeeOfPosition == Refer("positions", TRUE) \/ Unrefer("positions")
UserOfRole == Refer("roles", FALSE) \/ Unrefer("roles")

References ==
    UnitReference \/ ProductOfCategory \/ OrderOfSupplier \/ EmployeeOfPosition \/ UserOfRole

CatalogNext ==
    \/ \E c \in RegisterClerks :
          \/ Unit(c)
          \/ IngredientCategory(c)
          \/ ProductCategory(c)
          \/ Supplier(c)
          \/ Recipe(c)
          \/ Station(c)
          \/ Position(c)
          \/ Role(c)
    \/ References
=============================================================================
