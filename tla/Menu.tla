-------------------------------- MODULE Menu --------------------------------
(***************************************************************************)
(* Ingredients with their stock levels, products with their recipes and    *)
(* images, and option groups: src/contexts/inventory/ingredient and        *)
(* src/contexts/menu.                                                      *)
(*                                                                         *)
(* A request reads, decides, and writes; what it writes becomes visible at *)
(* once, as one statement or one transaction.  TypeORM's save() selects    *)
(* the row again before and writes the columns that differ from it, so the *)
(* columns of two requests can end up in one row: `mingled' remembers such *)
(* products.  Product images are files in a storage no transaction covers: *)
(* they are deleted and uploaded between the read and the write.           *)
(***************************************************************************)
EXTENDS Tables, Naturals, FiniteSets

CONSTANTS Cooks,          \* the clients, each with one request at a time
          Menus,          \* bound: what the requests of a behaviour name
          IngredientIds, UnitIds, ProductIds, Skus, GroupIds,
          ImageKeys,      \* storage keys, never used twice
          NoIngredient,   \* the null of ingredient_id
          NoImage         \* the null of image_storage_key

Strategies == {"RECIPE", "DIRECT", "NONE"}

ASSUME MenuAssumption ==
    Menus \subseteq [ingredients : SUBSET IngredientIds, products : SUBSET ProductIds,
                     strategies : SUBSET Strategies, units : SUBSET UnitIds,
                     skus : SUBSET Skus, groups : SUBSET GroupIds, images : SUBSET ImageKeys]

VARIABLES menu,         \* what this behaviour is about
          ingredients,  \* the unit of each committed ingredient
          levels,       \* the unit of each ingredient's stock level
          products,     \* the committed product rows, by id
          recipes,      \* the products a recipe was saved for
          groups,       \* the committed option groups: whether they are active
          assigned,     \* pairs of a product and an option group of it
          images,       \* the files in the storage
          bench,        \* the request each client is running
          asked,        \* history: the groups last assigned to each product
          mingled,      \* history: products that the last UPDATE left other than its
                        \* request wanted them
          resent,       \* history: a creation named an ingredient that was there
          late          \* history: a request wrote what was no longer current, or
                        \* failed after it had changed the storage

menuVars == <<menu, ingredients, levels, products, recipes, groups, assigned, images,
              bench, asked, mingled, resent, late>>

ProductRow == [sku : Skus, strategy : Strategies,
               ingredientId : IngredientIds \cup {NoIngredient},
               image : ImageKeys \cup {NoImage}]

\* The bodies of the requests.
CreateIngredientRequest == [id : menu.ingredients, unitId : menu.units]
UpdateIngredientRequest == [unitId : menu.units]
CreateProductRequest ==
    [id : menu.products, sku : menu.skus, strategy : menu.strategies,
     ingredientId : menu.ingredients \cup {NoIngredient}, image : menu.images \cup {NoImage}]
UpdateProductRequest ==
    [strategy : menu.strategies, ingredientId : menu.ingredients \cup {NoIngredient},
     image : menu.images \cup {NoImage}]
SaveProductRecipeRequest == [productId : menu.products]
CreateOptionGroupRequest == [id : menu.groups]
AssignProductOptionGroupsRequest == [optionGroupIds : SUBSET DOMAIN groups]

\* An ingredient is its unit, an option group whether it is active: the rest of their
\* rows is only shown.
IngredientRow == UnitIds
NewIngredient(q) == q.unitId
OptionGroupRow == BOOLEAN
NewOptionGroup == TRUE
Deactivated(row) == FALSE

NewProduct(q) ==
    [sku |-> q.sku, strategy |-> q.strategy, ingredientId |-> q.ingredientId,
     image |-> q.image]

EditedProduct(row, q) ==
    [row EXCEPT !.strategy = q.strategy, !.ingredientId = q.ingredientId, !.image = q.image]

\* ensureValidInventoryConfig.
ValidInventoryConfig(strategy, ingredientId) ==
    /\ strategy = "DIRECT" => ingredientId # NoIngredient
    /\ strategy = "RECIPE" => ingredientId = NoIngredient

\* Faulty variant: the ingredient of a direct product is kept.
MarkAsRecipeOnly(row) == [row EXCEPT !.strategy = "RECIPE"]

MarkAsRecipe(row) == [row EXCEPT !.strategy = "RECIPE", !.ingredientId = NoIngredient]

\* hasTransactions: a stock level counts, and there is one from the start.
HasTransactions(i) == i \in DOMAIN levels

FindBySku(s) == {p \in DOMAIN products : products[p].sku = s}
GroupsOf(p) == {g \in GroupIds : <<p, g>> \in assigned}
IsAssignedToAnyProduct(g) == \E p \in ProductIds : <<p, g>> \in assigned

-----------------------------------------------------------------------------
(* A request: the rows it will write, and those rows as it read them last. *)

AtBench == [at |-> "free"]
Nothing == << >>

CurrentRows(table, ids) == [i \in ids \cap DOMAIN table |-> table[i]]

Writing == [at |-> "write", ingredients |-> Nothing, readIngredients |-> Nothing,
            created |-> {}, products |-> Nothing, read |-> Nothing, dropped |-> {},
            recipe |-> {}, groups |-> Nothing, readGroups |-> Nothing, cleared |-> {},
            assignees |-> {}, pairs |-> {}, touched |-> FALSE]

\* A request that saves begins with the SELECT of save().
Selecting == [Writing EXCEPT !.at = "select"]

WriteIngredient(i, row) ==
    [Selecting EXCEPT !.ingredients = OneRow(i, row),
                      !.readIngredients = CurrentRows(ingredients, {i})]
WriteProduct(p, row) ==
    [Selecting EXCEPT !.products = OneRow(p, row), !.read = CurrentRows(products, {p})]
WriteGroup(g, active) ==
    [Selecting EXCEPT !.groups = OneRow(g, active), !.readGroups = CurrentRows(groups, {g})]

Prepare(c, request) ==
    /\ bench[c] = AtBench
    /\ bench' = [bench EXCEPT ![c] = request]
    /\ UNCHANGED <<menu, ingredients, levels, products, recipes, groups, assigned,
                   asked, mingled, resent, late>>

-----------------------------------------------------------------------------
(* Ingredients *)

\* POST /ingredients, one transaction with its synchronous subscriber, which adds a
\* stock level unless there is one.
CreateIngredient(c) ==
    /\ \E q \in CreateIngredientRequest :
          Prepare(c, [WriteIngredient(q.id, NewIngredient(q)) EXCEPT !.created = {q.id}])
    /\ UNCHANGED images

\* Faulty variant: another unit is taken over although there is a level.
UpdateIngredientUnit(c) ==
    /\ \E i \in DOMAIN ingredients, q \in UpdateIngredientRequest :
          Prepare(c, WriteIngredient(i, q.unitId))
    /\ UNCHANGED images

\* PUT /ingredients/:id: another unit is refused once the ingredient has a level,
\* and is ignored otherwise.
UpdateIngredient(c) ==
    /\ \E i \in DOMAIN ingredients, q \in UpdateIngredientRequest :
          /\ q.unitId # ingredients[i] => ~HasTransactions(i)
          /\ Prepare(c, WriteIngredient(i, ingredients[i]))
    /\ UNCHANGED images

-----------------------------------------------------------------------------
(* Products *)

\* A key no file, product or request ever had: upload() makes a new one.
FreshImage(k) ==
    /\ k \in menu.images \ images
    /\ \A p \in DOMAIN products : products[p].image # k
    /\ \A c \in Cooks : bench[c] # AtBench =>
          \A p \in DOMAIN bench[c].products : bench[c].products[p].image # k

\* An ingredient that is named for a direct product must exist.
EnsureIngredientExists(strategy, i) ==
    (strategy = "DIRECT" /\ i # NoIngredient) => i \in DOMAIN ingredients

\* POST /products: the image is uploaded before the row is saved.
CreateProduct(c) ==
    \E q \in CreateProductRequest :
        /\ FindBySku(q.sku) = {}
        /\ EnsureIngredientExists(q.strategy, q.ingredientId)
        /\ q.image # NoImage => FreshImage(q.image)
        /\ ValidInventoryConfig(q.strategy, q.ingredientId)
        /\ images' = images \cup ({q.image} \ {NoImage})
        /\ Prepare(c, [WriteProduct(q.id, NewProduct(q)) EXCEPT !.touched = q.image # NoImage])

\* PUT /products/:id: a new image replaces the old one in the storage, a request to
\* remove it deletes it, both before the row is saved; otherwise it stays.
UpdateProduct(c) ==
    \E p \in DOMAIN products, q \in UpdateProductRequest :
        LET old == products[p].image
            new == q.image IN
        /\ EnsureIngredientExists(q.strategy, q.ingredientId)
        /\ new \notin {NoImage, old} => FreshImage(new)
        /\ ValidInventoryConfig(q.strategy, q.ingredientId)
        /\ images' = IF new = old THEN images
                     ELSE (images \ {old}) \cup ({new} \ {NoImage})
        /\ Prepare(c, [WriteProduct(p, EditedProduct(products[p], q))
                       EXCEPT !.touched = new # old])

\* DELETE /products/:id: the image first; an error of the storage is only logged.
DeleteProduct(c) ==
    \E p \in DOMAIN products, stored \in BOOLEAN :
        /\ images' = IF stored THEN images ELSE images \ {products[p].image}
        /\ Prepare(c, [Writing EXCEPT !.dropped = {p}, !.touched = TRUE,
                                      !.read = CurrentRows(products, {p})])

\* The synchronous subscriber of ProductRecipeSaved.
UpdateStrategyOnRecipeSaved(p) ==
    IF p \in DOMAIN products /\ products[p].strategy # "RECIPE"
    THEN WriteProduct(p, MarkAsRecipe(products[p])) ELSE Writing

\* PUT /products/:id/recipe, one transaction: nothing asks whether the product
\* exists; if it does, its subscriber makes it a product with a recipe.
SaveProductRecipe(c) ==
    /\ \E q \in SaveProductRecipeRequest :
          Prepare(c, [UpdateStrategyOnRecipeSaved(q.productId) EXCEPT
                          !.recipe = {q.productId}])
    /\ UNCHANGED images

-----------------------------------------------------------------------------
(* Option groups *)

\* POST /option-groups.
CreateOptionGroup(c) ==
    /\ \E q \in CreateOptionGroupRequest : Prepare(c, WriteGroup(q.id, NewOptionGroup))
    /\ UNCHANGED images

\* PUT /option-groups/:id: the row is written as it was loaded but for its items.
UpdateOptionGroup(c) ==
    /\ \E g \in DOMAIN groups : Prepare(c, WriteGroup(g, groups[g]))
    /\ UNCHANGED images

\* DELETE /option-groups/:id: only takes a group that no product has out of use.
DeactivateOptionGroup(c) ==
    /\ \E g \in DOMAIN groups :
          /\ ~IsAssignedToAnyProduct(g)
          /\ Prepare(c, WriteGroup(g, Deactivated(groups[g])))
    /\ UNCHANGED images

\* PUT /products/:id/option-groups, a transaction of its own.  This step is its
\* DELETE, which waits for another one that deletes the same rows.
AssignProductOptionGroups(c) ==
    /\ \E p \in DOMAIN products, q \in AssignProductOptionGroupsRequest :
          LET seen == {<<p, g>> : g \in GroupsOf(p)} IN
          /\ \A d \in Cooks : bench[d] # AtBench => bench[d].cleared \cap seen = {}
          /\ Prepare(c, [Writing EXCEPT !.cleared = seen, !.assignees = {p},
                                        !.pairs = {<<p, g>> : g \in q.optionGroupIds}])
    /\ UNCHANGED images

-----------------------------------------------------------------------------
\* What the request computed its rows from is still so.
IsCurrent(r) ==
    /\ r.read = CurrentRows(products, DOMAIN r.products \cup r.dropped)
    /\ r.readGroups = CurrentRows(groups, DOMAIN r.groups)
    /\ \A p \in r.assignees : r.cleared = {<<p, g>> : g \in GroupsOf(p)}

\* CreateInventoryLevelOnIngredientCreated adds a level unless there is one.
InitializeLevels(r) == WrittenOver(levels, CurrentRows(r.ingredients, r.created))

\* Faulty variant: what was assigned before is not cleared.
AssignedAfterAdding(r) == {pg \in assigned \cup r.pairs : pg[1] \notin r.dropped}

\* The rows of product_option_groups after the request; those of a deleted product go
\* with it.
AssignedAfter(r) == {pg \in (assigned \ r.cleared) \cup r.pairs : pg[1] \notin r.dropped}

\* save() selects the rows: what the request read before is forgotten.
SelectMenu(c) ==
    LET r == bench[c] IN
    /\ r.at = "select"
    /\ bench' = [bench EXCEPT ![c].at = "write",
          ![c].readIngredients = CurrentRows(ingredients, DOMAIN r.ingredients),
          ![c].read = CurrentRows(products, DOMAIN r.products),
          ![c].readGroups = CurrentRows(groups, DOMAIN r.groups)]
    /\ late' = (late \/ ~IsCurrent(r))
    /\ UNCHANGED <<menu, ingredients, levels, products, recipes, groups, assigned, images,
                   asked, mingled, resent>>

\* An UPDATE of a row that was deleted meanwhile changes nothing.
Reached(given, selected, table) ==
    {i \in DOMAIN given : i \in DOMAIN selected => i \in DOMAIN table}

\* The products as their INSERT or their UPDATE leaves them.
SavedProducts(r) ==
    [p \in Reached(r.products, r.read, products) |->
        IF p \in DOMAIN r.read THEN ColumnsWritten(r.products[p], r.read[p], products[p])
        ELSE r.products[p]]

\* Of an ingredient or an option group one column is kept.
SavedValues(given, selected, table) ==
    [i \in Reached(given, selected, table) |->
        IF i \in DOMAIN selected /\ given[i] = selected[i] THEN table[i] ELSE given[i]]

\* The database refuses an id twice.
InsertsAreNew(given, selected, table) == (DOMAIN given \ DOMAIN selected) \cap DOMAIN table = {}

\* The statement, or the transaction, is committed.  The database refuses a sku
\* that another row has, an ingredient that is not there, an assignment that is
\* there already, and one whose product or group is not there; the recipe of a
\* deleted product stays.
CommitMenu(c) ==
    LET r == bench[c]
        saved == SavedProducts(r)
        rows == WrittenOver(saved, products) IN
    /\ r.at = "write"
    /\ InsertsAreNew(r.ingredients, r.readIngredients, ingredients)
    /\ InsertsAreNew(r.products, r.read, products)
    /\ InsertsAreNew(r.groups, r.readGroups, groups)
    /\ \A p \in DOMAIN saved, q \in DOMAIN products :
          p # q => products[q].sku # saved[p].sku
    /\ r.pairs \cap (assigned \ r.cleared) = {}
    /\ \A p \in DOMAIN saved :
          saved[p].ingredientId \in DOMAIN ingredients \cup {NoIngredient}
    /\ r.pairs # {} => r.assignees \subseteq DOMAIN products
    /\ ingredients' = WrittenOver(SavedValues(r.ingredients, r.readIngredients, ingredients),
                                  ingredients)
    /\ levels' = InitializeLevels(r)
    /\ products' = [p \in DOMAIN rows \ r.dropped |-> rows[p]]
    /\ recipes' = recipes \cup r.recipe
    /\ groups' = WrittenOver(SavedValues(r.groups, r.readGroups, groups), groups)
    /\ assigned' = AssignedAfter(r)
    /\ asked' = [p \in ProductIds |->
          IF p \in r.assignees THEN {pg[2] : pg \in r.pairs}
          ELSE IF p \in r.dropped THEN {} ELSE asked[p]]
    /\ mingled' = {p \in (mingled \cup DOMAIN saved) \ r.dropped :
                      p \in DOMAIN saved => saved[p] # r.products[p]}
    /\ resent' = (resent \/ \E i \in r.created :
                               i \in DOMAIN levels /\ levels[i] # r.ingredients[i])
    /\ late' = (late \/ ~IsCurrent(r))
    /\ bench' = [bench EXCEPT ![c] = AtBench]
    /\ UNCHANGED <<menu, images>>

\* The statement is refused, or the request dies: what it did to the storage stays.
AbandonMenu(c) ==
    /\ bench[c] # AtBench
    /\ late' = (late \/ bench[c].touched)
    /\ bench' = [bench EXCEPT ![c] = AtBench]
    /\ UNCHANGED <<menu, ingredients, levels, products, recipes, groups, assigned, images,
                   asked, mingled, resent>>

-----------------------------------------------------------------------------
MenuInit ==
    /\ menu \in Menus
    /\ ingredients = Nothing /\ levels = Nothing
    /\ products = Nothing /\ recipes = {}
    /\ groups = Nothing /\ assigned = {}
    /\ images = {}
    /\ bench = [c \in Cooks |-> AtBench]
    /\ asked = [p \in ProductIds |-> {}]
    /\ mingled = {}
    /\ resent = FALSE /\ late = FALSE

IngredientCommand(c) ==
    \/ CreateIngredient(c)
    \/ UpdateIngredient(c)

ProductCommand(c) ==
    \/ CreateProduct(c)
    \/ UpdateProduct(c)
    \/ DeleteProduct(c)

OptionGroupCommand(c) ==
    \/ CreateOptionGroup(c)
    \/ UpdateOptionGroup(c)
    \/ DeactivateOptionGroup(c)

MenuNext ==
    \E c \in Cooks :
        \/ IngredientCommand(c)
        \/ ProductCommand(c)
        \/ OptionGroupCommand(c)
        \/ SaveProductRecipe(c)
        \/ AssignProductOptionGroups(c)
        \/ SelectMenu(c)
        \/ CommitMenu(c)
        \/ AbandonMenu(c)

MenuSpec == MenuInit /\ [][MenuNext]_menuVars

-----------------------------------------------------------------------------
(* Properties *)

\* Type correctness of the committed rows, the storage and the history.
MenuTypeOK ==
    /\ menu \in Menus
    /\ DOMAIN ingredients \subseteq IngredientIds
    /\ \A i \in DOMAIN ingredients : ingredients[i] \in IngredientRow
    /\ \A i \in DOMAIN levels : levels[i] \in UnitIds
    /\ DOMAIN products \subseteq ProductIds
    /\ \A p \in DOMAIN products : products[p] \in ProductRow
    /\ recipes \subseteq ProductIds
    /\ \A g \in DOMAIN groups : g \in GroupIds /\ groups[g] \in OptionGroupRow
    /\ assigned \subseteq ProductIds \X GroupIds
    /\ images \subseteq ImageKeys
    /\ asked \in [ProductIds -> SUBSET GroupIds]
    /\ mingled \subseteq DOMAIN products
    /\ {resent, late} \subseteq BOOLEAN

\* Every ingredient has a stock level and no level is without its ingredient; both
\* are in one unit, unless a creation was sent again with another unit: no edit
\* and no overlap of edits separates them.
LevelsFollowIngredients ==
    /\ DOMAIN levels = DOMAIN ingredients
    /\ ~resent => levels = ingredients

InventoryConfigIsValid ==
    \A p \in DOMAIN products :
        /\ p \notin mingled =>
              ValidInventoryConfig(products[p].strategy, products[p].ingredientId)
        /\ products[p].ingredientId \in DOMAIN ingredients \cup {NoIngredient}

ProductImagesAreStored ==
    ~late => \A p \in DOMAIN products :
        (\A c \in Cooks : bench[c] # AtBench =>
                p \notin DOMAIN bench[c].products \cup bench[c].dropped)
            => products[p].image \in images \cup {NoImage}

\* What orders deduct for a product is well defined: a direct product names an
\* ingredient that exists, a product with a recipe names none, unless the columns of
\* two requests were mixed in its row, as an edit and a recipe saved meanwhile can do,
\* and again after the next request that was not.  The image of a product that no
\* request is working on is in the storage, unless a request wrote an outdated copy or
\* failed after changing the storage.
ProductsCanBeServed ==
    /\ InventoryConfigIsValid
    /\ ProductImagesAreStored

\* A product has the option groups that were last assigned to it, and only products
\* and groups that exist are assigned.
AssignmentIsTheLastOneAsked ==
    /\ \A pg \in assigned : pg[1] \in DOMAIN products /\ pg[2] \in DOMAIN groups
    /\ ~late => \A p \in DOMAIN products : GroupsOf(p) = asked[p]
=============================================================================
