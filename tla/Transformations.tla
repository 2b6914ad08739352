--------------------------- MODULE Transformations ---------------------------
(***************************************************************************)
(* Kitchen transformations, src/contexts/kitchen/transformation: a base    *)
(* ingredient, and the additional ones of a preparation recipe, become a   *)
(* prepared ingredient.                                                    *)
(*                                                                         *)
(* RegisterTransformation computes everything first and then writes        *)
(* through a unit of work that is one object for the whole process.        *)
(* commit() opens a transaction and leaves it in the field _manager, where *)
(* every later statement looks for it: of whichever request the statement  *)
(* is.  A transaction is a connection, which takes one statement at a time *)
(* and in order, and a statement that writes a row waits while another     *)
(* transaction that wrote the row is open.  Every transformation writes    *)
(* the base first, so no two transactions wait for each other's rows.      *)
(*                                                                         *)
(* All quantities are in one unit, and an additional ingredient is needed  *)
(* in the quantity of the base.  Batches of an ingredient are their sum.   *)
(* Bound: once two commits have overlapped, requests under way go on to    *)
(* their end, whatever that is, and no other request is made.              *)
(***************************************************************************)
EXTENDS Integers, Sequences, FiniteSets, Functions, SequencesExt, Tables

CONSTANTS Kitchens,      \* the clients, each with one request at a time
          TransformationIds,
          Base, Prepared,
          Additionals,   \* ingredients a recipe may need besides the base
          Stock,         \* what there is of each ingredient at first
          Inputs, Outs,  \* quantities a cook may report
          Nobody         \* the null of _manager

Goods == {Base, Prepared} \cup Additionals

ASSUME TransformationsAssumption ==
    /\ Base # Prepared /\ {Base, Prepared} \cap Additionals = {}
    /\ IsFiniteSet(Additionals)
    /\ Stock \in [Goods -> Nat]
    /\ Inputs \subseteq Nat \ {0} /\ Outs \subseteq Nat \ {0}
    /\ Nobody \notin Kitchens

VARIABLES needs,      \* the additional ingredients of the recipe, as committed
          batches,    \* what is left in the batches of each ingredient, as committed
          stored,     \* its inventory level, as committed
          registered, \* ids of the committed transformation records
          announced,  \* ids whose events are in the outbox
          kitchen,    \* the request of each client
          manager,    \* the field _manager: whose transaction it is
          tx,         \* the open transaction of each client: what it wrote
          pending,    \* the client whose statement each transaction's connection runs
          effect,     \* history: what transformations that succeeded made of each ingredient
          mixed       \* history: a commit() began before another one had ended

transformationVars == <<needs, batches, stored, registered, announced, kitchen, manager,
                        tx, pending, effect, mixed>>

RegisterTransformationRequest ==
    [id : TransformationIds, input : Inputs, output : Outs]

NoTransformation == [at |-> "idle"]
NoTx == [open |-> FALSE]
NewTx == [open |-> TRUE, batches |-> << >>, stored |-> << >>, made |-> 0, records |-> {}]

\* What a statement of transaction t sees: its own writes over committed rows.
SeenIn(t, rowsOf, g) ==
    IF g \in DOMAIN tx[t][rowsOf] THEN tx[t][rowsOf][g]
    ELSE IF rowsOf = "batches" THEN batches[g] ELSE stored[g]

\* Another open transaction wrote the row.
RowLocked(t, rowsOf, g) ==
    \E u \in Kitchens \ {t} : tx[u].open /\ g \in DOMAIN tx[u][rowsOf]

-----------------------------------------------------------------------------
(* Preparation recipes: a request gives the additional ingredients, which are
   saved by three statements, each committed by itself. *)

SavePreparationRecipe(items) == <<[do |-> "row"], [do |-> "delete"], [do |-> "insert", items |-> items]>>

CreatePreparationRecipeRequest == SUBSET Additionals
UpdatePreparationRecipeRequest == SUBSET Additionals

SubmitPreparationRecipe(k, items) ==
    /\ kitchen[k] = NoTransformation
    /\ ~mixed      \* bound
    /\ kitchen' = [kitchen EXCEPT ![k] = [at |-> "recipe",
                                          todo |-> SavePreparationRecipe(items)]]
    /\ UNCHANGED <<needs, batches, stored, registered, announced, manager, tx,
                   pending, effect, mixed>>

\* POST /preparation-recipes, sent again: the id comes with it and is not looked up.
CreatePreparationRecipe(k) ==
    \E items \in CreatePreparationRecipeRequest : SubmitPreparationRecipe(k, items)

\* PATCH /preparation-recipes/:id.
UpdatePreparationRecipe(k) ==
    \E items \in UpdatePreparationRecipeRequest : SubmitPreparationRecipe(k, items)

RecipeStatement(k) ==
    /\ kitchen[k].at = "recipe"
    /\ LET s == Head(kitchen[k].todo) IN
       needs' = CASE s.do = "row"    -> needs
                  [] s.do = "delete" -> {}
                  [] s.do = "insert" -> needs \cup s.items
    /\ kitchen' = [kitchen EXCEPT ![k] = IF Len(@.todo) = 1 THEN NoTransformation
                                         ELSE [@ EXCEPT !.todo = Tail(kitchen[k].todo)]]
    /\ UNCHANGED <<batches, stored, registered, announced, manager, tx, pending, effect, mixed>>

-----------------------------------------------------------------------------
(* Registering a transformation *)

\* deductIngredient: the batches, then the level, each read and then written.
DeductIngredient(g) ==
    <<[do |-> "take", of |-> "batches", good |-> g],
      [do |-> "take", of |-> "stored", good |-> g]>>

\* addProducedStock: a new batch, then the level.
AddProducedStock ==
    <<[do |-> "produce", of |-> "batches", good |-> Prepared],
      [do |-> "put", of |-> "stored", good |-> Prepared]>>

\* What the function passed to commit() does, one statement after the other.
Work(extras) ==
    DeductIngredient(Base)
        \o FlattenSeq([i \in DOMAIN extras |-> DeductIngredient(extras[i])])
        \o AddProducedStock
        \o <<[do |-> "record", of |-> "batches", good |-> Prepared]>>

\* scaleIngredients: the additional ingredients in the order the recipe lists them.
ScaleIngredients == {s \in [1..Cardinality(needs) -> needs] : Range(s) = needs}

\* POST /ingredient-transformations, up to the transaction: the recipe is read and
\* the costs are computed, which needs enough of every ingredient in the batches.
RegisterTransformation(k) ==
    /\ kitchen[k] = NoTransformation
    /\ ~mixed      \* bound
    /\ \E q \in RegisterTransformationRequest, extras \in ScaleIngredients :
          /\ \A g \in {Base} \cup needs : batches[g] >= q.input
          /\ kitchen' = [kitchen EXCEPT ![k] =
                [at |-> "ready", q |-> q, extras |-> Range(extras), seen |-> 0,
                 todo |-> Work(extras)]]
    /\ UNCHANGED <<needs, batches, stored, registered, announced, manager, tx, pending,
                   effect, mixed>>

\* commit(): a transaction is opened and becomes the manager.
CommitWork(k) ==
    /\ kitchen[k].at = "ready"
    /\ kitchen' = [kitchen EXCEPT ![k].at = "work"]
    /\ manager' = k
    /\ tx' = [tx EXCEPT ![k] = NewTx]
    /\ mixed' = (mixed \/ \E j \in Kitchens : tx[j].open)
    /\ UNCHANGED <<needs, batches, stored, registered, announced, pending, effect>>

\* requireManager() throws, or more is taken than the batches or the level hold,
\* or less than nothing was wasted.
WorkThrows(k) ==
    LET s == Head(kitchen[k].todo) IN
    \/ manager = Nobody
    \/ manager # Nobody /\ s.do = "take"
       /\ SeenIn(manager, s.of, s.good) < kitchen[k].q.input
    \/ s.do = "record" /\ kitchen[k].q.output > kitchen[k].q.input

\* The next row is read in the transaction of the manager, and the statement that
\* writes it goes to that transaction's connection.
IssueWork(k) ==
    /\ kitchen[k].at = "work" /\ kitchen[k].todo # << >>
    /\ ~WorkThrows(k)
    /\ pending[manager] = Nobody
    /\ LET s == Head(kitchen[k].todo) IN
       kitchen' = [kitchen EXCEPT ![k].at = "waits", ![k].seen = SeenIn(manager, s.of, s.good)]
    /\ pending' = [pending EXCEPT ![manager] = k]
    /\ UNCHANGED <<needs, batches, stored, registered, announced, manager, tx, effect, mixed>>

\* Faulty variant: the batches are written outside the transaction.
RunStatementOutside(t) ==
    /\ pending[t] # Nobody
    /\ LET k == pending[t]
           s == Head(kitchen[k].todo) IN
       /\ kitchen' = [kitchen EXCEPT ![k].at = "work", ![k].todo = Tail(@), ![k].seen = 0]
       /\ batches' = IF s.do = "take" /\ s.of = "batches"
                     THEN [batches EXCEPT ![s.good] = kitchen[k].seen - kitchen[k].q.input]
                     ELSE batches
    /\ pending' = [pending EXCEPT ![t] = Nobody]
    /\ UNCHANGED <<needs, stored, registered, announced, manager, tx, effect, mixed>>

\* What transaction x has written once statement s wrote its row.
WritingRow(x, s, quantity) == [x EXCEPT ![s.of] = WrittenOver(OneRow(s.good, quantity), @)]

\* The statement on the connection of t is run, once no other transaction holds
\* the row.  Until then every client whose statements go to t waits behind it.
RunStatement(t) ==
    /\ pending[t] # Nobody
    /\ LET k == pending[t]
           s == Head(kitchen[k].todo)
           q == kitchen[k].q IN
       /\ s.do \in {"take", "put"} => ~RowLocked(t, s.of, s.good)
       /\ kitchen' = [kitchen EXCEPT ![k].at = "work", ![k].todo = Tail(@), ![k].seen = 0]
       /\ tx' = [tx EXCEPT ![t] =
             CASE s.do = "take"    -> WritingRow(tx[t], s, kitchen[k].seen - q.input)
               [] s.do = "put"     -> WritingRow(tx[t], s, kitchen[k].seen + q.output)
               [] s.do = "produce" -> [tx[t] EXCEPT !.made = @ + q.output]
               [] s.do = "record"  -> [tx[t] EXCEPT !.records = @ \cup {q.id}]]
    /\ pending' = [pending EXCEPT ![t] = Nobody]
    /\ UNCHANGED <<needs, batches, stored, registered, announced, manager, effect, mixed>>

\* The work ends or throws: the field is cleared, whoever's transaction it held.
LeaveWork(k) ==
    /\ kitchen[k].at = "work"
    /\ IF kitchen[k].todo = << >> THEN kitchen' = [kitchen EXCEPT ![k].at = "commit"]
       ELSE /\ WorkThrows(k)
            /\ kitchen' = [kitchen EXCEPT ![k].at = "rollback"]
    /\ manager' = Nobody
    /\ UNCHANGED <<needs, batches, stored, registered, announced, tx, pending, effect, mixed>>

\* What the transaction of k wrote becomes the committed rows.
WrittenBy(k) ==
    /\ batches' = [g \in Goods |->
          (IF g = Prepared THEN tx[k].made ELSE 0)
             + IF g \in DOMAIN tx[k].batches THEN tx[k].batches[g] ELSE batches[g]]
    /\ stored' = [g \in Goods |->
          IF g \in DOMAIN tx[k].stored THEN tx[k].stored[g] ELSE stored[g]]
    /\ registered' = registered \cup tx[k].records

\* What a transformation makes of the ingredients.
Transformed(k) ==
    [g \in Goods |-> CASE g = Prepared -> kitchen[k].q.output
                       [] g \in {Base} \cup kitchen[k].extras -> -kitchen[k].q.input
                       [] OTHER -> 0]

\* COMMIT, on the connection of the request's own transaction.
CommitTx(k) ==
    /\ kitchen[k].at = "commit" /\ pending[k] = Nobody
    /\ WrittenBy(k)
    /\ effect' = [g \in Goods |-> effect[g] + Transformed(k)[g]]
    /\ tx' = [tx EXCEPT ![k] = NoTx]
    /\ kitchen' = [kitchen EXCEPT ![k].at = "committed"]
    /\ UNCHANGED <<needs, announced, manager, pending, mixed>>

RollBackTx(k) ==
    /\ kitchen[k].at = "rollback" /\ pending[k] = Nobody
    /\ UNCHANGED <<batches, stored, registered>>
    /\ tx' = [tx EXCEPT ![k] = NoTx]
    /\ kitchen' = [kitchen EXCEPT ![k] = NoTransformation]
    /\ UNCHANGED <<needs, announced, manager, pending, effect, mixed>>

\* publish(): IngredientTransformed, and AbnormalWasteDetected when the yield is
\* below the recipe's, are stored outside the transaction; or that fails.
PublishTransformed(k) ==
    /\ kitchen[k].at = "committed"
    /\ announced' \in {announced \cup {kitchen[k].q.id}, announced}
    /\ kitchen' = [kitchen EXCEPT ![k] = NoTransformation]
    /\ UNCHANGED <<needs, batches, stored, registered, manager, tx, pending, effect, mixed>>

\* The process ends: its connections are closed and their transactions rolled back.
KitchenStops ==
    /\ \E k \in Kitchens : kitchen[k] # NoTransformation
    /\ kitchen' = [k \in Kitchens |-> NoTransformation]
    /\ tx' = [k \in Kitchens |-> NoTx]
    /\ pending' = [k \in Kitchens |-> Nobody]
    /\ manager' = Nobody
    /\ UNCHANGED <<needs, batches, stored, registered, announced, effect, mixed>>

-----------------------------------------------------------------------------
TransformationsInit ==
    /\ needs = Additionals
    /\ batches = Stock /\ stored = Stock
    /\ registered = {} /\ announced = {}
    /\ kitchen = [k \in Kitchens |-> NoTransformation]
    /\ manager = Nobody
    /\ tx = [k \in Kitchens |-> NoTx]
    /\ pending = [k \in Kitchens |-> Nobody]
    /\ effect = [g \in Goods |-> 0]
    /\ mixed = FALSE

TransformationsNext ==
    \/ \E k \in Kitchens :
          \/ CreatePreparationRecipe(k)
          \/ UpdatePreparationRecipe(k)
          \/ RecipeStatement(k)
          \/ RegisterTransformation(k)
          \/ CommitWork(k)
          \/ IssueWork(k)
          \/ RunStatement(k)
          \/ LeaveWork(k)
          \/ CommitTx(k)
          \/ RollBackTx(k)
          \/ PublishTransformed(k)
    \/ KitchenStops

TransformationsSpec == TransformationsInit /\ [][TransformationsNext]_transformationVars

-----------------------------------------------------------------------------
(* Properties *)

\* Type correctness of the committed rows and of the shared field.
TransformationsTypeOK ==
    /\ needs \subseteq Additionals
    /\ batches \in [Goods -> Nat]
    /\ stored \in [Goods -> Nat]
    /\ registered \subseteq TransformationIds
    /\ announced \subseteq TransformationIds
    /\ manager \in Kitchens \cup {Nobody}
    /\ pending \in [Kitchens -> Kitchens \cup {Nobody}]
    /\ \A k \in Kitchens : tx[k].open <=> kitchen[k].at \in {"work", "waits", "commit", "rollback"}
    /\ effect \in [Goods -> Int]
    /\ mixed \in BOOLEAN

\* All writes of a transformation take place or none: the batches and the level of
\* every ingredient are what the transformations that succeeded made of them.
TransformationsAreAtomic ==
    \A g \in Goods : batches[g] = Stock[g] + effect[g] /\ stored[g] = batches[g]

\* Unless two commits overlapped, transformations are atomic and events are
\* published of registered ones only: through an additional ingredient that is
\* missing after the base was taken, a report of more output than input, recipes
\* edited meanwhile, ids that are sent again and processes that end.
TransformationsAreWhole ==
    ~mixed => /\ TransformationsAreAtomic
              /\ announced \subseteq registered
=============================================================================
