---------------------------- MODULE MCBackOffice ----------------------------
(***************************************************************************)
(* Small instances of the back office: two clerks, and for each component  *)
(* few rows and the cases that its requests tell apart.                    *)
(***************************************************************************)
EXTENDS BackOfficeParts

CONSTANTS c1, c2, i1, i2, n1, n2, p1, p2, d1, d2, r1, r2, kg, bag, doc

MCNoCrew == [clerks |-> {}, lines |-> {}, units |-> {}]
MCNoTopic == [clerks |-> {}, users |-> {}, employees |-> {}, tokens |-> {}]
MCNoCircle == [clerks |-> {}, profiles |-> {}, phones |-> {}, addresses |-> {}, totals |-> {}]
MCNoMenu == [ingredients |-> {}, products |-> {}, strategies |-> {"NONE"}, units |-> {kg},
             skus |-> {r1}, groups |-> {}, images |-> {}]

\* One clerk with two lines; one clerk with two units; two clerks with one line.
MCCrews == {MCNoCrew,
            [clerks |-> {c1}, lines |-> {i1, i2}, units |-> {kg}],
            [clerks |-> {c1}, lines |-> {i1}, units |-> {kg, bag}],
            [clerks |-> {c1, c2}, lines |-> {i1}, units |-> {kg}]}

\* Two clerks with two users, or with a user and an employee; one clerk with two
\* users and two employees; two clerks with a user's sessions.
MCTopics == {MCNoTopic,
             [MCNoTopic EXCEPT !.clerks = {c1, c2}, !.users = {i1, i2}],
             [MCNoTopic EXCEPT !.clerks = {c1, c2}, !.users = {i1}, !.employees = {p1}],
             [MCNoTopic EXCEPT !.clerks = {c1}, !.users = {i1, i2}, !.employees = {p1, p2}],
             [MCNoTopic EXCEPT !.clerks = {c1, c2}, !.users = {i1}, !.tokens = {d1, d2}]}

\* An ingredient; a product of it; a product's images; two products; a product's
\* option groups.
MCMenus == {MCNoMenu,
            [MCNoMenu EXCEPT !.ingredients = {i1}, !.units = {kg, bag}],
            [MCNoMenu EXCEPT !.products = {p1}, !.ingredients = {i1}, !.strategies = Strategies],
            [MCNoMenu EXCEPT !.products = {p1}, !.images = {d1, d2}],
            [MCNoMenu EXCEPT !.products = {p1, p2}, !.skus = {r1, r2}],
            [MCNoMenu EXCEPT !.products = {p1}, !.groups = {d1, d2}]}

\* Two clerks with a customer's addresses, with an address of two customers, or with
\* three profiles of two customers; one clerk with two customers and two addresses.
MCCircles ==
    LET profile(p, n, d) == [id |-> p, phone |-> n, document |-> d]
        first == profile(p1, r1, doc)
        second == profile(p2, r2, bag) IN
    {MCNoCircle,
     [clerks |-> {c1, c2}, profiles |-> {first}, phones |-> {}, addresses |-> {i1, i2},
      totals |-> {1}],
     [clerks |-> {c1, c2}, profiles |-> {first, second}, phones |-> {}, addresses |-> {i1},
      totals |-> {}],
     [clerks |-> {c1, c2}, profiles |-> {first, second, profile(p2, r1, doc)},
      phones |-> {r1, r2}, addresses |-> {}, totals |-> {1}],
     [clerks |-> {c1}, profiles |-> {first, second}, phones |-> {r1, r2},
      addresses |-> {i1, i2}, totals |-> {1}]}

\* Per register: two rows of one name, or also of two; one row under two names.
MCScope ==
    LET oneName == {i1, i2} \X {r1}
        oneRow == {i1} \X {r1, r2} IN
    [r \in AllRegs |->
        CASE r \in {"zones", "ingredient_categories", "positions", "roles"} ->
                oneName \cup {<<i1, r2>>, <<i2, r2>>}
          [] r = "floor_elements" -> oneRow
          [] OTHER -> oneName]

MCStock == [g \in Goods |-> IF g = Prepared THEN 0 ELSE IF g = Base THEN 2 ELSE 1]

MCHalf == [method |-> "PERCENTAGE", value |-> 50]
MCSix == [method |-> "FIXED", value |-> 6]
MCDiscounts == {MCHalf, MCSix}

\* An order without items and with a fee; one of a sent item of 5 cents, at half its
\* price, and a pending one.
MCBegun ==
    LET sent == [unitPrice |-> 5, modifiers |-> 0, quantity |-> 1, discount |-> MCHalf,
                 status |-> "SENT"] IN
    {[fee |-> 3, items |-> << >>],
     [fee |-> 0, items |-> (i1 :> sent) @@ (i2 :> [sent EXCEPT !.modifiers = 2,
                                  !.status = "PENDING", !.discount = NoDiscount])]}

\* A kilogram is a thousand of another unit, a third is three kilograms: a delivery is
\* finer than a batch is kept, the cost of a kilogram is no whole number of cents, and
\* for one unit there is no rule.
MCConversions == {[from |-> kg, to |-> bag, num |-> 1000, den |-> 1],
                  [from |-> p1, to |-> kg, num |-> 3, den |-> 1]}
MCReceived == {[quantity |-> 20, unit |-> kg, cost |-> 3],
               [quantity |-> 154500, unit |-> bag, cost |-> 2],
               [quantity |-> 4, unit |-> kg, cost |-> 1],
               [quantity |-> 7, unit |-> p1, cost |-> 5],
               [quantity |-> 1, unit |-> doc, cost |-> 1]}

\* Clerks, names and the ids d1 and d2 are interchangeable.
Symmetry == {c @@ n @@ d : c \in Permutations({c1, c2}), n \in Permutations({n1, n2}),
                           d \in Permutations({d1, d2})}
=============================================================================
