SPECIFICATION Spec
CONSTANTS
    o1 = o1
    o2 = o2
    i1 = i1
    i2 = i2
    i3 = i3
    g1 = g1
    Orders = {o1, o2}
    Items = {i1, i2, i3}
    OrderOf <- MCOrderOf
    Tables = {}
    NoTable = NoTable
    NoOrder = NoOrder
    Ingredients = {g1}
    EnabledOrderTypes = {"TAKEOUT"}
    ManualStatuses = {}
    Plans <- MCPlansRecipe
    MaxQuantity = 1
    MaxLevel = 2
    MaxDraw = 2
    MaxClosings = 2
    MaxPlanChanges = 0
    RepeatedOpens = FALSE
    RepeatedAdds = {}
INVARIANTS
    NoItemDeductedTwice
CHECK_DEADLOCK FALSE
