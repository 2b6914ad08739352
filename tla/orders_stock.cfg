SPECIFICATION Spec
CONSTANTS
    o1 = o1
    o2 = o2
    i1 = i1
    i2 = i2
    i3 = i3
    g1 = g1
    Orders = {o1, o2}
    Items = {i1, i3}
    OrderOf <- MCOrderOfSingle
    Tables = {}
    NoTable = NoTable
    NoOrder = NoOrder
    Ingredients = {g1}
    EnabledOrderTypes = {"TAKEOUT"}
    ManualStatuses = {}
    Plans <- MCPlansTwo
    MaxQuantity = 2
    MaxLevel = 2
    MaxDraw = 2
    MaxClosings = 1
    MaxPlanChanges = 1
    RepeatedOpens = FALSE
    RepeatedAdds = {i1, i3}
INVARIANTS
    TypeOK
    FullyReservedOrderCanClose
PROPERTIES
    OverbookedOnlyByUnreservedUse
CHECK_DEADLOCK FALSE
