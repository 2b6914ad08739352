SPECIFICATION Spec
CONSTANTS
    o1 = o1
    o2 = o2
    i1 = i1
    i2 = i2
    i3 = i3
    g1 = g1
    Orders = {o1, o2}
    Items = {i1, i2}
    OrderOf <- MCOrderOfSame
    Tables = {t1}
    NoTable = NoTable
    NoOrder = NoOrder
    Ingredients = {g1}
    EnabledOrderTypes = {"DINE_IN", "TAKEOUT"}
    ManualStatuses = {"AVAILABLE"}
    Plans <- MCPlansRecipe
    MaxQuantity = 1
    MaxLevel = 1
    MaxDraw = 0
    MaxClosings = 1
    MaxPlanChanges = 0
    RepeatedOpens = TRUE
    RepeatedAdds = {i1}
INVARIANTS
    OccupiedTableHasLiveOrder
    ActiveReservationHasLiveItem
    KitchenItemKeepsItsStock
    ClosedOrderDeductedOnce
PROPERTIES
    ReservationIsFinal
CHECK_DEADLOCK FALSE
