SPECIFICATION BackSpec
CONSTANTS
    Parts = {"purchases"}
    c1 = c1  c2 = c2
    i1 = i1  i2 = i2
    n1 = n1  n2 = n2
    p1 = p1  p2 = p2
    d1 = d1  d2 = d2
    r1 = r1  r2 = r2
    kg = kg  bag = bag  doc = doc
    NoCrew <- MCNoCrew
    NoTopic <- MCNoTopic
    NoMenu <- MCNoMenu
    NoCircle <- MCNoCircle
    Clerks = {c1, c2}
    Crews <- MCCrews
    Lines = {i1, i2}
    Units = {kg, bag}
    Requested = {1}
    Shipped = {1}
    MaxStock = 1
    RegisterClerks = {c1, c2}
    Ids = {i1, i2}
    Names = {r1, r2}
    Scope <- MCScope
    Zones = {p1}
    Places = {p1, p2}
    TableOrders = {i1}
    NoOrderHere = NoOrderHere
    Devices = {p1}
    Strangers = {p2}
    NoDevice = NoDevice
    Ingredients = {i1, i2}
    Models = {p1, p2}
    CrmClerks = {c1, c2}
    People = {p1, p2}
    Phones = {r1, r2}
    Documents = {doc, bag}
    NoDocument = NoDocument
    AddressIds = {i1, i2}
    Circles <- MCCircles
    NoAddress = NoAddress
    Totals = {1}
    MaxLifetime = 1
    IamClerks = {c1, c2}
    Topics <- MCTopics
    UserIds = {i1, i2}
    Usernames = {n1, n2}
    EmployeeIds = {p1, p2}
    TokenIds = {d1, d2}
    NoUser = NoUser
    NoToken = NoToken
    Cooks = {c1, c2}
    Menus <- MCMenus
    IngredientIds = {i1}
    UnitIds = {kg, bag}
    ProductIds = {p1, p2}
    Skus = {r1, r2}
    GroupIds = {d1, d2}
    ImageKeys = {d1, d2}
    NoIngredient = NoIngredient
    NoImage = NoImage
    Kitchens = {c1, c2}
    TransformationIds = {i1}
    Base = kg
    Prepared = bag
    Additionals = {p1}
    Stock <- MCStock
    Inputs = {1}
    Outs = {1, 2}
    Nobody = Nobody
    Managers = {c1, c2}
    SettingsIds = {i1, i2}
    TaxTypes = {kg, n1, n2}
    Exempt = kg
    Rates = {0, 1}
    Unset = Unset
    Billers = {c1, c2}
    Sales = {p1}
    InvoiceIds = {d1, d2}
    MaxDocuments = 3
    NoDocumentYet = NoDocumentYet
    Waiters = {c1, c2}
    OrderItemIds = {i1, i2}
    Prices = {5}
    Adjustments = {2}
    Quantities = {2}
    Discounts <- MCDiscounts
    TaxRate = 19
    TipRates = {10}
    NoDiscount = NoDiscount
    NotPaid = NotPaid
    Begun <- MCBegun
    MaxServed = 3
    BaseUnit = kg
    Conversions <- MCConversions
    Received <- MCReceived
    Wanted = {4, 24, 170}
    Minimum = 20
    MaxMovements = 5
SYMMETRY Symmetry
CHECK_DEADLOCK FALSE
INVARIANT ReceptionIsAtomic
