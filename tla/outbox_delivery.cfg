SPECIFICATION Spec
CONSTANTS
    Events <- MCEvents
    Synchronous <- MCSynchronous
    Cascade <- MCCascade
    Deferred <- MCDeferred
    Requests = {"receive", "alone"}
    Calls <- MCCalls
    InContext = {"receive"}
    Broken <- MCBroken
    Ticks = {t1, t2}
    NoRow = NoRow
    BatchSize = 2
    MaxDepth = 2
    MaxRows = 4
    MaxThrows = 1
    MaxCrashes = 1
INVARIANTS
    TypeOK
    OutboxIsComplete
    MarkedRowsWereDelivered
    RepeatedOnlyAfterFailure
PROPERTIES
    PendingRowsAreDelivered
CHECK_DEADLOCK FALSE
