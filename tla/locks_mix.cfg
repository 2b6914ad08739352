SPECIFICATION Spec
CONSTANTS
    Ingredients = {101, 102, 103}
    Batches = {11, 12, 13, 21, 22, 31}
    BatchOf <- MCBatchOf
    Requests = {"a", "b", "c", "d", "x"}
    Kind <- MCKind
    Lines <- MCLines
    Need <- MCNeed
    NewBatch <- MCNewBatch
    InitialLevel <- MCLevel
    InitialRemaining <- MCRemaining
    InitialReserved <- MCReserved
    None = None
INVARIANTS
    TypeOK
    SendsDeadlockFree
PROPERTIES
    SendsReserveAtomically
    EveryRequestEnds
CHECK_DEADLOCK FALSE
