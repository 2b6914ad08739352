SPECIFICATION Spec
CONSTANTS
    Ingredients = {101, 102, 103}
    Batches = {11, 12, 13, 21, 22, 31}
    BatchOf <- MCBatchOf
    Requests = {"e", "f"}
    Kind <- MCKind
    Lines <- MCLines
    Need <- MCNeed
    NewBatch <- MCNewBatch
    InitialLevel <- MCLevel
    InitialRemaining <- MCRemaining
    InitialReserved <- MCReserved
    None = None
INVARIANTS
    LevelFollowsMovements
CHECK_DEADLOCK FALSE
