SPECIFICATION Spec
CONSTANTS
    Codes = {c1, c2}
    Credentials = {k1, k2, k3}
    Handlers = {h1, h2}
    Sockets = {s1}
    None = None
    NoRow = NoRow
    PairingCodeTTL = 1
    PendingSecretTTL = 1
    ActiveTTL = 2
    RotationLead = 1
    GracePeriod = 1
    MaxInvalidAttempts = 1
    MaxTime = 2
    MaxFaults = 1
SYMMETRY Symmetry
INVARIANTS
    TypeOK
    KeyIsHandedOutOnce
    AgentKeepsAWorkingKey
CHECK_DEADLOCK FALSE
