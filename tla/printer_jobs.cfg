SPECIFICATION Spec
CONSTANTS
    Jobs = {usb, net}
    Network = {net}
    Connections = {c1, c2}
    Handlers = {h1, h2, h3}
    AgentReasons = {"jammed", "garbled"}
    MaxReprints = 1
    NoRow = NoRow
    NoConnection = NoConnection
SYMMETRY Symmetry
INVARIANTS
    TypeOK
    NoTicketIsForgotten
    PrintedMeansPaper
    RegisteredAgentIsFound
CHECK_DEADLOCK FALSE
