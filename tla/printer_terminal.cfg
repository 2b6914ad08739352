SPECIFICATION Spec
CONSTANTS
    Jobs = {usb}
    Network = {}
    Connections = {c1}
    Handlers = {h1, h2}
    AgentReasons = {"jammed"}
    MaxReprints = 1
    NoRow = NoRow
    NoConnection = NoConnection
PROPERTIES
    PrintedIsTerminal
CHECK_DEADLOCK FALSE
