SPECIFICATION Spec
CONSTANTS
    Conns = {c1}
    MaxRequests = 1
    MaxScripts = 0
PROPERTIES
    CloseStopsSessions
CHECK_DEADLOCK FALSE
