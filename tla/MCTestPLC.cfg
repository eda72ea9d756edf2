SPECIFICATION Spec
CONSTANTS
    Conns = {c1, c2}
    MaxRequests = 3
    MaxScripts = 1
INVARIANTS
    CloseIsClean
PROPERTIES
    CloseReturnsInTheEnd
    NoClientIsLeftWaiting
CHECK_DEADLOCK FALSE
