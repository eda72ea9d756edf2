SPECIFICATION Spec
CONSTANTS
    Batches <- MCBatches
    Areas <- MCAreas
    PDU = 240
    MaxItemsPerPDU = 3
    MaxItemBytes = 65535
    MaxFragmentsPerCall = 4
    MaxCalls = 1
INVARIANTS
    MalformedIsProtocolError
CHECK_DEADLOCK FALSE
