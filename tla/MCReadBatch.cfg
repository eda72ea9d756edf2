SPECIFICATION Spec
CONSTANTS
    Requests <- MCRequests
    AreaRequests <- MCAreaRequests
    PDU = 240
    MaxItemsPerPDU = 3
    MaxItemsPerCall = 4
    MaxItemBytes = 1600
    MaxBatchBytes = 1700
    MaxFragmentsPerCall = 6
INVARIANTS
    DataIsPrefix
    ResultIsWhole
    NoLateSurprise
    ReadBatchFits
    AskedOnce
    AreaIsWhole
CHECK_DEADLOCK FALSE
