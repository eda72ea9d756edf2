SPECIFICATION Spec
CONSTANTS
    Batches <- MCBatches
    Areas <- MCAreas
    PDU = 240
    MaxItemsPerPDU = 3
    MaxItemBytes = 65535
    MaxFragmentsPerCall = 4
    MaxCalls = 3
INVARIANTS
    OutcomeIsTrue
    NotAttemptedWasNotIssued
    AtMostOnce
    NoSilentFailure
    LimitBeforeIO
    BatchFits
    ConfirmedPrefix
CHECK_DEADLOCK FALSE
