SPECIFICATION Spec
CONSTANTS
    a = a
    b = b
    Callers <- MCCallers
    NoCaller = NoCaller
    CtxErrors = {"canceled"}
    Faults = {"refused", "options", "reset", "malformed", "rejects"}
    MaxSockets = 2
    MaxExchanges = 1
    MaxReference = 1
SYMMETRY MCSymmetry
INVARIANTS
    TypeOK
    SessionInv
    ReadyIsUsable
    NoSocketLeak
    DropsOwnSocket
    AlignedWhenIdle
    NoStrayInterrupt
    ClosedForGood
    CutIOReportsClosed
    FailureIsOfSession
PROPERTIES
    ImplementsLifecycle
