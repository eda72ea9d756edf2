SPECIFICATION Spec
CONSTANTS
    a = a
    b = b
    Callers <- MCOneCaller
    NoCaller = NoCaller
    CtxErrors = {"canceled", "expired"}
    Faults = {"refused", "options", "reset", "malformed", "rejects"}
    MaxSockets = 3
    MaxExchanges = 3
    MaxReference = 3
INVARIANTS
    SessionIOInv
