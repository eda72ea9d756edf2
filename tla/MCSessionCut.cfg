SPECIFICATION Spec
CONSTANTS
    a = a
    b = b
    Callers <- MCOneCaller
    NoCaller = NoCaller
    CtxErrors = {}
    Faults = {}
    MaxSockets = 1
    MaxExchanges = 1
    MaxReference = 1
INVARIANTS
    CutReportsClosed
