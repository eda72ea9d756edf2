SPECIFICATION LiveSpec
CONSTANTS
    a = a
    b = b
    Callers <- MCCallers
    NoCaller = NoCaller
    CtxErrors = {}
    Faults = {}
    MaxSockets = 1
    MaxExchanges = 1
    MaxReference = 1
PROPERTIES
    CloseUnblocks
    EveryCallReturns
