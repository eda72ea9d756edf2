SPECIFICATION Spec
CONSTANTS
    TextBatches <- MCTextBatches
    Counts = {0, 1, 3}
    Memories <- MCMemories
    Reference = 515
    RejectCodes = {10}
    Damage = {0, 4, 255}
    MaxItemBytes = 12
    MaxFrameBytes = 512
    PDU = 72
    TPDU = 128
INVARIANTS
    ExchangeIsFaithful
    AcceptedMeansUnderstood
    SizesAreAsPlanned
    AddressTextIsSound
CHECK_DEADLOCK FALSE
