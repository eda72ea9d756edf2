SPECIFICATION Spec
CONSTANTS
    Buffers <- MCBuffers
    Values <- MCValues
    Unsigned <- MCUnsigned
    Strings <- MCStrings
    BitOffsets = {0, 7, 8, 15, 16, 40, 63, 64}
    Millisecond = 100
    Durations <- MCDurations
    Counts <- MCCounts
    Depth = 2
INVARIANTS
    BufferHoldsValue
    TimersAreExact
CHECK_DEADLOCK FALSE
