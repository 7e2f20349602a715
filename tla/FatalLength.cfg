SPECIFICATION Spec
CONSTANTS
    Streams <- MCStreams
    Capacity = 9
    ChanTokenLen = 2
    ChanInfoLen = 4
    AdcTokenLen = 1
    PreHdrLen = 2
    PacketLen = 5
    FatalLen = 7
    ByteValues = 5
CHECK_DEADLOCK FALSE
INVARIANTS
    FailsWithoutToken
