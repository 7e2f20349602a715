SPECIFICATION FairSpec
CONSTANTS
    Byte = {1, 2}
    Haystacks <- MCHaystacks
    Needles <- MCNeedles
    LongSize = 4
    ShortSize = 2
    HayLen = 8
    NeedleLen = 6
INVARIANTS
    TypeOK
    ResultIsFirst
PROPERTIES
    Terminates
CHECK_DEADLOCK FALSE
