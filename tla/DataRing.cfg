SPECIFICATION Spec
CONSTANTS
    DataSize = 4
    MaxTime = 6
    Times <- MCTimes
    Images = {x, y}
    NoPacket = NoPacket
SYMMETRY ImageSymmetry
INVARIANTS
    TypeOK
    NoSharedBuffer
    CountAgrees
    SortedByTime
    BisectFindsPlace
PROPERTY
    ImplementsCache
