SPECIFICATION FairSpec
CONSTANTS
    Clients = {c1, c2}
    NumSlots = 1
    MaxTime = 1
    MaxGap = 0
    CacheSize = 1
    IdleTimeout = 1
    Overlap = 1
    RequestForms = {"plain", "numbered"}
    SilentDrops = TRUE
INVARIANTS
    TypeOK
    ToldBeforeData
PROPERTIES
    LostIsReleased
    IdleIsReleased
CHECK_DEADLOCK FALSE
