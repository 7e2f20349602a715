SPECIFICATION Spec
CONSTANTS
    Clients = {c1}
    NumSlots = 2
    MaxTime = 4
    MaxGap = 1
    CacheSize = 3
    IdleTimeout = 1
    Overlap = 3
    RequestForms = {"plain", "numbered"}
    SilentDrops = FALSE
INVARIANTS
    RecordIsCurrent
PROPERTIES
    NoGap
    ContinuesWhereStopped
CHECK_DEADLOCK FALSE
