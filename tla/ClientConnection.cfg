SPECIFICATION FairSpec
CONSTANTS
    RequestLen = 2
    SendCapacity = 3
    RcvCapacity = 2
    FailTime = 2
    InboxLimit = 2
INVARIANTS
    TypeOK
    SocketFitsState
    WholeRequests
    OnlyThisConnection
PROPERTIES
    UnmadeNotWritten
    LostIsClosed
    FullIsRead
CHECK_DEADLOCK FALSE
