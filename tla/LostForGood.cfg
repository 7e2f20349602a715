SPECIFICATION FairSpec
CONSTANTS
    RequestLen = 2
    SendCapacity = 3
    RcvCapacity = 2
    FailTime = 2
    InboxLimit = 2
PROPERTIES
    LostIsReconnected
CHECK_DEADLOCK FALSE
