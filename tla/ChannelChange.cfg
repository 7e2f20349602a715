SPECIFICATION FairSpec
CONSTANTS
    Configs <- TwoConfigs
    RcvLimit = 2
INVARIANTS
    TypeOK
    NoUseOfFreedRing
    AgreedWhenQuiet
    CloseCmdWhileAwaited
    ToldWhenQuiet
PROPERTIES
    NoStoreWhilePending
    ChangeAccepted
    ServerReturns
