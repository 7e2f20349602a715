SPECIFICATION Spec
CONSTANTS
    Configs <- TwoConfigs
    RcvLimit = 2
INVARIANTS
    NoMissedChange
