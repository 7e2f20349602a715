SPECIFICATION Spec
CONSTANTS
    Configs <- ThreeConfigs
    RcvLimit = 2
INVARIANTS
    SlotsFitConfig
