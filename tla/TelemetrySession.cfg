SPECIFICATION Spec
CONSTANTS
    s1 = s1
    s2 = s2
    d1 = d1
    w1 = w1
    w2 = w2
    NoDevice = NoDevice
    NoSession = NoSession
    Sessions <- MCSessions
    Devices <- MCDevices
    Workers <- TwoWorkers
    MaxSeq = 2
    Explicit <- InOrder
    MaxKills = 1
    MaxCopies = 2
    MaxAmends = 1
SYMMETRY ModelSymmetry
INVARIANTS
    ChainVerifies
    OneOpenSession
    PromotionIsWhole
PROPERTIES
    LogIsAppendOnly
    PromotionIsFinal
CHECK_DEADLOCK FALSE
