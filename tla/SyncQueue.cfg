SPECIFICATION FairSpec
CONSTANTS
    i1 = i1
    i2 = i2
    t1 = t1
    t2 = t2
    w1 = w1
    w2 = w2
    NoItem = NoItem
    Ids <- MCIds
    Targets <- MCTargets
    Workers <- MCWorkers
    Contents <- MCContents
    Requests <- MixedRequests
    MaxRetries = 2
    ClaimTimeout = 1
    RequestTimeout = 1
    BatchLimit = 1
    RetryBound = 3
    MaxKills = 1
INVARIANTS
    ClaimIsExclusive
PROPERTIES
    KeepsThePromise
    EveryEntrySettles
CHECK_DEADLOCK FALSE
