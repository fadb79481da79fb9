SPECIFICATION Spec
CONSTANTS
    i1 = i1
    i2 = i2
    t1 = t1
    t2 = t2
    w1 = w1
    w2 = w2
    NoItem = NoItem
    Ids <- MCIds
    Targets <- MCTargets
    Workers <- MCWorkers
    Contents <- MCContents
    Requests <- UpdateRequests
    MaxRetries = 2
    ClaimTimeout = 1
    RequestTimeout = 1
    BatchLimit = 2
    RetryBound = 3
    MaxKills = 0
PROPERTIES
    ReplayedInOrder
CHECK_DEADLOCK FALSE
