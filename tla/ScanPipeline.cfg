SPECIFICATION FairSpec
CONSTANTS
    s1 = s1
    s2 = s2
    w1 = w1
    Servers <- TwoServers
    Workers <- OneWorker
    MaxStarts = 3
    MaxKills = 1
    MaxFaults = 1
INVARIANTS
    ReportFollowsAnalysis
PROPERTIES
    ProcessingEnds
CHECK_DEADLOCK FALSE
