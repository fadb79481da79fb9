SPECIFICATION Spec
CONSTANTS
    s1 = s1
    s2 = s2
    w1 = w1
    Servers <- TwoServers
    Workers <- OneWorker
    MaxStarts = 3
    MaxKills = 0
    MaxFaults = 0
SYMMETRY Alike
INVARIANTS
    ReportIsCurrent
CHECK_DEADLOCK FALSE
