SPECIFICATION Spec
CONSTANTS
    h1 = h1
    h2 = h2
    o1 = o1
    o2 = o2
    Handlers <- MCHandlers
    Orders <- MCOrders
    Required = 2
    Entered <- MCEntered
    Enforcement = "warn"
    Surveyed = TRUE
    MaxStarts = 3
    MaxKills = 1
SYMMETRY Alike
CONSTRAINT InTurn
INVARIANTS
    StopWorkShutsTheSite
    LastLiftReopens
    SourceFollowsRequest
    NoSignatureInvented
    SignedWhatStands
PROPERTIES
    RevivedByApprovalOnly
CHECK_DEADLOCK FALSE
