SPECIFICATION Spec
CONSTANTS
    h1 = h1
    h2 = h2
    m1 = m1
    m2 = m2
    m3 = m3
    i1 = i1
    v1 = v1
    Handlers <- MCHandlers
    Milestones <- MCMilestones
    Plans <- MCPlans
    Issues <- MCIssues
    Surveys <- MCSurveys
    MaxStarts = 2
    MaxKills = 1
    MaxFaults = 1
    MaxEvents = 1
    MaxOrders = 1
SYMMETRY Alike
CONSTRAINT Focused
INVARIANTS
    StandingBlockersHold
    BuiltOnCertified
    FlagStands
PROPERTIES
    VerifyUnblocks
CHECK_DEADLOCK FALSE
