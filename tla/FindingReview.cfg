SPECIFICATION Spec
CONSTANTS
    f1 = f1
    f2 = f2
    h1 = h1
    h2 = h2
    NoFinding = NoFinding
    Findings <- MCFindings
    Handlers <- MCHandlers
    MaxStarts = 4
    MaxKills = 1
SYMMETRY Alike
INVARIANTS
    HistoryIsGapless
    ChainFollowsNumbers
    OnePendingPerGroup
    ChainIsIntact
    OrdersAreLinked
    HistoryIsCurrent
PROPERTIES
    DecisionStands
CHECK_DEADLOCK FALSE
