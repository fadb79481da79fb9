SPECIFICATION Spec
CONSTANTS
    b1 = b1
    b2 = b2
    h1 = h1
    h2 = h2
    NoBatch = NoBatch
    NoType = ""
    Names <- MCNames
    Types <- MCTypes
    Grouped <- MCGrouped
    Elements <- MCElements
    Files <- MCFiles
    Batches <- MCBatches
    Handlers <- MCHandlers
    MaxStarts = 4
    MaxKills = 1
    MaxChanges = 1
SYMMETRY Alike
CONSTRAINT Explored
INVARIANTS
    AllOrNothing
    ImportedOnce
    ValidatedIsComplete
    RecordsNameTheirRows
    GroupsAreBlocks
    PathsAgree
CHECK_DEADLOCK FALSE
