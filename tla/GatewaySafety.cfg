SPECIFICATION Spec
CONSTANTS
    f1 = f1
    f2 = f2
    h1 = h1
    h2 = h2
    h3 = h3
    t1 = t1
    t2 = t2
    o1 = o1
    NoFile = NoFile
    NoToken = NoToken
    NoHandler = NoHandler
    Files <- OneFile
    Unreadable <- AllReadable
    Handlers <- ThreeHandlers
    Tokens <- TwoTokens
    Officers <- OneOfficer
    MaxUploads = 1
    MaxFaults = 1
    MaxKills = 1
    MaxDisables = 0
    MaxConfigFaults = 0
    MaxByHand = 0
    MaxRestarts = 1
    MaxTimeouts = 1
SYMMETRY Alike
INVARIANTS
    OriginalsAreKept
    LedgerTellsTruth
    NoOrphanBytes
    NoCaptureTwice
    RefusalsAreVerdicts
