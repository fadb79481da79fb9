SPECIFICATION FairSpec
CONSTANTS
    f1 = f1
    f2 = f2
    h1 = h1
    h2 = h2
    h3 = h3
    t1 = t1
    t2 = t2
    o1 = o1
    NoFile = NoFile
    NoToken = NoToken
    NoHandler = NoHandler
    Files <- TwoFiles
    Unreadable <- SecondIsUnreadable
    Handlers <- OneHandler
    Tokens <- TwoTokens
    Officers <- OneOfficer
    MaxUploads = 0
    MaxFaults = 0
    MaxKills = 0
    MaxDisables = 1
    MaxConfigFaults = 1
    MaxByHand = 1
    MaxRestarts = 1
    MaxTimeouts = 1
INVARIANTS
    NoLooseCredential
PROPERTIES
    EveryCaptureArrives
