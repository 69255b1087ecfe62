SPECIFICATION Spec
CONSTANTS
    MaxMsg = 3
    InitialMsgs = 2
    Labels <- TwoLabels
    SeedLabels <- OneLabel
    MaxHistory = 1
    InitialPerLabelCap = 1
    PageSize = 1
    MaxPagesPerTopUp = 2
    CrawlEnabled = TRUE
    HistoryPageSize = 1
    MaxFaults = 1
    MaxCrashes = 0
    MaxRequests = 1
    MaxPosted = 1
INVARIANTS
    OneChain
    WalkedIsCached
    TopUpsBracketed
PROPERTIES
    WalkCompletes
