SPECIFICATION FairSpec
CONSTANTS
    MaxMsg = 2
    InitialMsgs = 1
    Labels <- OneLabel
    SeedLabels <- OneLabel
    MaxHistory = 3
    InitialPerLabelCap = 1
    PageSize = 1
    MaxPagesPerTopUp = 2
    CrawlEnabled = FALSE
    HistoryPageSize = 2
    MaxFaults = 1
    MaxCrashes = 1
    MaxRequests = 0
    MaxPosted = 1
INVARIANTS
    CachedRowsCurrent
    NoSilentGap
PROPERTIES
    CatchesUp
