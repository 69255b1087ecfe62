SPECIFICATION ListSpec
CONSTANTS
    Mail <- TwoBoxes
    Fresh <- NewMail
    Hits <- OldHits
    Seeded <- LatestTwo
    Home = "ann"
    PageSize = 2
    MaxPages = 2
    MaxChunks = 2
    ViewRows = 1
    MaxMoves = 2
    MaxPosted = 1
    MaxFaults = 1
INVARIANTS
    LoadedIsPrefix
    NoMoreIsTrue
    LoadingMeansWork
PROPERTIES
    OldMailReached
CHECK_DEADLOCK FALSE
