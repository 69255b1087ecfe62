SPECIFICATION WindowSpec
CONSTANTS
    Mail <- TwoAccounts
    Start <- AllUnread
    Whole = {1}
    Fresh = {4}
    Home = "ann"
    MaxOpens = 2
    MaxEdits = 1
    MaxMoves = 1
    MaxSyncs = 1
    MaxFaults = 1
    Attached <- TwoScans
    Present = {"scan"}
    MaxNames = 2
INVARIANTS
    ReaderAgrees
PROPERTIES
    ReadIsSeen
    EditsAsAimed
    SnoozedComesBack
    FilesKept
CHECK_DEADLOCK FALSE
