SPECIFICATION LabelsSpec
CONSTANTS
    Accounts <- TwoAccounts
    Ids <- TwoIds
    Names = {"Work", "Trips"}
    Hidden = {"UNREAD"}
    Start <- BothHaveWork
    Seedings <- FirstLaunchOrAnn
    MaxCalls = 2
    MaxMoves = 2
    MaxReloads = 1
    MaxListings = 1
    MaxFaults = 1
INVARIANTS
    LabelsAgree
    
    WindowStaysPut
CHECK_DEADLOCK FALSE
