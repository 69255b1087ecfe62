SPECIFICATION FairSpec
CONSTANTS
    alice = alice
    bob = bob
    compose = compose
    Accounts <- TwoAccounts
    Windows <- OneWindow
    MaxSaves = 2
    MaxFaults = 1
    MaxSignOuts = 1
    MaxRemovals = 1
    MaxCrashes = 1
INVARIANTS
    SavedTextKept
    CleanRowsAtGmail
    DuplicatesExplained
PROPERTIES
    DraftsReachGmail
CHECK_DEADLOCK FALSE
