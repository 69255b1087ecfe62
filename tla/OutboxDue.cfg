SPECIFICATION FairSpec
CONSTANTS
    alice = alice
    bob = bob
    Accounts <- TwoAccounts
    MaxRows = 2
    kMaxAttempts = 2
    MaxFaults = 0
    MaxSignOuts = 1
    MaxRemovals = 1
    MaxCrashes = 0
PROPERTIES
    DueIsDispatched
CHECK_DEADLOCK FALSE
