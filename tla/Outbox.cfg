SPECIFICATION FairSpec
CONSTANTS
    alice = alice
    bob = bob
    Accounts <- TwoAccounts
    MaxRows = 2
    kMaxAttempts = 2
    MaxFaults = 2
    MaxSignOuts = 1
    MaxRemovals = 1
    MaxCrashes = 1
INVARIANTS
    OneCallPerRow
PROPERTIES
    ImplementsOutgoingMail
    MailGoesOut
CHECK_DEADLOCK FALSE
