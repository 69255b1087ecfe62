SPECIFICATION FairSpec
CONSTANTS
    inbox = inbox
    Msgs <- TwoMsgs
    Labels <- Inbox
    Threads <- Selection
    Edits <- Toggles
    MaxOps = 2
    kGiveUpAttempts = 2
    MaxOthers = 1
    MaxFaults = 2
    MaxCrashes = 1
INVARIANTS
    DivergenceIsOwed
    LastEditReaches
PROPERTIES
    QueueDrains
CHECK_DEADLOCK FALSE
