SPECIFICATION Spec
CONSTANTS
    Msgs <- TwoMessages
    MaxPasses = 2
    kTrainingSampleCount = 1
    kBackfillChunkSize = 1
    MaxStores = 1
    MaxUpsets = 2
INVARIANTS
    BodiesReadable
    DictionariesAgree
    BodiesFindable
    NoFalseHits
CHECK_DEADLOCK FALSE
