SPECIFICATION FairSpec
CONSTANTS
    Requests <- TwoRequests
    Posts <- OnePost
    kMaxAttempts = 1
    MaxGrants = 2
    MaxUpsets = 2
INVARIANTS
    SignedOutStaysOut
    TokensAgree
    RequestsHonest
PROPERTIES
    RequestsEnd
CHECK_DEADLOCK FALSE
