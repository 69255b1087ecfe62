SPECIFICATION Spec
CONSTANTS
    Emails <- TwoEmails
    InitialAccounts = 2
    MaxIds = 3
    MaxVisits = 2
    MaxFaults = 1
    MaxTurns = 2
INVARIANTS
    AccountsAgree
    TokensReachable
    WindowSettles
CHECK_DEADLOCK FALSE
