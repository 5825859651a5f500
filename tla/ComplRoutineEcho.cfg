CONSTANTS
    Clients = {c1, c2}
    Resetters = {c1, c2}
    EarlyReset = TRUE
    MaxBytes = 3
    BufSize = 2
SPECIFICATION FairSpec
INVARIANTS OneActivity NoUseAfterFree
PROPERTIES ImplementsEcho LeaversCleanedUp
CHECK_DEADLOCK FALSE
