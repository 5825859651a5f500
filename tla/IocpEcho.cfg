CONSTANTS
    Clients = {c1, c2}
    Resetters = {c1}
    Workers = {w1, w2}
    MaxBytes = 2
    BufSize = 2
SPECIFICATION FairSpec
INVARIANTS OneReceive NoUseAfterClose DanglingOnlySends EchoConserved
PROPERTIES ImplementsEcho LeaversCleanedUp
CHECK_DEADLOCK FALSE
