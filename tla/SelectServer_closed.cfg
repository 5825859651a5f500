CONSTANTS
    ServSock = ServSock
    NoSock = NoSock
    Clients = {c1, c2}
    Leavers = {c1, c2}
    Resetters = {}
    MaxBytes = 1
    BufSize = 1
    FdSetSize = 4
SPECIFICATION Spec
INVARIANTS ClosedAreLeavers
CHECK_DEADLOCK FALSE
