CONSTANTS
    c1 = c1
    c2 = c2
    c3 = c3
    Clients = {c1, c2, c3}
    Leavers = {c3}
    Handles = {h1, h2}
    Free = Free
    Requests <- MCRequests
    HeaderLines = 2
    File <- MCFile
    MaxFiles = 1
SPECIFICATION FairSpec
INVARIANTS HarmByHandle
PROPERTIES GetsAnswered
CHECK_DEADLOCK FALSE
