CONSTANTS
    NoSock = NoSock
    Clients = {c1, c2}
    Leavers = {c1, c2}
    Handles = {n1, n2}
    MaxAccepts = 2
    MaxMsgs = 1
    BufSize = 1
    Capacity = 1
SPECIFICATION FairSpec
PROPERTIES Delivery
CHECK_DEADLOCK FALSE
