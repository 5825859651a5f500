CONSTANTS
    NoSock = NoSock
    Clients = {c1, c2, c3}
    Leavers = {c2, c3}
    Handles = {n1, n2, n3}
    MaxAccepts = 3
    MaxMsgs = 1
    BufSize = 1
    Capacity = 1
SPECIFICATION Spec
SYMMETRY MCSymmetry
INVARIANTS Agreement NoDoubleDelivery OnlyLeaversClosed
CHECK_DEADLOCK FALSE
