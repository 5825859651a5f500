CONSTANTS
    NoConn = NoConn
    Conns = {c1, c2}
    Resetters = {c1}
    Quitters = {c1}
    Burst = 1
    MaxBytes = 2
    NSlots = 2
    BufSize = 2
    Workers = {w1, w2}
    MayStop = TRUE
SPECIFICATION FairSpec
INVARIANTS OneReceive EchoFaithful OnlyLeaversClosed
PROPERTIES ServedToTheEnd DestroyEnds
CHECK_DEADLOCK FALSE
