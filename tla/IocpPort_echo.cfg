CONSTANTS
    NoConn = NoConn
    Conns = {c1}
    Resetters = {}
    Quitters = {}
    Burst = 2
    MaxBytes = 2
    NSlots = 2
    BufSize = 2
    Workers = {w1, w2}
    MayStop = FALSE
SPECIFICATION Spec
INVARIANTS EchoFaithful
CHECK_DEADLOCK FALSE
