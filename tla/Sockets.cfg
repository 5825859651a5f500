CONSTANTS
    Simple = {s1}
    Stable = {t1, t2}
    Nobody = Nobody
    EchoServe = 2
    MsgMax = 2
    Rounds = 2
    Users = {u1, u2}
    Abandoners = {u2}
    CalcServe = 2
    Operands <- MCOperands
    MaxOps = 2
    OpSz = 2
    Half = 4
    Sizes <- MCSizes
    BlockSize = 2
    Thanks = 2
    Length = 2
    Receivers = {r1}
    Files <- MCFiles
    LineSize = 3
SPECIFICATION SuiteFairSpec
INVARIANTS StableComplete OneAtATime CalcRight ThanksMeanStored FramesOutliveOperations LastUrgentSeen NewsInOrder
PROPERTIES AllServed
CHECK_DEADLOCK FALSE
