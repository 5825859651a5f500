CONSTANTS
    ServSock = ServSock
    NoSock = NoSock
    Clients = {c1, c2, c3}
    Leavers = {c1, c3}
    Resetters = {c2}
    MaxBytes = 2
    BufSize = 2
    FdSetSize = 3
SPECIFICATION FairSpec
INVARIANTS ListenerSurvives
PROPERTIES Watched CutOffNeedsCrowd Answered
CHECK_DEADLOCK FALSE
