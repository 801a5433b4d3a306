SPECIFICATION LoadSpec
CONSTANTS
    Conns = {c1, i1}
    Idle = {i1}
    Payloads = {0, 1, 5, 6, 7, 8}
    MaxRequests = 2
    MaxBytes = 16
    RcvBuf = 3
    SndBuf = 1
    Backlog = 1
    BufSize = 2
    MaxThreads = 2
    MaxFds = 2
CHECK_DEADLOCK FALSE
INVARIANTS
    ClosedLoop
    TooLargeNeverAnswered
PROPERTIES
    FinishesIfFits
