SPECIFICATION FairSpec
CONSTANTS
    Conns = {c1, c2}
    MaxBytes = 2
    RcvBuf = 2
    SndBuf = 1
    Backlog = 2
    BufSize = 2
    MaxThreads = 2
    MaxFds = 2
PROPERTIES
    ShutdownCompletes
