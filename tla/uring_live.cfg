SPECIFICATION FairSpec
CONSTANTS
    Conns = {c1, c2}
    Fds = {1, 2, 3}
    Objs = {o1, o2, o3}
    None = None
    MaxBytes = 2
    RcvBuf = 1
    SndBuf = 1
    Backlog = 2
    BufSize = 1
    QDepth = 2
    SubmitMayFail = FALSE
PROPERTIES
    Isolation
    ShutdownCompletes
