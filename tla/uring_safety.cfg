SPECIFICATION Spec
CONSTANTS
    Conns = {c1, c2}
    Fds = {1, 2}
    Objs = {o1, o2}
    None = None
    MaxBytes = 2
    RcvBuf = 2
    SndBuf = 1
    Backlog = 2
    BufSize = 2
    QDepth = 2
    SubmitMayFail = TRUE
SYMMETRY Symmetry
INVARIANTS
    TypeOK
    OneOpPerConn
    MapMatchesFds
    AcceptArmed
    NoByteLost
PROPERTIES
    ImplementsEchoService
