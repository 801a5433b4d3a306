SPECIFICATION Spec
CONSTANTS
    Conns = {c1, c2, c3}
    MaxBytes = 2
    RcvBuf = 2
    SndBuf = 1
    Backlog = 3
    BufSize = 2
    MaxThreads = 2
    MaxFds = 2
SYMMETRY Symmetry
INVARIANTS
    TypeOK
    NoByteLost
    WorkersAccounted
    ExitsClean
PROPERTIES
    ImplementsEchoService
