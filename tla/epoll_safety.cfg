SPECIFICATION Spec
CONSTANTS
    Conns = {c1, c2}
    Fds = {f1, f2}
    Listener = Listener
    SignalFd = SignalFd
    None = None
    MaxBytes = 3
    RcvBuf = 3
    SndBuf = 1
    Backlog = 2
    BufSize = 2
    MaxEvents = 2
    AddMayFail = TRUE
SYMMETRY Symmetry
INVARIANTS
    TypeOK
    NoByteLost
    NoStaleEvent
    NoLostWakeup
    CountersMatch
PROPERTIES
    ClosesOnlyAfterPeer
    ImplementsEchoService
