CONSTANTS
    Threads = {}
    Conns = {c1, c2}
    MAX_EVENTS = 2
    BUFFER_SIZE = 1
    PipeCap = 1
    RcvBuf = 1
    SndBuf = 1
    MaxLength = 2
    MaxInits = 2
    LoopCalls <- SendAndStop
SPECIFICATION Spec
INVARIANTS TypeOK EventsStayReady SendInOrderOnce OpenIsWatched
PROPERTY RequestKept
CHECK_DEADLOCK FALSE
SYMMETRY ConnSymmetry
