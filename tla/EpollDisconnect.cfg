CONSTANTS
    Threads = {}
    Conns = {c1}
    MAX_EVENTS = 4
    BUFFER_SIZE = 1
    PipeCap = 1
    RcvBuf = 1
    SndBuf = 1
    MaxLength = 1
    MaxInits = 1
    LoopCalls <- SendOnly
SPECIFICATION Spec
INVARIANT DisconnectSurvived
CHECK_DEADLOCK FALSE
