CONSTANTS
    Threads = {t1}
    Conns = {c1}
    MAX_EVENTS = 1
    BUFFER_SIZE = 1
    PipeCap = 1
    RcvBuf = 1
    SndBuf = 1
    MaxLength = 2
    MaxInits = 1
    LoopCalls <- SendOnly
SPECIFICATION FairSpec
INVARIANT NoLostStop
PROPERTIES ImplementsEventLoop WatchedDataDelivered SendCompletes
CHECK_DEADLOCK FALSE
