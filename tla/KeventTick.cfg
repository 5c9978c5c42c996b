CONSTANTS
    Threads = {t1}
    Disposers <- ByLoop
    Listeners = {}
    Streams = {s1}
    Datagrams = {}
    NUM_EVENTS = 4
    PipeCap = 1
    BufferSize = 2
    RcvBuf = 2
    MaxDatagram = 1
    LoopCalls <- SocketCalls
    OwnCloses <- EventCallbacks
    MaxDisposes = 1
SPECIFICATION Spec
INVARIANT SocketsTicked
CHECK_DEADLOCK FALSE
