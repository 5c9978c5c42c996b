CONSTANTS
    Threads = {}
    Disposers <- ByLoop
    Listeners = {l1}
    Streams = {s1}
    Datagrams = {}
    NUM_EVENTS = 2
    PipeCap = 1
    BufferSize = 1
    RcvBuf = 1
    MaxDatagram = 1
    LoopCalls <- SafeCalls
    OwnCloses <- EventCallbacks
    MaxDisposes = 1
SPECIFICATION Spec
INVARIANTS  DisposeComplete CloseMeansEof
CHECK_DEADLOCK FALSE
