CONSTANTS
    Threads = {t1}
    Disposers = {t1}
    Listeners = {}
    Streams = {}
    Datagrams = {u1}
    NUM_EVENTS = 4
    PipeCap = 1
    BufferSize = 2
    RcvBuf = 1
    MaxDatagram = 2
    LoopCalls <- SocketCalls
    OwnCloses <- AnyCallback
    MaxDisposes = 1
SPECIFICATION FairSpec
INVARIANTS TypeOK StatusTells RoomUsable
PROPERTIES ImplementsEventLoop TickNotStarved DataDelivered
CHECK_DEADLOCK FALSE
