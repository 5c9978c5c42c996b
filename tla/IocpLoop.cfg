CONSTANTS
    Threads = {t1}
    Conns = {c1, c2}
    BUFFER_SIZE = 2
    MaxBytes = 2
    MaxSends = 2
    MaxInits = 1
SPECIFICATION FairSpec
INVARIANTS TypeOK DeliveredInOrder InFlightBySends
PROPERTIES StopAtNextCompletion ReturnsOnlyAfterStop
CHECK_DEADLOCK FALSE
