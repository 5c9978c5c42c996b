CONSTANTS
    Senders = {t1, t2}
SPECIFICATION Spec
INVARIANT OneRequestInProgress
CHECK_DEADLOCK FALSE
