SPECIFICATION Spec
CONSTANTS
    Threads = {t1, t2, t3}
    Base = 10
    MaxNest = 1
    TimedReaders <- AllThreads
    Nobody = Nobody
INVARIANTS TimedOutStillQueued
CHECK_DEADLOCK FALSE
