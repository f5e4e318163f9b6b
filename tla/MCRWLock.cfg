SPECIFICATION FairSpec
CONSTANTS
    Threads = {t1, t2, t3}
    Base = 10
    MaxNest = 1
    TimedReaders <- AllThreads
    Nobody = Nobody
INVARIANTS ReaderWriterExclusion CountIsExact ActiveReadersExact
    PendingReadersExist NoPanic NobodyForgotten
PROPERTIES LocksReturn
CHECK_DEADLOCK FALSE
