SPECIFICATION Spec
CONSTANTS
    Threads = {t1, t2, t3}
    a = a
    b = b
    Mutexes <- OneLock
    Before <- NoPairs
    Guards <- NoPairs
    TimedLocks <- OneLock
    Nobody = Nobody
    Destroyed = Destroyed
SYMMETRY Symmetric
INVARIANT FailedLockNotOwned
CHECK_DEADLOCK FALSE
