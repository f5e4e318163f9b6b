SPECIFICATION FairSpec
CONSTANTS
    Threads = {t1, t2, t3}
    a = a
    b = b
    Mutexes <- TwoLocks
    Before <- AThenB
    Guards <- AThenB
    TimedLocks <- OneLock
    Nobody = Nobody
    Destroyed = Destroyed
INVARIANTS TypeOK MutualExclusion HolderChecksHold QueuedWaitersLive NoLostWakeup DestroyedUnused
PROPERTIES SwitchIsAtomic ImplementsFifoLock LockReturns
CHECK_DEADLOCK FALSE
