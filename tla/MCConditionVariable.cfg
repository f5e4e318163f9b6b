SPECIFICATION FairSpec
CONSTANTS
    t1 = t1
    t2 = t2
    t3 = t3
    Threads <- Three
    WaitThreads <- Two
    NotifyThreads <- Others
    Nobody = Nobody
INVARIANTS TypeOK EntryInUseExists UnpublishedUnused EntryReachable
    NotifiedDoesNotBlock WaitResultIsNotified
PROPERTIES NotifiedReturns UnpublishReturns
