SPECIFICATION FairSpec
CONSTANTS
    t1 = t1
    t2 = t2
    t3 = t3
    t4 = t4
    a = a
    b = b
    Threads <- Three
    Slots <- OneSlot
    Counts = {1, 2}
    MaxCount = 3
    MaxGeneration = 1
    Switches <- NoSwitches
    Interruptible <- NoThreads
    Timed <- Two
    None = None
INVARIANTS CountsAgree UnitsConserved
PROPERTIES AcquireReturns
