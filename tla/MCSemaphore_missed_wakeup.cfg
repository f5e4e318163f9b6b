SPECIFICATION Spec
CONSTANTS
    Threads <- Four
    t1 = t1
    t2 = t2
    t3 = t3
    t4 = t4
    a = a
    b = b
    Slots <- OneSlot
    Counts = {1, 2}
    MaxCount = 3
    MaxGeneration = 1
    Switches <- NoSwitches
    Interruptible <- NoThreads
    Timed <- AllThreads
    None = None
INVARIANTS HeadNotSatisfied
