SPECIFICATION Spec
CONSTANTS
    Threads <- Three
    t1 = t1
    t2 = t2
    t3 = t3
    t4 = t4
    a = a
    b = b
    Slots <- TwoSlots
    Counts = {1}
    MaxCount = 1
    MaxGeneration = 1
    Switches <- AThenB
    Interruptible <- AllThreads
    Timed <- NoThreads
    None = None
SYMMETRY Symmetric
INVARIANTS SleepersQueued SlotsAccounted HeadNotSatisfied
