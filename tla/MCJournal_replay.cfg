SPECIFICATION Spec
CONSTANTS
    Blocks = {1, 2, 3, 4}
    MaxId = 2
    WriteMax = 1
    LogSize = 5
    MaxTransactionSize = 3
    ArrayRuns = 2
    Positions = {3}
    Changes <- Footprints
    MaxStamp = 2
    MaxCrashes = 1
INVARIANT ReplayMakesConsistent
CHECK_DEADLOCK FALSE
