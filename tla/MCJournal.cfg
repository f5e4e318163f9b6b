SPECIFICATION Spec
CONSTANTS
    Blocks = {1, 2, 3, 4}
    MaxId = 3
    WriteMax = 1
    LogSize = 5
    MaxTransactionSize = 3
    ArrayRuns = 2
    Positions = {4}
    Changes <- Footprints
    MaxStamp = 3
    MaxCrashes = 1
INVARIANTS TypeOK CrashSafe SyncFreesLog
PROPERTY LogDrains
CHECK_DEADLOCK FALSE
