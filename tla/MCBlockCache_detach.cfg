SPECIFICATION Spec
CONSTANTS
    Blocks = {1, 2}
    MaxId = 2
    WriteMax = 1
    MaxStamp = 2
    MaxSub = 2
INVARIANTS UncommittedOffDisk
