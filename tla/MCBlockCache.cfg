SPECIFICATION Spec
CONSTANTS
    Blocks = {1, 2}
    MaxId = 3
    WriteMax = 1
    MaxStamp = 3
    MaxSub = 2
INVARIANTS TypeOK OnlyCommittedOnDisk WrittenMeansOnDisk CountsExact AssertsHold
PROPERTIES AbortRestores
CONSTRAINT NoWrongDivision
