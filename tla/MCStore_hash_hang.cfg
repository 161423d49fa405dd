SPECIFICATION FairSpec
CONSTANTS
    Keys = {k1, k2}
    v1 = v1
    v2 = v2
    v3 = v3
    red = red
    blue = blue
    Values = {v1, v2}
    Fields = {red, blue}
    NoField = NoField
    NumIndexes = 1
    Kind <- MCHash
    FieldOf <- MCFieldOf
    Size <- MCUnitSize
    MaxBytes = 0
    MaxEntityBytes = 0
    Ttl = Never
    TombstoneTtl = 1
    Never = Never
    NoRecord = NoRecord
    NoTombstone = NoTombstone
    NoCall = NoCall
    Word = 3
    MaxTime = 0
    Workers = {w1}
    WorkerOps = {"upsert", "delete"}
    Sweepers = {}
PROPERTY OperationsFinish
CHECK_DEADLOCK FALSE
