SPECIFICATION Spec
CONSTANTS
    Keys = {k1}
    v1 = v1
    v2 = v2
    v3 = v3
    red = red
    blue = blue
    Values = {v1, v2}
    Fields = {red, blue}
    NoField = NoField
    NumIndexes = 1
    Kind <- MCSorted
    FieldOf <- MCFieldOf
    Size <- MCUnitSize
    MaxBytes = 0
    MaxEntityBytes = 0
    Ttl = 1
    TombstoneTtl = 1
    Never = Never
    NoRecord = NoRecord
    NoTombstone = NoTombstone
    NoCall = NoCall
    Word = 8
    MaxTime = 2
    Workers = {w1}
    WorkerOps = {"upsert"}
    Sweepers = {sweeper}
PROPERTY SweepEvictsOnlyExpired
