SPECIFICATION ScriptSpec
CONSTANTS
    k1 = k1
    k2 = k2
    Keys = {k1, k2, k3}
    k3 = k3
    v1 = v1
    v2 = v2
    v3 = v3
    red = red
    blue = blue
    Values = {v1, v2, v3}
    Fields = {red, blue}
    NoField = NoField
    NumIndexes = 2
    Kind <- MCSorted
    FieldOf <- MCFieldOf
    Size <- MCSize
    MaxBytes = 4
    MaxEntityBytes = 2
    Ttl = Never
    TombstoneTtl = 1
    Never = Never
    NoRecord = NoRecord
    NoTombstone = NoTombstone
    NoCall = NoCall
    Word = 8
    MaxTime = 0
    Workers = {w1}
    WorkerOps = {"upsert", "delete"}
    Sweepers = {}
    Kinds = {"cron", "lifecycle"}
    Batches <- MCBatches
    Malformed = Malformed
    NoValue = NoValue
    Readers = {r1}
    Ranges <- MCRanges
    Limits = {0, 1}
    NoLookup = NoLookup
PROPERTIES DeclaredHandlersRun
CHECK_DEADLOCK FALSE
