SPECIFICATION Spec
CONSTANTS
    Partitions = {p1}
    Ids = {i1, i2}
    v1 = v1
    v2 = v2
    v3 = v3
    Values = {v1}
    OrderBy = TRUE
    OrderOf <- MCOrderOf
    NoField = NoField
    Size <- MCSize
    MaxPerPartition = 2
    Unbounded = Unbounded
    Ttl = 1
    Never = Never
    NoPartition = NoPartition
    NoCall = NoCall
    Limits = {0}
    MaxTime = 0
    MaxPushes = 3
    LastPush = 0
    Workers = {w1, w2}
    WorkerOps = {"push", "remove"}
    TrimAges = {0, 1}
    Sweepers = {}
    Readers = {}
INVARIANT MemoryTracksItems
CHECK_DEADLOCK FALSE
