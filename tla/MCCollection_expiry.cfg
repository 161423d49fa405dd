SPECIFICATION FairSpec
CONSTANTS
    Partitions = {p1, p2}
    Ids = {i1, i2}
    v1 = v1
    v2 = v2
    v3 = v3
    Values = {v1}
    OrderBy = FALSE
    OrderOf <- MCOrderOf
    NoField = NoField
    Size <- MCSize
    MaxPerPartition = 2
    Unbounded = Unbounded
    Ttl = 1
    Never = Never
    NoPartition = NoPartition
    NoCall = NoCall
    Limits = {0}
    MaxTime = 3
    MaxPushes = 2
    LastPush = 1
    Workers = {w1, w2}
    WorkerOps = {"push"}
    TrimAges = {}
    Sweepers = {s1}
    Readers = {}
PROPERTY ExpiredTrimmed
CHECK_DEADLOCK FALSE
