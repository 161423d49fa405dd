SPECIFICATION Spec
CONSTANTS
    Partitions = {p1, p2}
    Ids = {i1, i2, i3}
    v1 = v1
    v2 = v2
    v3 = v3
    Values = {v2, v3}
    OrderBy = TRUE
    OrderOf <- MCOrderOf
    NoField = NoField
    Size <- MCSize
    MaxPerPartition = 2
    Unbounded = Unbounded
    Ttl = 1
    Never = Never
    NoPartition = NoPartition
    NoCall = NoCall
    Limits = {1}
    MaxTime = 2
    MaxPushes = 3
    LastPush = 1
    Workers = {w1}
    WorkerOps = {"push", "remove", "trim"}
    TrimAges = {1}
    Sweepers = {}
    Readers = {r1}
INVARIANTS MemoryTracksItems ScanSeesSteady
PROPERTY ImplementsBoundedLog
SYMMETRY Symmetry
CHECK_DEADLOCK FALSE
