CONSTANTS
    p1 = p1  p2 = p2
    c1 = c1  c2 = c2
    Services = {p1, p2}
    Home = p1
    Contexts = {c1, c2}
    Applies <- OneEach
    MaxPrepared = 2
    RecordIds = {1, 2}
    BatchSize = 1
    WriteOps = {"attach", "supersede", "conflict"}
    Existing = {1}
    PayloadCache = 1
    MaxWork = 3
SPECIFICATION Spec
CHECK_DEADLOCK FALSE
INVARIANTS TypeOK CacheCoherent SnapshotCoherent 
PROPERTIES ActionCurrent
