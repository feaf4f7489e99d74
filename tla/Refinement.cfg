CONSTANTS
    w1 = w1
    Workers = {w1}
    t1 = t1  t2 = t2
    Tokens = {t1, t2}
    NoToken = NoToken
    NoResult = NoResult
    NoScan = NoScan
    NoJob = NoJob
    None = None
    MaxAttempts = 1
    CaptureIds = {2}
    NoteIds = {1}
    RecordIds = {1, 2}
    DreamIds = {11, 12, 13}
    BatchSize = 1
    DreamAfter = 2
    CaptureOps = {"create", "attach", "exception", "conflict"}
    NoteOps = {"create"}
    DreamOps = {"none", "merge"}
    ApplyExact = FALSE
    ApplySemantic = FALSE
    ForegroundUntil = 0
SPECIFICATION FairSpec
CHECK_DEADLOCK FALSE
INVARIANTS AckMatchesStore ScanNotForked
PROPERTIES LifecycleSpec JobsSettle
