CONSTANTS
    w1 = w1
    Workers = {w1}
    t1 = t1  t2 = t2
    Tokens = {t1, t2}
    NoToken = NoToken
    NoResult = NoResult
    NoScan = NoScan
    NoJob = NoJob
    MaxAttempts = 1
    CaptureIds = {}
    NoteIds = {1, 2, 3}
    RecordIds = {1, 2, 3}
    DreamIds = {11, 12, 13}
    BatchSize = 2
    DreamAfter = 1
    CaptureOps = {"create"}
    NoteOps = {"create"}
    DreamOps = {"none", "merge"}
    ApplyExact = FALSE
    ApplySemantic = FALSE
    ForegroundUntil = 0
SPECIFICATION Spec
SYMMETRY Symmetry
CHECK_DEADLOCK FALSE
INVARIANTS TriggerRetained
