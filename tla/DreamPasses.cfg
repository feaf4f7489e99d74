CONSTANTS
    w1 = w1
    Workers = {w1}
    t1 = t1  t2 = t2
    Tokens = {t1, t2}
    NoToken = NoToken
    NoResult = NoResult
    NoScan = NoScan
    NoJob = NoJob
    MaxAttempts = 1
    CaptureIds = {}
    NoteIds = {1, 2, 3}
    RecordIds = {1, 2, 3}
    DreamIds = {11, 12}
    BatchSize = 1
    DreamAfter = 2
    CaptureOps = {"create"}
    NoteOps = {"create"}
    DreamOps = {"none", "merge", "supersede"}
    ApplyExact = TRUE
    ApplySemantic = FALSE
    ForegroundUntil = 3
SPECIFICATION Spec
SYMMETRY Symmetry
CHECK_DEADLOCK FALSE
INVARIANTS CursorCovers
PROPERTIES ApprovalHonoured PassCovers
