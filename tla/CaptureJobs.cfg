CONSTANTS
    w1 = w1  w2 = w2
    Workers = {w1, w2}
    t1 = t1  t2 = t2
    Tokens = {t1, t2}
    NoToken = NoToken
    NoResult = NoResult
    NoScan = NoScan
    NoJob = NoJob
    MaxAttempts = 2
    CaptureIds = {2}
    NoteIds = {1, 3}
    RecordIds = {1, 2, 3}
    DreamIds = {11}
    BatchSize = 1
    DreamAfter = 9
    CaptureOps = {"create", "attach_exact", "supersede"}
    NoteOps = {"create"}
    DreamOps = {"none"}
    ApplyExact = TRUE
    ApplySemantic = FALSE
    ForegroundUntil = 0
SPECIFICATION FairSpec
CHECK_DEADLOCK FALSE
INVARIANTS TypeOK EffectOnce AckMatchesStore
PROPERTIES LeaseRespected ApprovalHonoured JobsSettle
