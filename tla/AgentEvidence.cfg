CONSTANTS
    a1 = a1  a2 = a2
    t1 = t1  t2 = t2
    Calls <- SameTask
    EvidenceIds = {1, 2}
    Contents = {1, 2}
    MaxConcurrent = 1
    MaxPending = 1
    MaxEvidence = 1
    MaxRuns = 1
SPECIFICATION Spec
CHECK_DEADLOCK FALSE
INVARIANTS EvidenceHonest TypeOK

