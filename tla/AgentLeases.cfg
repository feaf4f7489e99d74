CONSTANTS
    a1 = a1  a2 = a2
    t1 = t1  t2 = t2
    Calls <- SharedTask
    EvidenceIds = {}
    Contents = {}
    MaxConcurrent = 1
    MaxPending = 1
    MaxEvidence = 1
    MaxRuns = 2
SPECIFICATION FairSpec
CHECK_DEADLOCK FALSE
INVARIANTS SlotsBalanced LeaseReturned
PROPERTIES ExclusionSpec RunsEnd
