CONSTANTS
    s1 = s1
    Starts = {s1}
    Researches = {}
    Preparations = {}
    Attributes = {}
    FindingIds = {}
    Gaps = {}
    Memories = {}
    NoAttribute = NoAttribute
    Absent = Absent
    NoReceipt = NoReceipt
    MaxGeneration = 0
    MaxEvents = 0
SPECIFICATION Spec
SYMMETRY Symmetry
CHECK_DEADLOCK FALSE
INVARIANTS ReplayIdempotent
