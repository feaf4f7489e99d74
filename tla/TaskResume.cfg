CONSTANTS
    s1 = s1  s2 = s2
    Starts = {s1, s2}
    Researches = {}
    Preparations = {}
    a1 = a1
    Attributes = {a1}
    FindingIds = {}
    Gaps = {}
    Memories = {}
    NoAttribute = NoAttribute
    Absent = Absent
    NoReceipt = NoReceipt
    MaxGeneration = 0
    MaxEvents = 0
SPECIFICATION Spec
SYMMETRY Symmetry
CHECK_DEADLOCK FALSE
INVARIANTS ResumeAccepted
