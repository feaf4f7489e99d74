CONSTANTS
    s1 = s1  s2 = s2
    Starts = {s1, s2}
    r1 = r1  r2 = r2
    Researches = {r1, r2}
    Preparations = {}
    a1 = a1
    Attributes = {a1}
    f1 = f1
    FindingIds = {f1}
    g1 = g1
    Gaps = {g1}
    m1 = m1
    Memories = {m1}
    NoAttribute = NoAttribute
    Absent = Absent
    NoReceipt = NoReceipt
    MaxGeneration = 1
    MaxEvents = 1
SPECIFICATION Spec
SYMMETRY Symmetry
CHECK_DEADLOCK FALSE
INVARIANTS TypeOK TaskAgreed EventOnce SuccessAnswered ArchivedSettled
 
