CONSTANTS
    s1 = s1
    Starts = {s1}
    r1 = r1
    Researches = {r1}
    p1 = p1  p2 = p2
    Preparations = {p1, p2}
    Attributes = {}
    FindingIds = {}
    g1 = g1
    Gaps = {g1}
    m1 = m1
    Memories = {m1}
    NoAttribute = NoAttribute
    Absent = Absent
    NoReceipt = NoReceipt
    MaxGeneration = 1
    MaxEvents = 1
SPECIFICATION Spec
SYMMETRY Symmetry
CHECK_DEADLOCK FALSE
PROPERTIES GuardSound
