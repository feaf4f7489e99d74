CONSTANTS
    t1 = t1  t2 = t2
    alice = alice  tag = tag
    Threads = {t1, t2}
    Users = {alice}
    Keys = {alice, tag}
    Uids = {1, 2}
    UserOf <- OwnerOf
    KeysOf <- PostedUnder
    Dims = {1, 2}
    StmEnabled = TRUE
    RecallLimit = 2
    MaxEvents = 1
    MaxCalls = 4
    MaxFaults = 1
SYMMETRY Interchangeable
SPECIFICATION Spec
CHECK_DEADLOCK FALSE
INVARIANTS TypeOK PostingsExact DurableFirst 
    AccessesCounted EventsCapped ForgottenEverywhere
