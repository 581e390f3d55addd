SPECIFICATION Spec
CONSTANTS
    w1 = w1
    w2 = w2
    a = a
    b = b
    Workers = {w1, w2}
    Names = {a, b}
    MaxObj = 3
    MaxRequests = 3
    Requests <- All
    MayFail = TRUE
    MaxSessions = 1
SYMMETRY Symmetry
INVARIANTS
    RefsAccounted
    EntryIsFile
CHECK_DEADLOCK FALSE
