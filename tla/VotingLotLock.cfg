\* Two requests at a time: the lot lock as the code states it.
SPECIFICATION Spec
CONSTANTS
    u1 = u1
    u2 = u2
    l1 = l1
    l2 = l2
    o1 = o1
    o2 = o2
    w1 = w1
    w2 = w2
    Users <- TwoUsers
    Lots <- OneLot
    Options <- OneOption
    Workers <- TwoWorkers
    Kind = "ASSEMBLEIA"
    SingleChoice = TRUE
    OpensAt = 0
    ClosesAt = 1
    RowIds <- ThreeIds
    MaxTime = 1
    MaxEdits = 1
CHECK_DEADLOCK FALSE
INVARIANT NeverOverwritten
