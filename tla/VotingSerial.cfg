\* One request at a time, in an assembly vote or in a poll.
SPECIFICATION SerialSpec
CONSTANTS
    u1 = u1
    u2 = u2
    l1 = l1
    l2 = l2
    o1 = o1
    o2 = o2
    w1 = w1
    w2 = w2
    Users <- TwoUsers
    Lots <- TwoLots
    Options <- OneOption
    Workers <- OneWorker
    Kind = "ASSEMBLEIA"
    SingleChoice = TRUE
    OpensAt = 0
    ClosesAt = 1
    RowIds <- ThreeIds
    MaxTime = 1
    MaxEdits = 2
SYMMETRY Interchangeable
PROPERTIES EntitledWhenCast ImplementsBallotBox
CHECK_DEADLOCK FALSE
