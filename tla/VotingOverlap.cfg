\* Two requests at a time for the ballot of one unit: its owner and an extra voter.
SPECIFICATION OverlapSpec
CONSTANTS
    u1 = u1
    u2 = u2
    l1 = l1
    l2 = l2
    o1 = o1
    o2 = o2
    w1 = w1
    w2 = w2
    Users <- TwoUsers
    Lots <- OneLot
    Options <- OneOption
    Workers <- TwoWorkers
    Kind = "ASSEMBLEIA"
    SingleChoice = TRUE
    OpensAt = 0
    ClosesAt = 1
    RowIds <- ThreeIds
    MaxTime = 1
    MaxEdits = 1
SYMMETRY Interchangeable
INVARIANTS OverwriteOnlyByRace ClosedIffFrozen
PROPERTY ResultSettles
CHECK_DEADLOCK FALSE
