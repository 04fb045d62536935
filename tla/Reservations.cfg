\* Two requests at a time on one space, or one at a time on two.
SPECIFICATION ModeSpec
CONSTANTS
    i1 = i1
    i2 = i2
    i3 = i3
    s1 = s1
    s2 = s2
    u1 = u1
    u2 = u2
    w1 = w1
    w2 = w2
    Ids <- ThreeRows
    Spaces <- TwoSpaces
    Users <- TwoUsers
    Staff <- OneUser
    Workers <- TwoWorkers
    Times <- ThreeTimes
    MaxTime = 1
SYMMETRY Interchangeable
INVARIANT DoubleBookedOnlyByRace
CHECK_DEADLOCK FALSE
