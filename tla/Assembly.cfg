\* Two requests at a time without minutes, or one at a time with two of them.
SPECIFICATION ModeSpec
CONSTANTS
    v1 = v1
    v2 = v2
    l1 = l1
    l2 = l2
    p1 = p1
    p2 = p2
    p3 = p3
    f1 = f1
    f2 = f2
    w1 = w1
    w2 = w2
    NoRow = NoRow
    Withdrawn = Withdrawn
    Votes <- TwoVotes
    Lots <- TwoLots
    Papers <- ThreePapers
    Folders <- TwoFolders
    Workers <- TwoWorkers
    MaxMinutes = 2
SYMMETRY Interchangeable
INVARIANTS OpenVotesAreLate ResultsCoverOptions MinutesTellAll
CHECK_DEADLOCK FALSE
