\* Two requests at a time: an edit that overlaps the closing.
SPECIFICATION Spec
CONSTANTS
    v1 = v1
    v2 = v2
    l1 = l1
    l2 = l2
    p1 = p1
    p2 = p2
    p3 = p3
    f1 = f1
    f2 = f2
    w1 = w1
    w2 = w2
    NoRow = NoRow
    Withdrawn = Withdrawn
    Votes <- OneVote
    Lots <- OneLot
    Papers <- TwoPapers
    Folders <- TwoFolders
    Workers <- TwoWorkers
    MaxMinutes = 1
PROPERTY ClosedForGood
CHECK_DEADLOCK FALSE
