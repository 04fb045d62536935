\* One component at a time, two requests at a time.
SPECIFICATION DeskSpec
CONSTANTS
    w1 = w1
    w2 = w2
    u1 = u1
    u2 = u2
    t1 = t1
    t2 = t2
    a1 = a1
    a2 = a2
    b1 = b1
    b2 = b2
    p1 = p1
    p2 = p2
    p3 = p3
    NoLot = NoLot
    Workers <- TwoWorkers
    Users <- TwoUsers
    Lots <- OneLot
    LotAccess <- Access
    Auths <- TwoIds
    Logs <- MoreIds
    Visitors = {"visitor"}
    Terms <- ShortTerms
    MaxTime = 1
    Callers <- TwoUsers
    Parcels <- TwoIds
    Doors <- TwoLots
    QueueReaders <- UserOne
    LinkedTo <- Linked
    Photos <- TwoIds
    People <- MoreIds
    Devices = {"device"}
    MaxKey = 1
    Entries <- TwoIds
    Homes <- OneLot
    Persons <- MoreIds
    Reporters <- UserTwo
    Managers <- UserOne
    Assignees <- UserTwo
    MaxNumber = 2
    MaxEntries = 4
    Rules = {"rule"}
    Cases <- TwoIds
    Offenders = {"offender"}
    HomeOf <- Home
    Reports = {"occurrence"}
    LotReported <- Located
    Neighbours <- UserTwo
    UnitsOf <- Linked
    Ladders <- ShortLadders
    Windows = {1}
    MaxInstant = 3
    MaxDay = 1
    MaxWrites = 1
    Modules <- TwoIds
    Bundles = {}
    PlanIds = {"plan"}
    Accounts <- ThreeAccounts
    Elsewhere = {}
    RoleIds <- MoreIds
    Permissions <- OfManagers
    Dormant = {}
    Grants <- RoleGrants
    MaxCommits = 3
    TaskIds = {"task"}
    Unassigned = Unassigned
SYMMETRY Interchangeable
INVARIANTS InsideTwiceOnlyByRace SingleReusedOnlyByRace EnrolledFromVetted
    TwinsOnlyByRace TimelineTellsStatus SameSuggestionOnlyByRace
PROPERTIES ShutForGood TakenOnce OfferedLessOnlyByRace CeilingHeld ToldInHistory
    LockedOutOnlyByRace NothingBeyondAuthor OpenedOnlyByEdit
CHECK_DEADLOCK FALSE
