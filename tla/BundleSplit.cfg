\* One request at a time: a change of plan leaves half a bundle on.
SPECIFICATION SubscriptionSpec
CONSTANTS
    w1 = w1
    w2 = w2
    u1 = u1
    u2 = u2
    t1 = t1
    t2 = t2
    a1 = a1
    a2 = a2
    b1 = b1
    b2 = b2
    p1 = p1
    p2 = p2
    p3 = p3
    NoLot = NoLot
    Workers <- OneWorker
    Users <- TwoUsers
    Lots <- OneLot
    LotAccess <- Access
    Auths <- TwoIds
    Logs <- MoreIds
    Visitors = {"visitor"}
    Terms <- ShortTerms
    MaxTime = 1
    Callers <- TwoUsers
    Parcels <- TwoIds
    Doors <- TwoLots
    QueueReaders <- UserOne
    LinkedTo <- Linked
    Photos <- TwoIds
    People <- MoreIds
    Devices = {"device"}
    MaxKey = 1
    Entries <- TwoIds
    Homes <- OneLot
    Persons <- MoreIds
    Reporters <- UserTwo
    Managers <- UserOne
    Assignees <- UserTwo
    MaxNumber = 2
    MaxEntries = 4
    Rules = {"rule"}
    Cases <- TwoIds
    Offenders = {"offender"}
    HomeOf <- Home
    Reports = {"occurrence"}
    LotReported <- Located
    Neighbours <- UserTwo
    UnitsOf <- Linked
    Ladders <- ShortLadders
    Windows = {1}
    MaxInstant = 3
    MaxDay = 1
    MaxWrites = 1
    Modules = {"tasks", "categories", "votes"}
    Bundles = {{"tasks", "categories"}}
    PlanIds = {"small", "large"}
    Accounts <- ThreeAccounts
    Elsewhere = {}
    RoleIds <- MoreIds
    Permissions <- OfManagers
    Dormant = {}
    Grants <- RoleGrants
    MaxCommits = 3
    TaskIds = {"task"}
    Unassigned = Unassigned
INVARIANT BundlesWhole
CHECK_DEADLOCK FALSE
