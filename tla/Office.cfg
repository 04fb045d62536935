\* One component at a time, two requests at a time.
SPECIFICATION OfficeSpec
CONSTANTS
    w1 = w1
    w2 = w2
    i1 = i1
    i2 = i2
    i3 = i3
    j1 = j1
    j2 = j2
    Workers <- TwoWorkers
    CatIds <- ThreeIds
    CatNames <- TwoIds
    MaxLines = 1
    Txs = {"tx"}
    Amounts = {1}
    LastDay = 2
    Files <- TwoIds
    Logos = {"logo"}
    Covers = {"cover"}
    Quotes = {"quote"}
    Invoices = {"invoice"}
    Media = {"media"}
    Lines <- ThreeIds
    Offers <- TwoIds
    MaxDecisions = 2
    MaxStock = 2
    MaxMoves = 3
    Milestones = {"m"}
    Costs = {1, 2}
    MaxBudget = 2
    MaxPosts = 3
    MaxFolders = 3
    MaxDocs = 2
    MaxPapers = 4
    MaxStamp = 3
    MaxNotes = 1
    TenantIds = {"default", "second"}
    Default = "default"
    TenantNames <- ThreeIds
    Slugs = {1, 2, 3}
    LegacyRoles = {"role"}
    Attempts = 2
SYMMETRY Interchangeable
INVARIANTS MismatchOnlyByRace StatementAddsUp DanglesOnlyInFlight
    CompletePricesEveryLine SumsLostOnlyByRace
    LoopsOnlyByRace MissedOnlyByChange LateOnlyByRace RolelessOnlyByCrash
PROPERTIES SettledOnlyByRace RefusedLateOnlyByRace
CHECK_DEADLOCK FALSE
