\* Two requests at a time; no symmetry, for the sake of liveness.
SPECIFICATION TenancySpec
CONSTANTS
    w1 = w1
    w2 = w2
    Workers <- TwoWorkers
    Invites = {"first", "second"}
    Condos = {"condo"}
    Emails = {"address"}
    TTL = 1
    MaxTime = 2
    MaxReplies = 2
    MaxRuns = 2
    MaxDay = 1
INVARIANTS TwoLiveOnlyByRace SeenUnshownOnlyByRace TwinsOnlyByOverlapOrDay
    CutShortOnlyByOthers
PROPERTIES SingleUse EveryRequestAnswered
CHECK_DEADLOCK FALSE
