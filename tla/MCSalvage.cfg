SPECIFICATION Spec
CONSTANTS
    Prices <- MCPrices
    NoPrice = NoPrice
    WallClockCaps = {0, 150}
    SalvageEnabled = TRUE
    SalvageOnLow = TRUE
    MinRank = 2
    StopRank = 3
    MaxAttempts = 3
    RouteMissAttempts = 2
    SkipAfter = 1800
    SalvageTimeout = 60
    CandidateTimeout = 400
    StartTimes <- MCStartTimes
    Durations = {20, 70, 150}
INVARIANTS
    BestPublished
    PricedPrimaryKept
    OneOverrun
