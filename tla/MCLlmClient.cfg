SPECIFICATION FairSpec
CONSTANTS
    Models = {m1, m2}
    ConnectTimeout = 2
    TotalTimeout = 8
    Budgets = {4, 9}
    CallCap = 0
    OpenFor = 3
    StallAbort = TRUE
    MaxTime = 11
INVARIANTS
    QuarantineKept
PROPERTIES
    EveryEndpointAsked
    CallsEnd
