SPECIFICATION LoopSpec
CONSTANTS
    MaxCandidates = 3
    CandidateTimeout = 120
    RetryTimeout = 45
    RetryPatience = 120
    HardTimeouts = {FALSE, TRUE}
    Durations = {8, 40, 130}
INVARIANTS
    RootCauseNotHidden
    GivesUpOnlyWhenExhausted
    CallsBounded
    CostlyRetryNotRepeated
