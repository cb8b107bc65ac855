SPECIFICATION WatchSpec
CONSTANTS
    Prices = {90, 100, 120}
    NoPrice = 0
    Cooldown = 2
    Direction = "drop"
    MinAbsolute = 5
    MinPercent = 15
    Target = 90
    OnFirst = TRUE
    OnMissing = FALSE
    RunBound = 3
    LastTime = 4
INVARIANTS
    ComparesWithLast
    PriceAlertsSpaced
    QualifyingChangeNoticed
CHECK_DEADLOCK FALSE
