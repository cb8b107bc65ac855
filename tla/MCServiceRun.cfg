SPECIFICATION Spec
CONSTANTS
    Selected <- MCSelected
    Trips = 2
    Prices = {400}
    NoPrice = 0
    DebugMode = TRUE
INVARIANTS
    ReportsAreStored
    NothingLeftBehind
PROPERTIES
    ImplementsLedger
CHECK_DEADLOCK FALSE
