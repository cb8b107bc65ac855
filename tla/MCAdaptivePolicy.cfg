SPECIFICATION PolicySpec
CONSTANTS
    LightMode = TRUE
    BaseTimeout = 120
    TimeoutCap = 3600
    PlannerTimeout = 720
    ExtractTimeout = 2700
    PlannerCap = 360
    ExtractCap = 1200
    Window = 4
    MaxRuns = 6
INVARIANTS
    PressureCaps
PROPERTIES
    FailureNeverShrinks
CHECK_DEADLOCK FALSE
