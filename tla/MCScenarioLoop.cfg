SPECIFICATION Spec
CONSTANTS
    Settings <- MCSettings
    MaxAttempts = 2
    MaxTurns = 2
    EscalationMax = 1
    PxMax = 2
    ManualMax = 1
    CollabMax = 1
INVARIANTS
    ReadyAsJudged
    WorkEndsWithBudget
    RecoveriesBounded
PROPERTIES
    KeepsContract
CHECK_DEADLOCK FALSE
