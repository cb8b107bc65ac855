SPECIFICATION Spec
CONSTANTS
    TabUrls <- MCTabUrls
    NavUrls <- MCNavUrls
    Pages <- MCPages
    Settings <- MCSettings
    Overrides <- MCOverrides
    EnvMoves = 3
    Calls = 2
    Duration = 3
    Extension = 2
    Rounds = 1
    Checks = 3
    ManyActs = 2
    GraceTime = 3
    Hold = 2
    Settle = 1
    VisionTime = 2
INVARIANTS
    PrimarySpared ClearedMeansStable TimeIsCharged CountedOnce  GraceBounded
PROPERTIES
    ComesBack
