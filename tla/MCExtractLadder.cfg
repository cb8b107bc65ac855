SPECIFICATION Spec
CONSTANTS
    Settings <- MCSettings
    Pages <- MCPages
    TextOpinions <- MCTextOpinions
    VisionOpinions <- MCVisionOpinions
    Variants = 2
    TokenRetries = 1
INVARIANTS
    StrongPricesOnly
    MisboundNeverPriced
    DoubtedPriceNeedsRoute
    LadderNeverLate
PROPERTIES
    NotPaidAgain
    Answers
