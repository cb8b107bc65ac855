SPECIFICATION Spec
CONSTANTS
    MaxAge <- MCMaxAge
    MaxRows <- MCMaxRows
    MinRows <- MCMinRows
    MaxBytes = 3
    MinChunk = 2
    Share = 2
    MaxTime = 3
    MaxInserts <- MCMaxInserts
INVARIANTS
    RecentKept
