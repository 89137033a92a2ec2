SPECIFICATION LedgerSpec
CONSTANTS
    Requests = {1, 2}
    Frames <- MCFrames
    Bodies <- MCBodies
    Filters <- MCFilters
    None = None
    NotInt = NotInt
    TotalTimeout = 2
    ConnectionTimeout = 1
    EstimatedInput = 3
    EstimatedOutput = 1
    PageSize = 1
    ExportLimit = 1
    BucketSize = 2
    MaxAttempts = 2
    MaxFrames = 2
    MaxClock = 2
    MaxTries = 2
    MaxUpstream = 1
INVARIANTS LedgerTruthful WalksSeeEachRowOnce 
PROPERTY WithinTotalTime
CHECK_DEADLOCK FALSE
