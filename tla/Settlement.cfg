CONSTANTS
    Requests = {r1, r2, r3}
    Capacity = 2
    WriteLimit = 1
SPECIFICATION FairSpec
CHECK_DEADLOCK FALSE
INVARIANTS
    PermitsConserved
    NothingAfterStop
PROPERTIES
    DrainTerminates
    StreamsSettle
