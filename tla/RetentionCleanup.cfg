CONSTANTS
    e1 = e1
    e2 = e2
    e3 = e3
    e4 = e4
    a1 = a1
    a2 = a2
    a3 = a3
    o1 = o1
    Events = {e1, e2, e3, e4}
    Attempts = {a1, a2, a3}
    Others = {o1}
    Owner <- MCOwner
    Expired <- MCExpired
    PolicyTables <- MCPolicyTables
    Selections <- MCSelections
    MaxUpdates = 1
    Invokers = {i1, i2}
    BatchSize = 1
    MaxBatches = 2
    MaxFaults = 1
    MaxCancels = 1
SPECIFICATION FairSpec
CHECK_DEADLOCK FALSE
INVARIANTS
    UnexpiredKept
    CountersAgree
    CompletedIsClean
PROPERTIES
    CleanupEnds
