CONSTANTS
    Observers = {o1, o2}
    Cooldown = 1
    MaxCooldown = 2
    StaleAfter = 3
    FailureThreshold = 2
    FailureWindow = 3
    CountMax = 3
    MaxTime = 5
SYMMETRY Symmetry
SPECIFICATION HistorySpec
INVARIANTS
    RowConsistent
    BreakerHasEvidence
PROPERTIES
    ActiveCooldownStable
