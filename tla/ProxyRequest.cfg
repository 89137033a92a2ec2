CONSTANTS
    Lines <- FourLines
    MaxRetries = 2
    NoLimit <- Unlimited
    HasTotal = TRUE
SPECIFICATION Spec
CHECK_DEADLOCK FALSE
INVARIANTS
    AttemptDiscipline
    
    NoEarlyGiveUp
