CONSTANTS
    Chunks <- EndlessChunks
    Protocols = {"chat", "other"}
    Timers = {"heartbeat", "first", "idle", "total"}
    FrameLimit = 8
    MaxChoices = 2
SPECIFICATION RelaySpec
CHECK_DEADLOCK FALSE
INVARIANTS
    FailureIsNotSuccess
