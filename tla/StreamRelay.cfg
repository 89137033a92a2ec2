CONSTANTS
    Chunks <- MixedChunks
    Protocols = {"chat", "other"}
    Timers = {"heartbeat", "first", "idle", "total"}
    FrameLimit = 6
    MaxChoices = 2
SPECIFICATION FairRelaySpec
CHECK_DEADLOCK FALSE
INVARIANTS
    TrackersAgree
    VerdictFaithful
PROPERTIES
    StreamsEnd
