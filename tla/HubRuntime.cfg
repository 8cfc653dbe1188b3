SPECIFICATION FairSpec
CONSTANTS
    ServerTimeout = 2
    KeepAlive = 1
    MaxFrames = 1
    MaxSends = 1
CHECK_DEADLOCK FALSE
INVARIANTS
    DroppedMeansDropped
PROPERTIES
    TimeoutMeansSilence
    EndReported
    TasksEnd
