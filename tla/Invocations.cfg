SPECIFICATION FairSpec
CONSTANTS
    Invokes = {a}
    Streams = {s}
    None = None
    MaxIds = 2
    Configs <- MCConfigs
CHECK_DEADLOCK FALSE
INVARIANTS
    RightUnlessResumed
    OnlyOwnEnd
PROPERTIES
    CallsEnd
