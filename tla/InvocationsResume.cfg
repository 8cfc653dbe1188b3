SPECIFICATION Spec
CONSTANTS
    Invokes = {a, b}
    Streams = {}
    None = None
    MaxIds = 2
    Configs <- MCResumed
CHECK_DEADLOCK FALSE
INVARIANTS
    RightAnswer
