SPECIFICATION FairSpec
CONSTANTS
    Sends = {s1, s2}
    Binary = {}
    Stops = {p1}
    Shutdown = Shutdown
CHECK_DEADLOCK FALSE
PROPERTIES
    StopReturns
