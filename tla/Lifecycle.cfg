SPECIFICATION FairSpec
CONSTANTS
    Starts = {a, b}
    Closes = {k, l}
    None = None
    Configs <- MCConfigs
CHECK_DEADLOCK FALSE
INVARIANTS
    ClosedMeansClosed
    StartYieldsToClose
    
PROPERTIES
    CallbacksInOrder
    CloseReturns
    CloseReported
