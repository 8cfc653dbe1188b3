SPECIFICATION Spec
CONSTANTS
    Starts = {a, b}
    Closes = {k}
    None = None
    Configs <- MCPlain
CHECK_DEADLOCK FALSE
INVARIANTS
    OnlyCloseStops
