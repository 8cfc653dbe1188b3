SPECIFICATION Spec
CONSTANTS
    Senders = {s1, s2}
    Size <- MCSize
    BufferSize = 2
    Asks = {1}
    MaxOut = 2
    MaxIn = 3
    MaxDrops = 1
CHECK_DEADLOCK FALSE
INVARIANTS
    NeverBoth
PROPERTIES
    DownstreamUnlessTorn
