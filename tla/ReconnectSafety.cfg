SPECIFICATION FairSpec
CONSTANTS
    Senders = {s1}
    Size <- MCSize
    BufferSize = 2
    Asks = {}
    MaxOut = 3
    MaxIn = 1
    MaxDrops = 2
CHECK_DEADLOCK FALSE
INVARIANTS
    NothingLost
    SequenceAccepted
    BytesExact
    HeldOnlyWhenFull
PROPERTIES
    UpstreamReliable
    DownstreamReliable
    DeliveredUp
