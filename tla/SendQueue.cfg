SPECIFICATION FairSpec
CONSTANTS
    Sends = {s1, s2, s3}
    Binary = {s3}
    Stops = {p1, p2}
    Shutdown = Shutdown
CHECK_DEADLOCK FALSE
INVARIANTS
    UniformBuffer
    WrittenInOrder
    AnswersMatchWire
    NoLostResponse
    StopJoinsWorker
PROPERTIES
    EverySendAnswered
