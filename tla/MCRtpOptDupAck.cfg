SPECIFICATION Spec
CONSTANTS
    a = a
    b = b
    c = c
    AckedSize = 4
    Segment = {a, b, c}
    Empty = Empty
    NoPacket = NoPacket
    File <- MCFile1
    SenderWindow = 2
    ReceiverWindow = 2
    CacheSize = 3
    StartSeq = 5
    StartAckOnce = FALSE
CHECK_DEADLOCK FALSE
INVARIANT AckIndexInBounds
