SPECIFICATION Spec
CONSTANTS
    a = a
    b = b
    c = c
    Segment = {a, b}
    Empty = Empty
    NoPacket = NoPacket
    File <- MCFile1
    SenderWindow = 2
    ReceiverWindow = 2
    CacheSize = 3
    StartSeq = 5
    StartAckOnce = FALSE
CHECK_DEADLOCK FALSE
INVARIANT SentMeansWritten
