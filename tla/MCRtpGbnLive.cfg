SPECIFICATION FairSpec
CONSTANTS
    a = a
    b = b
    c = c
    Segment = {a, b}
    Empty = Empty
    NoPacket = NoPacket
    File <- MCFile1
    SenderWindow = 2
    ReceiverWindow = 2
    CacheSize = 3
    StartSeq = 7
    StartAckOnce = TRUE
CHECK_DEADLOCK FALSE
PROPERTY SenderFinishes
PROPERTY ReceiverReturns
