SPECIFICATION RepeatSpec
CONSTANTS
    a = a
    Segment = {a}
    Empty = Empty
    NoPacket = NoPacket
    File <- MCFile
    SenderWindow = 2
    ReceiverWindow = 2
    CacheSize = 3
    Transfers = 2
    StartSeq = 5
    StartAckOnce = TRUE
CHECK_DEADLOCK FALSE
INVARIANT SentMeansWritten
