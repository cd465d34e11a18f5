SPECIFICATION Spec
CONSTANTS
    a = a
    b = b
    c = c
    Segment = {a, b, c}
    Empty = Empty
    NoPacket = NoPacket
    File <- MCFile3
    SenderWindow = 3
    ReceiverWindow = 2
    CacheSize = 6
    StartSeq = 1
    StartAckOnce = TRUE
CHECK_DEADLOCK FALSE
INVARIANT CommonTypeOK
INVARIANT OutputIsFile
INVARIANT SentMeansWritten
INVARIANT CleanClose
INVARIANT PacketsFitCache
INVARIANT WindowRespected
INVARIANT AcksAreWritten
INVARIANT TimerGuards
INVARIANT IInv
PROPERTY ImplementsTransfer
