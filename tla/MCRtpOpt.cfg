SPECIFICATION Spec
CONSTANTS
    a = a
    b = b
    c = c
    Segment = {a, b, c}
    Empty = Empty
    NoPacket = NoPacket
    File <- MCFile3
    SenderWindow = 2
    ReceiverWindow = 2
    CacheSize = 5
    AckedSize = 5
    StartSeq = 7
    StartAckOnce = TRUE
CHECK_DEADLOCK FALSE
INVARIANT TypeOK
INVARIANT SentMeansHeld
INVARIANT PacketsFitCache
INVARIANT AckedMeansHeld
INVARIANT AckIndexInBounds
INVARIANT IInv
PROPERTY ConfirmedNeverResent
PROPERTY ImplementsCachedTransfer
