SPECIFICATION FairSpec
CHECK_DEADLOCK FALSE
CONSTANTS
    c1 = c1
    c2 = c2
    f = f
    a = a
    b = b
    Client = {c1, c2}
    Name = {f}
    Byte = {a, b}
    NoFile = NoFile
    HeaderLen = 2
    ListLen = 2
    MAXFILELEN = 3
    MaxCrash = 1
    MaxConn = 2
    Patient = TRUE
    ServerFiles <- MCServerFiles
    ClientFiles <- MCClientFiles
INVARIANTS
    TypeOK
    InSync
    AuthBeforeService
    SpinsOnlyForTheGone
    IInv
PROPERTIES
    PutIsWhole
    GetIsWhole
    CommandReturns
