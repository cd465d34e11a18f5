SPECIFICATION FairSpec
CHECK_DEADLOCK FALSE
CONSTANTS
    c1 = c1
    c2 = c2
    f = f
    a = a
    b = b
    Client = {c1, c2}
    Name = {f}
    Byte = {a, b}
    NoFile = NoFile
    HeaderLen = 2
    ListLen = 1
    MAXFILELEN = 3
    MaxCrash = 0
    MaxConn = 1
    Patient = FALSE
    ServerFiles <- MCServerFiles
    ClientFiles <- MCClientFiles
PROPERTIES
    CommandReturns
