SPECIFICATION FairSpec
CONSTANTS
    s1 = s1
    s2 = s2
    s3 = s3
    h1 = h1
    h2 = h2
    h3 = h3
    Node = {s1, s2, s3}
    Mac = {h1, h2, h3}
    Port = {2, 3, 4}
    Peer <- MCPeer
    Home <- MCHome
    MaxLife = 2
    MaxFrames = 2
INVARIANT TypeOK
INVARIANT EntriesPointHome
INVARIANT IInv
INVARIANT NeverEchoed
INVARIANT AtMostOnce
PROPERTY Delivered
