SPECIFICATION Spec
CONSTANTS
    Mac = {h1, h2, h3}
    NoMac = NoMac
    PortNum = 3
    TableSize = 2
    MaxLife = 3
INVARIANT TypeOK
INVARIANT OneEntryPerMac
INVARIANT UsedMeansAlive
PROPERTY ImplementsForwarding
