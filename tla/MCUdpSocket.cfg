\* Safety and liveness, with calls that fail.
CONSTANTS
    p1 = p1
    p2 = p2
    Socket = Socket
    Packets = {p1, p2}
    MaxIncoming = 2
    MaxOutgoing = 2
    SendBuffer = 2
    IoErrors = TRUE
SPECIFICATION FairSpec
CHECK_DEADLOCK FALSE
INVARIANTS
    TypeOK
    InterestMatchesQueue
PROPERTIES
    UsesRegistryProperly
    ImplementsPort
    PortIsLive
