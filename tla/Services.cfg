SPECIFICATION FairSpec
CHECK_DEADLOCK FALSE
CONSTANTS
    NProcs = 3
    Releases = {r1, r2}
    None = None
    Empty = Empty
    Remote = Remote
INVARIANTS
    TypeOK
    SocketStands
PROPERTIES
    DiscoveredTokenWorks
    SchemasStand
    StopIsHonoured
