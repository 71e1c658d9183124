SPECIFICATION FairSpec
CONSTANTS
    Private4 = {11, 12, 21, 22}
    Public4 = {31, 41}
    Global6 = {51, 52, 53, 54, 55, 56}
    ListenPort = 4
    MaxPort = 8
    MaxCandidates = 6
    MaxProbe = 3
    Hosts <- SomeHosts
    Places <- SomePlaces
    MaxMoves = 2
    None = None
INVARIANTS
    TypeOK
    OffersAccepted
    ObservedIsProbed
PROPERTIES
    ProbesSettle
CHECK_DEADLOCK FALSE
