SPECIFICATION Spec
CONSTANTS
    c1 = c1
    c2 = c2
    s1 = s1
    t1 = t1
    t2 = t2
    x = x
    y = y
    Initiators <- AllNodes
    Servers <- OneServer
    Address <- Addresses
    Candidates <- OneList
    Threads <- Threads2
    MaxFaults = 1
    AgentsForget = FALSE
    NoCandidates = NoCandidates
    NoSession = NoSession
    NoRequest = NoRequest
    NoThread = NoThread
INVARIANTS
    TypeOK
    AwaitedOffersAreNew
    AckedIsHeld
PROPERTIES
    ImplementsRegistry
    AnswersStay
SYMMETRY Symmetry
