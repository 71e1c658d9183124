SPECIFICATION FairSpec
CONSTANTS
    c1 = c1
    c2 = c2
    s1 = s1
    t1 = t1
    t2 = t2
    x = x
    y = y
    Initiators <- OneClient
    Servers <- OneServer
    Address <- Addresses
    Candidates <- TwoLists
    Threads <- Threads2
    MaxFaults = 2
    AgentsForget = TRUE
    NoCandidates = NoCandidates
    NoSession = NoSession
    NoRequest = NoRequest
    NoThread = NoThread
PROPERTIES
    Convergence
    GoneIsForgotten
