SPECIFICATION FairSpec
CONSTANTS
    k1 = k1
    e1 = e1
    e2 = e2
    Keys <- OneKey
    Endpoints <- TwoEndpoints
    CandidateLists <- LongLists
    Host6 = {}
    Instances = {"none"}
    NoInstance = "none"
    Controllers = {"responder"}
    WgOutcomes = {"done", "failed", "timedout"}
    SaveOutcomes = {TRUE, FALSE}
    MayRestart = TRUE
    MaxSession = 1
    MaxGeneration = 2
    MaxHandshake = 2
    NoState = NoState
    NoPeer = NoPeer
    NoEndpoint = NoEndpoint
INVARIANTS
    NoOrphanRoute
PROPERTIES
    StaleDirectFallsBack
CHECK_DEADLOCK FALSE
