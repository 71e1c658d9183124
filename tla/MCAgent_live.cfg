SPECIFICATION FairSpec
CONSTANTS
    k1 = k1
    e1 = e1
    e2 = e2
    Keys <- OneKey
    Endpoints <- OneEndpoint
    CandidateLists <- OneList
    Host6 <- OneEndpoint
    Instances = {"none"}
    NoInstance = "none"
    Controllers = {"responder"}
    WgOutcomes = {"done", "failed", "timedout"}
    SaveOutcomes = {TRUE}
    MayRestart = FALSE
    MaxSession = 1
    MaxGeneration = 2
    MaxHandshake = 2
    NoState = NoState
    NoPeer = NoPeer
    NoEndpoint = NoEndpoint
INVARIANTS
    RunningHasWorker
PROPERTIES
    WorkersFinish
    LeaseOverIsNoticed
CHECK_DEADLOCK FALSE
