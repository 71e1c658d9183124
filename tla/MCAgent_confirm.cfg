SPECIFICATION Spec
CONSTANTS
    k1 = k1
    e1 = e1
    e2 = e2
    Keys <- OneKey
    Endpoints <- OneEndpoint
    CandidateLists <- OneList
    Host6 <- OneEndpoint
    Instances = {"none", "a"}
    NoInstance = "none"
    Controllers = {"responder", "initiator"}
    WgOutcomes = {"done"}
    SaveOutcomes = {TRUE}
    MayRestart = FALSE
    MaxSession = 1
    MaxGeneration = 3
    MaxHandshake = 2
    NoState = NoState
    NoPeer = NoPeer
    NoEndpoint = NoEndpoint
INVARIANTS
    SingleActor
PROPERTIES
    StaleWorkerInert
    HealthyDirectSurvives
CHECK_DEADLOCK FALSE
