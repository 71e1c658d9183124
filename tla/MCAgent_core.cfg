SPECIFICATION Spec
CONSTANTS
    k1 = k1
    e1 = e1
    e2 = e2
    Keys <- OneKey
    Endpoints <- TwoEndpoints
    CandidateLists <- SingleLists
    Host6 = {}
    Instances = {"none"}
    NoInstance = "none"
    Controllers = {"responder"}
    WgOutcomes = {"done"}
    SaveOutcomes = {TRUE}
    MayRestart = FALSE
    MaxSession = 2
    MaxGeneration = 3
    MaxHandshake = 2
    NoState = NoState
    NoPeer = NoPeer
    NoEndpoint = NoEndpoint
INVARIANTS
    TypeOK
    GenerationsFence
    DirectMatchesKernel
    ExpiredKeptForDirect
SYMMETRY Symmetry
CHECK_DEADLOCK FALSE
