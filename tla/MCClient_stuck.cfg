SPECIFICATION FairSpec
CONSTANTS
    k1 = k1
    e1 = e1
    e2 = e2
    Servers <- OneServer
    Endpoints <- TwoEndpoints
    CandidateLists <- TwoLists
    Host6 <- OnlyE2
    Global6 <- OnlyE2
    Instances = {"none", "a", "b"}
    Announceable <- TwoAnnouncements
    NoInstance = "none"
    OwnIPv6 = {TRUE}
    Slots = {1, 2}
    MaxHandshake = 1
    MaxChanges = 1
    MaxFaults = 1
    NoState = NoState
    NoPeer = NoPeer
    NoEndpoint = NoEndpoint
    NoWorker = NoWorker
PROPERTY
    ProbeConcludes
CHECK_DEADLOCK FALSE
