SPECIFICATION FairSpec
CONSTANTS
    Threshold = 1
    AnyProbe = 5
    NumKeys = 1
    Requests = {r1, r2}
    NoRequest = NoRequest
    NumClients = 4
    DisableRetries = FALSE
    HasBreaker = FALSE
    Workloads <- RetriedCalls
PROPERTIES
    CallsReturn
    ClosedPoolDrains
