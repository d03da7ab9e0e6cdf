SPECIFICATION Spec
CONSTANTS
    Threshold = 1
    AnyProbe = 4
    NumKeys = 1
    Requests = {r1, r2}
    NoRequest = NoRequest
    NumClients = 4
    DisableRetries = FALSE
    HasBreaker = TRUE
    Workloads <- ChatCalls
SYMMETRY RequestSymmetry
INVARIANTS
    ProbeNotStranded
PROPERTIES
    VerdictsFitTheirCause
    DrivesBreaker
