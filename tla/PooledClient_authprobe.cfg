SPECIFICATION Spec
CONSTANTS
    Threshold = 1
    AnyProbe = 5
    NumKeys = 2
    Requests = {r1, r2}
    NoRequest = NoRequest
    NumClients = 4
    DisableRetries = FALSE
    HasBreaker = TRUE
    Workloads <- RevokedKeys
SYMMETRY RequestSymmetry
INVARIANTS
    ProbeNotStranded
