SPECIFICATION Spec
CONSTANTS
    Threshold = 1
    AnyProbe = 5
    NumKeys = 2
    Requests = {r1, r2}
    NoRequest = NoRequest
    NumClients = 5
    DisableRetries = FALSE
    HasBreaker = FALSE
    Workloads <- Borrowers
SYMMETRY RequestSymmetry
INVARIANTS
    ReferencesCounted
    ClosedWithItsLastUser
    BlamesItsOwnKey
