SPECIFICATION FairSpec
CONSTANTS
    Threshold = 2
    AnyProbe = 6
    c1 = c1
    c2 = c2
    c3 = c3
    d = d
    Callers <- MCCallers
    DirectCallers <- MCDirectCallers
    NoCaller = NoCaller
INVARIANTS
    ClosedBelowThreshold
    SingleProbe
PROPERTIES
    ImplementsLease
    AbandonedProbeReplaced
