SPECIFICATION Spec
CHECK_DEADLOCK FALSE
CONSTANTS
    Resolutions <- MCResolutions
    MaxChunks = 2
    Users = {u1, u2, u3}
    Intervals = {0, 1, 2, 9}
    Expiries = {0, 2, 12, 40}
    DefaultInterval = 2
    MaxInterval = 6
    SlowDown = 2
    MaxExpiry = 24
    MaxPolls = 6
INVARIANTS
    LosersClosed
    CutIsNamed
    ClosedSessionIsOver
PROPERTIES
    PollsObeyTheServer
    ReachableIsReached
    WaitsEnd
