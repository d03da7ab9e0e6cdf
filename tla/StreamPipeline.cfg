SPECIFICATION Spec
CONSTANTS
    Providers = {"anthropic", "openai", "responses", "gemini"}
    Turns <- MCTurns
    BlockIDs <- MCBlockIDs
    ArgsFragments = 2
    TextFragments = 2
    InputLimits = {3, 6}
    MaxFaults = 2
INVARIANTS
    StreamedAsCompleted
    TruncationIsAnError
    ArgsNeverSpliced
    BuffersBounded
    BoundariesNest
    BrokenTurnKeepsItsCost
CHECK_DEADLOCK FALSE
