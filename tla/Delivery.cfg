SPECIFICATION DeliverySpec
CONSTANTS
    MaxRetries = 2
    DisableRetries = FALSE
    RetryBudget = 13
    BaseDelay = 4
    MaxDelay = 8
    Factor = 2
    MaxRetryAfter = 5
    Backends = {"openai", "anthropic", "gemini"}
    Digests = {"d1", "d2"}
    PageSize = 1
    MaxPages = 2
    Hints = {0, 20}
    Deadlines <- MCDeadlines
    BigDigests = {"d2"}
    MaxJobs = 3
    MaxSubmits = 2
    MaxLate = 1
    Chains <- MCChains
    Policies = {"any", "transient"}
    MaxImages = 2
    Tokens = {0, 2}
    MaxInt = 3
INVARIANTS
    OneJobPerRecoveryKey
    RetriesKeepTheirTime
    ChargedOncePerDeployment
    CostsAreReported
    RejectedStaysHome
PROPERTIES
    ToldTheTruth
CHECK_DEADLOCK FALSE
