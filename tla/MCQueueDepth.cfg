SPECIFICATION SenderSpec
CONSTANTS
    Handlers <- MCHandlers
    StopLimit = 2
    MaxQueueDepth = 2
    StopAfter = 3
    BackoffBase = 1
    BackoffCap = 3
    NumEndpoints = 2
    MaxHealth = 2
    LimitedPenalty = 2
    ErrorPenalty = 1
    SuccessReward = 1
INVARIANTS QueueDepthIsCurrent
