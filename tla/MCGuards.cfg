SPECIFICATION MCSpec
CONSTANTS
    MaxLosses = 3
    MaxDrawdown = 4
    Window = 3
    Cooldown = 2
    TradeBound = 4
    Pnls <- MCPnls
    Budget = 4
    MaxRps = 2
    MaxDrawdownPct = 30
    OmegaCooldown = 2
    EquityScale = 50
    Costs = {2}
    Losses = {20, 100}
    Gains = {40}
    BleedBound = 260
    EquityBound = 240
    Callers = {c1}
    Priorities <- MCPriorities
    ErrorThreshold = 2
    MinSends = 100
    MaxCount = 5
    Windows <- MCWindows
    Handlers <- MCHandlers
    StopLimit = 2
    MaxQueueDepth = 2
    StopAfter = 3
    BackoffBase = 1
    BackoffCap = 3
    NumEndpoints = 2
    MaxHealth = 2
    LimitedPenalty = 2
    ErrorPenalty = 1
    SuccessReward = 1
    Clients = {t1, t2}
    None = None
    Scale = 2
    MaxTokens = 2
    RefillRate = 1
    Requests = {1, 2}
    LastMilli = 4
    Tasks = {b1, b2}
    Attempts = 2
    SendTime = 2
    Cooldowns = {3}
    MaxPlaces = 2
    MinLimit = 1
    MaxLimit = 2
INVARIANTS ClosedIsHealthy OmegaClosedIsHealthy BleedHalts SwitchFollowsMode DegradationShuts HistoryInv SenderInv RpcTypeOK GrantsWithinRate BundleInv
PROPERTIES RecoveryIsEarned OpenIsProbed PoolRecovers ReopeningIsEarned Reopens LastsUnlessRaced StopIsEarned BackoffIsKept StampedStopEnds
