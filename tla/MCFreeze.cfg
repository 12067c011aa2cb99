SPECIFICATION FreezeSpec
CONSTANTS
    FeedTokens <- MCTokens
    MaxSeen = 2
    Ttl = 1
    Window = 1
    MaxCreates = 1
    MaxCreators = 1
    Denylist = {}
    Allowlist = {"u2"}
    DefaultOnError = "Deny"
    DecodeOnError = "Allow"
    UriOnMissing = "Allow"
    SpendOnMissing = "Allow"
    RequireDecode = TRUE
    RequireUri = TRUE
    RequirePayer = TRUE
    NameLengths <- MCLengths
    SymbolLengths <- MCLengths
    AsciiOnly = TRUE
    DenyControls = TRUE
    MaxRun = 3
    AllowedHosts = {"ipfs"}
    MinSpend = 2
    Absent = Absent
    Horizon = 2
    MaxEvaluations = 4
    Mints = {"m1", "m2"}
    Adders = {a1, a2}
    Torn = Torn
    Pools <- MCPools
    FailureSets <- MCFailureSets
    RequireMintRevoked = TRUE
    RequireFreezeRevoked = TRUE
    MaxTop10 = 30
    MinLiquidity = 5
    HoneypotScore = 8000
    Ids = {p1, p2}
    PoolIds = {pool}
    Gains <- MCGains
    Infinite = Infinite
    Undefined = Undefined
    TakeProfit = 2
    StopLoss = 2
    LastDay = 1
    MaxTrades = 3
INVARIANTS SafeIsUnfreezable
CHECK_DEADLOCK FALSE
