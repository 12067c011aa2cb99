SPECIFICATION QuietSpec
CONSTANTS
    Pump = Pump
    Pool = Pool
    Slots <- MCSlots
    TokenA = TokenA
    TokenB = TokenB
    Mints <- MCMints
    Mint <- MCMint
    PumpSlots <- MCPumpSlots
    Keys = {"position"}
    TakeProfit = 2
    StopLoss = 2
    Buy = 2
    Tip = 1
    SpendCap = 5
    MaxPolls = 2
    MaxSales = 1
    MaxLosses = 2
    MaxDrawdown = 2
    Window = 1
    Cooldown = 1
    Pnls <- MCPnls
    Budget = 6
    MaxRps = 1
    MaxDrawdownPct = 1
    OmegaCooldown = 1
    EquityScale = 50
PROPERTIES HalfOpenProbes
CHECK_DEADLOCK FALSE
