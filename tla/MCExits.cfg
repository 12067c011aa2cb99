SPECIFICATION ExitsSpec
CONSTANTS
    Pump = Pump
    Slots <- MCSlots
    TokenA = TokenA
    Mints <- MCMints
    Mint <- MCMint
    PumpSlots <- MCSlots
    Keys = {"pool"}
    TakeProfit = 2
    StopLoss = 2
    Buy = 2
    Tip = 1
    SpendCap = 5
    MaxPolls = 2
    MaxSales = 2
    MaxLosses = 2
    MaxDrawdown = 2
    Window = 1
    Cooldown = 1
    Pnls <- MCPnls
    Budget = 6
    MaxRps = 1
    MaxDrawdownPct = 1
    OmegaCooldown = 1
    EquityScale = 50
INVARIANTS OpenPositionsWithinBand
CHECK_DEADLOCK FALSE
