SPECIFICATION Spec
CONSTANTS
    pepe = pepe
    weth = weth
    MaxTradeUsd = 2
    MaxTradePct = 50
    MaxDailyLoss = 2
    MaxDrawdownPct = 30
    MaxTradesPerHour = 3
    ConsecutiveLossLimit = 2
    AbsoluteMaxTradeUsd = 4
    AbsoluteMaxDailyLoss = 4
    AbsoluteMinCapital = 6
    AbsoluteMaxTradesPerHour = 6
    ErrorLimit = 0
    InitialCapital = 7
    Bases = {pepe}
    Aliased = {}
    TradeValues = {2, 3}
    Gains = {1}
    Losses = {1, 2}
    WorstLoss = 2
    CheckEvery = 1
    MaxCapital = 9
    MaxHeld = 1
INVARIANTS
    KilledMeansHalted
