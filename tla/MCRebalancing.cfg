SPECIFICATION Spec
CONSTANTS
    usdt = usdt
    usdc = usdc
    weth = weth
    Assets = {usdt, usdc, weth}
    TransferAssets = {usdt, usdc}
    WithdrawalFee <- MCFee
    MinWithdrawal <- MCMinWithdrawal
    MinOperating <- MCMinOperating
    SafetyBuffer = 5
    MinRatio = 3
    TriggerSize = 20
    WethAsset = weth
    KnownTokens = {usdt, usdc, weth}
    PairPools <- MCPairPools
    Transactions <- MCTransactions
    TickPrices = {2, 3}
    TradeAmounts <- MCTradeAmounts
    InitialFunds <- MCFunds
    MaxTrades = 1
    MaxPending = 1
    MaxPlans = 2
    FeeBps = 30
    FeePips = 3000
    Q96 = 512
    U128 = 4096
    U256 = 16777216
    MinSqrt = 8
    MaxSqrt = 4095
INVARIANTS
    OperatingBalanceKept
    OnePlanSettles
    TriggeredPlansPay
CHECK_DEADLOCK FALSE
