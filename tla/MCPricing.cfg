SPECIFICATION FairSpec
CONSTANTS
    weth = weth
    usdt = usdt
    pepe = pepe
    wu = wu
    up = up
    pw = pw
    v3 = v3
    FeeBps = 30
    FeePips = 3000
    Q96 = 512
    U128 = 4096
    U256 = 16777216
    MinSqrt = 8
    MaxSqrt = 4095
    Tokens = {weth, usdt, pepe}
    Weth = weth
    InitialChain <- MCInitialChain
    LoadList <- MCLoadList
    Canonical = {wu, up, pw}
    Amounts = {20}
    GasUnit = 1
    ChainAmounts = {90}
    V3Prices = {384, 512}
    V3Liquidities = {0, 63, 80}
    MaxMoves = 2
    AmountBound = 48
INVARIANTS
    TypeOK
    FreshQuotesAreExact
    ReportedLoopsAreTriangles
PROPERTIES
    CallsReturn
CHECK_DEADLOCK FALSE
