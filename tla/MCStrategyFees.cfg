SPECIFICATION Spec
CONSTANTS
    Assets <- MCAssets
    PairOrder <- MCPairOrder
    BaseOf <- MCBaseOf
    QuoteOf <- MCQuoteOf
    PairConfig <- MCPairConfig
    GeneratorBase <- MCGeneratorBase
    DefaultFees <- MCDefaultFees
    Cooldown = 1
    TTL = 2
    MaxAge = 1
    MaxPosition = 100
    MaxSpread = 500
    Window = 2
    ResultsKept = 1
    ResultsTaken = 1
    ResultsNeeded = 1
    LowSpread = 30
    HighSpread = 100
    Weight <- MCWeight
    Quotes <- MCQuotes
    Holdings <- MCHoldings
    MaxClock = 3
INVARIANT TradesPayTheirFees
