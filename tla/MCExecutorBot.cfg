\* The bot: one caller at a time.
SPECIFICATION FairSpec
CONSTANTS
    s1 = s1
    s2 = s2
    s3 = s3
    Callers = {bot}
    FailureThreshold = 2
    WindowSeconds = 3
    CooldownSeconds = 0
    MaxClock = 3
    MaxFailures = 3
    Signals = {s1, s2, s3}
    Direction <- MCDirection
    Size <- MCSize
    Created <- MCCreated
    Sound = {s1, s2, s3}
    Quoted = {s1, s2, s3}
    SignalTtl = 1
    ReplayTtl = 2
    LotSize = 2
    MinOrder = 2
    MinFillPercent = 99
    Slippage = 1
INVARIANTS
    TypeOK
    NeverOverbooked
    DoneIsBooked
    OpenPositionsAreReported
    NoCallerRepeats
PROPERTIES
    ExecuteReturns
    BreakerSpec
CHECK_DEADLOCK FALSE
