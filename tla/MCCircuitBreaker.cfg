SPECIFICATION FairSpec
CONSTANTS
    Callers = {c1, c2}
    FailureThreshold = 2
    WindowSeconds = 3
    CooldownSeconds = 2
    MaxClock = 6
    MaxFailures = 6
INVARIANTS
    TypeOK
    TripsExactlyOnBurst
    FailureRateBounded
PROPERTIES
    CooldownHonoured
    Recovers
CHECK_DEADLOCK FALSE
