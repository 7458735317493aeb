\* The refill of two tokens a tick does not divide the heavy weight.
SPECIFICATION Spec
CONSTANTS
    t1 = t1
    t2 = t2
    Tasks = {t1, t2}
    Capacity = 5
    Rate = 2
    Weights = {1, 4}
    Delay = 1
    Timeout = 1
    Counts = {3, 6}
    MaxClock = 4
    MaxGranted = 9
INVARIANTS
    TypeOK
    SpanBounded
    HeaderRespected
PROPERTIES
    OneSleepSuffices
SYMMETRY TaskSymmetry
CHECK_DEADLOCK FALSE
