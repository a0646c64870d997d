\* Half a request leaks in a tick; samples are delayed and skewed; fails open.
CONSTANTS
    Callers = {c1, c2}
    Route = root
    None = None
    Capacity = 2
    LeakNum = 1
    LeakDen = 1
    Window = 2
    Sec = 2
    SkipIfRedisDown = TRUE
    MaxBehind = 1
    MaxAhead = 0
    MaxDelay = 1
    MaxClock = 5
    MaxAdmitted = 1
SPECIFICATION Spec
INVARIANTS TypeOK
PROPERTIES ImplementsTokenBucket
