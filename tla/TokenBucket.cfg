\* Scripts delayed by a tick, hosts ahead by a tick; the limiter fails closed.
CONSTANTS
    Callers = {c1, c2}
    root = root
    protected = protected
    None = None
    Routes <- OneRoute
    Watched = root
    Capacity <- OneCapacity
    RateNum <- OneRate
    Window <- OneWindow
    RateDen = 3
    Sec = 2
    SkipIfRedisDown = FALSE
    MaxBehind = 0
    MaxAhead = 1
    MaxDelay = 1
    MaxClock = 8
    MaxAdmitted = 1
SPECIFICATION Spec
SYMMETRY CallerSymmetry
INVARIANTS TypeOK IInv AdmissionBound SpendBound RetryHonoured
PROPERTIES BurstAllowed SteadyServed ImplementsRateBucket
