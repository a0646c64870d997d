\* "/" and "/protected" share the bucket of one identifier.
CONSTANTS
    Callers = {c1, c2}
    root = root
    protected = protected
    None = None
    Routes <- TwoRoutes
    Watched = protected
    Capacity <- TwoCapacity
    RateNum <- TwoRate
    Window <- TwoWindow
    RateDen = 1
    Sec = 2
    SkipIfRedisDown = FALSE
    MaxBehind = 0
    MaxAhead = 0
    MaxDelay = 0
    MaxClock = 8
    MaxAdmitted = 3
SPECIFICATION Spec
SYMMETRY CallerSymmetry
INVARIANTS AdmissionBound
