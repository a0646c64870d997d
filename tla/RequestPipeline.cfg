\* Requests, probes and a shutdown while Redis goes down, errs and comes back.
CONSTANTS
    protected = protected
    logout = logout
    Calls <- Routes
    Probes = {health}
    Limited <- LimitedRoutes
    Guarded <- GuardedRoutes
    Keyed <- KeyedRoutes
    MaxRetriesPerRequest = 3
    ServerStates = {"up", "down", "erring"}
    MaxChanges = 2
SPECIFICATION PipeSpec
INVARIANTS PipeTypeOK FlagSound LimitHonoured
PROPERTIES Spec RequestsAnswered Drains FlagRecovers
