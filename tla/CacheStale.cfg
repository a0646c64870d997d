\* Fills race updates, invalidations, expiries and clears; every call returns.
CONSTANTS
    Procs = {p1, p2}
    MaxRetries = 2
    Namespaced = FALSE
    NullVersions <- FirstVersion
    MaxVersion = 1
    Events <- AllEvents
    MaxFaults = 2
    None = None
SPECIFICATION FairSpec
INVARIANTS StaleOnlyByRace
PROPERTIES EveryCallReturns CallsWindDown
