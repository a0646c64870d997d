\* The lock under everything that may happen to it.
CONSTANTS
    Procs = {p1, p2, p3}
    MaxRetries = 2
    Namespaced = FALSE
    NullVersions <- NoVersions
    MaxVersion = 0
    Events <- LockEvents
    MaxFaults = 3
    None = None
SPECIFICATION Spec
SYMMETRY CallSymmetry
INVARIANTS TypeOK SingleFlight HolderAtWork LockIsOwn LoaderAlone
PROPERTIES NoRefetch LeavesForCause
