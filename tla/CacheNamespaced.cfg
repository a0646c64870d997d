\* getOrSet with options.namespace.
CONSTANTS
    Procs = {p1, p2}
    MaxRetries = 2
    Namespaced = TRUE
    NullVersions <- NoVersions
    MaxVersion = 0
    Events <- NoEvents
    MaxFaults = 0
    None = None
SPECIFICATION Spec
PROPERTIES FilledIsFound
