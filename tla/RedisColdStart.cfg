\* A cold start without health probes.
CONSTANTS
    Calls = {c1}
    Probes = {k1}
    MaxRetriesPerRequest = 3
    ServerStates = {"up"}
    MaxChanges = 0
SPECIFICATION UnprobedSpec
PROPERTIES ConnectsOnFirstCommand
