\* Two requests with one key at once, on one instance.
CONSTANTS
    Requests = {r1, r2}
    Instances = {i1}
    Bodies = {b1}
    Events <- NoEvents
    MaxFaults = 0
    None = None
SPECIFICATION Spec
SYMMETRY EntitySymmetry
INVARIANTS ExecutedOnce
