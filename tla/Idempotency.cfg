\* Four requests, two bodies, two instances, every failure.
CONSTANTS
    Requests = {r1, r2, r3, r4}
    Instances = {i1, i2}
    Bodies = {b1, b2}
    Events <- EveryEvent
    MaxFaults = 3
    None = None
SPECIFICATION Spec
SYMMETRY EntitySymmetry
INVARIANTS TypeOK ReplayFaithful StoredFaithful OwedIsReplayed
