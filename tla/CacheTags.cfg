\* Sets, deletions, invalidations and clears at once, with every failure.
CONSTANTS
    k1 = k1
    k2 = k2
    t1 = t1
    t2 = t2
    Calls = {c1, c2}
    Keys = {k1, k2}
    Tags = {t1, t2}
    TagsOf <- SharedTag
    Patterns <- OneNamespace
    EntryTtl = 2
    DefaultTtl = 2
    MaxClock = 2
    Events <- AllEvents
    MaxFaults = 1
    None = None
    Never = Never
SPECIFICATION Spec
SYMMETRY CallSymmetry
INVARIANTS TypeOK Tagged SweepComplete NoImmortalTag
