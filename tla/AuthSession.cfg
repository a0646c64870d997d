\* Three calls over four seconds, with every failure; Redis keeps a token for
\* less than its life, as for a setting that parseExpiryToSeconds cannot read.
CONSTANTS
    Calls = {c1, c2, c3}
    AccessTtl = 1
    JwtTtl = 3
    RedisTtl = 2
    MaxClock = 3
    Events <- EveryEvent
    MaxFaults = 2
    None = None
SPECIFICATION Spec
SYMMETRY CallSymmetry
INVARIANTS TypeOK RevokedStays KeptWhileValid SessionSound HeldIsHonoured
