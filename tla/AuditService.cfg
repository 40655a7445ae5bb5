\* Both failure modes, three requests over a queue of one.
SPECIFICATION Spec
CONSTANTS
    r1 = r1
    r2 = r2
    r3 = r3
    Records = {r1, r2, r3}
    Capacity = 1
    Nothing = Nothing
INVARIANTS
    LossIsBounded
    NoSilentLoss
PROPERTIES
    Recovers
    ShutdownCompletes
