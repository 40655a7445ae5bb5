\* Two sessions, TTLs up to the maximum and beyond, two overlapping deletions.
SPECIFICATION Spec
CONSTANTS
    s1 = s1
    s2 = s2
    i1 = i1
    i2 = i2
    d1 = d1
    d2 = d2
    Sessions = {s1, s2}
    Originals <- MCOriginals
    Fingerprints <- MCFingerprints
    FingerprintOf <- MCFingerprintOf
    EntityTypes <- MCEntityTypes
    TypeOf <- MCTypeOf
    TokenIds = {i1, i2}
    Ttls = {0, 1, 2, 3}
    MaxTtl = 2
    Deleters = {d1, d2}
    Unminted = Unminted
    NoToken = NoToken
    NotDeleting = NotDeleting
SYMMETRY Symmetry
INVARIANTS
    NoDanglingIndex
    OneTokenPerValue
PROPERTIES
    TokenIsStable
    OrphansHaveTwoCauses
