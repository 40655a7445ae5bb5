\* Two lookups, one operator, a TTL of two over four units of time.
SPECIFICATION ResolutionSpec
CONSTANTS
    o1 = o1
    p1 = p1
    p2 = p2
    p3 = p3
    docA = docA
    docB = docB
    docBad = docBad
    l1 = l1
    l2 = l2
    Operators = {o1}
    RowIds = {p1, p2, p3}
    FirstRow = p1
    Documents = {docA, docB, docBad}
    Publishable = {docA, docB}
    Seed = docA
    None = None
    Lookups = {l1, l2}
    CacheTtl = 2
    Horizon = 4
    NoPolicy = NoPolicy
SYMMETRY Symmetry
INVARIANTS
    StalenessBounded
PROPERTY ImplementsHistory
