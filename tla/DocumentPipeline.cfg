\* Two requests of two segments over one extraction worker and one detection place.
SPECIFICATION Spec
CONSTANTS
    d1 = d1
    d2 = d2
    i1 = i1
    i2 = i2
    Requests = {d1, d2}
    c1 = c1
    x1 = x1
    n2 = n2
    n3 = n3
    c3 = c3
    Occurrences <- MCOccurrences
    Overlap <- MCOverlap
    Hits <- MCHits
    Values <- MCValues
    ValueOf <- MCValueOf
    Documents <- MCDocuments
    Instructions <- MCInstructions
    TokenIds = {i1, i2}
    Policies <- MCPolicies
    Replies <- MCReplies
    MaxWorkers = 1
    Concurrency = 1
    MaxEntities = 2
    Attempts = 2
    FailClosed = TRUE
    None = None
INVARIANTS
    PayloadIsProtected
    BlockedLeavesNothing
    ServedIsAttested
PROPERTIES
    EveryRequestEnds
    ImplementsExchange
