\* Two requests of two messages over one provider slot, three snapshots.
SPECIFICATION Spec
CONSTANTS
    q1 = q1
    q2 = q2
    s1 = s1
    s2 = s2
    i1 = i1
    i2 = i2
    Requests = {q1, q2}
    Sessions = {s1, s2}
    Assignments <- MCAssignments
    Values <- MCValues
    TokenIds = {i1, i2}
    Conversations <- MCConversations
    Policies <- MCPolicies
    MaxEntities = 2
    Slots = 1
    None = None
INVARIANTS
    SlotsAreReturned
    PayloadsAreProtected
    RefusedLeavesNothing
    ServedIsRecorded
PROPERTIES
    EveryRequestEnds
    ImplementsExchange
