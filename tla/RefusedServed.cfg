\* Three requests of one process on a pool of two connections, two of them with one
\* key, over a tracker that remembers one; one broken connection.
SPECIFICATION EntrySpec
CONSTANTS
    k1 = k1
    k2 = k2
    r1 = r1
    r2 = r2
    r3 = r3
    p1 = p1
    Requests = {r1, r2, r3}
    Keys = {k1, k2}
    Processes = {p1}
    None = None
    KeyOf <- MCKeyOf
    ProcessOf <- MCProcessOf
    ExpiresAt <- MCExpiresAt
    MaxFaults = 1
    Horizon = 3
    PoolSize = 2
    Interval = 2
    MaxTracked = 1
    Calls <- MCCalls
    MaxBytes = 2
    UploadMaxBytes = 4
    Absent = Absent
    Malformed = Malformed
    u1 = u1
    u2 = u2
    Users = {u1, u2}
    Probe = Probe
    NoClient = NoClient
    KeyIds = {"a", "A", "b"}
    Lower <- MCLower
    Configurations <- MCConfigurations
INVARIANT RefusedIsNotServed
CHECK_DEADLOCK FALSE
