\* The hits of a text of three characters.
SPECIFICATION PartsSpec
CONSTANTS
    ssn = ssn
    date = date
    Texts <- MCTexts
    Patterns <- MCPatterns
    Sizes <- MCSizes
    Lengths = {0, 1, 2, 3}
    ChunkSizes = {1, 2}
    Header = 3
    MinimumHeader = 2
    Overhead = 1
    Types = {ssn, date}
    Severity <- MCSeverity
    Name <- MCName
    Threshold <- MCThreshold
    MinScore <- MCMinScore
    MaxFound = 2
    Inputs <- MCInputs
    Files <- MCFiles
    MaxCharacters = 4
    k1 = k1
    k2 = k2
    acme = acme
    r1 = r1
    r2 = r2
    r3 = r3
    Requests = {r1, r2, r3}
    Keys = {k1, k2}
    Tenants = {acme}
    None = None
    KeyOf <- MCKeyOf
    TenantOf <- MCTenantOf
    KeyLimit = 1
    TenantLimit = 2
    KeyWindow = 3
    TenantWindow = 2
    Second = 2
    FailOpen = FALSE
    MaxFaults = 1
    Horizon = 5
INVARIANT ConfidentIsActedOn
CHECK_DEADLOCK FALSE
