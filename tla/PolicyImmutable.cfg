\* A PATCH that overlaps a publish.
SPECIFICATION TransactionsSpec
CONSTANTS
    o1 = o1
    o2 = o2
    p1 = p1
    p2 = p2
    p3 = p3
    p4 = p4
    docA = docA
    docB = docB
    docBad = docBad
    Operators = {o1, o2}
    RowIds = {p1, p2, p3, p4}
    FirstRow = p1
    Documents = {docA, docB, docBad}
    Publishable = {docA, docB}
    Seed = docA
    None = None
    NAME = NAME
    PHONE = PHONE
    UNKNOWN = UNKNOWN
    alias = alias
    model = model
    other = other
    joined = joined
    Nothing = Nothing
    Supported = {NAME, PHONE}
    CustomTypes = {PHONE}
    HighRisk = {NAME}
    DefaultThreshold <- Thresholds
    MaxScore = 5
    Digit = 2
    Jump = 2
    MaxTtl = 2
    MaxBudget = 1
    ProvidersText <- Text
    FirstDocument <- SeedDocument
    OtherDocuments <- Others
    EditedScores = {5}
    EditedActions = {"tokenize"}
    MaxEdits = 2
    MaxOthers = 1
    MaxPublished = 3
PROPERTIES
    PublishedNeverChanges
