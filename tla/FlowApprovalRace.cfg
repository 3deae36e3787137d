SPECIFICATION Spec
CONSTANTS
    Docs = {d1}
    Sessions = {s1, s2}
    Hashes = {h1}
    NoHash = NoHash
    BusinessKey <- SameInvoice
    Blocked = {}
    Destination = "database"
    MayAbort = FALSE
    MaxExtractions = 2
    MaxApprovals = 2
    MaxStamp = 2
PROPERTIES
    OnlyValidatedIsApproved
CHECK_DEADLOCK FALSE
