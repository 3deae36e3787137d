SPECIFICATION Spec
CONSTANTS
    Docs = {d1, d2}
    Sessions = {s1, s2}
    Hashes = {h1}
    NoHash = NoHash
    BusinessKey <- SameInvoice
    Blocked = {}
    Destination = "database"
    MayAbort = TRUE
    MaxExtractions = 1
    MaxApprovals = 1
    MaxStamp = 2
SYMMETRY Interchangeable
INVARIANTS
    OneRecordPerInvoice
CHECK_DEADLOCK FALSE
