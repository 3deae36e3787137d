SPECIFICATION Spec
CONSTANTS
    Docs = {d1}
    Sessions = {s1, s2}
    Hashes = {h1, h2}
    NoHash = NoHash
    BusinessKey <- SameInvoice
    Blocked = {h2}
    Destination = "external"
    MayAbort = TRUE
    MaxExtractions = 2
    MaxApprovals = 2
    MaxStamp = 2
SYMMETRY Interchangeable
INVARIANTS
    RecordBehindSuccess
PROPERTIES
    KeepsWriteLedger
CHECK_DEADLOCK FALSE
