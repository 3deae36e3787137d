SPECIFICATION FairSpec
CONSTANTS
    Docs = {d1}
    Sessions = {s1, s2}
    Hashes = {h1, h2, h3}
    NoHash = NoHash
    BusinessKey <- SameInvoice
    Blocked = {h3}
    Destination = "database"
    MayAbort = TRUE
    MaxExtractions = 2
    MaxApprovals = 2
    MaxStamp = 2
INVARIANTS
    TypeOK
    WrittenIsBacked
    LedgersAgree
    RecordsWereApproved
PROPERTIES
    HandlersEnd
    SettledStaysSettled
    KeepsWriteLedger
CHECK_DEADLOCK FALSE
