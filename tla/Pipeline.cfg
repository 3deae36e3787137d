SPECIFICATION FairSpec
CONSTANTS
    Docs = {d1}
    Jobs = {j1, j2}
    Workers = {w1, w2}
    Hashes = {h1, h2}
    NoHash = NoHash
    Blocked = {h2}
    MaxAttempts = 2
    MaxRuns = 2
    MaxCrashes = 1
INVARIANTS
    TypeOK
    VerdictIsOnRecord
    RequestsAreAnswered
    LostWriteIsFound
PROPERTIES
    QueuedDocumentsMove
CHECK_DEADLOCK FALSE
