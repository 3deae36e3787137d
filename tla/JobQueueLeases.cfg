SPECIFICATION Spec
CONSTANTS
    Jobs = {j1, j2}
    Workers = {w1, w2}
    NoWorker = NoWorker
    NoLease = NoLease
    Failures <- EveryFailure
    MaxAttempts = 3
    Lease = 2
    BackoffBase = 1
    Horizon = 4
    MaxCrashes = 2
    Overrun = FALSE
SYMMETRY Interchangeable
INVARIANTS
    TypeOK
    OwnerHoldsLease
    AttemptsWithinBudget
PROPERTIES
    KeepsLedger
CHECK_DEADLOCK FALSE
