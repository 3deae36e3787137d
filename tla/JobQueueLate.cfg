SPECIFICATION FairSpec
CONSTANTS
    Jobs = {j1}
    Workers = {w1, w2}
    NoWorker = NoWorker
    NoLease = NoLease
    Failures <- OneOfEach
    MaxAttempts = 3
    Lease = 2
    BackoffBase = 1
    Horizon = 4
    MaxCrashes = 2
    Overrun = TRUE
INVARIANTS
    FailureIsExplained
    LeaseNamesOwner
PROPERTIES
    OnlyHoldersResettle
    JobSettles
CHECK_DEADLOCK FALSE
