SPECIFICATION FairSpec
CONSTANTS
    r1 = r1
    r2 = r2
    bad = bad
    w1 = w1
    w2 = w2
    None = None
    Requests <- AllRequests
    Malformed <- BadRequests
    Log <- MixedLog
    Workers <- AllWorkers
    Ambiguous = {"authorize", "publish"}
    Retention = FALSE
    MaxAttempts = 6
    MaxFaults = 2
INVARIANTS
    SuccessChargedOnce
    GeneratedOncePerFault
PROPERTIES
    KeepsPromise
    EventuallyCommitted
CHECK_DEADLOCK FALSE
