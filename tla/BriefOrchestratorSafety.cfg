SPECIFICATION Spec
CONSTANTS
    r1 = r1
    r2 = r2
    bad = bad
    w1 = w1
    w2 = w2
    None = None
    Requests <- AllRequests
    Malformed <- BadRequests
    Log <- DuplicateLog
    Workers <- AllWorkers
    Ambiguous = {"authorize", "rollback", "persist", "publish"}
    Retention = TRUE
    MaxAttempts = 4
    MaxFaults = 2
SYMMETRY WorkerSymmetry
INVARIANTS
    TypeOK
    PublishedWasStored
    CommittedAnswered
    ReservationsAccounted
CHECK_DEADLOCK FALSE
