SPECIFICATION Spec
CONSTANTS
    a1 = a1
    a2 = a2
    a3 = a3
    None = None
    Attempts <- ThreeAttempts
    Estimate <- ThreeEstimates
    Costs = {1, 3}
    Budget = 4
    Modes = {"postgres", "serial"}
    MaxFaults = 3
SYMMETRY LargeAttempts
INVARIANTS
    TypeOK
    NotOversubscribed
    LedgerAgrees
CHECK_DEADLOCK FALSE
