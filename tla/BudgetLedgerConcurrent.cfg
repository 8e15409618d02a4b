SPECIFICATION Spec
CONSTANTS
    a1 = a1
    a2 = a2
    a3 = a3
    None = None
    Attempts <- TwoAttempts
    Estimate <- TwoEstimates
    Costs = {1, 3}
    Budget = 3
    Modes = {"concurrent"}
    MaxFaults = 3
SYMMETRY LargeAttempts
INVARIANTS
    LedgerWithinBudget
CHECK_DEADLOCK FALSE
