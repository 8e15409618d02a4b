SPECIFICATION Spec
CONSTANTS
    a1 = a1
    a2 = a2
    a3 = a3
    None = None
    Attempts <- TwoAttempts
    Estimate <- TwoEstimates
    Costs = {1, 3}
    Budget = 0
    Modes = {"serial"}
    MaxFaults = 0
SYMMETRY LargeAttempts
INVARIANTS
    BudgetEnforced
CHECK_DEADLOCK FALSE
