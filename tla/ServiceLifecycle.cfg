SPECIFICATION FairSpec
CONSTANTS
    None = None
    Services <- AllServices
    MaxFaults = 3
INVARIANTS
    ReleasedOnce
    StoresOutliveBatch
PROPERTIES
    StopEnds
CHECK_DEADLOCK FALSE
