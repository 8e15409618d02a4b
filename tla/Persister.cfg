SPECIFICATION FairSpec
CONSTANTS
    p1 = p1
    a = a
    b = b
    bad = bad
    None = None
    Threshold = 2
    Instances = {i1, i2}
    Partitions <- OnePartition
    Log <- OneLog
    Source <- EventSource
    Malformed <- BadMessages
    MaxFaults = 3
INVARIANTS
    CommittedPersisted
    SeenWasStored
    OpensOnPostgresFailures
PROPERTIES
    CopiesReliably
    ReopensUntilSuccess
    EventuallyDrained
CHECK_DEADLOCK FALSE
