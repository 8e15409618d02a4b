SPECIFICATION FairSpec
CONSTANTS
    m15 = m15
    m60 = m60
    ai = ai
    db = db
    a = a
    b = b
    c = c
    old = old
    u = u
    None = None
    WindowSeq <- BothWindows
    Length <- Ticks
    Ranking <- Allowed
    Muted <- NoTopics
    MaxTopics = 1
    BatchSize = 2
    Log <- Messages
    Event <- EventData
    MaxAge = 1
    MaxTime = 3
    MaxFaults = 1
INVARIANTS
    CountedOnce
    CurrentBucketExact
    CommittedApplied
PROPERTIES
    PrevNeverOlder
    EventuallyConsumed
    RunsEnd
CHECK_DEADLOCK FALSE
