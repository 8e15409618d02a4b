SPECIFICATION GenerationSpec
CONSTANTS
    ax = ax
    AX = AX
    ay = ay
    bz = bz
    nx = nx
    A = A
    B = B
    Absent = Absent
    Key <- KeyOf
    Group <- GroupOf
    Disallowed = {"localhost"}
    DefaultLookback = 2
    MaxLookback = 2
    MaxQueryEvents = 2
    Unit = 8
    Scale = 20
    Rank <- RankOf
    Termless = {}
    Curated = {"rss"}
    Discussion = {"hackernews", "bluesky"}
    Requests <- SomeRequests
    Snapshots <- SnapshotTables
    InitialEvents <- EventsAtFirst
    Arriving <- ArrivingEvents
    Cutoffs <- RetentionCutoffs
    a1 = a1
    a2 = a2
    a3 = a3
    a4 = a4
    a5 = a5
    Answers = {a1, a2, a3, a4, a5}
    Reply <- Replies
    MaxFailures = 2
INVARIANTS
    BriefGrounded
    QuerySound
    CliReleased
CHECK_DEADLOCK FALSE
