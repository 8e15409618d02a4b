SPECIFICATION FairSpec
CONSTANTS
    f1 = f1
    f2 = f2
    None = None
    Kinds <- AllKinds
    FeedSeq <- TwoFeeds
    Posts <- PostCounts
    Shown = 2
    Cap = 1
    MaxItems = 2
    Gated <- GatedItems
    Invalid <- NoText
    MaxFaults = 2
INVARIANTS
    CheckpointBehindPublished
    SeenWasPublished
    PublishedOncePerReason
PROPERTIES
    EventuallyPublished
    ShutdownEnds
CHECK_DEADLOCK FALSE
