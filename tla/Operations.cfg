SPECIFICATION MCSpec
CONSTANTS
    r = r
    other = other
    None = None
    Tables <- OwnTables
    Ids = {r, other}
    Calls <- SomeCalls
    EarlierResults <- SomeResults
    Groups = {"persister", "trends-processor"}
    MaxLag = 100
    ServiceLookback = 30
    DefaultEvents = 20
    Runs <- SomeRuns
    Arriving <- ArrivingRows
    Allowlist <- Topics
    Muted = {"misc"}
    MaxTopics = 2
    InferenceRules <- Rules
    MaxInferred = 2
    PolicySeq <- Policies
    InitialTables <- AllTables
    MaxFaults = 1
INVARIANTS
    RequestUnderstood
    ExitTruthful
    EnrichedAll
    RetentionReports
PROPERTIES
    CommandsEnd
CHECK_DEADLOCK FALSE
