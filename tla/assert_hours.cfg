SPECIFICATION Spec
CONSTANTS
    Data <- SourceData
    QueryLimit = 6
    TopicLimit = 2
    LookupTimeout = 10
    PopularLimit = 2
    FallbackPopular <- BuiltInPopular
    FallbackUser <- BuiltInUser
    Requests <- TwoRequests
    Scenes <- Busy
    Subject <- Subjects
    Root = "root"
    Holds <- RelayHolds
    StartTime <- StartAt
INVARIANTS
    ActiveHoursAboveQuarter
CHECK_DEADLOCK FALSE
