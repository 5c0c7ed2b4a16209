SPECIFICATION FairSpec
CONSTANTS
    Data <- SourceData
    QueryLimit = 5
    TopicLimit = 2
    LookupTimeout = 10
    PopularLimit = 2
    FallbackPopular <- BuiltInPopular
    FallbackUser <- BuiltInUser
    Requests <- TwoRequests
    Scenes <- AllScenes
    Subject <- Subjects
    Root = "root"
    Holds <- RelayHolds
    StartTime <- StartAt
INVARIANTS
    TypeOK
    SelectiveIsEnough
    WaveIsCurrent
    MentionsCountedOnce
    ActiveHoursReachOut
    LookupFindsFirst
    RelaysAgree
    LaterSecondWins
    ArrivedIsKept
PROPERTIES
    FinalIsKept
CHECK_DEADLOCK FALSE
