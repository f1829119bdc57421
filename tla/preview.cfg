SPECIFICATION FairSpec
CHECK_DEADLOCK FALSE
CONSTANTS
    Request = {"r1", "r2", "r3"}
    NotAsked = NotAsked
    NoRoute = NoRoute
    Missing = Missing
    Scenes <- MCScenes
    Rules <- MCRules
    Permits = 1
    MaxAttempts = 2
    MaxEntries = 4
    MaxBuckets = 1
    Limit = 2
    Window = 2
    ShortTtl = 1
    LongTtl = 2
    FuelTtl = 2
    MaxRoutes = 3
INVARIANTS
    AnswersFitTheQuestion
    GeometryIsTheOnlyMatch
    OnlyNearDuplicatesAreHidden
    EmptyModesSayWhy
    LowerBoundsStand
    AdmissionsAreLimited
PROPERTIES
    PreviewsEnd
