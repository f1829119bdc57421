SPECIFICATION Spec
CONSTANTS
    None = None
    Blank = Blank
    PageSize = 2
    MaxPages = 3
    MaxRows = 6
    Sample = 5
    MaxDropped = 1
    CoordinatePercent <- MCCoordinatePercent
    ActivePercent <- MCActivePercent
    Office <- MCOffice
    SupportOffice <- MCSupportOffice
    Ranks <- MCRanks
    Scenes <- MCScenes
INVARIANTS
    CleanCandidatesAreServable
    ReviewedCountsHold
    PagesListEveryMatchOnce
PROPERTIES
    InstitutionsNeverVanish
CHECK_DEADLOCK FALSE
