SPECIFICATION MCSpec
CHECK_DEADLOCK FALSE
CONSTANTS
    MaxRow = 3
    PageSize = 1
    Call = {c1}
    Site = {"a", "b"}
    Place = {"p"}
    None = None
    Settings = {"even", "odd"}
    Fits <- MCFits
    DefaultOrigin <- MCDefaultOrigin
    Preview = {"q1", "q2"}
    MaxEdits = 3
INVARIANTS
    PagesFitTogether
    DeletedRowsStayAway
    LoggedOutShowsNothing
    ResultsFitTheForm
    SettingsLeaveWithTheSession
    ButtonFollowsTheForm
PROPERTIES
    SavedTripsAreListed
