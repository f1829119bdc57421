SPECIFICATION Spec
CONSTANTS
    Site = {"x", "y", "z"}
    Word = {"w"}
    Blank = ""
    None = "none"
    Filter = {"all", "some"}
    MaxVersion = 2
    Found <- MCFound
    PageSize = 1
    MaxCalls = 3
INVARIANTS
    OptionsAnswerTheForm
    SelectionIsNamed
    NothingWaitsForEver
