SPECIFICATION Spec
CONSTANTS
    Nothing = Nothing
    Bodies = {"x", "y"}
    DialogPages = {TRUE, FALSE}
    MaxCalls = 2
    MaxPrice = 1
    Jobs = {"j1", "j2"}
    PinLimit = 1
    StartVisits <- TwoVisits
    MaxMoves = 1
    MaxTurns = 2
    MaxTaskCalls = 1
    KeptTasks = {"dialogs", "loads", "shapes", "answers"}
    Assets = {"a", "b"}
    Files = {"u"}
    StartTrash <- TrashStarts
    MaxActs = 3
    MaxRequests = 1
    MaxElsewhere = 1
    KeptLibrary = {"alone", "history", "there", "transfer", "quiet", "answers"}
    Projects = {"p", "q"}
    Characters = {"c"}
    Presets = {"s", "t"}
    System = {"s"}
    StartShelves <- TwoShelves
    MaxEdits = 1
    MaxHandled = 4
    MaxSaves = 1
    Works = {"v", "w"}
    Mine = {"w"}
    MaxTaps = 5
    MaxHearts = 2
    KeptCommunity = {"quiet", "presses"}
    KeptShelf = {"quiet", "uploads", "waits", "tabs"}
CHECK_DEADLOCK FALSE
INVARIANTS
    NoSecondJob
    ChargedAsQuoted
    EachTaskOnce
    NothingUnasked
    FormsSaveTheirOwn
PROPERTIES
    PagesComeBack
