SPECIFICATION Spec
CONSTANTS
    Jobs = {j1, j2}
    Drafts = {d1, d2}
    Nothing = Nothing
    HistoryLimit = 1
    MaxEdits = 1
    MaxSaves = 4
    MaxTrouble = 1
    Kept = {"restores", "uploads"}
SYMMETRY Alike
CHECK_DEADLOCK FALSE
INVARIANTS
    EditorAgrees
    CleanIsStored
PROPERTIES
    NoSecondJob
