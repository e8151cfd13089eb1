SPECIFICATION Spec
CONSTANTS
    Jobs = {j1, j2}
    Watched = j1
    MaxTrouble = 2
    Kept = {"in_order", "hub_calls", "confirmed", "linked", "room", "warm", "loads"}
    Nothing = Nothing
CHECK_DEADLOCK FALSE
INVARIANTS
    Resumable
PROPERTIES
    AppliedOnce
    PagesCatchUp
