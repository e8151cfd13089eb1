SPECIFICATION Spec
CONSTANTS
    Users = {u1, u2}
    Requests = {r1, r2}
    MaxExpiries = 2
    MaxTrouble = 1
    Nothing = Nothing
CHECK_DEADLOCK FALSE
INVARIANTS
    SessionAgrees
    SignOutForgets
PROPERTIES
    NobodyWaits
