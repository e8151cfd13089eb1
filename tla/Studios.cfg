SPECIFICATION Spec
CONSTANTS
    Nothing = Nothing
    Pages = {"image", "gpt", "classic", "video"}
    Inputs = {"words", "media", "people"}
    Users = {u}
    Guest = guest
    Library = {a, b}
    Files = {f, g}
    People = {c, d}
    Presets = {p}
    MaxRefs = 2
    MaxBound = 1
    Kept = {"uploads"}
    Ids = {i1, i2, i3, i4}
    Texts = {Empty, t}
    Empty = Empty
    MaxShots = 3
    Every = 2
    KeptDrags = {"drags"}
    Reviews = {r1, r2}
    Comics = {m}
    Shots = {s1, s2}
    MaxRise = 1
    MaxPicks = 2
    MaxDecisions = 1
    KeptReviews = TRUE
SYMMETRY Symmetry
INVARIANTS
    DraftsInOrder
    RefsMeanCards
    ShownWhereMade
    DecidesAsShown
PROPERTIES
    NothingLost
    Recreates
