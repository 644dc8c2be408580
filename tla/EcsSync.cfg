CONSTANTS
    EntObjs = {"root", "a", "b", "c"}
    CompObjs = {x, y}
    Root = "root"
    NoObj = nobody
    FirstKids <- MCFirstKids
    Values = {0, 1}
    MaxEnts = 8
    MaxEdits = 5
SPECIFICATION Spec
SYMMETRY CompSymmetry
INVARIANTS EntitiesShowObjects TreesFollowObjects
CHECK_DEADLOCK FALSE
