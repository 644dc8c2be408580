\* Tables grow twice: 0, 4 and 8 share a home slot in tables of two and four
\* slots, 0 and 8 in tables of eight.
CONSTANTS
    InitialSize = 2
    Keys = {0, 1, 4, 8}
    Values = {a, b}
    None = None
    Uses = {"update", "remove"}
    MaxSize = 8
SPECIFICATION Spec
INVARIANTS
    TypeOK
    ProbesReach
    GrowthSettles
PROPERTIES
    ImplementsDictionary
