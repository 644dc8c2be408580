CONSTANTS
    Uids = {p, d, i, t}
    Roots = {p}
    Composites = {p}
    SubUids = {}
    Doomed = {p}
    Values = {0}
    Absent = {}
    Slots = {s1, s2, s3, s4}
    MaxWriters = 0
    MaxChanges = 1
    Careful = FALSE
SPECIFICATION Spec
SYMMETRY Symmetry
PROPERTY
    DestroyedOnce
CHECK_DEADLOCK FALSE
