CONSTANTS
    Uids = {p, d, i, t, n}
    Roots = {p}
    Composites = {p}
    SubUids = {p, d, i, t, n}
    Doomed = {}
    Values = {0}
    Absent = {}
    Slots = {s1, s2, s3, s4, s5, s6}
    MaxWriters = 1
    MaxChanges = 1
    Careful = FALSE
SPECIFICATION Spec
SYMMETRY Symmetry
PROPERTY
    DestroyedOnce
CHECK_DEADLOCK FALSE
