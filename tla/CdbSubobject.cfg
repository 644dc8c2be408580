CONSTANTS
    Uids = {p, s, i, t}
    Roots = {p, s}
    Composites = {p, s}
    SubUids = {s}
    Doomed = {p, s, i, t}
    Values = {0}
    Absent = {}
    Slots = {s1, s2, s3, s4, s5, s6}
    MaxWriters = 1
    MaxChanges = 1
    Careful = TRUE
SPECIFICATION Spec
SYMMETRY Symmetry
INVARIANTS
    SlotsOwnedOnce
    SubsFollow
CHECK_DEADLOCK FALSE
