CONSTANTS
    Uids = {u1, u2}
    Roots = {u1, u2}
    Composites = {}
    SubUids = {}
    Doomed = {u1, u2}
    Values = {0, 1}
    Absent = {}
    Slots = {s1, s2, s3, s4}
    MaxWriters = 1
    MaxChanges = 1
    Careful = FALSE
SPECIFICATION Spec
PROPERTY
    DestroyedOnce
CHECK_DEADLOCK FALSE
