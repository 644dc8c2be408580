CONSTANTS
    Uids = {u1, u2, u3}
    Roots = {u1, u2, u3}
    Composites = {}
    SubUids = {}
    Doomed = {u1, u2, u3}
    Values = {0, 1, 2}
    Absent = {2}
    Slots = {s1, s2, s3, s4}
    MaxWriters = 2
    MaxChanges = 2
    Careful = TRUE
SPECIFICATION Spec
SYMMETRY Symmetry
INVARIANTS
    TypeOK
    SlotsOwnedOnce
    FreeSlotsClean
    InstancesListed
    ValuesFollow
PROPERTY
    ReadersStable
CHECK_DEADLOCK FALSE
