\* The use of cdb.c _remove_from_set: add without a lookup, and remove.
CONSTANTS
    InitialSize = 4
    Keys = {0, 1, 4, 8}
    Values = {a}
    None = None
    Uses = {"both"}
    MaxSize = 8
SPECIFICATION Spec
CHECK_DEADLOCK FALSE
PROPERTIES
    RemovedIsAbsent
