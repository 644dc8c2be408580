CONSTANTS
    Entities = {e1, e2, e3}
    Positions = {0, 1}
    Half = 4
    MaxEdits = 6
SYMMETRY Symmetry
SPECIFICATION Spec
INVARIANTS StaleIsMarked LagBounded
CHECK_DEADLOCK FALSE
