CONSTANTS
    Entities = {e1, e2, e3}
    Comps = {a, child}
    SysComps = {child}
    ChildComp = child
    Data = {0, 1}
    Chunks = {1, 2, 3, 4}
    NoChunk = NoChunk
    Capacity = 2
SPECIFICATION Spec
SYMMETRY Symmetry
INVARIANTS
    TypeOK
    IndexAgrees
PROPERTY
    ImplementsWorld
CHECK_DEADLOCK FALSE
