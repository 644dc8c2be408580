\* Two threads, a ring of two slots, three positions open to claims: every slot is
\* used again on the second lap.
CONSTANTS
    Procs = {t1, t2}
    Values = {a, b}
    Default = Default
    Capacity = 2
    MaxPos = 3
SPECIFICATION FairSpec
INVARIANTS
    RingInv
    QuiescentExact
PROPERTIES
    SizeMissesOnlyFull
    RefusedOnlyWhenBusy
    ImplementsFifo
    CallsReturn
