\* The main thread and two workers, two batches of up to two tasks beside the
\* two of the renderer.
CONSTANTS
    Main = main
    Workers = {w1, w2}
    Shared = shared
    MaxTask = 9
    MaxCounters = 6
    Sizes = {0, 1, 2}
    MaxBatches = 2
SPECIFICATION FairSpec
CHECK_DEADLOCK FALSE
INVARIANTS
    TypeOK
    TaskPlaces
    CounterExact
    FreedCounterUnreferenced
    MainNeverRenders
PROPERTIES
    MainCallsReturn
    UnloadReturns
