\* A program that unloads the task manager soon after it was loaded.
CONSTANTS
    Main = main
    Workers = {w1}
    Shared = shared
    MaxTask = 5
    MaxCounters = 4
    Sizes = {0, 1}
    MaxBatches = 1
SPECIFICATION FairSpec
CHECK_DEADLOCK FALSE
PROPERTIES
    RunSignalReceived
