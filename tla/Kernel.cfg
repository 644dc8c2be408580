CONSTANTS
    Modules <- MCModules
    Dynamic = {"game", "ecs"}
    Tasks <- MCTasks
    InputTask = "INPUT"
    Provides <- MCProvides
    UpdateBefore <- MCUpdateBefore
    UpdateAfter <- MCUpdateAfter
    InitBefore <- MCInitBefore
    InitAfter <- MCInitAfter
    InitTasks = {"EDITOR", "GAME"}
    Quitters = {"MACHINE", "EDITOR"}
    Reloaders = {"EDITOR"}
    MaxReloads = 1
SPECIFICATION Spec
INVARIANTS OrderKept EveryTaskOnce CallsLoadedCode
CHECK_DEADLOCK FALSE
