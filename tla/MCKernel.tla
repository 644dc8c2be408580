------------------------------ MODULE MCKernel -----------------------------
(* Kernel with tasks of the engine, as their modules declare them.          *)
EXTENDS Kernel

MCModules == {"machine", "renderer", "debugui", "playground", "ecs", "game"}
MCProvides == [machine |-> <<"MACHINE">>, renderer |-> <<"RENDER", "RENDER_BEGIN">>,
               debugui |-> <<"DEBUGUI">>, playground |-> <<"EDITOR">>,
               ecs |-> <<"ECS_SYNC">>, game |-> <<"GAME">>]
MCTasks == {"INPUT", "MACHINE", "RENDER", "RENDER_BEGIN", "DEBUGUI", "EDITOR", "ECS_SYNC", "GAME"}

None == [t \in MCTasks |-> << >>]
MCUpdateBefore == [None EXCEPT !["MACHINE"] = <<"INPUT">>, !["DEBUGUI"] = <<"RENDER">>,
                               !["EDITOR"] = <<"GAME", "RENDER">>, !["ECS_SYNC"] = <<"GAME">>]
MCUpdateAfter == [None EXCEPT !["RENDER"] = <<"RENDER_BEGIN">>,
                              !["DEBUGUI"] = <<"INPUT", "RENDER_BEGIN">>,
                              !["EDITOR"] = <<"DEBUGUI", "INPUT">>,
                              !["ECS_SYNC"] = <<"EDITOR">>, !["GAME"] = <<"INPUT", "DEBUGUI">>]
(* No task of the engine has an init list: one is made up. *)
MCInitBefore == [None EXCEPT !["EDITOR"] = <<"GAME">>]
MCInitAfter == None
=============================================================================
