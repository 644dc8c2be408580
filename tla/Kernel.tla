------------------------------- MODULE Kernel ------------------------------
(***************************************************************************)
(* The kernel: cetech/kernel/private/kernel.c with the part of the API     *)
(* registry (celib/private/api.c) that lists the kernel's tasks and the    *)
(* modules that add them (celib/private/celib_module.c).  The modules are  *)
(* loaded, every task that has an init is called once in the order of the  *)
(* init graph, and each frame calls every task in the order of a graph     *)
(* built anew.  A frame begins by reloading the modules whose file changed *)
(* when the editor asked for it.                                           *)
(*                                                                         *)
(* The modules are loaded in any order: init_static_modules has one, and   *)
(* load_dirs takes another from the configuration.                         *)
(*                                                                         *)
(* A function pointer is the image that holds its code: a module and the   *)
(* number of times it was reloaded.  A reload that fails, or of a file     *)
(* that did not change, leaves its module alone.  What tasks do is         *)
(* elsewhere; here they may quit and ask for a reload.  No more than       *)
(* MAX_MODULES are loaded, and the unload of a module that can be reloaded *)
(* removes what its load added, as profiler_dock.c:121 does.               *)
(***************************************************************************)
EXTENDS Integers, FiniteSets, Sequences, SequencesExt

CONSTANTS Modules,
          Dynamic,             \* modules loaded from a file
          Tasks, InputTask,    \* names; the one task of the kernel itself
          Provides,            \* tasks that the load of a module adds, in order
          UpdateBefore, UpdateAfter, InitBefore, InitAfter,
          InitTasks,           \* tasks with an init
          Quitters, Reloaders, \* tasks that call quit and reload_all
          MaxReloads           \* bound on the reloads of a module

Provided(m) == {Provides[m][i] : i \in DOMAIN Provides[m]}

ASSUME ModuleAssumption ==
    /\ IsFiniteSet(Modules) /\ Dynamic \subseteq Modules /\ "kernel" \notin Modules
    /\ MaxReloads \in Nat
    /\ Provides \in [Modules -> Seq(Tasks)]
    /\ \A m, n \in Modules : m # n => Provided(m) \intersect Provided(n) = {}
    /\ Tasks = {InputTask} \union UNION {Provided(m) : m \in Modules}
    /\ InputTask \notin UNION {Provided(m) : m \in Modules}

(* Nothing checks that a name in a list is a task's: _update and _init      *)
(* would call NULL for it.                                                  *)
ASSUME ConstraintAssumption ==
    /\ {UpdateBefore, UpdateAfter} \subseteq [Tasks -> Seq(Tasks)]
    /\ {InitBefore, InitAfter} \subseteq [Tasks -> Seq(InitTasks)]
    /\ InitTasks \subseteq Tasks

VARIABLES phase,      \* where main is
          modules,    \* images in _G.modules, by slot
          impls,      \* impl_list of CT_KERNEL_TASK_I
          map,        \* init_map or update_map: the image to call for a name
          order,      \* the output of initg or updateg
          called,     \* how much of it has been called
          isRunning,
          reloadRq    \* reload_all_rq

vars == <<phase, modules, impls, map, order, called, isRunning, reloadRq>>

Graph == INSTANCE TaskGraph WITH Names <- Tasks

KernelImage == [module |-> "kernel", reloads |-> 0]
Image(m, n) == [module |-> m, reloads |-> n]
NoMap == [t \in {} |-> KernelImage]

Init ==
    /\ phase = "load"
    /\ modules = << >> /\ impls = << >>
    /\ map = NoMap /\ order = << >> /\ called = 0
    /\ isRunning = FALSE /\ reloadRq = FALSE

---------------------------------------------------------------------------
(* The list of implementations. *)

AddImpl(list, entry) == Append(list, entry)

(* Mutant of RemoveImpl: the last one is not moved into the gap.            *)
RemoveImplLast(list, entry) == IF Contains(list, entry) THEN Front(list) ELSE list

RemoveImpl(list, entry) ==
    IF Contains(list, entry)
    THEN Front(ReplaceAt(list, SelectInSeq(list, LAMBDA e : e = entry), Last(list)))
    ELSE list

Load(list, image) ==
    LET tasks == Provides[image.module]
    IN  list \o [i \in 1 .. Len(tasks) |-> [task |-> tasks[i], image |-> image]]

Unload(list, image) ==
    LET tasks == Provides[image.module]
        rest[i \in 0 .. Len(tasks)] ==
            IF i = 0 THEN list ELSE RemoveImpl(rest[i - 1], [task |-> tasks[i], image |-> image])
    IN  rest[Len(tasks)]

LoadModule(m) ==
    /\ phase = "load"
    /\ \A i \in DOMAIN modules : modules[i].module # m
    /\ modules' = Append(modules, Image(m, 0))
    /\ impls' = Load(impls, Image(m, 0))
    /\ UNCHANGED <<phase, map, order, called, isRunning, reloadRq>>

---------------------------------------------------------------------------
(* The graphs. *)

Ordered(list, before, after) ==
    Graph!BagOrder([i \in 1 .. Len(list) |-> list[i].task], before, after)

(* A later implementation of a name replaces an earlier one. *)
Mapped(list) ==
    [t \in {list[i].task : i \in DOMAIN list} |->
        list[SelectLastInSeq(list, LAMBDA e : e.task = t)].image]

BuildUpdateGraph(list) ==
    /\ map' = Mapped(list)
    /\ order' = Ordered(list, UpdateBefore, UpdateAfter)
    /\ called' = 0

WithInit(list) ==
    LET inits[i \in 0 .. Len(list)] ==
            IF i = 0 THEN << >>
            ELSE IF list[i].task \in InitTasks THEN Append(inits[i - 1], list[i])
            ELSE inits[i - 1]
    IN  inits[Len(list)]

BuildInitGraph(list) ==
    /\ map' = Mapped(WithInit(list))
    /\ order' = Ordered(WithInit(list), InitBefore, InitAfter)
    /\ called' = 0

---------------------------------------------------------------------------
(* cetech_kernel_start *)

(* With CONFIG_COMPILE set nothing is started. *)
Start ==
    /\ phase = "load" /\ Len(modules) = Cardinality(Modules)
    /\ impls' = AddImpl(impls, [task |-> InputTask, image |-> KernelImage])
    /\ \/ phase' = "unload" /\ UNCHANGED <<map, order, called>>
       \/ phase' = "init" /\ BuildInitGraph(impls')
    /\ UNCHANGED <<modules, isRunning, reloadRq>>

CallInit ==
    /\ phase = "init" /\ called < Len(order)
    /\ called' = called + 1
    /\ UNCHANGED <<phase, modules, impls, map, order, isRunning, reloadRq>>

InitDone ==
    /\ phase = "init" /\ called = Len(order)
    /\ phase' = "frame" /\ isRunning' = TRUE
    /\ UNCHANGED <<modules, impls, map, order, called, reloadRq>>

(* reload of the modules in slots: the new image is loaded, then the old    *)
(* one unloaded.                                                            *)
Reloaded(s, i) ==
    LET old == s.modules[i]
        new == Image(old.module, old.reloads + 1)
    IN  [modules |-> [s.modules EXCEPT ![i] = new],
         impls |-> Unload(Load(s.impls, new), old)]

ReloadEach(changed) ==
    LET s[i \in 0 .. Len(modules)] ==
            IF i = 0 THEN [modules |-> modules, impls |-> impls]
            ELSE IF i \in changed THEN Reloaded(s[i - 1], i) ELSE s[i - 1]
    IN  s[Len(modules)]

DoReload ==
    LET slots == {i \in DOMAIN modules :
                    modules[i].module \in Dynamic /\ modules[i].reloads < MaxReloads}
    IN  /\ reloadRq' = FALSE
        /\ \E changed \in SUBSET IF reloadRq THEN slots ELSE {} :
              modules' = ReloadEach(changed).modules /\ impls' = ReloadEach(changed).impls

(* Mutant of FrameBegin: the graph is built before the modules are reloaded.*)
FrameBeginLateReload ==
    /\ phase = "frame" /\ isRunning
    /\ DoReload
    /\ BuildUpdateGraph(impls)
    /\ phase' = "update"
    /\ UNCHANGED isRunning

FrameBegin ==
    /\ phase = "frame" /\ isRunning
    /\ DoReload
    /\ BuildUpdateGraph(impls')
    /\ phase' = "update"
    /\ UNCHANGED isRunning

CallUpdate ==
    /\ phase = "update" /\ called < Len(order)
    /\ called' = called + 1
    /\ \/ UNCHANGED <<isRunning, reloadRq>>
       \/ order[called'] \in Quitters /\ isRunning' = FALSE /\ UNCHANGED reloadRq
       \/ order[called'] \in Reloaders /\ reloadRq' = TRUE /\ UNCHANGED isRunning
    /\ UNCHANGED <<phase, modules, impls, map, order>>

FrameEnd ==
    /\ phase = "update" /\ called = Len(order)
    /\ phase' = "frame"
    /\ UNCHANGED <<modules, impls, map, order, called, isRunning, reloadRq>>

(* _shutdown calls nothing: its loop runs while k < 0. *)
LoopEnd ==
    /\ phase = "frame" /\ ~ isRunning
    /\ phase' = "unload"
    /\ UNCHANGED <<modules, impls, map, order, called, isRunning, reloadRq>>

(* unload_all, from the last slot to the first, then ce_shutdown. *)
UnloadModule ==
    /\ phase = "unload" /\ modules # << >>
    /\ modules' = Front(modules)
    /\ impls' = IF Last(modules).module \in Dynamic THEN Unload(impls, Last(modules)) ELSE impls
    /\ UNCHANGED <<phase, map, order, called, isRunning, reloadRq>>

End ==
    /\ phase = "unload" /\ modules = << >>
    /\ phase' = "ended"
    /\ UNCHANGED <<modules, impls, map, order, called, isRunning, reloadRq>>

Next ==
    \/ \E m \in Modules : LoadModule(m)
    \/ Start \/ CallInit \/ InitDone
    \/ FrameBegin \/ CallUpdate \/ FrameEnd \/ LoopEnd
    \/ UnloadModule \/ End

Spec == Init /\ [][Next]_vars

---------------------------------------------------------------------------
(* Properties *)

(* Each task is called after those it names in its after list, those that   *)
(* name it in their before list, and never before them, whatever the order  *)
(* in which the modules added the tasks: _build_update_graph (kernel.c:161) *)
(* makes it from the lists alone, each frame anew.                          *)
OrderKept ==
    phase \in {"init", "update"} =>
        LET before == IF phase = "init" THEN InitBefore ELSE UpdateBefore
            after == IF phase = "init" THEN InitAfter ELSE UpdateAfter
        IN  \A i \in 1..called : \A j \in 1..i :
                /\ ~ Contains(before[order[i]], order[j])
                /\ ~ Contains(after[order[j]], order[i])

(* When a frame ends each task was called in it, once, and likewise every   *)
(* init before the first frame (kernel.c:185, 230): the graph drops         *)
(* nothing and repeats nothing.                                             *)
EveryTaskOnce ==
    phase \in {"init", "update"} /\ called = Len(order) =>
        LET due == IF phase = "init" THEN InitTasks ELSE Tasks
        IN  Len(order) = Cardinality(due) /\ due = {order[i] : i \in DOMAIN order}

(* A reload leaves no pointer into the image that it unloads: what a frame  *)
(* is still to call, and what the next one lists, is in images that are     *)
(* loaded (celib_module.c:196-241 runs between two frames).                 *)
CallsLoadedCode ==
    LET loaded == {KernelImage} \union {modules[i] : i \in DOMAIN modules}
    IN  /\ phase = "update" =>
              \A i \in called + 1 .. Len(order) : map[order[i]] \in loaded
        /\ phase \in {"frame", "update"} => \A i \in DOMAIN impls : impls[i].image \in loaded
=============================================================================
