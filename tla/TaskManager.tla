---------------------------- MODULE TaskManager ----------------------------
(***************************************************************************)
(* The task manager of celib/private/task.c and the programs that use it:  *)
(* the main thread adds batches of tasks and waits for their counter       *)
(* (ecs.c:1183, tools/hash, tools/doc), the renderer has a worker start a  *)
(* task that never returns (renderer.c:80-145), and the module is loaded   *)
(* and unloaded around them.                                               *)
(*                                                                         *)
(* The queues are those of MpmcQueue, seen at the two instants that other  *)
(* threads can tell apart: a push claims its place and later publishes it; *)
(* until then a pop of that place finds the queue empty.  MpmcQueue shows  *)
(* that a pop is refused only then (RefusedOnlyWhenBusy) and that the ring *)
(* is a FIFO (ImplementsFifo).  No queue holds MaxTask items, since ids    *)
(* are smaller, so no push is refused (the code ignores what a push        *)
(* returns) and queue_task_size overlooks no item that stays in the queue  *)
(* during its call (SizeMissesOnlyFull).                                   *)
(*                                                                         *)
(* Abstracted: names and data of the items; a task is the kind of work it  *)
(* does.  bgfx is external: bgfx_init returns once bgfx_render_frame has   *)
(* been entered, and bgfx_shutdown makes bgfx_render_frame report EXITING. *)
(***************************************************************************)
EXTENDS Integers, Sequences, FiniteSets

CONSTANTS Main,         \* the main thread, worker 0
          Workers,      \* the threads created by load
          Shared,       \* names job_queue among the queues of tasks
          MaxTask,      \* MAX_TASK
          MaxCounters,  \* MAX_COUNTERS
          Sizes,        \* how many items a batch of the main thread has
          MaxBatches    \* the main thread adds at most this many batches

ASSUME ThreadAssumption == Main \notin Workers /\ Shared \notin Workers \union {Main}
ASSUME PoolAssumption == MaxTask \in Nat /\ MaxCounters \in Nat
ASSUME BatchAssumption == Sizes \subseteq Nat /\ MaxBatches \in Nat

VARIABLES isRunning,       \* _G.is_running
          taskPool,        \* _G.task_pool: the work and the counter of each id
          taskPoolIdx,     \* _G.task_pool_idx
          freeTask,        \* _G.free_task
          counterPool,     \* _G.counter_pool
          counterPoolIdx,  \* _G.counter_pool_idx
          freeCounter,     \* _G.free_counter
          jobs,            \* _G.job_queue and _G.specific_job_queue
          stack,           \* the calls each thread is in, innermost first
          worker,          \* how far each worker thread has come
          phase,           \* how far the main thread has come
          batches          \* batches the main thread has added

counters == <<counterPool, counterPoolIdx, freeCounter>>
tasks == <<taskPool, taskPoolIdx, freeTask>>
program == <<isRunning, worker, phase, batches>>
vars == <<isRunning, taskPool, taskPoolIdx, freeTask, counterPool,
          counterPoolIdx, freeCounter, jobs, stack, worker, phase, batches>>

Threads == Workers \union {Main}
Queues == Threads \union {Shared}
TaskIds == 1 .. MaxTask - 1
CounterIds == 1 .. MaxCounters - 1
Works == {"leaf", "init", "render"}

---------------------------------------------------------------------------
(* Queues: entries [id, ready], the oldest first. *)

Claim(q, i) == Append(q, [id |-> i, ready |-> FALSE])
Publish(q, i) == [k \in DOMAIN q |-> IF q[k].id = i THEN [q[k] EXCEPT !.ready = TRUE] ELSE q[k]]
CanPop(q) == q # << >> /\ Head(q).ready

(* Calls: the innermost call of a thread is the head of its stack. *)

In(p, label) == stack[p] # << >> /\ Head(stack[p]).at = label
Frame(p) == Head(stack[p])
Enter(p, f) == stack' = [stack EXCEPT ![p] = <<f>> \o @]
Become(p, f) == stack' = [stack EXCEPT ![p] = <<f>> \o Tail(@)]
Leave(p) == stack' = [stack EXCEPT ![p] = Tail(@)]
Advance(p, label) == Become(p, [Frame(p) EXCEPT !.at = label])

(* A call of add (to = Shared) or add_specific (to = a thread), and what    *)
(* the caller does with the counter: wait with or without work, or nothing. *)
AddCall(work, n, to, wait) ==
    [at |-> "new_counter", work |-> work, left |-> n, to |-> to, wait |-> wait,
     counter |-> 0, id |-> 0]

---------------------------------------------------------------------------
Init ==
    /\ isRunning = FALSE
    /\ taskPool = [i \in TaskIds |-> [work |-> "leaf", counter |-> 0]]
    /\ taskPoolIdx = 1
    /\ freeTask = << >>
    /\ counterPool = [c \in CounterIds |-> 0]
    /\ counterPoolIdx = 1
    /\ freeCounter = << >>
    /\ jobs = [t \in Queues |-> << >>]
    /\ stack = [p \in Threads |-> << >>]
    /\ worker = [w \in Workers |-> "start"]
    /\ phase = "load"
    /\ batches = 0

(* The last step of load, after the worker threads are created. *)
Load ==
    /\ phase = "load"
    /\ isRunning' = TRUE
    /\ phase' = "boot"
    /\ UNCHANGED <<tasks, counters, jobs, stack, worker, batches>>

---------------------------------------------------------------------------
(* add and add_specific *)

(* The counter c is the call's; nothing else refers to it when it is set.   *)
GetCounter(p, c) ==
    /\ c \in CounterIds
    /\ counterPool' = [counterPool EXCEPT ![c] = Frame(p).left]
    /\ Become(p, [Frame(p) EXCEPT !.at = "new_task", !.counter = c])
    /\ UNCHANGED <<tasks, jobs, program>>

(* Mutant of NewCounter: the counter keeps the value its last use left. *)
NewCounterUnset(p) ==
    /\ In(p, "new_counter")
    /\ CanPop(freeCounter)
    /\ freeCounter' = Tail(freeCounter)
    /\ Become(p, [Frame(p) EXCEPT !.at = "new_task", !.counter = Head(freeCounter).id])
    /\ UNCHANGED <<tasks, counterPool, counterPoolIdx, jobs, program>>

(* _new_counter_task: a freed counter, if the pop is not refused. *)
NewCounter(p) ==
    /\ In(p, "new_counter")
    /\ CanPop(freeCounter)
    /\ freeCounter' = Tail(freeCounter)
    /\ GetCounter(p, Head(freeCounter).id)
    /\ UNCHANGED counterPoolIdx

NoFreeCounter(p) ==
    /\ In(p, "new_counter")
    /\ ~ CanPop(freeCounter)
    /\ Advance(p, "grow_counter")
    /\ UNCHANGED <<tasks, counters, jobs, program>>

(* Mutant of GrowCounter: the new counter is not set. *)
GrowCounterUnset(p) ==
    /\ In(p, "grow_counter")
    /\ counterPoolIdx \in CounterIds
    /\ counterPoolIdx' = counterPoolIdx + 1
    /\ Become(p, [Frame(p) EXCEPT !.at = "new_task", !.counter = counterPoolIdx])
    /\ UNCHANGED <<tasks, counterPool, freeCounter, jobs, program>>

(* The fetch_add; meanwhile other threads may have freed counters. *)
GrowCounter(p) ==
    /\ In(p, "grow_counter")
    /\ counterPoolIdx' = counterPoolIdx + 1
    /\ GetCounter(p, counterPoolIdx)
    /\ UNCHANGED freeCounter

(* The task id i is the call's, for the next of its items. *)
GetTask(p, i) ==
    /\ Frame(p).left > 0
    /\ i \in TaskIds
    /\ Become(p, [Frame(p) EXCEPT !.at = "push_task", !.id = i])
    /\ UNCHANGED <<taskPool, counters, jobs, program>>

(* Mutant of NewTask: the id stays on the free list. *)
NewTaskPeeks(p) ==
    /\ In(p, "new_task")
    /\ CanPop(freeTask)
    /\ GetTask(p, Head(freeTask).id)
    /\ UNCHANGED <<taskPoolIdx, freeTask>>

(* _new_task: a freed id, if the pop is not refused. *)
NewTask(p) ==
    /\ In(p, "new_task")
    /\ CanPop(freeTask)
    /\ freeTask' = Tail(freeTask)
    /\ GetTask(p, Head(freeTask).id)
    /\ UNCHANGED taskPoolIdx

NoFreeTask(p) ==
    /\ In(p, "new_task")
    /\ Frame(p).left > 0
    /\ ~ CanPop(freeTask)
    /\ Advance(p, "grow_task")
    /\ UNCHANGED <<tasks, counters, jobs, program>>

(* The fetch_add.  There is no check against MAX_TASK: the next store would *)
(* be out of bounds and the model stops.                                    *)
GrowTask(p) ==
    /\ In(p, "grow_task")
    /\ taskPoolIdx' = taskPoolIdx + 1
    /\ GetTask(p, taskPoolIdx)
    /\ UNCHANGED freeTask

(* The pool entry is filled, then the push claims a place. *)
PushTask(p) ==
    /\ In(p, "push_task")
    /\ taskPool' = [taskPool EXCEPT ![Frame(p).id] =
                        [work |-> Frame(p).work, counter |-> Frame(p).counter]]
    /\ jobs' = [jobs EXCEPT ![Frame(p).to] = Claim(@, Frame(p).id)]
    /\ Become(p, [Frame(p) EXCEPT !.at = "publish_task", !.left = @ - 1])
    /\ UNCHANGED <<taskPoolIdx, freeTask, counters, program>>

PublishTask(p) ==
    /\ In(p, "publish_task")
    /\ jobs' = [jobs EXCEPT ![Frame(p).to] = Publish(@, Frame(p).id)]
    /\ Become(p, [Frame(p) EXCEPT !.at = "new_task", !.id = 0])
    /\ UNCHANGED <<tasks, counters, program>>

(* add returns; its caller goes on with the counter it was given. *)
AddReturn(p) ==
    /\ In(p, "new_task")
    /\ Frame(p).left = 0
    /\ IF Frame(p).wait = "none" THEN Leave(p) ELSE Advance(p, Frame(p).wait)
    /\ UNCHANGED <<tasks, counters, jobs, program>>

---------------------------------------------------------------------------
(* wait_atomic (at "wait") and wait_for_counter_no_work (at "spin") *)

(* Mutant of WaitDone: an off-by-one in the comparison with the value. *)
WaitDoneEarly(p) ==
    /\ In(p, "wait") \/ In(p, "spin")
    /\ counterPool[Frame(p).counter] <= 1
    /\ Advance(p, "release")
    /\ UNCHANGED <<tasks, counters, jobs, program>>

(* The counter has reached 0; its push to free_counter claims a place. *)
WaitDone(p) ==
    /\ In(p, "wait") \/ In(p, "spin")
    /\ counterPool[Frame(p).counter] = 0
    /\ Advance(p, "release")
    /\ UNCHANGED <<tasks, counters, jobs, program>>

WaitWork(p) ==
    /\ In(p, "wait")
    /\ counterPool[Frame(p).counter] # 0
    /\ Enter(p, [at |-> "seek", id |-> 0])
    /\ UNCHANGED <<tasks, counters, jobs, program>>

ReleaseCounter(p) ==
    /\ In(p, "release")
    /\ freeCounter' = Claim(freeCounter, Frame(p).counter)
    /\ Advance(p, "publish_counter")
    /\ UNCHANGED <<tasks, counterPool, counterPoolIdx, jobs, program>>

PublishCounter(p) ==
    /\ In(p, "publish_counter")
    /\ freeCounter' = Publish(freeCounter, Frame(p).counter)
    /\ Leave(p)
    /\ UNCHANGED <<tasks, counterPool, counterPoolIdx, jobs, program>>

---------------------------------------------------------------------------
(* do_work *)

(* _task_pop_new_work looks at the thread's own queue, then at the shared   *)
(* one.  It may take from the second when the first has just been given a   *)
(* task, and may find nothing in a queue that was never empty: the two      *)
(* loads of queue_task_size may straddle a push and a pop.                  *)
TakeWork(p) ==
    /\ In(p, "seek")
    /\ \E t \in {p, Shared} :
         /\ CanPop(jobs[t])
         /\ jobs' = [jobs EXCEPT ![t] = Tail(@)]
         /\ Become(p, [at |-> "run", id |-> Head(jobs[t]).id])
    /\ UNCHANGED <<tasks, counters, program>>

NoWork(p) ==
    /\ In(p, "seek")
    /\ Leave(p)
    /\ UNCHANGED <<tasks, counters, jobs, program>>

Running(p, work) == In(p, "run") /\ taskPool[Frame(p).id].work = work

(* The chunk function of a query, or process_file of the tools. *)
RunLeaf(p) ==
    /\ Running(p, "leaf")
    /\ Advance(p, "count")
    /\ UNCHANGED <<tasks, counters, jobs, program>>

(* _render_init_task adds the render task and keeps no counter of it. *)
RunInit(p) ==
    /\ Running(p, "init")
    /\ stack' = [stack EXCEPT ![p] =
                    <<AddCall("render", 1, Shared, "none"), [@[1] EXCEPT !.at = "count"]>>
                    \o Tail(@)]
    /\ UNCHANGED <<tasks, counters, jobs, program>>

(* _render_task returns after bgfx_shutdown was called. *)
RunRender(p) ==
    /\ Running(p, "render")
    /\ phase \in {"exit", "down"}
    /\ Advance(p, "count")
    /\ UNCHANGED <<tasks, counters, jobs, program>>

(* Mutant of CountDown: the fetch_sub is lost. *)
CountDownLost(p) ==
    /\ In(p, "count")
    /\ Advance(p, "free")
    /\ UNCHANGED <<tasks, counters, jobs, program>>

CountDown(p) ==
    /\ In(p, "count")
    /\ counterPool' = [counterPool EXCEPT ![taskPool[Frame(p).id].counter] = @ - 1]
    /\ Advance(p, "free")
    /\ UNCHANGED <<tasks, counterPoolIdx, freeCounter, jobs, program>>

FreeTask(p) ==
    /\ In(p, "free")
    /\ freeTask' = Claim(freeTask, Frame(p).id)
    /\ Advance(p, "publish_free")
    /\ UNCHANGED <<taskPool, taskPoolIdx, counters, jobs, program>>

PublishFree(p) ==
    /\ In(p, "publish_free")
    /\ freeTask' = Publish(freeTask, Frame(p).id)
    /\ Leave(p)
    /\ UNCHANGED <<taskPool, taskPoolIdx, counters, jobs, program>>

---------------------------------------------------------------------------
(* _task_worker *)

(* The run signal is polled: a worker goes on only if it reads it raised. *)
WorkerStart(w) ==
    /\ worker[w] = "start"
    /\ isRunning
    /\ worker' = [worker EXCEPT ![w] = "loop"]
    /\ UNCHANGED <<isRunning, tasks, counters, jobs, stack, phase, batches>>

(* Mutant of WorkerLoop: the loop does not look at is_running. *)
WorkerLoopForever(w) ==
    /\ worker[w] = "loop"
    /\ stack[w] = << >>
    /\ Enter(w, [at |-> "seek", id |-> 0])
    /\ UNCHANGED <<tasks, counters, jobs, program>>

WorkerLoop(w) ==
    /\ worker[w] = "loop"
    /\ stack[w] = << >>
    /\ isRunning
    /\ Enter(w, [at |-> "seek", id |-> 0])
    /\ UNCHANGED <<tasks, counters, jobs, program>>

WorkerEnd(w) ==
    /\ worker[w] = "loop"
    /\ stack[w] = << >>
    /\ ~ isRunning
    /\ worker' = [worker EXCEPT ![w] = "ended"]
    /\ UNCHANGED <<isRunning, tasks, counters, jobs, stack, phase, batches>>

---------------------------------------------------------------------------
(* The main thread *)

(* Mutant of CreateRenderer: the main thread works while it waits. *)
CreateRendererWorking ==
    /\ phase = "boot"
    /\ Enter(Main, AddCall("init", 1, Shared, "wait"))
    /\ phase' = "init"
    /\ UNCHANGED <<isRunning, tasks, counters, jobs, worker, batches>>

(* renderer_create: the initialisation task goes to a worker. *)
CreateRenderer ==
    /\ phase = "boot"
    /\ Enter(Main, AddCall("init", 1, Shared, "spin"))
    /\ phase' = "init"
    /\ UNCHANGED <<isRunning, tasks, counters, jobs, worker, batches>>

(* bgfx_init returns once the render thread renders. *)
BgfxInit ==
    /\ phase = "init"
    /\ stack[Main] = << >>
    /\ \E p \in Threads : Running(p, "render")
    /\ phase' = "up"
    /\ UNCHANGED <<isRunning, tasks, counters, jobs, stack, worker, batches>>

(* The tools have no renderer. *)
NoRenderer ==
    /\ phase = "boot"
    /\ phase' = "up"
    /\ UNCHANGED <<isRunning, tasks, counters, jobs, stack, worker, batches>>

(* foreach of the ECS, or a tool's pass over its files; or a batch for one  *)
(* thread, which is not the one the renderer keeps: nothing would run it.   *)
AddBatch(n, t) ==
    /\ phase = "up"
    /\ stack[Main] = << >>
    /\ batches < MaxBatches
    /\ t \in Threads => ~ Running(t, "render")
    /\ batches' = batches + 1
    /\ Enter(Main, AddCall("leaf", n, t, "wait"))
    /\ UNCHANGED <<isRunning, tasks, counters, jobs, worker, phase>>

(* unload_all reaches the renderer, which calls bgfx_shutdown. *)
Exit ==
    /\ phase = "up"
    /\ stack[Main] = << >>
    /\ phase' = "exit"
    /\ UNCHANGED <<isRunning, tasks, counters, jobs, stack, worker, batches>>

(* unload stops the workers and joins them. *)
Unload ==
    /\ phase = "exit"
    /\ isRunning' = FALSE
    /\ phase' = "down"
    /\ UNCHANGED <<tasks, counters, jobs, stack, worker, batches>>

Joined ==
    /\ phase = "down"
    /\ \A w \in Workers : worker[w] = "ended"
    /\ phase' = "off"
    /\ UNCHANGED <<isRunning, tasks, counters, jobs, stack, worker, batches>>

---------------------------------------------------------------------------
Adding(p) ==
    \/ NewCounter(p) \/ NoFreeCounter(p) \/ GrowCounter(p)
    \/ NewTask(p) \/ NoFreeTask(p) \/ GrowTask(p)
    \/ PushTask(p) \/ PublishTask(p) \/ AddReturn(p)

Waiting(p) ==
    WaitDone(p) \/ WaitWork(p) \/ ReleaseCounter(p) \/ PublishCounter(p)

Working(p) ==
    \/ TakeWork(p) \/ NoWork(p)
    \/ RunLeaf(p) \/ RunInit(p) \/ RunRender(p)
    \/ CountDown(p) \/ FreeTask(p) \/ PublishFree(p)

Call(p) == Adding(p) \/ Waiting(p) \/ Working(p)
Worker(w) == WorkerStart(w) \/ WorkerLoop(w) \/ WorkerEnd(w)

Program ==
    \/ Load
    \/ CreateRenderer \/ BgfxInit \/ NoRenderer
    \/ \E n \in Sizes, t \in Queues : AddBatch(n, t)
    \/ Exit \/ Unload \/ Joined

Next ==
    \/ \E p \in Threads : Call(p)
    \/ \E w \in Workers : Worker(w)
    \/ Program

Spec == Init /\ [][Next]_vars

(* Every thread keeps executing, and unload joins when it can.  Nothing     *)
(* makes the main thread add a batch or leave its loop.  A look that begins *)
(* when an item is ready takes one unless others take that item meanwhile   *)
(* (SizeMissesOnlyFull); with finitely many items, a thread that looks      *)
(* again and again while there is something to take therefore takes it.     *)
Fairness ==
    /\ \A p \in Threads : WF_vars(Call(p)) /\ SF_vars(TakeWork(p))
    /\ \A w \in Workers : WF_vars(Worker(w))
    /\ WF_vars(BgfxInit)
    /\ WF_vars(Joined)

FairSpec == Spec /\ Fairness
---------------------------------------------------------------------------
(* Where the ids are. *)

Frames(p) == {stack[p][k] : k \in DOMAIN stack[p]}
Ids(q) == {q[k].id : k \in DOMAIN q}
Distinct(q) == \A j, k \in DOMAIN q : q[j].id = q[k].id => j = k

(* Calls that own a task id: allocated but not yet pushed, or taken from a  *)
(* queue and not yet freed.                                                 *)
Held(p) == {f.id : f \in {g \in Frames(p) : g.at \in {"push_task", "run", "count", "free"}}}

(* Every id handed out is in exactly one place: on the free list, in one of *)
(* the queues of tasks, or with one thread.  An id in two places is a task  *)
(* run twice or a task overwritten before it ran; an id in none is lost for *)
(* ever.                                                                    *)
TaskPlaces ==
    LET places == {<<"free", freeTask>>} \union {<<t, jobs[t]>> : t \in Queues}
        queued == UNION {Ids(pl[2]) : pl \in places}
        held == UNION {Held(p) : p \in Threads}
    IN  /\ queued \union held = 1 .. taskPoolIdx - 1
        /\ queued \intersect held = {}
        /\ \A pl \in places : Distinct(pl[2])
        /\ \A pl, qm \in places : pl # qm => Ids(pl[2]) \intersect Ids(qm[2]) = {}
        /\ \A p, r \in Threads : p # r => Held(p) \intersect Held(r) = {}
        /\ \A p \in Threads : \A j, k \in DOMAIN stack[p] :
              /\ j # k
              /\ stack[p][j].at \in {"push_task", "run", "count", "free"}
              /\ stack[p][k].at \in {"push_task", "run", "count", "free"}
              => stack[p][j].id # stack[p][k].id

(* The tasks of counter c that are not counted down, and the items of c     *)
(* that have no task yet.                                                   *)
Uncounted(c) ==
    {i \in 1 .. taskPoolIdx - 1 :
        /\ taskPool[i].counter = c
        /\ \/ \E t \in Queues : i \in Ids(jobs[t])
           \/ \E p \in Threads : \E f \in Frames(p) : f.at \in {"run", "count"} /\ f.id = i}

AddingPcs == {"new_task", "grow_task", "push_task", "publish_task"}
AddingTo(p, c) ==
    {f \in Frames(p) : f.at \in AddingPcs /\ f.counter = c}
Unadded(c) == UNION {{p} \X UNION {1 .. f.left : f \in AddingTo(p, c)} : p \in Threads}

(* A counter is the number of its items that are not yet done, so a wait    *)
(* for 0 neither returns early nor waits for another batch.                 *)
CounterExact ==
    \A c \in 1 .. counterPoolIdx - 1 :
        counterPool[c] = Cardinality(Uncounted(c)) + Cardinality(Unadded(c))

(* A counter on the free list is on it once, belongs to no call of add or   *)
(* wait, and no task will count it down.                                    *)
FreedCounterUnreferenced ==
    /\ Distinct(freeCounter)
    /\ \A c \in Ids(freeCounter) :
          /\ Uncounted(c) = {}
          /\ \A p \in Threads : \A f \in Frames(p) :
                f.at \in AddingPcs \union {"wait", "spin", "release"}
                => f.counter # c

(* The render loop never ends up on the main thread: the renderer waits for *)
(* its initialisation without working, and does not go on before the loop   *)
(* runs elsewhere.                                                          *)
MainNeverRenders == ~ Running(Main, "render")

(* Every add and every wait of the main thread returns, and the renderer    *)
(* comes up, although the render loop then keeps a worker for good.         *)
MainCallsReturn ==
    (stack[Main] # << >> \/ phase = "init") ~> (stack[Main] = << >> /\ phase # "init")

(* unload returns when every worker has seen the run signal.                *)
UnloadReturns ==
    (phase = "down" /\ \A w \in Workers : worker[w] # "start") ~> (phase = "off")

(* "Wait for run signal 0 -> 1", task.c:164: once load has raised the       *)
(* signal, every worker gets past its wait.                                 *)
RunSignalReceived ==
    \A w \in Workers : isRunning ~> worker[w] # "start"

---------------------------------------------------------------------------
(* Type invariant. *)

Entries == [id : Nat, ready : BOOLEAN]
AddPcs == {"new_counter", "grow_counter", "new_task", "grow_task", "push_task", "publish_task",
           "wait", "spin", "release", "publish_counter"}
WorkPcs == {"seek", "run", "count", "free", "publish_free"}
AddFrames == [at : AddPcs, work : Works, left : Nat, to : Queues,
              wait : {"none", "wait", "spin"}, counter : Nat, id : Nat]
WorkFrames == [at : WorkPcs, id : Nat]

TypeOK ==
    /\ isRunning \in BOOLEAN
    /\ taskPool \in [TaskIds -> [work : Works, counter : Nat]]
    /\ taskPoolIdx \in Nat \ {0}
    /\ freeTask \in Seq(Entries)
    /\ counterPool \in [CounterIds -> Nat]
    /\ counterPoolIdx \in Nat \ {0}
    /\ freeCounter \in Seq(Entries)
    /\ jobs \in [Queues -> Seq(Entries)]
    /\ stack \in [Threads -> Seq(AddFrames \union WorkFrames)]
    /\ worker \in [Workers -> {"start", "loop", "ended"}]
    /\ phase \in {"load", "boot", "init", "up", "exit", "down", "off"}
    /\ batches \in Nat
=============================================================================
