# cetech: TLA+ models of the engine's core

cetech is a game engine in C: `celib`, a foundation library (task manager, object
database, containers, modules), and `cetech`, the engine on top of it (kernel loop,
entity component system, resources, renderer, editor). This directory holds TLA+
modules for the parts whose correctness depends on interleavings and on long sequences
of calls, TLC configurations that check them on small instances, and TLAPS proofs for
every instance. `PROJECT.json` lists every definition with the lines of source it
models, the runs, the mutants, the hazards and the theorems.

Contents: 1 Inventory, 2 Modules and the code, 3 Runs, 4 Proofs, 5 Disagreements found,
6 What is abstracted, 7 Plan.

## 1. Inventory

Paths are relative to `src/src/`.

| Component | State | Operations | Interacts with | What makes it hard | What makes it correct |
|---|---|---|---|---|---|
| MPMC queue `celib/private/queue_mpmc.inl`, `containers/mpmc.h` | ring of tickets and items, two positions | push, pop, size | task manager, cDB pools, handlers | every access is a separate atomic; threads are preempted between claim and release | it is a bounded FIFO; refusals only when full, empty or another call is in the way |
| Task manager `celib/private/task.c` | pools of tasks and counters with free lists, shared and per-worker queues, run signal | add, add_specific, wait with and without work, worker loop, load, unload | ECS queries, renderer, tools | recycled ids and counters; a waiter runs other people's tasks; a task that never returns | ids in one place, counters exact, calls return, workers join |
| Hash table `celib/containers/hash.h` | open addressing with tombstones, load | add, lookup, contain, remove, clean, clone | nearly everything | tombstones and growth depend on the history of calls | it is a dictionary |
| cDB objects `celib/private/cdb.c` | uid table, object headers, typed values, free and to-free lists | create, create_from, write_begin, set, commit, destroy, gc | every engine component | lock-free readers with deferred freeing; nested calls through prefabs, instances, subobjects | one owner per value, stable reads, inheritance |
| cDB sets, events, pools (same file) | `set_t` lists, listener queues, id pools, `to_free_*` queues of fixed size | objset add, remove, move; listeners; id allocation | ECS sync, editor | index bookkeeping; queues at their limit; id pools with more than one thread | set index agrees with list; no id handed out twice |
| ECS storage and queries `cetech/ecs/private/ecs.c` | archetypes, chunks, entity index, command buffers, change versions | create, destroy, add and remove components, execute commands, process queries | task manager, cDB | a removal moves another entity; versions wrap; queries run on all workers while changes are deferred | entity index and chunks agree; no change escapes a query |
| ECS spawn and sync (same file) | spawn infos, maps from object to entities | spawn, `_sync_task` | cDB events | objects change or die while their events are queued | spawned entities follow their objects |
| Task graph `celib/containers/bagraph.h` | nodes with before and after edges | add, build | kernel, ECS | constraints given in any order | the order respects every constraint |
| Kernel `cetech/kernel/private/kernel.c` | init, update and shutdown graphs, run flag | init, loop, shutdown | everything | order of init and shutdown | what was initialised is shut down in reverse |
| API registry and modules `celib/private/{api,celib_module,core}.c` | tables of APIs and implementations, loaded modules | add, remove, first, on_add; load, unload, reload | everything | listeners called during registration; unload order | nobody calls an unloaded module |
| Handlers, arrays, buffers `celib/handler.h`, `containers/*.h` | generation-checked handles | create, destroy, alive | ECS | generations wrap | a stale handle is not alive |
| Resources `cetech/resource` | resource database (sqlite), load requests | compile, load on demand, reload | cDB loader | on-demand load inside a read | an object is loaded once |
| Renderer and render graph `cetech/renderer`, `render_graph` | render thread, graph of passes | create, frame, shutdown | task manager, bgfx | render loop keeps a worker | start-up and shutdown end |
| Scene components `transform`, `parent`, `camera`, `mesh`, `scene`, `physics` | component data, parent graph | systems | ECS, cDB | propagation order | a child follows its parent |
| Materials, textures, shaders, node graphs | cDB objects and GPU handles | compile, online load | cDB, resources | reload after change | handles match the current object |
| Machine and controllers | button states of two frames | poll, process | kernel | pressed and released edges | one edge per press |
| Editor | docks, selection, actions | UI commands | cDB, ECS | object destroyed while selected | no dangling selection |
| Memory, os, log, id, config, fs, ydb | allocators, threads, files | wrappers, parsing, formatting | everything | mostly I/O | - |
| Tools `tools/hash`, `tools/doc` | list of files | one batch, one wait, unload | task manager | very short programs | they end |
| Vendored code (SQLite, dear imgui, bgfx helpers) | - | - | - | third party | not modelled |

How the parts interact. The kernel loop calls the ECS step and then cDB's `gc`
(kernel.c:301). The ECS runs its systems as tasks of the task manager, one task per chunk, and
waits with work, so the main thread runs tasks too. Components and editor write cDB
objects; cDB queues change events; the ECS sync task reads those queues. The renderer has a
worker run a task that ends only at shutdown. Modules meet through the API registry. Two
actors at work at the same time exist in four places: the task manager and its queues, the
ECS query tasks, the render thread, and (by design, though today's callers are on
the main thread) cDB's pools. Nothing is persisted that must survive a crash except the
resource database, which SQLite handles.

## 2. Modules and the code

| Module | Models | Role |
|---|---|---|
| `MpmcQueue` | queue_mpmc.inl | the ring, one action per atomic access |
| `BoundedFifo` | - | what a bounded queue promises; `MpmcQueue` implements it |
| `MpmcQueueProof` | - | theorems about `MpmcQueue` and their proofs |
| `TaskManager` | task.c; its use in renderer.c, ecs.c and the tools | the task manager with its clients |
| `TaskManagerProof` | - | types, stacks of calls, one place for every task id; counters of batches, and where the render loop runs |
| `HashTable` | hash.h | the table as operators: every function of the header |
| `HashMap` | users of hash.h | a table and the sequences of calls its owners make |
| `Dictionary` | - | what a table promises; `HashMap` implements it |
| `HashMapProof` | - | probes, adds, growth and removes, and that tables are dictionaries |
| `CdbObject`, `MCCdbObject` | cdb.c | objects, writers, prefabs, subobjects, gc; the second adds the symmetry for TLC |
| `CdbObjectProof` | - | who owns a typed value, and what the calls in progress have left to do, without subobjects |
| `EcsStorage`, `MCEcsStorage` | ecs.c, its use in parent.c | archetypes, chunks, the index of entities, every operation on an entity |
| `EcsWorld` | - | what a world promises; `EcsStorage` implements it |
| `EcsStorageProof` | - | what the functions of ecs.c do to chunks and index, as lemmas; the invariant of the storage and the refinement of `EcsWorld` |
| `EcsTransform`, `MCEcsTransform` | ecs.c versions and queries, transform.c | which chunks a system processes, and when matrices are right |
| `EcsTransformProof` | - | arithmetic of versions, and that no change is lost; when matrices are right; uses `TaskGraphProof` as an instance |
| `EcsSync`, `MCEcsSync` | events of cdb.c, spawning and `_sync_task` of ecs.c, parent.c | entities that follow the objects they were spawned from |
| `TaskGraph` | bagraph.h | the graph as operators; used by `Kernel` and `EcsTransform` |
| `TaskGraphProof` | - | what adding and building do to any graph, as lemmas; that the output is in order, and complete |
| `Kernel`, `MCKernel` | kernel.c, api.c, celib_module.c | modules, init, frames, reload, unload |
| `KernelProof` | - | the list of tasks through loads and reloads, and what a phase calls; uses `TaskGraphProof` as an instance |

**MpmcQueue.** `sequences`, `data`, `enqueuePos`, `dequeuePos` are the fields of
`struct queue_mpmc`; `pos`, `seq`, `item`, `out` the locals, argument and result of the call
a thread is in, and `pc` the next access. A push is PushStart (load the position), PushLoad
(load the ticket), then PushClaim, PushLost (the weak exchange fails, spuriously too),
PushFull or PushBehind, then PushWrite and PushPublish; a pop is its mirror image. A size is
SizeStart and SizeLoad, its two loads, and `QueueSize` what it makes of them. A
definition named `...Mask`, `...Store` and so on after `Mutant of` in a comment is a
plausible bug used to show that a property can fail; no specification uses it.

**TaskManager.** The fields of `_G` are the variables `isRunning` to `jobs`; each thread has
a stack of calls (add, wait, do_work), because a wait works and a task may add. A queue is a
sequence of entries that are claimed first and published later: these are the two instants of
a push that other threads can tell apart. That a pop is refused only when the queue is empty
or its oldest push is unpublished is `RefusedOnlyWhenBusy`, and that the ring is otherwise a
FIFO is `ImplementsFifo`, both proved about `MpmcQueue`. A new task or counter is two steps
when the free list refuses (NoFreeTask, then GrowTask), and other threads may free one between them. A thread that looks for work may
find none in a queue that is not empty (NoWork), since `queue_task_size` loads its positions at two instants. The code
ignores what its pushes return (task.c:107, 158); the queues have room for MAX_TASK ids, and the model hands out fewer, so none is refused. `phase` is how far the main thread
is: load, the renderer's start-up (or none, in the tools), batches, exit, unload.

**HashTable, HashMap.** `n`, `keys`, `values` are the fields of `ce_hash_t`; `adds` is
`lf * n`, the number of stores since the table got its size. The code's users call a table in
two sound ways: "update" (add, never remove) and "remove" (add only keys just found
absent); the third, "both", is `_remove_from_set` (cdb.c:416-441).

**CdbObject.** `objects` maps a uid to its `object_t` and to that of its writer; `pool`,
`fresh`, `freeIdx`, `toFreeIdx` are the typed storage (free lists are bags: they have no
order, but an index can be in one twice); `toFreeUids` is the list of objects to destroy at
gc. Calls that call one another (create_from, set_subobject, destroy_object, write_commit
and its dispatch to instances) are actions on a stack `calls`; the loops over instances pick
them in any order. Clients' calls start when the stack is empty: today all of them are on
the main thread. `own` remembers which properties a client set, to say which ones inherit.
`Composites` are objects of a type with a default subobject, which create_object makes too (DefaultSub);
`Absent` are the values that stand for a NULL string, which an instance always follows (`Follows`);
`Doomed` and `Roots` bound what clients destroy and create.
With `Careful` clients keep to `Untouched` and `Sound`: they do not destroy or copy what is
being written, nor make a prefab a part of its own instance; and they stay away from three legal sequences of
calls that the code gets wrong (section 5): to destroy an instance and
then its prefab within a frame, to destroy a prefab that has a subobject and an instance, and to replace a
subobject of a prefab while an instance has a copy of it. Without `Careful` the actions have the code's guards only.

**EcsStorage.** The record `w` is `world_instance_t`: `chunk` the chunks with their mask,
entities, data and links, `used` those taken from the pool, `first` the archetypes (named by
mask), `entChunk` and `entIdx` the index of entities. `AddToArchetype`, `RemoveFromArchetype`,
`MovedData` are the functions of those names, and `Moved` the sequence that adding, removing and
destroying share. `destroy` recurses into the children of an entity: `doomed` is what is left of
the arrays of calls in progress, and each entity is a step. `EcsWorld` says nothing of chunks.
The operations have the conditions of the code and `HasRoom`, a bound of the model; what clients must
keep to for the promise to hold is said by the operators from `NotBeforeOthers` to `CanDestroy`, and
asked of them in `Next` (section 5). So `IndexAgrees` and `ImplementsWorld` are properties of the code
with such clients: without the rules they fail, and an ordinary program does break them.

**EcsTransform.** `version` is the version of the position in the one chunk of each archetype,
`global` and `last` are `global_system_version` and the transform system's entry in
`last_system_version`. `Tick`, `ChunkChanged`, `NeedProcess` are the arithmetic of versions,
`Marked` what `_add_to_archetype`, `_remove_from_archetype` and `get_one` with write do (a removal marks only where it
moves another entity into the gap, `Closed`). A
world matrix is the sequence of the local ones it was made from, which tells apart what a
product of matrices is made of. `ChildOrder` builds the graph of entities with `TaskGraph`.

**EcsSync.** `changes` is the queue of changed and destroyed objects, `announced` is
`changed_obj_set`; `w` holds the entities, the spawn infos (`info`, `free`, `ents`) and the events in
their listeners. A spawn info that was freed is given to the next object and stays mapped to the old one, and the destruction
of an object walks an array while entities are swapped out of it (`LostEntity`), both as in the code. The phases of a frame are the tasks before `_sync_task`, the sync task one
event at a time, and the tasks after it up to `gc`; clients edit in the first and the third.
`Step` leaves open whether the systems of parent.c notice an entity that was moved: they do
only when something else marked its chunk.

**TaskGraph, Kernel.** A graph is the value of a `ce_ba_graph_t`. In `Kernel` a function
pointer is the image that holds its code (a module and the number of its reloads); `impls` is the
list of the registered tasks, `map` and `order` what the graph of the current phase was built
to. A frame is FrameBegin (do_reload, then the graph anew), CallUpdate for each name,
FrameEnd. Tasks may quit or ask for a reload.

## 3. Runs

States and times are those of two TLC workers.

| Run | Instance | States | Shows |
|---|---|---|---|
| `mpmc_queue` | 2 threads, 2 slots, 3 positions, 2 items | 191 058, 100 s | `RingInv`; `QuiescentExact`; `SizeMissesOnlyFull`: `_try_pop` overlooks an item that stays in the queue only when the ring is full; `RefusedOnlyWhenBusy`; `ImplementsFifo`; `CallsReturn` |
| `task_manager` | main, 2 workers, 2 batches of 0 to 2 tasks, shared or for one worker, with and without renderer | 65 448, 40 s | `TaskPlaces`, `CounterExact`, `FreedCounterUnreferenced`, `MainNeverRenders`, `MainCallsReturn`, `UnloadReturns` |
| `task_run_signal` | 1 worker | - | violation of `RunSignalReceived` |
| `hash_map` | 4 colliding keys, 2 values, sizes 2, 4, 8 | 40 393, 110 s | `ProbesReach`, `GrowthSettles`, `ImplementsDictionary` |
| `hash_remove` | the same in the use "both" | - | violation of `RemovedIsAbsent` |
| `cdb_object` | 3 uids that may be one another's prefab, 4 typed values, 3 values of which one is a NULL string, 2 writers of up to 2 changes | 723 984, 160 s | `SlotsOwnedOnce`, `FreeSlotsClean`, `InstancesListed`, `ValuesFollow`, `ReadersStable` |
| `cdb_subobject` | a prefab and an object to set as its subobject, each with or without a default subobject, two more uids for instances and copies, 6 typed values | 198 458, 180 s | `SlotsOwnedOnce` through nested creation and destruction; `SubsFollow` |
| `cdb_destroy` | 2 uids, clients not careful | - | violation of `DestroyedOnce` |
| `ecs_storage` | 3 entities, a plain component and the list of children, 4 chunks of 2 places | 16 110, 65 s | `IndexAgrees`, `ImplementsWorld`, for clients that keep to the rules |
| `ecs_transform` | 3 entities, 2 positions, versions of 3 bits, 6 edits | 1 251 737, 55 s | `StaleIsMarked` across wrap-around, `LagBounded` |
| `ecs_sync` | a root and three more entity objects, 2 component objects, 5 edits, 8 entities | 2 395 761, 105 s | `EntitiesShowObjects`, `TreesFollowObjects` |
| `kernel` | 6 modules with the tasks and constraints of the engine, 2 of them reloaded once | 125 161, 7 s | `OrderKept`, `EveryTaskOnce`, `CallsLoadedCode` |

Why the bounds are enough to be interesting. Two slots and three positions let every slot be
used on a second lap while a call of the first lap still holds it. Two workers beside the
main thread let the renderer keep one worker while main and the other one finish a batch;
two batches reuse ids and counters of the first. Keys 0, 4 and 8 share a home in tables of
two and four slots and the table grows twice. Three uids make a chain prefab, instance,
instance of the instance, with a writer open on one while another changes; four typed values for three
objects and their drafts force reuse after gc. Four uids and six typed values let a prefab's
subobject be copied to an instance, and be replaced where no instance has one; more would not terminate in minutes. Each run was also
checked with every listed mutant: the property named with it fails.

Three entities and chunks of two places make an archetype of two chunks, with a full one in front,
and moves that fill a gap with another entity; four
chunks leave one more than the three archetypes need for their first, and three entities can be a parent, a child and a grandchild. Versions of three bits wrap after seven systems, which is
less than three frames, so a chunk untouched for a while is always met at every distance of its
version; six edits build the deepest hierarchy (three creations, two attachments) and change it once more.
Five edits include a spawn, a move, a destruction of what was moved, and an addition, in one frame or
in several, before and after the sync task. The kernel's modules add their tasks in every
order, with constraints in both lists, and two of them are reloaded.

Deadlock checking is off where the system may stop: the task manager when it is unloaded,
the database when clients have no typed value or uid left (a bound of the model), the ECS models when
the bound on edits or chunks is reached, the kernel when the program has ended.

Fairness. `MpmcQueue`: every thread keeps executing its call (weak fairness), and an
exchange that finds its position unclaimed again and again succeeds at last (strong fairness): the weak exchange may fail
spuriously, but not for ever, which the load-linked loop it is compiled to guarantees.
The code is lock-free, not wait-free: `CallsReturn` is
about finitely many pushes (`MaxPos`). `TaskManager`: every thread keeps being scheduled (the
operating system's threads are preemptive), and `bgfx_init` and the joins return once their
condition holds. A thread that looks for work again and again while there is
some takes it at last (strong fairness of TakeWork): a look that starts with an item ready misses it only if others take it
meanwhile (`SizeMissesOnlyFull`), and there are finitely many items.
The clients' choices (another batch, leaving) have no fairness.
The object database and the hash tables are sequential and have safety properties only.

## 4. Proofs

Every theorem is proved for all values of the constants under the named assumptions of its
component's module, which the run of that module evaluates.

| Module | Theorems (property of a run) | Assumptions |
|---|---|---|
| `MpmcQueueProof` | `RingInvariant` (`RingInv`), `SizeTheorem` (`SizeMissesOnlyFull`), `QuiescentTheorem` (`QuiescentExact`), `RefusalTheorem` (`RefusedOnlyWhenBusy`), `Refinement` (`ImplementsFifo`) | `Capacity >= 2`; a bound on the pushes; the value a refused pop stores is no item |
| `TaskManagerProof` | `AlwaysTyped`, `EveryTaskInOnePlace` (`TaskPlaces`), `CountersExact` (`CounterExact`), `FreedCountersUnreferenced` (`FreedCounterUnreferenced`), `TaskTypes` (`TypeOK`), `RenderOffMain` (`MainNeverRenders`) | main is no worker; bounds on batches |
| `HashMapProof` | `TypeSafe` (`TypeOK`), `ProbesAlwaysReach` (`ProbesReach`), `GrowthAlwaysSettles` (`GrowthSettles`), `TableIsDictionary` (`ImplementsDictionary`) | keys are naturals; `None` is no value; two slots or more at the first add; `CleanUses`: the table is used in one of the two ways of the run `hash_map` |
| `CdbObjectProof` | `ScalarInvariant`, `CdbTypes` (`TypeOK`), `ValuesOwnedOnce` (`SlotsOwnedOnce`), `FreeValuesClean` (`FreeSlotsClean`), `NoInstanceMissed` (`InstancesListed`), `ReadersKeepSeeing` (`ReadersStable`), `ValuesInherited` (`ValuesFollow`) | 0 is no uid and no place, and a value; finitely many places; `Scalar`: no object has a default subobject, none is set as one, and clients are careful, as in the run `cdb_object` |
| `TaskGraphProof` | `OutputOrdered`, `OutputComplete`, `OrderFollowsLists` | none |
| `KernelProof` | `Invariant`, `LoadedCodeCalled` (`CallsLoadedCode`), `ListsObeyed` (`OrderKept`), `NothingDropped` (`EveryTaskOnce`) | finitely many modules, "kernel" is none of them; two modules add no task of the same name, no module adds the kernel's own; lists name tasks that exist. `NothingDropped` alone: the lists do not go round in a circle (`NoCircle`) |
| `EcsTransformProof` | `MarksAreRecent`, `NoChangeLost` (`StaleIsMarked`), `LagIsDepth` (`LagBounded`) | eight versions or more, an even number; position 0 exists; finitely many entities |
| `EcsStorageProof` | `StorageInvariant`, `IndexAndChunksAgree` (`IndexAgrees`), `StorageTypes` (`TypeOK`), `Refinement` (`ImplementsWorld`) | finitely many entities; `NULL` is no chunk; a chunk has a place; the list of children is system state; 0 is a datum. All are about clients that keep to `CanAdd`, `CanRemove` and `CanDestroy`, which are part of `Next` |

**The queue.** `RingInv` is inductive. Its core is `SlotStates`:
the ticket of every slot is that of the one position the slot serves, which is open,
claimed by a push, published, or being left by a pop. The mere bound on the positions
is not inductive, since a claim is safe only because the ticket it read is still the
slot's ticket when the exchange succeeds; that is what `TicketsGrow` (a ticket read is
never ahead of the slot's), with `ClaimFindsFree` and `ClaimFindsPublished`, supplies.
Claims and releases are one lemma each; the steps that move only locals are one lemma for
pushes and one for pops. For the refinement, the queue's contents are the items between the two
positions; an item not yet written is taken from the push that holds its position. A
successful exchange is the abstract push or pop, every other step stutters or stores the
refused pop's default. The facts about `%` that place positions in slots (`SlotUnique`,
`SlotNext`, `SlotApart`) are lemmas of their own, from multiplication alone.

**Stacks and task ids.** A wait works and a task adds, so a thread's calls nest to any depth, and
every argument about a step needs to know what is below it. `Typed` says so: `Shape` (below the
innermost call there are only waits that work and tasks that add, `Suspended`) and `Idle` (main
is in no call before the renderer starts). The lemmas `ShapeBecomes`, `ShapeEnters`, `ShapeLeaves` and
`ShapeNests` are the four things a step does to a stack. `TaskPlaces` is not inductive without `Lists` and
`Apart` (an id is in one list, at one place, and in no call) together with `Everywhere`
(every id that was taken from the pool is in some place), all in `Places`; only five steps move an id, and the others are
quiet (`IdsSame`, `ListsSame`).

**Counters.** `CounterExact` counts sets, so each step has to be shown to take out of one exactly
what it puts in another or takes off the counter. `CounterInv` adds what
keeps them apart: `OwnersApart` (a counter is that of one call, or free, not both), `InUse` (a task that is
not counted down has a counter that was handed out and is not free, and a call that releases a counter has no
such task left) and `Exact` (the counter is the number of these tasks and of the items its owner has still to
add; one never handed out is 0). `Live` tasks are those queued or in a call up to the count-down, so
`CounterInv` rests on `Places`.

**The render loop.** `RenderInv` follows the renderer's work, which is first an item to add, then a queued task,
then a task that runs: there is one such piece at most (`AtMostOne`), none before the renderer is created (`Early`), only the
loop on another thread once it is up (`Late`), and in between main is in
the one call that waits without work (`MainSpins`), so it takes no task at all. Were that a wait with work, main could take
the render loop: the mutant of this run does that.

**Hash tables.** `TableInv` is what every call needs of a table: it is typed, no probe for a stored key meets an empty
slot or the key itself before the slot that holds it (`Probed`), and a table that is only updated has no
deleted slots. The last part is what the two ways of use come to: with it, or with a look-up before
each add, the slot that an add takes (the first that is empty, deleted or the key's) is never before a
slot that holds the key (`StoreHolds`); the run `hash_remove` shows the use in which it is. What a
table holds for a key (`Holds`, `Absent`) is what lookups return (`LookupHolds`, `LookupAbsent`), and each
call is shown to change it for its key alone. A growth is followed slot by slot: `Moved` says what the larger
table holds once the first slots are moved, and that no more slots are used than adds were made, so that there is
an empty one for every key of a probe (`GrowRoom`), and a load far from 0.7. That a probe comes to
every slot, and to none twice, is arithmetic of remainders (`AtReaches`, `AtApart`).

Growing is a recursive function over the slots, and what it computes is shown by induction. The library's induction
theorems cannot be used here (they have an operator as a parameter), but its fact that the finite subsets of a set are well-founded
under inclusion can: `Least` takes the least element of a set of naturals from it, and `Induct` is induction for a set of
numbers. `MoveAllSteps` shows that the recursive function exists.

**Versions.** `MarkInv` says how many ticks the version is past the transform system's last run, by the
system that ran last (`Since`), and that a chunk with an out-of-date entity is marked with one of
the two versions since then (`MarkedSince`). Two ticks are far less than half of the versions, so
the wrapping comparison holds (`RecentIsChanged`, with the skip of 0). A chunk marked long ago may
look changed again after half of the versions, which only processes it for nothing.

**Matrices.** `LagInv` adds to `MarkInv` that the parents make no circle (`Rooted`: a rank falls from a child to its parent;
an attached entity is lifted with all that are under it, `RankAfter`), that a child's parent is there (`Alive`), and
`Settled`: as many levels from the top are right as there were frames without an edit. The rank is what makes
`Above` and `Composed` well defined (`Climb`: a function defined by recursion up the parents exists) and the graph of children complete, so that
`OrderFollowsLists` gives an order with each child in it, before its parent. In that order the second pass multiplies each
child with the matrix that its parent had before the pass (`PassFacts`): right if the parent's level was, and
then one level more is right after it (`LagTransform`). The children's local matrices are right after the first
frame because no change is lost. TLC checked `Rooted`, `Alive` and `Settled` in the run's instance before.

**Storage.** `StorageInv` is about the world `w` and the queue `doomed`. `Linked`, `Filled`,
`Occupied` and `Indexed` (together `Good`) are each needed by the others: filling a gap with the last entity of
the chunk (`GapRepaired`) is right only if the index and the places are inverse to each other, and
unlinking an emptied chunk only if links agree both ways. `Tree` (children live, keep system
state and have one parent) and `Queued` (what a call of destroy has yet to take are children of entities that are
dying) are what makes the recursion of destroy safe while it moves entities in the chunks it
walks. `AddToArchetype` and `RemoveFromArchetype` are broken at their two intermediate worlds: one in which the
entity is in two places (`Come`) and one with a gap (`Gone`). The refinement maps an entity to its data
(`Components`) and the arrays of destroy to the set `Awaited`; every action is one step of the
world, and moves between chunks show nothing.

**Graphs.** `Sound` is what every graph has that calls of ce_bag_add made: its names are
listed once, and the edges are in both lists, as often in the list of the one end as in that of the other (`Count`; an edge may be
there several times, as two tasks may name each other in both ways). While a build runs, `Popping` holds: the names put out, those waiting and
those left are apart, a name that is put out is in no `before` list any more, and a name is put out only when its own
such list is empty, so each name is in front of those it was to come before (`PopFacts`, with `ReleaseFacts` for the inner loop). That gives the order whatever the input. That
nothing is left when the build stops needs that there is no circle: were names left, each would follow another one that is left, and
along a rank that falls with every edge (`Ranked`) there is a least of them. Nothing in the code looks for a
circle; with one the names on it and behind it are dropped in silence, so the theorem about completeness says so in its hypothesis.

**The kernel.** `IInv` says that the list of tasks is what the loaded images added: an entry occurs in it as often as its module adds
it if its image is loaded, and not at all otherwise (`Installed`). It speaks of how often, not where, since `remove_impl` moves the last entry into
the gap. A reload adds the new image's entries before it takes the old one's out, and both halves are needed for
`CallsLoadedCode` (`LoadFacts`, `UnloadFacts`, `ReloadedFacts`, then `ReloadEachFacts` over the slots). Once all modules are loaded every task is
listed (`CoverFacts`), so the graph of a phase has the right names and edges and `OrderedFacts` carries the two theorems about graphs over (`GoodOrder`).
`IInv` was checked by TLC on a smaller instance before.

As with the growth of a table, what the recursive functions of both modules compute is shown by induction with `Least` and `Induct`, and
that they exist by one lemma, `Recursion`: it speaks of a step given as a function rather than an operator, and each user restricts its operator
to a set that the step stays in.

**Typed values of the database.** The properties of `CdbObject` hold between the steps of nested calls only
because of what those calls have already done, so `ScalarInv` has a part for each. About the data: `Listed` and `Acyclic`
(prefabs and instances know one another and form a forest), `Drafted` (who has a writer, a client or a commit in progress,
has one with a typed value of its own), `Owners` (each typed value is in one place: fresh, free,
to be freed, or owned by one object or one writer; `GivenUp` are the objects whose typed value is to be freed though
they still lead to it), `Clean` and `Swept` (who is to be destroyed at gc takes its instances with it). About the
stack, `InCalls` says which calls can be in progress together, and of each what its loop over the instances has left.
`Destroys` and `Commits` are the two that nest to any depth: the calls follow the lists of
instances (`Chained`), no object is in two of them (`Apart`), and all that the loops may still reach lies in a set closed under
instances that holds nothing the clients are writing (`Dooms`, `Reaches`). Without that set a commit
dispatched to an instance could meet a writer, or one of destroy an object that is already
listed. The client's obligations (`Untouched`, `Sound`) establish the set when the outermost call starts, and each step keeps it: a commit and a
destruction do not change who is an instance of whom until gc. The preservation of `ScalarInv`
has one lemma for each action, grouped by which stack it works on; `Pushed`, `CallsOnly` and the lemmas before them are what pushing,
popping and replacing a call do to the parts. `ReadersKeepSeeing` needs one fact more, that a call
writes only typed values that no reader was led to (`Unread`): those of writers.

`ValuesInherited` rests on a second invariant, `FollowInv`, inductive together with `ScalarInv`. In the
middle of a commit an instance has not its prefab's value, and need not get it by comparing one
value: the prefab's changes are followed one by one, and each only if the instance still has the value the change
started from. So `FollowInv` says that the changes a writer has listed lead, each from where the one before ended,
from the value the object has to the one its writer has (`Recorded`, `Led`), and that what a call
has still to follow leads an instance's writer to the value its prefab is to have when all calls have
returned (`Following`, `Goal`). An instance that was told by a commit in progress already has that value, one that was not
has the old one (`Shown`). A client's open writer of an instance, which a commit never reaches, has
its prefab's value too (`Drawn`). The case that needs most is the end of a commit (`CommitEndFollows`): the object
that gets its writer's value is the prefab of some instances, which are now told for good, and may be an instance of
an object whose commit is the next call on the stack (`EncloserTells`).

The theorems are about databases without subobjects. There every nested call is a destruction or a commit, and the
two never mix; with subobjects a commit creates and destroys others on the way, and the sets above are no longer fixed while it runs.
The run `cdb_subobject` checks `SlotsOwnedOnce` there.

**What stays with TLC, and why.** Liveness (`CallsReturn`, `MainCallsReturn`, `UnloadReturns`) is out of the prover's
reach. `EntitiesShowObjects` and `TreesFollowObjects` of `EcsSync`: spawning and destroying a tree are recursive operators there,
of which the prover cannot reason, and an invariant has to say of every queue of events what reading it to the end will do.
`SubsFollow` of `CdbObject`, and all its properties in databases with subobjects, as said above. A table used in the third way
(`Uses = {"both"}`) is no dictionary, and nothing is proved about it.

## 5. Disagreements found

* `task_run_signal`: a worker polls `is_running` until it reads 1 (task.c:165). The
  signal is a level: if the program loads and unloads between two polls of a worker, the
  worker spins for ever and `unload` joins for ever. The tools are that short.
* `hash_remove`: `ce_hash_add` stops at the first tombstone and may store a key twice;
  `ce_hash_remove` then deletes one copy and lookups find the other. Sets of subobjects use a
  table this way.
* `cdb_destroy`: `destroy_object` frees an object's typed value before it knows whether the
  object is already listed (cdb.c:1066), and the assertion that it is not is commented out (cdb.c:1024). One typed value is freed twice,
  and two later objects share it, when an instance and then its prefab are destroyed in one frame; when a prefab is destroyed
  that has a subobject and an instance, as the instance's subobject is reached through the prefab's (1078, 1108-1113) and through the instance; and
  when a subobject of a prefab is replaced, as the instance's goes with the old one, whose instance it is, and again when the
  instance follows (2731-2733). The run shows the first. `CdbPrefab.cfg` and `CdbReplace.cfg`, kept beside it for `MCCdbObject`, show
  the other two: `DestroyedOnce` is violated under each (after 300 states, and after 60 000 in half a minute).

The repository states nothing about the following, so no run claims a violation. In the models
clients keep to what the code needs; each place is given with the obligation (in brackets) that
keeps the model clear of it. The obligations of `EcsSync` were each found as a counterexample
of a run without them, those of `EcsStorage` and `Kernel` by reading:

* ECS storage. The third chunk of an archetype unlinks the middle one, ecs.c:498
  (`TwoChunksDo`). Emptying the first chunk frees the archetype under the others, ecs.c:555
  (`NotBeforeOthers`). Both lose chunks to queries in ordinary use, the first with a few hundred entities of one archetype,
  and no property here speaks of them: that queries see every chunk is not true of the program. `CanAdd` asks both of
  `add_components` too. An entity whose last component was removed keeps its index, ecs.c:1005
  (`CanRemove`, `CanDestroy`); destroying an object makes the sync task take the components
  away first and destroy the entity after. `destroy` reads the children at a place that another entity has
  moved into, ecs.c:1446 (`LastOrAlike`), and keeps a pointer to an archetype while the pool may
  grow, ecs.c:1450 (`NoNewArchetype`).
* Versions. `add_components` of a component that is there marks no change, ecs.c:879: a
  new parent is not noticed, nor a position set that way.
* Synchronisation. An object is announced once between two collections: commit to it
  again only before the announcement is read, cdb.c:661 (`WillBeSeen`). Destroy only before the
  sync task, as the collection takes away what the event is about (`DestroyObject`). Spawn an object
  again only when its listeners are empty and no destroyed component is in the queue,
  ecs.c:754 (`Spawn`). Move an object once at a time and only to a spawned one (`Move`,
  `MovePending`); do not destroy an old parent before parent.c noticed that a child left
  (`MovesNoticed`). Add a component after another was removed only when the object is not
  announced yet (`AddComponent`).
* Kernel. `_shutdown` never calls anything, kernel.c:241 (`LoopEnd` models it so); a name in a
  constraint that no task has is called through NULL, kernel.c:190 (`ConstraintAssumption`); a
  reloaded module's init is not called.

The `hazards` of `PROJECT.json` list further places found while reading; those
without a property say why.

## 6. What is abstracted

* Sequential consistency. The queue reads tickets with acquire and writes them with
  release, positions relaxed; the properties do not depend on the order of relaxed
  accesses to different positions, but that is an argument and not a check.
* Positions and tickets are naturals: the overflow of `int` after 2^31 pushes is a hazard that no
  run reaches.
* Names, data pointers, allocators, logging; strings and blobs of cDB are values like any other.
* bgfx is external: `bgfx_init` returns when the render thread renders, and
  `bgfx_shutdown` makes the render loop return.
* `CdbObject`: one property stands for all scalar types, one for SUBOBJECT; objects are
  named by uid; no listener; no loader; `write_try_commit` and `move_obj` have no client and are left
  out, `move_objset_obj` comes with the sets. `InstancesListed` shows that an instance in a list is
  alive, so the path where dispatch finds none is left out too.
* `ValuesFollow` and `SubsFollow` speak of properties that no client has set on the
  instance: the code decides by comparing values, and an override equal to the prefab's
  old value is overwritten by design.

* `EcsStorage`: one capacity for all archetypes, handles not reused, pools that do not
  move. `EcsTransform`: one chunk for each archetype, position alone. `EcsSync`: one world, one
  type of component, sets without order or index, database records not recycled (a recycled record keeps
  the listeners of another object, cdb.c:1236). `Kernel`: configuration, metrics, the compiler
  of resources, files and their times; at most MAX_MODULES modules; that an
  unload takes out what its load added, which the dynamic modules of the repository do (profiler_dock.c:127, game_example.c:160-168). The modules
  that the run reloads are chosen for their constraints: "ecs" is linked statically in this repository.

Not modelled: vendored code, the operating system layer, logging, string identifiers, formatting and
parsing (ydb), allocators, drawing and the user interface: they are input and output, or third
party. Resources, the render graph and the editor's selection have state but little of it is
shared; they come last in the plan.

## 7. Plan

Theorems: the ownership of typed values with subobjects, for which `Dooms` and `Reaches` must follow subobjects too; `EcsSync`,
with its trees as recursive functions.

Models: `CdbSet` (a set's list and index, inheritance of sets, the lost instance of create_from while the
prefab is written), command buffers on top of `EcsStorage`, the id and record pools of cDB with two
threads, resources with the database as an external store, the editor's selection.
