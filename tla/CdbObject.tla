----------------------------- MODULE CdbObject -----------------------------
(***************************************************************************)
(* Objects of one database of celib/private/cdb.c: their typed values with *)
(* deferred freeing, write transactions, prefabs with their instances, and *)
(* the garbage collection that the kernel runs at the end of every frame   *)
(* (kernel.c:301).                                                         *)
(*                                                                         *)
(* The registered type has two properties: "val" stands for the scalar     *)
(* ones (integer, float, bool, string, ref), "sub" is a SUBOBJECT, whose   *)
(* default has no subobject itself.  The calls that call one another       *)
(* (create_object with a default subobject, create_from, set_subobject,    *)
(* destroy_object, write_commit) are taken step by step: the innermost     *)
(* call is the head of calls.  Only one thread uses the database, so a     *)
(* client's call starts when no other is in progress.                      *)
(*                                                                         *)
(* Abstracted: the object_t of a uid and of a writer of it are named by    *)
(* the uid, not by their place in object_pool and in object_id_pool;       *)
(* nobody listens to events; the loader, which is external, knows no       *)
(* object that is not in memory; lists of things to free have no order,    *)
(* and instances are dispatched to and destroyed in any order.             *)
(***************************************************************************)
EXTENDS Integers, FiniteSets, Sequences

CONSTANTS Uids,        \* the uids that clients and the generator of uids use
          Roots,       \* those that clients create without a prefab, copy and write
          Composites,  \* of these, those that may be created with a subobject
          SubUids,     \* the uids that clients set as subobjects
          Doomed,      \* the uids that clients destroy
          Values,      \* values of "val"; 0 is its default
          Absent,      \* of these, NULL if "val" is a string; none if it is not
          Slots,       \* places in storage->pool (MAX_OBJECTS_PER_TYPE of them)
          MaxWriters,  \* clients have at most so many writers open
          MaxChanges,  \* a writer sets at most so many values
          Careful      \* TRUE: clients keep to Untouched and Sound below

ASSUME UidAssumption ==
    /\ 0 \notin Uids /\ 0 \in Values
    /\ Roots \union SubUids \union Doomed \subseteq Uids /\ Composites \subseteq Roots
ASSUME AbsentAssumption == Absent \subseteq Values
ASSUME SlotAssumption == 0 \notin Slots /\ IsFiniteSet(Slots)
ASSUME BoundAssumption == MaxWriters \in Nat /\ MaxChanges \in Nat
ASSUME CarefulAssumption == Careful \in BOOLEAN

VARIABLES objects,     \* the object_t of each uid, and of its writer
          pool,        \* storage->pool: the values of each typed object
          fresh,       \* those not used yet: storage->pool_n and above
          freeIdx,     \* storage->free_idx: how often each is in it
          toFreeIdx,   \* storage->to_free_idx
          toFreeUids,  \* db->to_free_objects_uid
          calls,       \* the calls in progress, innermost first
          ret,         \* what the last nested create_from returned
          writers,     \* uids with a writer that a client has open
          own          \* <<uid, property>> that clients have set

slotVars == <<fresh, freeIdx>>
clientVars == <<writers, own>>
vars == <<objects, pool, fresh, freeIdx, toFreeIdx, toFreeUids, calls, ret,
          writers, own>>

Cur(u) == <<"current", u>>   \* the object_t that the id of u leads to
Draft(u) == <<"writer", u>>  \* the object_t that write_begin(u) returned
Objects == {"current", "writer"} \X Uids

(* No object_t, or one as _new_object leaves it; a zeroed typed value. *)
NoObject == [slot |-> 0, wslot |-> 0, from |-> 0, instances |-> {}, changed |-> << >>]
Zero == [val |-> 0, sub |-> 0]

Init ==
    /\ objects = [o \in Objects |-> NoObject]
    /\ pool = [s \in Slots |-> Zero]
    /\ fresh = Slots
    /\ freeIdx = [s \in Slots |-> 0]
    /\ toFreeIdx = [s \in Slots |-> 0]
    /\ toFreeUids = {}
    /\ calls = << >>
    /\ ret = 0
    /\ writers = {} /\ own = {}

---------------------------------------------------------------------------
(* _get_object_from_uid, _get_value_ptr_generic *)

Live(u) == u \in Uids /\ objects[Cur(u)] # NoObject
Current(u) == objects[Cur(u)]
SlotOf(o) == IF objects[o].wslot # 0 THEN objects[o].wslot ELSE objects[o].slot
Value(o) == pool[SlotOf(o)]

(* _new_typed_object: a free place, or one never used.  The pool is never   *)
(* checked against its size: the model leaves out the calls that would      *)
(* write behind it.                                                         *)
NewSlots == LET free == {s \in Slots : freeIdx[s] > 0}
            IN  IF free # {} THEN free ELSE fresh
TakeSlot(s) ==
    /\ s \in NewSlots
    /\ freeIdx' = IF s \in fresh THEN freeIdx ELSE [freeIdx EXCEPT ![s] = @ - 1]
    /\ fresh' = fresh \ {s}

(* _free_typed_object *)
FreeSlot(s) == toFreeIdx' = [toFreeIdx EXCEPT ![s] = @ + 1]

Top(op) == calls # << >> /\ Head(calls).op = op
Become(f) == calls' = <<f>> \o Tail(calls)
Call(f, g) == calls' = <<g, f>> \o Tail(calls)
Leave == calls' = Tail(calls)

---------------------------------------------------------------------------
(* create_object_uid: the default of the SUBOBJECT is created and set by    *)
(* _init_from_defs, under a generated uid, before the changes are cleaned.  *)

MakeObject(u) ==
    \E s \in NewSlots :
        /\ TakeSlot(s)
        /\ objects' = [objects EXCEPT ![Cur(u)].slot = s]
        /\ pool' = [pool EXCEPT ![s].val = 0]

DefaultSub ==
    LET u == Head(calls).uid
    IN  /\ Top("default_sub")
        /\ \E v \in Uids :
             /\ ~ Live(v)
             /\ MakeObject(v)
             /\ Call([op |-> "from_end", uid |-> u],
                     [op |-> "set_sub", obj |-> Cur(u), sub |-> v])
        /\ UNCHANGED <<toFreeIdx, toFreeUids, ret, clientVars>>

---------------------------------------------------------------------------
(* create_from: a call [op, from, uid] goes through "copy_sub", "attach"    *)
(* and "from_end" with the new object.                                      *)

NoPrefab ==
    /\ Top("create_from")
    /\ ~ Live(Head(calls).from)
    /\ ret' = 0
    /\ Leave
    /\ UNCHANGED <<objects, pool, slotVars, toFreeIdx, toFreeUids, clientVars>>

(* Up to the loop over the properties, of which the scalar ones are copied. *)
CopyPrefab ==
    LET f == Head(calls)
        o == Cur(f.uid)
        p == Cur(f.from)
    IN  /\ Top("create_from")
        /\ Live(f.from)
        /\ \E s \in NewSlots :
             /\ TakeSlot(s)
             /\ objects' = [objects EXCEPT
                    ![o] = [@ EXCEPT !.slot = s, !.from = f.from],
                    ![p].instances = @ \union {f.uid}]
             /\ pool' = [pool EXCEPT ![s].val = Value(p).val]
        /\ Become([op |-> "copy_sub", uid |-> f.uid])
        /\ UNCHANGED <<toFreeIdx, toFreeUids, ret, clientVars>>

(* The subobject is created from the prefab's, under a generated uid. *)
CopySub ==
    LET u == Head(calls).uid
        sub == pool[Current(Current(u).from).slot].sub
    IN  /\ Top("copy_sub")
        /\ IF sub = 0
           THEN Become([op |-> "from_end", uid |-> u])
           ELSE \E v \in Uids :
                  /\ ~ Live(v)
                  /\ Call([op |-> "attach", uid |-> u],
                          [op |-> "create_from", from |-> sub, uid |-> v])
        /\ UNCHANGED <<objects, pool, slotVars, toFreeIdx, toFreeUids, ret, clientVars>>

AttachSub ==
    LET u == Head(calls).uid
    IN  /\ Top("attach")
        /\ Call([op |-> "from_end", uid |-> u], [op |-> "set_sub", obj |-> Cur(u), sub |-> ret])
        /\ ret' = 0
        /\ UNCHANGED <<objects, pool, slotVars, toFreeIdx, toFreeUids, clientVars>>

FromEnd ==
    LET u == Head(calls).uid
    IN  /\ Top("from_end")
        /\ objects' = [objects EXCEPT ![Cur(u)].changed = << >>]
        /\ ret' = IF Len(calls) = 1 THEN 0 ELSE u
        /\ Leave
        /\ UNCHANGED <<pool, slotVars, toFreeIdx, toFreeUids, clientVars>>

---------------------------------------------------------------------------
(* _set_subobject: the old subobject is destroyed, then the new one set. *)

Changed(o, c) == objects' = [objects EXCEPT ![o].changed = Append(@, c)]

DropSub ==
    LET f == Head(calls)
        old == Value(f.obj).sub
    IN  /\ Top("set_sub")
        /\ IF old = 0
           THEN Become([f EXCEPT !.op = "assign"])
           ELSE Call([f EXCEPT !.op = "assign"], [op |-> "destroy", uid |-> old])
        /\ UNCHANGED <<objects, pool, slotVars, toFreeIdx, toFreeUids, ret, clientVars>>

AssignSub ==
    LET f == Head(calls)
    IN  /\ Top("assign")
        /\ pool' = [pool EXCEPT ![SlotOf(f.obj)].sub = f.sub]
        /\ Changed(f.obj, [prop |-> "sub", old |-> f.sub, new |-> f.sub])
        /\ Leave
        /\ UNCHANGED <<slotVars, toFreeIdx, toFreeUids, ret, clientVars>>

---------------------------------------------------------------------------
(* destroy_object: its subobject and its instances are destroyed with it. *)

NotAlive ==
    /\ Top("destroy")
    /\ ~ Live(Head(calls).uid)
    /\ Leave
    /\ UNCHANGED <<objects, pool, slotVars, toFreeIdx, toFreeUids, ret, clientVars>>

(* _free_typed_object, and the call for the subobject *)
DestroyStart ==
    LET u == Head(calls).uid
        sub == Value(Cur(u)).sub
        rest == [op |-> "destroy_instances", uid |-> u, todo |-> Current(u).instances]
    IN  /\ Top("destroy")
        /\ Live(u)
        /\ FreeSlot(Current(u).slot)
        /\ IF sub = 0 THEN Become(rest) ELSE Call(rest, [op |-> "destroy", uid |-> sub])
        /\ UNCHANGED <<objects, pool, slotVars, toFreeUids, ret, clientVars>>

DestroyInstance ==
    LET f == Head(calls)
    IN  /\ Top("destroy_instances")
        /\ \E i \in f.todo : Call([f EXCEPT !.todo = @ \ {i}], [op |-> "destroy", uid |-> i])
        /\ UNCHANGED <<objects, pool, slotVars, toFreeIdx, toFreeUids, ret, clientVars>>

(* Mutant: the search for the uid ends at the first other one. *)
DestroyEndOther ==
    LET f == Head(calls)
    IN  /\ Top("destroy_instances")
        /\ f.todo = {}
        /\ toFreeUids' = IF toFreeUids = {} THEN {f.uid} ELSE toFreeUids
        /\ Leave
        /\ UNCHANGED <<objects, pool, slotVars, toFreeIdx, ret, clientVars>>

(* _add_obj_to_destroy_list, which adds no uid twice *)
DestroyEnd ==
    LET f == Head(calls)
    IN  /\ Top("destroy_instances")
        /\ f.todo = {}
        /\ toFreeUids' = toFreeUids \union {f.uid}
        /\ Leave
        /\ UNCHANGED <<objects, pool, slotVars, toFreeIdx, ret, clientVars>>

---------------------------------------------------------------------------
(* write_begin: a clone of the object with a clone of its values *)

(* Mutant: the writer writes where readers read. *)
BeginWriteInPlace(u) ==
    /\ objects' = [objects EXCEPT ![Draft(u)] =
            [@ EXCEPT !.slot = Current(u).slot, !.wslot = Current(u).slot,
                      !.from = Current(u).from,
                      !.instances = objects[Draft(u)].instances \union Current(u).instances]]
    /\ UNCHANGED <<pool, slotVars>>

(* Mutant: the instances are not copied to the writer. *)
BeginWriteAlone(u) ==
    \E s \in NewSlots :
        /\ TakeSlot(s)
        /\ objects' = [objects EXCEPT ![Draft(u)] =
                [@ EXCEPT !.slot = Current(u).slot, !.wslot = s, !.from = Current(u).from]]
        /\ pool' = [pool EXCEPT ![s] = pool[Current(u).slot]]

BeginWrite(u) ==
    \E s \in NewSlots :
        /\ TakeSlot(s)
        /\ objects' = [objects EXCEPT ![Draft(u)] =
                [@ EXCEPT !.slot = Current(u).slot, !.wslot = s, !.from = Current(u).from,
                          !.instances = objects[Draft(u)].instances \union Current(u).instances]]
        /\ pool' = [pool EXCEPT ![s] = pool[Current(u).slot]]

(* write_commit of the writer of u: [op, uid, todo] *)
Commit(u) ==
    LET w == objects[Draft(u)]
    IN  [op |-> "commit", uid |-> u, todo |-> IF w.changed = << >> THEN {} ELSE w.instances]

(* _dispatch_instances: each instance follows the changes in a writer of    *)
(* its own.  (By InstancesListed none of them is gone; write_begin would    *)
(* return NULL, which all that follows ignores.)                            *)
DispatchBegin ==
    LET f == Head(calls)
    IN  /\ Top("commit")
        /\ \E i \in f.todo :
             /\ Live(i)
             /\ BeginWrite(i)
             /\ Call([f EXCEPT !.todo = @ \ {i}],
                     [op |-> "follow", uid |-> i, changes |-> objects[Draft(f.uid)].changed])
        /\ UNCHANGED <<toFreeIdx, toFreeUids, ret, clientVars>>

(* Mutant: a scalar follows if it has the value the prefab gets. *)
FollowValueNew ==
    LET f == Head(calls)
        w == Draft(f.uid)
        c == f.changes[1]
    IN  /\ Top("follow") /\ f.changes # << >>
        /\ c.prop = "val"
        /\ IF Value(w).val = c.new
           THEN pool' = [pool EXCEPT ![SlotOf(w)].val = c.new] /\ Changed(w, c)
           ELSE UNCHANGED <<pool, objects>>
        /\ Become([f EXCEPT !.changes = Tail(@)])
        /\ UNCHANGED <<slotVars, toFreeIdx, toFreeUids, ret, clientVars>>

(* A scalar follows if it still has the value the prefab had; a string also *)
(* if there was none, in the instance or in the prefab.                     *)
Follows(v, old) == v = old \/ {v, old} \intersect Absent # {}

FollowValue ==
    LET f == Head(calls)
        w == Draft(f.uid)
        v == Value(w).val
        c == f.changes[1]
    IN  /\ Top("follow") /\ f.changes # << >>
        /\ c.prop = "val"
        /\ IF Follows(v, c.old)
           THEN /\ pool' = [pool EXCEPT ![SlotOf(w)].val = c.new]
                /\ Changed(w, [prop |-> "val", old |-> v, new |-> c.new])
           ELSE UNCHANGED <<pool, objects>>
        /\ Become([f EXCEPT !.changes = Tail(@)])
        /\ UNCHANGED <<slotVars, toFreeIdx, toFreeUids, ret, clientVars>>

(* Mutant: a subobject does not follow. *)
FollowSubKeeps ==
    LET f == Head(calls)
    IN  /\ Top("follow") /\ f.changes # << >>
        /\ f.changes[1].prop = "sub"
        /\ Become([f EXCEPT !.changes = Tail(@)])
        /\ UNCHANGED <<objects, pool, slotVars, toFreeIdx, toFreeUids, ret, clientVars>>

(* A subobject is replaced, whatever the instance had. *)
FollowSub ==
    LET f == Head(calls)
        c == f.changes[1]
    IN  /\ Top("follow") /\ f.changes # << >>
        /\ c.prop = "sub"
        /\ \E u \in Uids :
             /\ ~ Live(u)
             /\ Call([f EXCEPT !.op = "follow_set"],
                     [op |-> "create_from", from |-> c.new, uid |-> u])
        /\ UNCHANGED <<objects, pool, slotVars, toFreeIdx, toFreeUids, ret, clientVars>>

FollowSet ==
    LET f == Head(calls)
    IN  /\ Top("follow_set")
        /\ Call([f EXCEPT !.op = "follow", !.changes = Tail(@)],
                [op |-> "set_sub", obj |-> Draft(f.uid), sub |-> ret])
        /\ ret' = 0
        /\ UNCHANGED <<objects, pool, slotVars, toFreeIdx, toFreeUids, clientVars>>

FollowEnd ==
    LET f == Head(calls)
    IN  /\ Top("follow")
        /\ f.changes = << >>
        /\ Become(Commit(f.uid))
        /\ UNCHANGED <<objects, pool, slotVars, toFreeIdx, toFreeUids, ret, clientVars>>

(* Mutant: the values just written are freed instead of the old ones. *)
CommitEndFreesNew ==
    LET f == Head(calls)
        w == objects[Draft(f.uid)]
    IN  /\ Top("commit")
        /\ f.todo = {}
        /\ FreeSlot(w.wslot)
        /\ objects' = [objects EXCEPT
                ![Cur(f.uid)] = [w EXCEPT !.slot = w.wslot, !.changed = << >>],
                ![Draft(f.uid)] = NoObject]
        /\ Leave
        /\ UNCHANGED <<pool, slotVars, toFreeUids, ret, clientVars>>

(* Mutant: the changes stay listed in the object. *)
CommitEndKeepsChanges ==
    LET f == Head(calls)
        w == objects[Draft(f.uid)]
    IN  /\ Top("commit")
        /\ f.todo = {}
        /\ FreeSlot(w.slot)
        /\ objects' = [objects EXCEPT
                ![Cur(f.uid)] = [w EXCEPT !.slot = w.wslot],
                ![Draft(f.uid)] = NoObject]
        /\ Leave
        /\ UNCHANGED <<pool, slotVars, toFreeUids, ret, clientVars>>

(* The old values are freed and the writer takes the place of the object,   *)
(* which goes to _destroy_object.                                           *)
CommitEnd ==
    LET f == Head(calls)
        w == objects[Draft(f.uid)]
    IN  /\ Top("commit")
        /\ f.todo = {}
        /\ FreeSlot(w.slot)
        /\ objects' = [objects EXCEPT
                ![Cur(f.uid)] = [w EXCEPT !.slot = w.wslot, !.changed = << >>],
                ![Draft(f.uid)] = NoObject]
        /\ Leave
        /\ UNCHANGED <<pool, slotVars, toFreeUids, ret, clientVars>>

---------------------------------------------------------------------------
(* Mutant: the values are not zeroed. *)
GcKeepsValues ==
    LET left(u) == {i \in Current(u).instances : i \in toFreeUids /\ Current(i).from = u}
    IN  /\ calls = << >>
        /\ writers = {}
        /\ \A u \in toFreeUids : Current(u).from # 0 => Live(Current(u).from)
        /\ objects' = [o \in Objects |->
                IF o[1] = "writer" \/ o[2] \in toFreeUids THEN NoObject
                ELSE [objects[o] EXCEPT !.instances = @ \ left(o[2])]]
        /\ toFreeUids' = {}
        /\ pool' = pool
        /\ freeIdx' = [s \in Slots |-> freeIdx[s] + toFreeIdx[s]]
        /\ toFreeIdx' = [s \in Slots |-> 0]
        /\ own' = {e \in own : e[1] \notin toFreeUids}
        /\ UNCHANGED <<fresh, calls, ret, writers>>

(* gc: the listed objects leave their prefabs and are gone, and the typed   *)
(* values that were given up are zeroed and free.                           *)
Gc ==
    LET left(u) == {i \in Current(u).instances : i \in toFreeUids /\ Current(i).from = u}
    IN  /\ calls = << >>
        /\ writers = {}
        /\ \A u \in toFreeUids : Current(u).from # 0 => Live(Current(u).from)
        /\ objects' = [o \in Objects |->
                IF o[1] = "writer" \/ o[2] \in toFreeUids THEN NoObject
                ELSE [objects[o] EXCEPT !.instances = @ \ left(o[2])]]
        /\ toFreeUids' = {}
        /\ pool' = [s \in Slots |-> IF toFreeIdx[s] > 0 THEN Zero ELSE pool[s]]
        /\ freeIdx' = [s \in Slots |-> freeIdx[s] + toFreeIdx[s]]
        /\ toFreeIdx' = [s \in Slots |-> 0]
        /\ own' = {e \in own : e[1] \notin toFreeUids}
        /\ UNCHANGED <<fresh, calls, ret, writers>>

---------------------------------------------------------------------------
(* What clients respect.  Edges go from an object to those that destroying  *)
(* it or committing a change of it reaches.                                 *)

Here == {u \in Uids : Live(u)}
SubEdges == {e \in Here \X Here : Value(Cur(e[1])).sub = e[2]}
InstanceEdges == {e \in Here \X Here : e[2] \in Current(e[1]).instances}

Closure(edges, S) ==
    {u \in Uids : \A T \in SUBSET Uids :
        S \subseteq T /\ (\A e \in edges : e[1] \in T => e[2] \in T) => u \in T}

(* Between its write_begin and its commit, and between its destruction and  *)
(* the next gc, no other call reaches an object.                            *)
Untouched(S, writing) ==
    /\ S \intersect toFreeUids = {}
    /\ \A u \in writing : u \notin S /\ Value(Draft(u)).sub \notin S

(* Destroying u reaches no object twice, leaves no reference to a destroyed *)
(* object behind, and takes no instance from a prefab that is being written.*)
(* The code does not see to it: it reaches the subobject of an instance     *)
(* twice when the prefab is destroyed (1078 and 1108-1113), and again when  *)
(* its instances follow the replacement of a subobject (2731-2733).         *)
Sound(u, holders) ==
    LET doomed == Closure(SubEdges \union InstanceEdges, {u})
        subs(v) == {e \in SubEdges : e[2] = v /\ e[1] \notin holders}
        instances(v) == {e \in InstanceEdges : e[2] = v /\ e[1] \in doomed}
    IN  \A v \in doomed :
          /\ Cardinality(subs(v)) + Cardinality(instances(v)) = IF v = u THEN 0 ELSE 1
          /\ Current(v).from \notin writers

(* Enough is left of the pool and of the uids for a call that makes n       *)
(* objects, m of them under new uids: a bound of the model.                 *)
Left(n, m) ==
    /\ n <= Cardinality(fresh \union {s \in Slots : freeIdx[s] > 0})
    /\ m <= Cardinality(Uids \ Here)

Copies(u) == IF Live(u) THEN Cardinality(Closure(SubEdges, {u})) ELSE 0

---------------------------------------------------------------------------
(* Calls of clients *)

(* create_object of a type whose SUBOBJECT has no type of its own, if any.  *)
CreateObject(u) ==
    /\ calls = << >>
    /\ ~ Live(u)
    /\ Left(1, 1)
    /\ MakeObject(u)
    /\ UNCHANGED <<toFreeIdx, toFreeUids, calls, ret, clientVars>>

(* create_object of a type whose SUBOBJECT has a type. *)
CreateComposite(u) ==
    /\ calls = << >>
    /\ ~ Live(u)
    /\ Left(2, 2)
    /\ MakeObject(u)
    /\ calls' = <<[op |-> "default_sub", uid |-> u]>>
    /\ UNCHANGED <<toFreeIdx, toFreeUids, ret, clientVars>>

CreateFrom(u, p) ==
    /\ calls = << >>
    /\ ~ Live(u) /\ Live(p)
    /\ Left(Copies(p), Copies(p))
    /\ Careful => Untouched(Closure(SubEdges, {p}), writers)
    /\ calls' = <<[op |-> "create_from", from |-> p, uid |-> u]>>
    /\ UNCHANGED <<objects, pool, slotVars, toFreeIdx, toFreeUids, ret, clientVars>>

(* An object has one writer at a time: nothing in the program opens two. *)
WriteBegin(u) ==
    /\ calls = << >>
    /\ Live(u) /\ u \notin writers
    /\ Cardinality(writers) < MaxWriters
    /\ Left(1, 0)
    /\ Careful => Untouched({u}, writers)
    /\ BeginWrite(u)
    /\ writers' = writers \union {u}
    /\ UNCHANGED <<toFreeIdx, toFreeUids, calls, ret, own>>

SetValue(u, v) ==
    LET w == Draft(u)
    IN  /\ calls = << >>
        /\ Len(objects[w].changed) < MaxChanges
        /\ v # Value(w).val
        /\ Changed(w, [prop |-> "val", old |-> Value(w).val, new |-> v])
        /\ pool' = [pool EXCEPT ![SlotOf(w)].val = v]
        /\ own' = own \union {<<u, "val">>}
        /\ UNCHANGED <<slotVars, toFreeIdx, toFreeUids, calls, ret, writers>>

(* A subobject belongs to one object, and to none that it contains.  The    *)
(* old one is not replaced while the copy of it in an instance is alive.    *)
SetSubobject(u, s) ==
    LET w == Draft(u)
        old == Value(w).sub
        edges == SubEdges \union InstanceEdges
    IN  /\ calls = << >>
        /\ Len(objects[w].changed) < MaxChanges
        /\ s # 0 => /\ Live(s)
                    /\ \A e \in SubEdges : e[2] # s
                    /\ u \notin Closure(edges, {s}) /\ s \notin Closure(edges, {u})
                    /\ Untouched({s}, writers)
        /\ Careful /\ Live(old) => /\ Sound(old, {u})
                                   /\ Untouched(Closure(edges, {old}), writers \ {u})
        /\ calls' = <<[op |-> "set_sub", obj |-> w, sub |-> s]>>
        /\ own' = own \union {<<u, "sub">>}
        /\ UNCHANGED <<objects, pool, slotVars, toFreeIdx, toFreeUids, ret, writers>>

WriteCommit(u) ==
    LET w == objects[Draft(u)]
        reached == IF w.changed = << >> THEN {} ELSE Closure(InstanceEdges, w.instances)
        new == {w.changed[k].new : k \in {j \in DOMAIN w.changed : w.changed[j].prop = "sub"}}
        old == {i \in reached : new # {} /\ Live(Value(Cur(i)).sub)}
    IN  /\ calls = << >>
        /\ \A s \in new : Left(Cardinality(reached) * (1 + Copies(s)), Cardinality(reached) * Copies(s))
        /\ Left(Cardinality(reached), IF new = {} \/ reached = {} THEN 0 ELSE 1)
        /\ Careful => Untouched(reached \union Closure(SubEdges, new \ {0}), writers \ {u})
        /\ Careful => \A i \in old :
             /\ Sound(Value(Cur(i)).sub, {i})
             /\ Untouched(Closure(SubEdges \union InstanceEdges, {Value(Cur(i)).sub}), writers \ {u})
        /\ calls' = <<Commit(u)>>
        /\ writers' = writers \ {u}
        /\ UNCHANGED <<objects, pool, slotVars, toFreeIdx, toFreeUids, ret, own>>

DestroyObject(u) ==
    /\ calls = << >>
    /\ u \notin toFreeUids
    /\ Careful /\ Live(u) =>
         /\ Sound(u, {})
         /\ Untouched(Closure(SubEdges \union InstanceEdges, {u}), writers)
    /\ calls' = <<[op |-> "destroy", uid |-> u]>>
    /\ UNCHANGED <<objects, pool, slotVars, toFreeIdx, toFreeUids, ret, clientVars>>

---------------------------------------------------------------------------
CreateFromStep == DefaultSub \/ NoPrefab \/ CopyPrefab \/ CopySub \/ AttachSub \/ FromEnd
SetSubStep == DropSub \/ AssignSub
DestroyStep == NotAlive \/ DestroyStart \/ DestroyInstance \/ DestroyEnd
CommitStep ==
    \/ DispatchBegin
    \/ FollowValue \/ FollowSub \/ FollowSet \/ FollowEnd
    \/ CommitEnd

ClientCall ==
    \/ \E u \in Roots : CreateObject(u) \/ WriteBegin(u)
    \/ \E u \in Composites : CreateComposite(u)
    \/ \E u \in Uids, p \in Roots : CreateFrom(u, p)
    \/ \E u \in Doomed : DestroyObject(u)
    \/ \E u \in writers : \/ \E v \in Values : SetValue(u, v)
                          \/ \E s \in SubUids \union {0} : SetSubobject(u, s)
                          \/ WriteCommit(u)

Next == CreateFromStep \/ SetSubStep \/ DestroyStep \/ CommitStep \/ ClientCall \/ Gc

Spec == Init /\ [][Next]_vars

---------------------------------------------------------------------------
Resting == calls = << >>

(* Types; a place that was never used is in no list; and when no call is in *)
(* progress only writers hold changes, which their commits will dispatch.   *)
TypeOK ==
    /\ objects \in [Objects -> [slot : Slots \union {0}, wslot : Slots \union {0},
                                 from : Uids \union {0}, instances : SUBSET Uids,
                                 changed : Seq([prop : {"val", "sub"}, old : Values \union Uids \union {0},
                                                new : Values \union Uids \union {0}])]]
    /\ pool \in [Slots -> [val : Values, sub : Uids \union {0}]]
    /\ freeIdx \in [Slots -> Nat] /\ toFreeIdx \in [Slots -> Nat]
    /\ \A s \in fresh : freeIdx[s] = 0 /\ toFreeIdx[s] = 0
    /\ fresh \subseteq Slots /\ toFreeUids \subseteq Uids
    /\ ret \in Uids \union {0}
    /\ writers \subseteq Roots
    /\ Resting => \A u \in Uids : /\ Current(u).changed = << >>
                                  /\ Live(u) => Current(u).slot # 0
                                  /\ u \notin writers => objects[Draft(u)] = NoObject

(* No typed value is free twice, used while it is free, shared or lost:     *)
(* between calls, each one ever handed out is in exactly one place, which   *)
(* is the free list, the list of those to free, the object of a uid that is *)
(* not destroyed, or the clone of an open writer.                           *)
SlotsOwnedOnce ==
    Resting => \A s \in Slots \ fresh :
        freeIdx[s] + toFreeIdx[s]
          + Cardinality({u \in Here \ toFreeUids : Current(u).slot = s})
          + Cardinality({u \in writers : objects[Draft(u)].wslot = s}) = 1

(* A reader keeps seeing what it read until the next gc, whatever is        *)
(* committed or destroyed in between: no other step writes a typed value    *)
(* that is given up, or that an object which is not under construction has. *)
UnderConstruction == {calls[k].uid : k \in {j \in DOMAIN calls :
                            calls[j].op \in {"copy_sub", "attach", "from_end"}}}
Readable ==
    {s \in Slots : \/ toFreeIdx[s] > 0
                  \/ \E u \in Here \ UnderConstruction : Current(u).slot = s}
ReadersStable == [][Gc \/ \A s \in Readable : pool'[s] = pool[s]]_vars

(* What _new_typed_object hands out is zero: _set_subobject of a new object *)
(* would destroy the subobject it finds.                                    *)
FreeSlotsClean ==
    \A s \in Slots : freeIdx[s] > 0 \/ s \in fresh => pool[s] = Zero

(* Prefab and instance know one another, and so do the writers that will    *)
(* take their places: no commit and no destruction misses an instance.      *)
InstancesListed ==
    Resting => \A u \in Here, p \in Uids :
        Current(u).from = p =>
            /\ Live(p)
            /\ u \in Current(p).instances
            /\ p \in writers => u \in objects[Draft(p)].instances
            /\ Current(p).instances \subseteq Here

(* An instance whose value no client has set has the value of its prefab.   *)
ValuesFollow ==
    Resting => \A u \in Here :
        LET p == Current(u).from
        IN  p # 0 /\ <<u, "val">> \notin own => Value(Cur(u)).val = Value(Cur(p)).val

(* And its subobject is an instance of the prefab's subobject. *)
SubsFollow ==
    Resting => \A u \in Here :
        LET p == Current(u).from
            s == Value(Cur(u)).sub
        IN  p # 0 /\ <<u, "sub">> \notin own =>
              IF s = 0 THEN Value(Cur(p)).sub = 0
              ELSE Live(s) /\ Current(s).from = Value(Cur(p)).sub

(* cdb.c:1024 has "CE_ASSERT(LOG_WHERE, !contain)", commented out, where an  *)
(* object is listed to be destroyed: it is not listed yet, and therefore    *)
(* its typed value has not been freed already.                              *)
DestroyedOnce ==
    [][toFreeIdx' # toFreeIdx /\ Top("destroy") => Head(calls).uid \notin toFreeUids]_vars
=============================================================================
