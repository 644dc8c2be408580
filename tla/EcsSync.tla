------------------------------ MODULE EcsSync ------------------------------
(***************************************************************************)
(* How spawned entities follow the objects that they were spawned from:    *)
(* the events of celib/private/cdb.c (a set of changed objects announced   *)
(* once between two collections, a queue per listened object, an event per *)
(* destroyed one) and the task of cetech/ecs/private/ecs.c that reads them *)
(* once a frame.                                                           *)
(*                                                                         *)
(* A frame: the editor edits (phase "edit"), _sync_task empties the queue  *)
(* of changed objects (phase "sync"), the game runs the systems and edits  *)
(* (phase "game"), and the database collects what was destroyed.           *)
(*                                                                         *)
(* One world; one type of component that an object gives and takes back    *)
(* (an object has at most one of it); entities keep their other components *)
(* (ecs.c:1005 leaves one without any in its old chunk); a set is a set    *)
(* (CdbObject has the commits).  Uids are new.  A recycled record keeps    *)
(* the listeners of the object whose version it was (cdb.c:683, 1237), and *)
(* the events of the object it is used for next would reach them: records  *)
(* here are not recycled.                                                  *)
(***************************************************************************)
EXTENDS Integers, FiniteSets, Sequences, SequencesExt

CONSTANTS EntObjs, CompObjs,  \* objects of the two kinds
          Root,               \* the one that clients spawn
          NoObj,
          FirstKids,          \* the tree that was loaded
          Values,
          MaxEnts,            \* bound on entities spawned
          MaxEdits            \* bound on edits

Objs == EntObjs \union CompObjs
None == -1

ASSUME ObjAssumption ==
    /\ EntObjs \intersect CompObjs = {} /\ Root \in EntObjs /\ NoObj \notin Objs
    /\ FirstKids \in [EntObjs -> SUBSET (EntObjs \ {Root})]
ASSUME ValueAssumption == 0 \in Values /\ None \notin Values
ASSUME BoundAssumption == MaxEnts \in Nat /\ MaxEdits \in Nat

VARIABLES life,       \* "none", "alive", "destroyed" (until the next gc), "gone"
          owner,      \* parent
          kids, comps,\* ENTITY_CHILDREN and ENTITY_COMPONENTS
          value,      \* of a component object
          announced,  \* changed_obj_set
          changes,    \* _G.changed_obj_queue
          w,          \* the world: entities, spawn infos and their listeners
          phase, edits

objects == <<life, owner, kids, comps, value>>
vars == <<life, owner, kids, comps, value, announced, changes, w, phase, edits>>

Alive(x) == life[x] = "alive"
FirstObjs == {Root} \union UNION {FirstKids[o] : o \in EntObjs}
Vacant == [obj |-> NoObj, comp |-> None, parent |-> 0, alive |-> FALSE, child |-> {}]

Init ==
    /\ life = [x \in Objs |-> IF x \in FirstObjs THEN "alive" ELSE "none"]
    /\ owner = [x \in Objs |-> IF x \in FirstObjs \ {Root}
                               THEN CHOOSE o \in EntObjs : x \in FirstKids[o] ELSE NoObj]
    /\ kids = FirstKids
    /\ comps = [o \in EntObjs |-> {}]
    /\ value = [c \in CompObjs |-> 0]
    /\ announced = {} /\ changes = << >>
    /\ w = [n |-> 0, ent |-> [e \in 1..MaxEnts |-> Vacant],
            \* Spawn infos, an object's (obj_spawninfo) named by the first it was made for.
            info |-> [x \in Objs |-> IF x \in CompObjs THEN x ELSE NoObj],
            free |-> << >>,                           \* obj_spawninfo_free
            ents |-> [x \in Objs |-> << >>],
            listener |-> [o \in EntObjs |-> << >>]]   \* ev_queue
    /\ phase = "edit" /\ edits = 0

Heard(s) == {x \in Objs : s.info[x] # NoObj}
Ents(s, x) == IF x \in Heard(s) THEN s.ents[s.info[x]] ELSE << >>
Listener(s, o) == IF o \in Heard(s) THEN s.listener[s.info[o]] ELSE << >>

RECURSIVE Tree(_)
Tree(o) == {o} \union comps[o] \union UNION {Tree(k) : k \in kids[o]}

---------------------------------------------------------------------------
(* Entities. *)

CompValue(o) == IF comps[o] = {} THEN None ELSE value[CHOOSE c \in comps[o] : TRUE]

(* The spawn info of an object: its own, a free one, or a new one, with the *)
(* listener that each _add_spawn_obj makes.                                 *)
WithInfo(s, o) ==
    LET t == CASE o \in Heard(s) -> s
               [] o \notin Heard(s) /\ s.free = << >> -> [s EXCEPT !.info[o] = o]
               [] o \notin Heard(s) /\ s.free # << >> ->
                     [s EXCEPT !.info[o] = Head(s.free), !.free = Tail(@)]
    IN  [t EXCEPT !.listener[t.info[o]] = << >>]

(* spawn_entity, with the parent that its callers add.                      *)
RECURSIVE SpawnEntity(_, _, _)
SpawnEntity(s, o, parent) ==
    LET e == s.n + 1
        new == [obj |-> o, comp |-> CompValue(o), parent |-> parent, alive |-> TRUE, child |-> {}]
        i == WithInfo(s, o)
        t == [i EXCEPT !.n = e, !.ent[e] = new,
                       !.ents = [x \in Objs |-> IF x \in {i.info[o]} \union comps[o]
                                                THEN Append(@[x], e) ELSE @[x]]]
    IN  FoldLeft(LAMBDA u, k : SpawnEntity(u, k, e), t, SetToSeq(kids[o]))

(* _free_spawninfo_ent: the last one takes the place of the one that goes.  *)
Forgotten(ents, xs, e) ==
    [x \in Objs |-> IF x \in xs /\ Contains(ents[x], e)
                     THEN [i \in 1..(Len(ents[x]) - 1) |-> IF ents[x][i] = e THEN Last(ents[x]) ELSE ents[x][i]]
                     ELSE ents[x]]

(* destroy: of an entity that only has its system state left, nothing.      *)
RECURSIVE DestroyEntity(_, _)
DestroyEntity(s, e) ==
    LET t == FoldLeft(DestroyEntity, [s EXCEPT !.ent[e].alive = FALSE, !.ent[e].comp = None],
                      SetToSeq(s.ent[e].child))
    IN  IF ~ s.ent[e].alive THEN s
        ELSE [t EXCEPT !.ents = Forgotten(@, {t.info[t.ent[e].obj]} \union comps[t.ent[e].obj], e)]

---------------------------------------------------------------------------
(* Events of the database. *)

ChangeEvent(x) == [type |-> "change", obj |-> x]
DestroyEvent(x) == [type |-> "destroy", obj |-> x]

(* _add_changed_obj, of the objects committed, in order. *)
Announce(xs) ==
    LET new(x) == x \notin announced
    IN  /\ changes' = changes \o [i \in DOMAIN SelectSeq(xs, new) |->
                                    ChangeEvent(SelectSeq(xs, new)[i])]
        /\ announced' = announced \union {xs[i] : i \in DOMAIN xs}

(* The events of a commit go to the object's listener, if it has one.       *)
Push(o, ev) == IF o \in Heard(w) THEN [w EXCEPT !.listener[w.info[o]] = Append(@, ev)] ELSE w

(* An object that was announced and read already is not announced again     *)
(* before the next collection: a client must not commit to it.              *)
WillBeSeen(x) == x \in announced => Contains(changes, ChangeEvent(x))

Edit ==
    /\ phase \in {"edit", "game"}
    /\ edits < MaxEdits /\ edits' = edits + 1
    /\ UNCHANGED phase

---------------------------------------------------------------------------
(* Clients. *)

AddChild(o, k) ==
    /\ Edit /\ Alive(o) /\ life[k] = "none" /\ WillBeSeen(o)
    /\ life' = [life EXCEPT ![k] = "alive"] /\ owner' = [owner EXCEPT ![k] = o]
    /\ kids' = [kids EXCEPT ![o] = @ \union {k}]
    /\ Announce(<<o>>)
    /\ w' = Push(o, [type |-> "add_child", obj |-> k, to |-> NoObj])
    /\ UNCHANGED <<comps, value>>

(* The component that is removed in the same frame must not be the one that *)
(* the add finds: its event would take away the new one.                    *)
AddComponent(o, c) ==
    /\ Edit /\ Alive(o) /\ life[c] = "none" /\ comps[o] = {} /\ WillBeSeen(o)
    /\ Contains(changes, ChangeEvent(o)) => \A d \in CompObjs : owner[d] = o => life[d] # "destroyed"
    /\ life' = [life EXCEPT ![c] = "alive"] /\ owner' = [owner EXCEPT ![c] = o]
    /\ comps' = [comps EXCEPT ![o] = {c}]
    /\ Announce(<<o>>)
    /\ w' = Push(o, [type |-> "add_component", obj |-> c, to |-> NoObj])
    /\ UNCHANGED <<kids, value>>

SetValue(c) ==
    /\ Edit /\ Alive(c) /\ WillBeSeen(c)
    /\ \E v \in Values \ {value[c]} : value' = [value EXCEPT ![c] = v]
    /\ Announce(<<c>>)
    /\ UNCHANGED <<life, owner, kids, comps, w>>

(* move_objset_obj with the two commits of entity_explorer.c:187, the       *)
(* object moved to first.  It must be spawned: its spawn would take what is *)
(* moved to it along, a second time.  One move of an object is read before  *)
(* the next is made: two are in two listeners, and read in either order.    *)
MovePending(k) ==
    \E o \in EntObjs : \E i \in DOMAIN w.listener[o] :
        w.listener[o][i].type = "move" /\ w.listener[o][i].obj = k

Move(k, to) ==
    LET from == owner[k]
    IN  /\ Edit /\ Alive(k) /\ Alive(to) /\ k # Root /\ to # from /\ to \notin Tree(k)
        /\ WillBeSeen(to) /\ WillBeSeen(from) /\ ~ MovePending(k)
        /\ Ents(w, from) # << >> => Ents(w, to) # << >>
        /\ owner' = [owner EXCEPT ![k] = to]
        /\ kids' = [kids EXCEPT ![from] = @ \ {k}, ![to] = @ \union {k}]
        /\ Announce(<<to, from>>)
        /\ w' = Push(from, [type |-> "move", obj |-> k, to |-> to])
        /\ UNCHANGED <<life, comps, value>>

(* The order in which destroy_object announces a tree: what it owns, then   *)
(* the object.                                                              *)
RECURSIVE Destroyed(_)
Destroyed(x) ==
    LET after(s, k) == s \o Destroyed(k)
    IN  Append(IF x \in CompObjs THEN << >>
               ELSE FoldLeft(after, SetToSeq(comps[x]), SetToSeq(kids[x])), x)

(* An entity that was moved away, or is about to be, is in the child list   *)
(* of its old parent until parent.c notices, and would be destroyed with it.*)
MovesNoticed(xs) ==
    \A e \in 1..w.n : w.ent[e].obj \in xs =>
        \A c \in w.ent[e].child : w.ent[c].alive => w.ent[c].obj \in xs

(* destroy_object.  It must happen before _sync_task in the frame: the      *)
(* collection takes away what the event is about.                           *)
DestroyObject(x) ==
    LET xs == Destroyed(x)
        dead == {xs[i] : i \in DOMAIN xs}
    IN  /\ Edit /\ phase = "edit" /\ Alive(x) /\ x # Root
        /\ MovesNoticed(dead)
        /\ life' = [y \in Objs |-> IF y \in dead THEN "destroyed" ELSE life[y]]
        /\ kids' = [o \in EntObjs |-> kids[o] \ dead]
        /\ comps' = [o \in EntObjs |-> comps[o] \ dead]
        /\ changes' = changes \o [i \in DOMAIN xs |-> DestroyEvent(xs[i])]
        /\ UNCHANGED <<owner, value, announced, w>>

(* spawn_entity of the root.  Events that no one read yet would stay in     *)
(* listeners that no one has any more; the destruction of a component would *)
(* take the next one from the new entity.                                   *)
Spawn ==
    /\ Edit
    /\ w.n + Cardinality(Tree(Root) \intersect EntObjs) <= MaxEnts
    /\ \A o \in Tree(Root) \intersect EntObjs : Listener(w, o) = << >>
    /\ \A c \in CompObjs : ~ Contains(changes, DestroyEvent(c))
    /\ w' = SpawnEntity(w, Root, 0)
    /\ UNCHANGED <<objects, announced, changes>>

---------------------------------------------------------------------------
(* _sync_task, one event of the queue of changed objects at a time. *)

(* What the events of one entity object do to the entities spawned from it. *)
AddedChild(s, o, k) ==
    FoldLeft(LAMBDA t, e : SpawnEntity(t, k, e), s, Ents(s, o))

MovedChild(s, k, to) ==
    IF {k, to} \subseteq Heard(s)
    THEN FoldLeft(LAMBDA t, j : [t EXCEPT !.ent[Ents(s, k)[j]].parent = Ents(s, to)[j]],
                  s, [j \in DOMAIN Ents(s, to) |-> j])
    ELSE s

AddedComponent(s, o, c) ==
    LET add(t, e) == IF t.ent[e].comp # None THEN t
                     ELSE [t EXCEPT !.ent[e].comp = value[c], !.ents[c] = Append(@, e)]
    IN  FoldLeft(add, s, Ents(s, o))

Applied(s, o, ev) ==
    CASE ev.type = "add_child" -> AddedChild(s, o, ev.obj)
      [] ev.type = "move" -> MovedChild(s, ev.obj, ev.to)
      [] ev.type = "add_component" -> AddedComponent(s, o, ev.obj)

(* Mutant of ReadListener: one event for each announcement.                 *)
ReadListenerOnce(s, o) ==
    IF Listener(s, o) = << >> THEN s
    ELSE [Applied(s, o, Head(Listener(s, o))) EXCEPT !.listener[s.info[o]] = Tail(@)]

ReadListener(s, o) ==
    [FoldLeft(LAMBDA t, ev : Applied(t, o, ev), s, Listener(s, o))
        EXCEPT !.listener[s.info[o]] = << >>]

(* get_one of an entity that does not have the component any more is NULL.  *)
ReadComponent(s, c) ==
    LET read(t, e) == IF t.ent[e].comp = None THEN t ELSE [t EXCEPT !.ent[e].comp = value[c]]
    IN  FoldLeft(read, s, s.ents[c])

LostComponent(s, c) ==
    FoldLeft(LAMBDA t, e : [t EXCEPT !.ent[e].comp = None], s, Ents(s, owner[c]))

(* destroy goes through the cells of the array that it takes entities from  *)
(* (_free_spawninfo_ent), to the length that it had; a cell past the end    *)
(* keeps what was there.  Then the spawn info is free for another object,   *)
(* and stays this one's (ecs.c:784).                                        *)
LostEntity(s, o) ==
    LET i == s.info[o]
        cells == Ents(s, o)
        turn(p, j) ==
            LET t == DestroyEntity(p.s, p.cells[j])
            IN  [s |-> t,
                 cells |-> t.ents[i] \o SubSeq(p.cells, Len(t.ents[i]) + 1, Len(cells))]
        last == FoldLeft(turn, [s |-> s, cells |-> cells], [j \in DOMAIN cells |-> j])
    IN  IF o \notin Heard(s) THEN s
        ELSE [last.s EXCEPT !.ents[i] = << >>, !.free = Append(@, i)]

SyncBegin ==
    /\ phase = "edit" /\ phase' = "sync"
    /\ UNCHANGED <<objects, announced, changes, w, edits>>

Fits(s, o) == Len(SelectSeq(Listener(s, o), LAMBDA ev : ev.type = "add_child"))
                  * Len(Ents(s, o)) * Cardinality(EntObjs) + s.n <= MaxEnts

SyncEvent ==
    LET ev == Head(changes)
        x == ev.obj
    IN  /\ phase = "sync" /\ changes # << >>
        /\ changes' = Tail(changes)
        /\ \/ ev.type = "change" /\ x \in EntObjs \intersect Heard(w) /\ Fits(w, x) /\ w' = ReadListener(w, x)
           \/ ev.type = "change" /\ x \in CompObjs /\ w' = ReadComponent(w, x)
           \/ ev.type = "change" /\ x \in EntObjs \ Heard(w) /\ UNCHANGED w
           \/ ev.type = "destroy" /\ x \in EntObjs /\ w' = LostEntity(w, x)
           \/ ev.type = "destroy" /\ x \in CompObjs /\ w' = LostComponent(w, x)
        /\ UNCHANGED <<objects, announced, phase, edits>>

(* The systems of parent.c: new children enter their parents' lists, dead   *)
(* ones leave, and those that were moved are noticed only when something    *)
(* else marked their chunk.                                                 *)
Step ==
    /\ phase = "sync" /\ changes = << >>
    /\ phase' = "game"
    /\ \E noticed \in BOOLEAN :
          w' = [w EXCEPT !.ent = [e \in 1..MaxEnts |-> [@[e] EXCEPT !.child =
                {c \in 1..w.n : /\ w.ent[c].alive
                                /\ \/ w.ent[c].parent = e /\ (noticed \/ \A p \in 1..w.n : c \notin w.ent[p].child)
                                   \/ c \in w.ent[e].child /\ (noticed => w.ent[c].parent = e)}]]]
    /\ UNCHANGED <<objects, announced, changes, edits>>

Gc ==
    /\ phase = "game" /\ phase' = "edit"
    /\ announced' = {}
    /\ life' = [x \in Objs |-> IF life[x] = "destroyed" THEN "gone" ELSE life[x]]
    /\ UNCHANGED <<owner, kids, comps, value, changes, w, edits>>

Next ==
    \/ \E o \in EntObjs : \E k \in EntObjs : AddChild(o, k) \/ Move(o, k)
    \/ \E c \in CompObjs : SetValue(c) \/ \E o \in EntObjs : AddComponent(o, c)
    \/ \E x \in Objs : DestroyObject(x)
    \/ Spawn
    \/ SyncBegin \/ SyncEvent \/ Step \/ Gc

Spec == Init /\ [][Next]_vars

---------------------------------------------------------------------------
(* Properties *)

Living(o) == {e \in 1..w.n : w.ent[e].alive /\ w.ent[e].obj = o}

(* After _sync_task (ecs.c:1804) every entity shows its object, in whatever *)
(* order the edits of a frame were made and queued: it has the component    *)
(* and the value that the object has, and no entity outlives its object.    *)
EntitiesShowObjects ==
    phase = "sync" /\ changes = << >> =>
        \A e \in 1..w.n : w.ent[e].alive =>
            Alive(w.ent[e].obj) /\ w.ent[e].comp = CompValue(w.ent[e].obj)

(* After _sync_task the entities form the trees of the objects: under each  *)
(* entity there is one entity for each child of its object, and no other.   *)
TreesFollowObjects ==
    phase = "sync" /\ changes = << >> =>
        \A o \in EntObjs : \A e \in Living(o) :
            /\ \A k \in kids[o] : Cardinality({c \in Living(k) : w.ent[c].parent = e}) = 1
            /\ o # Root => w.ent[e].parent \in Living(owner[o])
=============================================================================
