----------------------------- MODULE EcsStorage -----------------------------
(***************************************************************************)
(* Where the entities of a world are kept, in cetech/ecs/private/ecs.c:    *)
(* archetypes (one per set of components), each with a list of chunks of   *)
(* Capacity entities, and the index from an entity to its chunk and its    *)
(* place there.  Adding, removing and destroying move an entity from one   *)
(* chunk to another and fill its place with the last entity of the chunk.  *)
(*                                                                         *)
(* A world's fields are the fields of the record w, and the operators on   *)
(* it are the functions of the same names.                                 *)
(*                                                                         *)
(* Abstracted: an archetype is named by its mask; a free chunk is blank    *)
(* (the code blanks it when it takes it from the pool); change versions    *)
(* are in EcsTransform; a component without data is one with a single      *)
(* value; handlers are not reused before 1024 of them are free             *)
(* (handler.h:29), so an entity here is an index that no client knows      *)
(* any more once it is destroyed and unlisted.                             *)
(***************************************************************************)
EXTENDS Integers, FiniteSets, Sequences

CONSTANTS Entities,
          Comps, SysComps, ChildComp, Data,   \* as in EcsWorld
          Chunks,     \* the chunks that the allocator can provide
          NoChunk,    \* NULL
          Capacity    \* max_ent, the same for every archetype

ASSUME EntityAssumption == IsFiniteSet(Entities)
ASSUME CompAssumption == SysComps \subseteq Comps /\ ChildComp \in SysComps
ASSUME DataAssumption == 0 \in Data
ASSUME ChunkAssumption == NoChunk \notin Chunks
ASSUME CapacityAssumption == Capacity \in Nat \ {0}

VARIABLES w,        \* world_instance_t
          alive,    \* entities whose handler is alive
          doomed    \* what is left of the arrays of destroy calls, innermost first

vars == <<w, alive, doomed>>

Val(c) == IF c = ChildComp THEN SUBSET Entities ELSE Data
Default(c) == IF c = ChildComp THEN {} ELSE 0
Masks == (SUBSET Comps) \ {{}}

(* A chunk as memset leaves it. *)
Blank == [mask |-> {}, slots |-> << >>, next |-> NoChunk, prev |-> NoChunk]

Init ==
    /\ w = [chunk |-> [k \in Chunks |-> Blank],
            used |-> {},                               \* not in chunk_pool_free
            first |-> [m \in Masks |-> NoChunk],       \* of the archetypes in archetype_map
            entChunk |-> [e \in Entities |-> NoChunk],
            entIdx |-> [e \in Entities |-> 0]]
    /\ alive = {}
    /\ doomed = << >>

Mask(e) == IF w.entChunk[e] = NoChunk THEN {} ELSE w.chunk[w.entChunk[e]].mask
Slot(e) == w.chunk[w.entChunk[e]].slots[w.entIdx[e]]
Stored == {e \in alive : Mask(e) # {}}
ChildrenOf(e) == IF ChildComp \in Mask(e) THEN Slot(e).data[ChildComp] ELSE {}

---------------------------------------------------------------------------
(* _add_to_archetype: the archetype of mask m, made if there is none, the   *)
(* chunk that takes the entity, and its new place there.                    *)

NewChunk(s) == CHOOSE k \in Chunks \ s.used : TRUE

WithArchetype(s, m) ==
    LET k == NewChunk(s)
    IN  IF s.first[m] # NoChunk THEN s
        ELSE [s EXCEPT !.used = @ \union {k}, !.first[m] = k,
                       !.chunk[k] = [Blank EXCEPT !.mask = m]]

(* Mutant of Full: no place is kept for the new entity.                     *)
FullLate(s, k) == Len(s.chunk[k].slots) > Capacity
Full(s, k) == Len(s.chunk[k].slots) + 1 > Capacity

RoomOrLast(s, m) ==
    LET from[k \in Chunks] ==
            IF Full(s, k) /\ s.chunk[k].next # NoChunk THEN from[s.chunk[k].next] ELSE k
    IN  from[s.first[m]]

(* The new first chunk of an archetype whose last one is full.              *)
Prepended(s, last) ==
    LET k == NewChunk(s)
        m == s.chunk[last].mask
        new == [Blank EXCEPT !.mask = m, !.next = last]
        chunks == [s.chunk EXCEPT ![last] = [@ EXCEPT !.next = NoChunk, !.prev = k]]
    IN  [s EXCEPT !.used = @ \union {k}, !.first[m] = k, !.chunk = [chunks EXCEPT ![k] = new]]

AddToArchetype(s, e, m, data) ==
    LET a == WithArchetype(s, m)
        last == RoomOrLast(a, m)
        b == IF Full(a, last) THEN Prepended(a, last) ELSE a
        k == IF Full(a, last) THEN b.first[m] ELSE last
        slots == Append(b.chunk[k].slots, [ent |-> e, data |-> data])
    IN  [b EXCEPT !.chunk[k].slots = slots, !.entChunk[e] = k, !.entIdx[e] = Len(slots)]

(* _free_archetype with the chunks that its list leads to.                  *)
FreeArchetype(s, m) ==
    LET after[k \in Chunks] ==
            {k} \union IF s.chunk[k].next = NoChunk THEN {} ELSE after[s.chunk[k].next]
    IN  [s EXCEPT !.used = @ \ after[s.first[m]], !.first[m] = NoChunk]

(* The chunk leaves its list, when it is not the first one to the pool.     *)
EmptyChunk(s, k) ==
    LET next == s.chunk[k].next
        prev == s.chunk[k].prev
        m == s.chunk[k].mask
        back == IF prev = NoChunk THEN s.chunk ELSE [s.chunk EXCEPT ![prev].next = next]
        links == IF next = NoChunk THEN back ELSE [back EXCEPT ![next].prev = prev]
        t == IF s.first[m] # k THEN [s EXCEPT !.used = @ \ {k}] ELSE FreeArchetype(s, m)
    IN  [t EXCEPT !.chunk = [links EXCEPT ![k] = Blank]]

(* Mutant of RemoveFromArchetype: the entity moved into the gap keeps its   *)
(* index.                                                                   *)
RemoveFromArchetypeStale(s, i, k) ==
    LET slots == s.chunk[k].slots
        n == Len(slots)
    IN  IF n = 1 THEN EmptyChunk(s, k)
        ELSE [s EXCEPT !.chunk[k].slots = SubSeq([slots EXCEPT ![i] = slots[n]], 1, n - 1)]

(* Mutant of RemoveFromArchetype: the entity moves, its data stays.         *)
RemoveFromArchetypeBare(s, i, k) ==
    LET slots == s.chunk[k].slots
        n == Len(slots)
    IN  IF n = 1 THEN EmptyChunk(s, k)
        ELSE [s EXCEPT !.chunk[k].slots = SubSeq([slots EXCEPT ![i].ent = slots[n].ent], 1, n - 1),
                       !.entIdx[slots[n].ent] = IF i = n THEN @ ELSE i]

(* _remove_from_archetype of place i of chunk k. *)
RemoveFromArchetype(s, i, k) ==
    LET slots == s.chunk[k].slots
        n == Len(slots)
        rest == SubSeq(slots, 1, n - 1)
    IN  CASE n = 1 -> EmptyChunk(s, k)
          [] n > 1 /\ i = n -> [s EXCEPT !.chunk[k].slots = rest]
          [] n > 1 /\ i < n -> [s EXCEPT !.chunk[k].slots = [rest EXCEPT ![i] = slots[n]],
                                         !.entIdx[slots[n].ent] = i]

(* _move_data_from_archetype: the new place has the components of the old   *)
(* one that the new archetype keeps, and zeroes for the rest.               *)
MovedData(old, m) == [c \in m |-> IF c \in DOMAIN old THEN old[c] ELSE Default(c)]

(* An entity that has components moves to archetype m.                      *)
Moved(e, m) ==
    LET k == w.entChunk[e]
        i == w.entIdx[e]
    IN  RemoveFromArchetype(AddToArchetype(w, e, m, MovedData(Slot(e).data, m)), i, k)

---------------------------------------------------------------------------
(* What clients must know to be safe, of which neither the interface nor    *)
(* the code of an operation says anything: the operations below do not ask  *)
(* for it, the clients of Next do.                                          *)

(* The last entity of an archetype's first chunk goes last: the archetype   *)
(* is freed with that chunk (ecs.c:555-560).                                *)
NotBeforeOthers(e) ==
    LET k == w.entChunk[e]
    IN  ~ /\ w.first[Mask(e)] = k
          /\ Len(w.chunk[k].slots) = 1
          /\ w.chunk[k].next # NoChunk

(* No third chunk: the list drops the second one (ecs.c:498-501).           *)
TwoChunksDo(m) ==
    LET k == w.first[m]
        next == w.chunk[k].next
    IN  k # NoChunk => (Full(w, k) /\ next # NoChunk => ~ Full(w, next))

(* destroy reads its children at the place that the entity had, where the   *)
(* last entity of the chunk is by then (ecs.c:1446, 1462, 1468).            *)
LastOrAlike(e) ==
    LET slots == w.chunk[w.entChunk[e]].slots
    IN  ChildComp \in Mask(e) => slots[Len(slots)].data[ChildComp] = ChildrenOf(e)

(* destroy keeps a pointer to the archetype while it may make another one,  *)
(* whose place in the pool may move the array (ecs.c:1450, 1459, 1471).     *)
NoNewArchetype(m) == m # {} => w.first[m] # NoChunk

(* An entity in a list of children has a system state component, and        *)
(* leaves the list before it loses the last one (parent.c does so).         *)
Listed(e) == \E p \in Stored : e \in ChildrenOf(p)

CanAdd(e, cs) ==
    LET m == Mask(e) \union cs
    IN  m # Mask(e) => TwoChunksDo(m) /\ (Mask(e) # {} => NotBeforeOthers(e))

(* remove_components and destroy need an entity with components, and one    *)
(* that loses all but is not destroyed keeps a dead chunk (ecs.c:1005).     *)
CanRemove(e, cs) ==
    LET rest == Mask(e) \ cs
    IN  /\ Mask(e) # {}
        /\ NotBeforeOthers(e)
        /\ IF rest # {} THEN TwoChunksDo(rest) ELSE Mask(e) \intersect SysComps # {}
        /\ rest \intersect SysComps = {} => ~ Listed(e)

CanDestroy(e) ==
    LET rest == Mask(e) \intersect SysComps
    IN  /\ Mask(e) # {}
        /\ rest # Mask(e) => LastOrAlike(e) /\ NotBeforeOthers(e)
        /\ rest \notin {{}, Mask(e)} => TwoChunksDo(rest)
        /\ rest = {} => ~ Listed(e)
        /\ NoNewArchetype(rest)

---------------------------------------------------------------------------
Quiet == doomed = << >>
HasRoom == Chunks \ w.used # {} \* the bound of the model

(* create_entities *)
Create(e) ==
    /\ Quiet
    /\ e \notin alive /\ ~ Listed(e)
    /\ alive' = alive \union {e}
    /\ w' = [w EXCEPT !.entChunk[e] = NoChunk]
    /\ UNCHANGED doomed

(* add_components with data for the components in DOMAIN given: the entity  *)
(* moves unless it has them all, then the data is stored.                   *)
Add(e, cs, given) ==
    LET m == Mask(e) \union cs
        moved == CASE Mask(e) = m -> w
                   [] Mask(e) = {} -> AddToArchetype(w, e, m, MovedData(<< >>, m))
                   [] OTHER -> Moved(e, m)
        k == moved.entChunk[e]
        i == moved.entIdx[e]
    IN  /\ Quiet
        /\ e \in alive /\ cs # {}
        /\ m # Mask(e) => HasRoom
        /\ w' = [moved EXCEPT !.chunk[k].slots[i].data =
                     [c \in m |-> IF c \in DOMAIN given THEN given[c] ELSE @[c]]]
        /\ UNCHANGED <<alive, doomed>>

(* A client stores through the pointer that get_one returns. *)
Write(e, c, v) ==
    /\ Quiet
    /\ e \in alive /\ c \in Mask(e)
    /\ w' = [w EXCEPT !.chunk[w.entChunk[e]].slots[w.entIdx[e]].data[c] = v]
    /\ UNCHANGED <<alive, doomed>>

(* remove_components: nothing if the entity has none of cs.                 *)
Remove(e, cs) ==
    LET m == Mask(e) \ cs
    IN  /\ Quiet
        /\ e \in alive /\ cs \intersect Mask(e) # {}
        /\ IF m # {}
           THEN /\ HasRoom
                /\ w' = Moved(e, m)
                /\ UNCHANGED alive
           ELSE /\ w' = RemoveFromArchetype(w, w.entIdx[e], w.entChunk[e])
                /\ alive' = IF Mask(e) \intersect SysComps # {} THEN alive \ {e} ELSE alive
        /\ UNCHANGED doomed

(* One turn of the loop of destroy, up to its call for the children: an     *)
(* entity that has only system state is skipped.                            *)
DestroyOne(e, rest) ==
    LET m == Mask(e) \intersect SysComps
        k == w.entChunk[e]
        i == w.entIdx[e]
        removed == IF m = {} THEN RemoveFromArchetype(w, i, k) ELSE Moved(e, m)
        last == w.chunk[k].slots[Len(w.chunk[k].slots)]
        found == IF ChildComp \in Mask(e) THEN last.data[ChildComp] ELSE {}
    IN  IF m = Mask(e)
        THEN doomed' = rest /\ UNCHANGED <<w, alive>>
        ELSE /\ m # {} => HasRoom
             /\ w' = removed
             /\ alive' = IF m = {} THEN alive \ {e} ELSE alive
             /\ \E children \in [1..Cardinality(found) -> found] :
                    /\ \A c \in found : \E j \in DOMAIN children : children[j] = c
                    /\ doomed' = children \o rest

Destroy(e) == Quiet /\ e \in alive /\ DestroyOne(e, << >>)

DestroyChild == doomed # << >> /\ DestroyOne(Head(doomed), Tail(doomed))

(* What clients store: data, and in the list of children an entity that is  *)
(* in no other list and has a system state component.                       *)
Store(e) ==
    \/ \E c \in Comps \ {ChildComp} : \E v \in Data : Write(e, c, v)
    \/ \E c \in Stored \ {e} :
          /\ ~ Listed(c) /\ Mask(c) \intersect SysComps # {}
          /\ Write(e, ChildComp, ChildrenOf(e) \union {c})
    \/ \E c \in ChildrenOf(e) : Write(e, ChildComp, ChildrenOf(e) \ {c})

Given(set) == {[c \in set |-> IF c = ChildComp THEN {} ELSE d[c]] : d \in [set -> Data]}

Next ==
    \/ \E e \in Entities :
          \/ Create(e)
          \/ \E cs \in SUBSET Comps : \E set \in SUBSET cs :
                 \E given \in Given(set) : CanAdd(e, cs) /\ Add(e, cs, given)
          \/ /\ e \in Stored
             /\ \/ Store(e)
                \/ \E cs \in SUBSET Comps : CanRemove(e, cs) /\ Remove(e, cs)
                \/ CanDestroy(e) /\ Destroy(e)
    \/ /\ doomed # << >> /\ CanDestroy(Head(doomed))
       /\ DestroyChild

Spec == Init /\ [][Next]_vars

---------------------------------------------------------------------------
(* Properties *)

TypeOK ==
    /\ w.used \subseteq Chunks
    /\ w.first \in [Masks -> Chunks \union {NoChunk}]
    /\ w.entChunk \in [Entities -> Chunks \union {NoChunk}]
    /\ w.entIdx \in [Entities -> 0..Capacity]
    /\ \A k \in Chunks :
          LET c == w.chunk[k]
          IN  /\ {c.next, c.prev} \subseteq Chunks \union {NoChunk}
              /\ Len(c.slots) <= Capacity
              /\ k \in w.used => c.mask \in Masks
              /\ \A i \in DOMAIN c.slots :
                    /\ c.slots[i].ent \in Entities
                    /\ DOMAIN c.slots[i].data = c.mask
                    /\ \A t \in c.mask : c.slots[i].data[t] \in Val(t)
    /\ alive \subseteq Entities
    /\ doomed \in Seq(Entities)

(* The index and the chunks agree: an entity that the index places is at    *)
(* that place, every place in use is the one its entity's index names, and  *)
(* its entity lives.  A removal moves another entity (ecs.c:573): an index  *)
(* left behind would read or remove the wrong one.  It is true of clients   *)
(* that keep to CanAdd, CanRemove and CanDestroy, as what follows is.       *)
IndexAgrees ==
    /\ \A e \in Stored : w.entIdx[e] \in DOMAIN w.chunk[w.entChunk[e]].slots /\ Slot(e).ent = e
    /\ \A k \in w.used : \A i \in DOMAIN w.chunk[k].slots :
          LET e == w.chunk[k].slots[i].ent
          IN  e \in alive /\ w.entChunk[e] = k /\ w.entIdx[e] = i

(* The chunks, archetypes and the index together are the map from entities  *)
(* to components that EcsWorld promises: no operation on one entity changes *)
(* what another one has, values survive moves between archetypes, and a     *)
(* destroyed entity takes its own children with it (where the last entity   *)
(* of its chunk has the same ones, LastOrAlike).                            *)
Components == [e \in Entities |-> IF e \in Stored THEN Slot(e).data ELSE [c \in {} |-> 0]]
Awaited == {doomed[i] : i \in DOMAIN doomed}
World == INSTANCE EcsWorld WITH comps <- Components, doomed <- Awaited
ImplementsWorld == World!Spec
=============================================================================
