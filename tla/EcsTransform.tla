---------------------------- MODULE EcsTransform ---------------------------
(***************************************************************************)
(* How a change reaches the world matrices: the versions that let a query  *)
(* skip chunks that did not change (cetech/ecs/private/ecs.c), and the     *)
(* transform system that queries them (cetech/transform/private/           *)
(* transform.c), in the frames that step runs (ecs.c:1377).                *)
(*                                                                         *)
(* An entity is in the archetype "root" (position and world matrix) or in  *)
(* "child" (with a local matrix and a parent besides), each of one chunk.  *)
(* A local matrix is the position it was made from, and a world matrix the *)
(* sequence of the local ones it was multiplied from.  Rotation and scale  *)
(* are as the position; of a chunk's versions the one of the position is   *)
(* kept: the queries write the other components or do not look at them.    *)
(*                                                                         *)
(* Every frame runs a system of the game, the transform system and the     *)
(* renderer's system.  A client moves an entity through get_one with write *)
(* set, never by an add of a position that is there (ecs.c:879 marks no    *)
(* change), and makes no cycle of parents.                                 *)
(***************************************************************************)
EXTENDS Integers, Sequences, SequencesExt, FiniteSetsExt

CONSTANTS Entities,
          Positions,
          Half,       \* half of the number of versions: 2^31
          MaxEdits    \* bound on what clients do

ASSUME EntityAssumption == IsFiniteSet(Entities)
ASSUME PositionAssumption == 0 \in Positions
(* Three systems a frame: a change is never half the versions old. *)
ASSUME HalfAssumption == Half \in Nat /\ Half >= 4
ASSUME EditAssumption == MaxEdits \in Nat

VARIABLES chunk,      \* entities of each archetype, by place
          pos, parent,
          ltp, ltw,   \* local and world matrices
          version,    \* of the position, in each chunk
          global,     \* global_system_version
          last,       \* last_system_version of the transform system
          phase,      \* the system that ran last
          quiet,      \* frames since the last edit, up to Cardinality(Entities)
          edits       \* edits so far

data == <<pos, parent, ltp, ltw>>
vars == <<chunk, pos, parent, ltp, ltw, version, global, last, phase, quiet, edits>>

Graph == INSTANCE TaskGraph WITH Names <- Entities

Archetypes == {"root", "child"}
Members(a) == {chunk[a][i] : i \in DOMAIN chunk[a]}
Unset == -1

Init ==
    /\ chunk = [a \in Archetypes |-> << >>]
    /\ pos = [e \in Entities |-> 0] /\ parent = [e \in Entities |-> e]
    /\ ltp = [e \in Entities |-> Unset] /\ ltw = [e \in Entities |-> << >>]
    /\ version = [a \in Archetypes |-> 0]
    /\ global = 0 /\ last = 0
    /\ phase = "render"
    /\ quiet = 0 /\ edits = 0

---------------------------------------------------------------------------
(* Versions. *)

Versions == 2 * Half

Tick(v) == LET n == (v + 1) % Versions IN IF n = 0 THEN 1 ELSE n

(* Mutant of ChunkChanged: the versions are compared without wrapping.     *)
ChunkChangedUnsigned(v, rq) == rq = 0 \/ v > rq

ChunkChanged(v, rq) == rq = 0 \/ (v - rq) % Versions \in 1 .. Half - 1

NeedProcess(a) == chunk[a] # << >> /\ ChunkChanged(version[a], last)

(* _add_to_archetype marks every component of the chunk that it fills, and  *)
(* _remove_from_archetype of the chunk in which it closes a gap.            *)
Marked(as) == [a \in Archetypes |-> IF a \in as THEN global ELSE version[a]]

---------------------------------------------------------------------------
(* Clients: between frames and in systems other than the transform system. *)

Edit ==
    /\ phase \in {"render", "game"}
    /\ edits < MaxEdits
    /\ edits' = edits + 1 /\ quiet' = 0
    /\ UNCHANGED <<global, last, phase>>

Without(s, e) == LET i == CHOOSE j \in DOMAIN s : s[j] = e
                 IN  Front(ReplaceAt(s, i, Last(s)))

Closed(a, e) == IF Last(chunk[a]) = e THEN {} ELSE {a}

Above(e) ==
    LET above[x \in Entities] ==
            IF x \in Members("child") THEN {parent[x]} \union above[parent[x]] ELSE {}
    IN  above[e]

(* create_entities and add_components of a position and a world matrix.    *)
Spawn(e) ==
    /\ Edit
    /\ e \notin Members("root") \union Members("child")
    /\ chunk' = [chunk EXCEPT !["root"] = Append(@, e)]
    /\ version' = Marked({"root"})
    /\ \E p \in Positions : pos' = [pos EXCEPT ![e] = p]
    /\ UNCHANGED <<parent, ltp, ltw>>

(* add_components of a local matrix and a parent, the matrix zeroed.       *)
Attach(e, p) ==
    /\ Edit
    /\ e \in Members("root") /\ p # e /\ e \notin Above(p)
    /\ p \in Members("root") \union Members("child")
    /\ chunk' = [chunk EXCEPT !["root"] = Without(@, e), !["child"] = Append(@, e)]
    /\ version' = Marked({"child"} \union Closed("root", e))
    /\ parent' = [parent EXCEPT ![e] = p]
    /\ ltp' = [ltp EXCEPT ![e] = Unset]
    /\ UNCHANGED <<pos, ltw>>

(* remove_components of both. *)
Detach(e) ==
    /\ Edit
    /\ e \in Members("child")
    /\ chunk' = [chunk EXCEPT !["child"] = Without(@, e), !["root"] = Append(@, e)]
    /\ version' = Marked({"root"} \union Closed("child", e))
    /\ UNCHANGED <<pos, parent, ltp, ltw>>

(* add_components of a parent to an entity that has one: only copied.      *)
Reparent(e, p) ==
    /\ Edit
    /\ e \in Members("child") /\ p # e /\ e \notin Above(p)
    /\ p \in Members("root") \union Members("child")
    /\ parent' = [parent EXCEPT ![e] = p]
    /\ UNCHANGED <<chunk, pos, ltp, ltw, version>>

Move(e) ==
    /\ Edit
    /\ e \in Members("root") \union Members("child")
    /\ \E p \in Positions : pos' = [pos EXCEPT ![e] = p]
    /\ version' = Marked({a \in Archetypes : e \in Members(a)})
    /\ UNCHANGED <<chunk, parent, ltp, ltw>>

---------------------------------------------------------------------------
(* The systems of a frame (_process_group). *)

OtherSystem(before, name) ==
    /\ phase = before /\ phase' = name
    /\ global' = Tick(global)
    /\ UNCHANGED <<chunk, data, version, last, quiet, edits>>

(* Mutant of ChildOrder: the third query is only_changed as well.           *)
ChildOrderChanged ==
    IF ~ NeedProcess("child") THEN << >>
    ELSE Graph!BagOrder(chunk["child"], [e \in Entities |-> <<parent[e]>>],
                        [e \in Entities |-> << >>])

(* The order of the second pass: _local_to_parent puts each child BEFORE    *)
(* its parent.                                                              *)
ChildOrder ==
    Graph!BagOrder(chunk["child"], [e \in Entities |-> <<parent[e]>>],
                   [e \in Entities |-> << >>])

(* The second pass, which multiplies in that order and in place. *)
SecondPass(local, start) ==
    LET order == ChildOrder
        worlds[i \in 0 .. Len(order)] ==
            IF i = 0 THEN start
            ELSE LET e == order[i]
                     m == worlds[i - 1]
                 IN  IF e \notin Members("child") THEN m
                     ELSE [m EXCEPT ![e] = <<local[e]>> \o m[parent[e]]]
    IN  worlds[Len(order)]

TransformSystem ==
    LET processed(a) == IF NeedProcess(a) THEN Members(a) ELSE {}
        roots == [e \in Entities |-> IF e \in processed("root") THEN <<pos[e]>> ELSE ltw[e]]
        worlds == SecondPass(ltp', roots)
    IN  /\ phase = "game" /\ phase' = "transform"
        /\ global' = Tick(global) /\ last' = global'
        /\ ltp' = [e \in Entities |-> IF e \in processed("child") THEN pos[e] ELSE ltp[e]]
        /\ ltw' = [e \in Entities |-> IF e \in Members("child") THEN worlds[e] ELSE roots[e]]
        /\ quiet' = IF quiet < Cardinality(Entities) THEN quiet + 1 ELSE quiet
        /\ UNCHANGED <<chunk, pos, parent, version, edits>>

Next ==
    \/ \E e \in Entities :
          \/ Spawn(e) \/ Detach(e) \/ Move(e)
          \/ \E p \in Entities : Attach(e, p) \/ Reparent(e, p)
    \/ OtherSystem("render", "game")
    \/ TransformSystem
    \/ OtherSystem("transform", "render")

Spec == Init /\ [][Next]_vars

---------------------------------------------------------------------------
(* Properties *)

Composed(e) ==
    LET composed[x \in Entities] ==
            <<pos[x]>> \o IF x \in Members("child") THEN composed[parent[x]] ELSE << >>
    IN  composed[e]

(* No change is lost to only_changed (ecs.c:1087): an entity whose matrix   *)
(* is not that of its position is in a chunk that the next run of the       *)
(* transform system takes, however often the versions wrapped around.       *)
StaleIsMarked ==
    /\ \A e \in Members("root") : ltw[e] # <<pos[e]>> => NeedProcess("root")
    /\ \A e \in Members("child") : ltp[e] # pos[e] => NeedProcess("child")

(* A world matrix is right after as many frames without an edit as the      *)
(* entity is deep, and after one at the top: children are multiplied before *)
(* their parents (transform.c:311), so each level costs a frame and no more.*)
LagBounded ==
    \A e \in Members("root") \union Members("child") :
        LET depth == Cardinality(Above(e))
        IN  phase = "transform" /\ quiet >= (IF depth = 0 THEN 1 ELSE depth)
                => ltw[e] = Composed(e)
=============================================================================
