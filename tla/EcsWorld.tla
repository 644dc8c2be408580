------------------------------ MODULE EcsWorld ------------------------------
(***************************************************************************)
(* What the storage of entities promises: a map from every living entity   *)
(* to its components and their values.  Nothing is said of chunks,         *)
(* archetypes or slots.  An entity that is destroyed keeps its system      *)
(* state components until a system removes them, and takes its children    *)
(* with it.                                                                *)
(***************************************************************************)
EXTENDS Integers, FiniteSets

CONSTANTS Entities,
          Comps,      \* the types of components
          SysComps,   \* those that are system state
          ChildComp,  \* CT_CHILD_COMPONENT, whose value is a set of entities
          Data        \* values of the other components; 0 is their default
                      \* (EcsStorage assumes what there is to assume)

VARIABLES alive,    \* entities whose handler is alive
          comps,    \* of each entity: the value of every component it has
          doomed    \* children of entities destroyed in the call in progress

worldVars == <<alive, comps, doomed>>

Val(c) == IF c = ChildComp THEN SUBSET Entities ELSE Data
Default(c) == IF c = ChildComp THEN {} ELSE 0
Given(cs) == {[c \in cs |-> IF c = ChildComp THEN {} ELSE d[c]] : d \in [cs -> Data]}
Nothing == [c \in {} |-> 0]

Masked(d, cs) == [c \in DOMAIN d \intersect cs |-> d[c]]
Extended(d, cs) ==
    [c \in DOMAIN d \union cs |-> IF c \in DOMAIN d THEN d[c] ELSE Default(c)]
ChildrenIn(d) == IF ChildComp \in DOMAIN d THEN d[ChildComp] ELSE {}

Init ==
    /\ alive = {}
    /\ comps = [e \in Entities |-> Nothing]
    /\ doomed = {}

Create(e) ==
    /\ doomed = {}
    /\ e \notin alive
    /\ alive' = alive \union {e}
    /\ UNCHANGED <<comps, doomed>>

(* Components the entity did not have start from their default; those for   *)
(* which the caller passes data have it afterwards.                         *)
Add(e, cs, given) ==
    /\ doomed = {}
    /\ e \in alive
    /\ comps' = [comps EXCEPT ![e] =
           [c \in DOMAIN Extended(@, cs) |->
                IF c \in DOMAIN given THEN given[c] ELSE Extended(@, cs)[c]]]
    /\ UNCHANGED <<alive, doomed>>

Write(e, c, v) ==
    /\ doomed = {}
    /\ c \in DOMAIN comps[e]
    /\ comps' = [comps EXCEPT ![e][c] = v]
    /\ UNCHANGED <<alive, doomed>>

(* An entity whose last component is a system state one dies with it.       *)
Remove(e, cs) ==
    /\ doomed = {}
    /\ comps' = [comps EXCEPT ![e] = Masked(@, Comps \ cs)]
    /\ alive' = IF DOMAIN comps'[e] = {} /\ DOMAIN comps[e] \intersect SysComps # {}
                THEN alive \ {e} ELSE alive
    /\ UNCHANGED doomed

Kill(e) ==
    /\ comps' = [comps EXCEPT ![e] = Masked(@, SysComps)]
    /\ alive' = IF DOMAIN comps'[e] = {} THEN alive \ {e} ELSE alive
    /\ doomed' = (doomed \ {e})
                   \union (IF comps'[e] = comps[e] THEN {} ELSE ChildrenIn(comps[e]))

Destroy(e) == doomed = {} /\ e \in alive /\ Kill(e)
DestroyChild(e) == e \in doomed /\ Kill(e)

Next ==
    \E e \in Entities :
        \/ Create(e)
        \/ \E cs \in SUBSET Comps : \E set \in SUBSET cs :
               \E given \in Given(set) : Add(e, cs, given)
        \/ \E c \in Comps : \E v \in Val(c) : Write(e, c, v)
        \/ \E cs \in SUBSET Comps : Remove(e, cs)
        \/ Destroy(e)
        \/ DestroyChild(e)

Spec == Init /\ [][Next]_worldVars
=============================================================================
