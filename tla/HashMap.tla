------------------------------ MODULE HashMap ------------------------------
(***************************************************************************)
(* A ce_hash_t in use, against the Dictionary its users expect.  The code  *)
(* uses its tables in two ways.  Most are never removed from: keys are     *)
(* added and updated (graphs, listeners, systems, types).  The others are  *)
(* removed from, and their users add only keys they have just looked up    *)
(* and not found (cdb.c _add_to_set and the uid table, api.c, the          *)
(* archetypes of ecs.c).  A third use mixes both without a lookup          *)
(* (cdb.c _remove_from_set).                                               *)
(***************************************************************************)
EXTENDS HashTable

CONSTANTS Keys, Values, None,
          Uses,      \* ways the table may be used: "update", "remove", "both"
          MaxSize    \* tables grow up to this size

ASSUME KeyAssumption == Keys \subseteq Nat
ASSUME NoneAssumption == None \notin Values

VARIABLES table,   \* the ce_hash_t
          use,     \* how its owner uses it
          last     \* the last call

vars == <<table, use, last>>

Init ==
    /\ table = NewTable(0)
    /\ use \in Uses
    /\ last = <<"none", None, None>>

Room(k) ==
    LET t == Allocated(table)
    IN  MustGrow(t, k) => 2 * t.n <= MaxSize

AddKey(k, v) ==
    /\ use = "remove" => ~ HashContain(table, k)
    /\ Room(k)
    /\ table' = HashAdd(table, k, v)
    /\ last' = <<"add", k, v>>
    /\ UNCHANGED use

RemoveKey(k) ==
    /\ use # "update"
    /\ table' = HashRemove(table, k)
    /\ last' = <<"remove", k, None>>
    /\ UNCHANGED use

CleanTable ==
    /\ table' = HashClean(table)
    /\ last' = <<"clean", None, None>>
    /\ UNCHANGED use

(* The owner goes on with a clone of its table. *)
CloneTable ==
    /\ table' = HashClone(table)
    /\ last' = <<"clone", None, None>>
    /\ UNCHANGED use

Next ==
    \/ \E k \in Keys, v \in Values : AddKey(k, v)
    \/ \E k \in Keys : RemoveKey(k)
    \/ CleanTable
    \/ CloneTable

Spec == Init /\ [][Next]_vars

---------------------------------------------------------------------------
(* Type invariant. *)
TypeOK ==
    LET slots == 0 .. table.n - 1
    IN  /\ table.n \in Nat /\ table.adds \in Nat
        /\ table.keys \in [slots -> Keys \union {Empty, Deleted}]
        /\ \A i \in slots : table.keys[i] \in Keys => table.values[i] \in Values
        /\ use \in Uses
        /\ last \in {"none", "add", "remove", "clean", "clone"}
                    \X (Keys \union {None}) \X (Values \union {None})

(* Every key that is stored is found by a lookup in the very slot that      *)
(* holds it: no empty slot cuts its probe short, and no other slot holds a  *)
(* second, stale copy, which the next growth or the next remove would bring *)
(* back.                                                                    *)
ProbesReach ==
    \A i \in 0 .. table.n - 1 :
        table.keys[i] \in Keys => LookupSlot(table, table.keys[i]) = i

(* Growing once makes room: neither the key that made the table grow nor    *)
(* any key moved to the larger table makes it grow again, so the loop of    *)
(* ce_hash_add ends and its recursion is one level deep.                    *)
GrowthSettles ==
    table.n > 0 =>
        LET g == Grow(table)
        IN  /\ 10 * g.adds < 7 * g.n
            /\ g.n = 2 * table.n
            /\ \A k \in Keys : ~ MustGrow(g, k)

(* Add and update without remove, and remove with add of absent keys only,  *)
(* make the table a dictionary.                                             *)
Dict == INSTANCE Dictionary
            WITH dict <- [k \in Keys |-> HashLookup(table, k, None)]

ImplementsDictionary == Dict!Spec

(* "Find *k* in hash table. If key does not exist return *default_value*",  *)
(* hash.h:118: a key that was just removed does not exist.                  *)
RemovedIsAbsent ==
    [][\A k \in Keys : RemoveKey(k) => HashLookup(table', k, None) = None]_vars
=============================================================================
