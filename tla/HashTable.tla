----------------------------- MODULE HashTable -----------------------------
(***************************************************************************)
(* The hash table of celib/containers/hash.h as operators on a table:      *)
(* linear probing from key % n, deleted slots marked, growth by doubling.  *)
(*                                                                         *)
(* A table has n slots (0 before the first add), the number of adds since  *)
(* it was built or grown (the load factor lf is adds / n: n is a power of  *)
(* two, so the floats the code sums are exact), and its keys and values.   *)
(***************************************************************************)
EXTENDS Integers, FiniteSetsExt

CONSTANT InitialSize   \* slots of a table at its first add: 16

ASSUME SizeAssumption == InitialSize \in Nat /\ InitialSize >= 2

(* UINT64_MAX and UINT64_MAX - 1, which ce_hash_add refuses as keys. *)
Empty == -1
Deleted == -2

NewTable(n) ==
    [n |-> n, adds |-> 0,
     keys |-> [i \in 0 .. n - 1 |-> Empty], values |-> [i \in 0 .. n - 1 |-> 0]]

(* The first slot from k % n on that holds one of the keys of stop, and the *)
(* slot the probe began with when the whole table was passed.               *)
Probe(t, k, stop) ==
    LET hits == {j \in 0 .. t.n - 1 : t.keys[(k + j) % t.n] \in stop}
    IN  (k + (IF hits = {} THEN 0 ELSE Min(hits))) % t.n

(* Mutant of LookupSlot: lookups use the probe of the adds. *)
LookupSlotDeleted(t, k) == Probe(t, k, {Empty, Deleted, k})

(* ce_hash_find_slot passes deleted slots, _ce_hash_find_slot stops there.  *)
LookupSlot(t, k) == Probe(t, k, {Empty, k})
InsertSlot(t, k) == Probe(t, k, {Empty, Deleted, k})

HashContain(t, k) == t.n # 0 /\ t.keys[LookupSlot(t, k)] = k
HashLookup(t, k, default) == IF HashContain(t, k) THEN t.values[LookupSlot(t, k)] ELSE default

(* lf >= 0.7, or no slot for the key. *)
MustGrow(t, k) ==
    \/ 10 * t.adds >= 7 * t.n
    \/ t.keys[InsertSlot(t, k)] \notin {Empty, Deleted, k}

(* Mutant of Store: the value is forgotten. *)
StoreKey(t, k, v) ==
    LET i == InsertSlot(t, k)
    IN  [t EXCEPT !.keys[i] = k, !.adds = @ + 1]

Store(t, k, v) ==
    LET i == InsertSlot(t, k)
    IN  [t EXCEPT !.keys[i] = k, !.values[i] = v, !.adds = @ + 1]

(* The live slots of t, in order, are added to the table u.                 *)
MoveSlot(t, i, u) == IF t.keys[i] >= 0 THEN Store(u, t.keys[i], t.values[i]) ELSE u
MoveAll(t, u) ==
    LET moved[j \in 0 .. t.n] == IF j = 0 THEN u ELSE MoveSlot(t, j - 1, moved[j - 1])
    IN  moved[t.n]

(* Mutant of Grow: the load factor of the smaller table is kept. *)
GrowKeepsLoad(t) == MoveAll(t, [NewTable(2 * t.n) EXCEPT !.adds = t.adds])

(* A table twice as large: none of these adds makes it grow (GrowthSettles  *)
(* in HashMap).                                                             *)
Grow(t) == MoveAll(t, NewTable(2 * t.n))

Allocated(t) == IF t.n = 0 THEN NewTable(InitialSize) ELSE t
Grown(t, k) == IF MustGrow(t, k) THEN Grow(t) ELSE t

HashAdd(t, k, v) == Store(Grown(Allocated(t), k), k, v)

(* Mutant of HashRemove: the slot becomes empty, which cuts probes short. *)
HashRemoveEmpties(t, k) ==
    IF HashContain(t, k)
    THEN [t EXCEPT !.keys[LookupSlot(t, k)] = Empty, !.values[LookupSlot(t, k)] = 0]
    ELSE t

HashRemove(t, k) ==
    IF HashContain(t, k)
    THEN [t EXCEPT !.keys[LookupSlot(t, k)] = Deleted, !.values[LookupSlot(t, k)] = 0]
    ELSE t

(* The arrays are kept but count as size 0; the next add fills their first  *)
(* InitialSize slots with Empty.                                            *)
HashClean(t) == NewTable(0)

(* The copy of a table starts with a load factor of 0. *)
HashClone(t) == [t EXCEPT !.adds = 0]
=============================================================================
