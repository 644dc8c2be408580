---------------------------- MODULE HashMapProof ----------------------------
(***************************************************************************)
(* The tables of HashMap are dictionaries, for any keys, values and sizes, *)
(* in the two ways of use that look up before they add to a table with     *)
(* deleted slots.  First the arithmetic of a probe, then what a probe, an  *)
(* add, a growth and a remove do to what a table holds, last the invariant *)
(* and the refinement of Dictionary.                                       *)
(***************************************************************************)
EXTENDS HashMap, FiniteSetTheorems, TLAPS

---------------------------------------------------------------------------
(* Arithmetic of the slots. *)

(* Multiples of a table's size are at least that size apart. *)
LEMMA MulStep ==
  ASSUME NEW n \in Nat, NEW q \in Nat, NEW p \in Nat, q < p
  PROVE  n * q + n <= n * p
<1> DEFINE d == p - q - 1
<1>1. d \in Nat /\ p = q + 1 + d
  OBVIOUS
<1>2. n * p = n * q + n + n * d
  BY <1>1
<1>3. n * d \in Nat /\ n * q \in Nat
  BY <1>1
<1> QED BY <1>2, <1>3

(* The slot of a number is its remainder. *)
LEMMA Division ==
  ASSUME NEW n \in Nat, n > 0, NEW a \in Nat
  PROVE  \E q \in Nat : /\ a = n * q + (a % n)
                        /\ a % n \in 0 .. n - 1
<1>1. a \div n \in Nat
  OBVIOUS
<1>2. a = n * (a \div n) + (a % n)
  OBVIOUS
<1>3. a % n \in Nat /\ a % n < n
  OBVIOUS
<1>4. a % n \in 0 .. n - 1
  BY <1>3
<1> QED BY <1>1, <1>2, <1>4, Zenon

(* Quotient and remainder are unique. *)
LEMMA DivisionUnique ==
  ASSUME NEW n \in Nat, NEW q \in Nat, NEW p \in Nat,
         NEW r \in 0 .. n - 1, NEW s \in 0 .. n - 1, n * q + r = n * p + s
  PROVE  r = s
<1>0. n * q \in Nat /\ n * p \in Nat
  OBVIOUS
<1>1. CASE q < p
  <2>1. n * q + n <= n * p
    BY <1>1, MulStep
  <2> HIDE <1>1
  <2> DEFINE x == n * q
             y == n * p
  <2>2. x \in Nat /\ y \in Nat /\ x + n <= y /\ x + r = y + s
    BY <1>0, <2>1
  <2> HIDE DEF x, y
  <2> QED BY <2>2
<1>2. CASE p < q
  <2>1. n * p + n <= n * q
    BY <1>2, MulStep
  <2> DEFINE x == n * q
             y == n * p
  <2>2. x \in Nat /\ y \in Nat /\ y + n <= x /\ x + r = y + s
    BY <1>0, <2>1
  <2> HIDE DEF x, y
  <2> QED BY <2>2
<1>3. CASE q = p
  BY <1>0, <1>3
<1> QED BY <1>1, <1>2, <1>3

(* The slot at distance j of the home slot of k. *)
At(n, k, j) == (k + j) % n

(* It is a slot of the table. *)
LEMMA AtType ==
  ASSUME NEW n \in Nat, n > 0, NEW k \in Nat, NEW j \in Nat
  PROVE  At(n, k, j) \in 0 .. n - 1
<1>1. k + j \in Nat
  OBVIOUS
<1> QED BY <1>1, Division DEF At

(* It is a remainder. *)
LEMMA AtDivision ==
  ASSUME NEW n \in Nat, n > 0, NEW k \in Nat, NEW j \in Nat
  PROVE  \E q \in Nat : k + j = n * q + At(n, k, j)
<1> DEFINE a == k + j
<1>1. a \in Nat /\ At(n, k, j) = a % n
  BY DEF At
<1> HIDE DEF a
<1>2. \E q \in Nat : a = n * q + At(n, k, j)
  BY <1>1, Division
<1> QED BY <1>2 DEF a

(* A probe comes to no slot twice. *)
LEMMA AtApart ==
  ASSUME NEW n \in Nat, n > 0, NEW k \in Nat,
         NEW i \in 0 .. n - 1, NEW j \in 0 .. n - 1, At(n, k, i) = At(n, k, j)
  PROVE  i = j
<1> SUFFICES ASSUME NEW a \in 0 .. n - 1, NEW b \in 0 .. n - 1, a < b, At(n, k, a) = At(n, k, b)
             PROVE  FALSE
  OBVIOUS
<1>1. a \in Nat /\ b \in Nat
  OBVIOUS
<1>2. PICK q \in Nat : k + a = n * q + At(n, k, a)
  BY <1>1, AtDivision, Zenon
<1>3. PICK p \in Nat : k + b = n * p + At(n, k, b)
  BY <1>1, AtDivision, Zenon
<1>4. At(n, k, a) \in Nat /\ n * q \in Nat /\ n * p \in Nat
  BY AtType
<1>5. p > q
  <2>1. CASE p < q
    <3>1. n * p + n <= n * q
      BY <2>1, MulStep
    <3> DEFINE x == n * q
               y == n * p
               z == At(n, k, a)
    <3>2. x \in Nat /\ y \in Nat /\ z \in Nat /\ y + n <= x /\ k + a = x + z /\ k + b = y + z
      BY <1>2, <1>3, <1>4, <3>1
    <3> HIDE DEF x, y, z
    <3> QED BY <3>2
  <2>2. CASE p = q
    BY <1>2, <1>3, <1>4, <2>2
  <2> QED BY <2>1, <2>2
<1>6. n * q + n <= n * p
  BY <1>5, MulStep
<1> DEFINE x == n * q
           y == n * p
           z == At(n, k, a)
<1>7. x \in Nat /\ y \in Nat /\ z \in Nat /\ x + n <= y /\ k + a = x + z /\ k + b = y + z
  BY <1>2, <1>3, <1>4, <1>6
<1> HIDE DEF x, y, z
<1> QED BY <1>7

(* A probe comes to every slot. *)
LEMMA AtReaches ==
  ASSUME NEW n \in Nat, n > 0, NEW k \in Nat, NEW i \in 0 .. n - 1
  PROVE  \E j \in 0 .. n - 1 : At(n, k, j) = i
<1>1. PICK q \in Nat, h \in 0 .. n - 1 : k = n * q + h
  BY Division
<1> DEFINE x == n * q
           d == IF h <= i THEN i - h ELSE i + n - h
           p == IF h <= i THEN q ELSE q + 1
<1>2. d \in 0 .. n - 1 /\ p \in Nat
  BY <1>1
<1>3. n * p = IF h <= i THEN x ELSE x + n
  OBVIOUS
<1>4. k + d = n * p + i
  <2>1. x \in Nat /\ k = x + h /\ h \in Nat
    BY <1>1
  <2> HIDE DEF x, p
  <2> QED BY <1>3, <2>1
<1> HIDE DEF d, p
<1>5. d \in Nat
  BY <1>2
<1>6. PICK r \in Nat : k + d = n * r + At(n, k, d)
  BY <1>5, AtDivision, Zenon
<1>7. At(n, k, d) \in 0 .. n - 1
  BY <1>5, AtType, Zenon
<1>8. At(n, k, d) = i
  <2>1. n * r + At(n, k, d) = n * p + i
    BY <1>4, <1>6
  <2> QED BY <1>2, <1>7, <2>1, DivisionUnique, Zenon
<1> QED BY <1>2, <1>8

---------------------------------------------------------------------------
(* Induction, from the well-foundedness of the finite subsets of Nat. *)

(* A set of naturals has a least element. *)
LEMMA Least ==
  ASSUME NEW S \in SUBSET Nat, S # {}
  PROVE  \E m \in S : \A k \in S : m <= k
<1> DEFINE R == StrictSubsetOrdering(Nat)
           T == {0 .. k : k \in S}
<1>1. T \subseteq FiniteSubsetsOf(Nat)
  <2> SUFFICES ASSUME NEW k \in S PROVE 0 .. k \in FiniteSubsetsOf(Nat)
    OBVIOUS
  <2>1. IsFiniteSet(0 .. k)
    BY FS_Interval
  <2> QED BY <2>1 DEF FiniteSubsetsOf
<1>2. \A j, k \in S : j < k => <<0 .. j, 0 .. k>> \in R
  BY DEF StrictSubsetOrdering
<1>3. T # {}
  OBVIOUS
<1>4. IsWellFoundedOn(R, FiniteSubsetsOf(Nat))
  BY FS_StrictSubsetOrderingWellFounded
<1> HIDE DEF R
<1>5. PICK x \in T : \A y \in T : ~ (<<y, x>> \in R)
  <2> HIDE DEF T
  <2> QED BY <1>1, <1>3, <1>4, WFMin
<1>6. PICK m \in S : x = 0 .. m
  OBVIOUS
<1>7. \A k \in S : ~ (k < m)
  BY <1>2, <1>5, <1>6
<1> QED BY <1>7

(* A set that holds 0, and k + 1 with k, holds every number up to n. *)
LEMMA Induct ==
  ASSUME NEW n \in Nat, NEW S, 0 \in S, \A k \in 0 .. n - 1 : k \in S => k + 1 \in S
  PROVE  \A k \in 0 .. n : k \in S
<1> SUFFICES ASSUME NEW j \in 0 .. n, j \notin S PROVE FALSE
  OBVIOUS
<1> DEFINE T == {k \in 0 .. n : k \notin S}
<1>0. T \in SUBSET Nat /\ T # {}
  OBVIOUS
<1>1. PICK m \in T : \A k \in T : m <= k
  <2> HIDE DEF T
  <2> QED BY <1>0, Least
<1>2. m # 0 /\ m - 1 \in 0 .. n - 1 /\ m - 1 \notin T
  BY <1>1
<1>3. (m - 1) + 1 \in S
  BY <1>2
<1> QED BY <1>1, <1>3

---------------------------------------------------------------------------
(* Tables and probes. *)

(* The tables of n slots. *)
Tables(n) ==
    [n : {n}, adds : Nat,
     keys : [0 .. n - 1 -> Keys \union {Empty, Deleted}], values : [0 .. n - 1 -> Values \union {0}]]
TableType(t) ==
    /\ t.n \in Nat /\ t \in Tables(t.n)
    /\ \A i \in 0 .. t.n - 1 : t.keys[i] \in Keys => t.values[i] \in Values

(* No probe for a stored key meets an empty slot, or the key, before it.    *)
Probed(t) ==
    \A k \in Keys : \A j \in 0 .. t.n - 1 :
        t.keys[At(t.n, k, j)] = k =>
            \A i \in 0 .. j - 1 : t.keys[At(t.n, k, i)] \notin {Empty, k}

NoDeleted(t) == \A i \in 0 .. t.n - 1 : t.keys[i] # Deleted
Absent(t, k) == \A i \in 0 .. t.n - 1 : t.keys[i] # k
Holds(t, k, v) == \E i \in 0 .. t.n - 1 : t.keys[i] = k /\ t.values[i] = v

(* A probe ends at the first slot it may stop at, or passes them all. *)
LEMMA ProbeEnds ==
  ASSUME NEW t, t.n \in Nat, t.n > 0, NEW k \in Nat, NEW stop
  PROVE  \/ \E j \in 0 .. t.n - 1 :
                /\ Probe(t, k, stop) = At(t.n, k, j)
                /\ t.keys[At(t.n, k, j)] \in stop
                /\ \A i \in 0 .. j - 1 : t.keys[At(t.n, k, i)] \notin stop
         \/ /\ Probe(t, k, stop) = At(t.n, k, 0)
            /\ \A i \in 0 .. t.n - 1 : t.keys[i] \notin stop
<1> DEFINE hits == {j \in 0 .. t.n - 1 : t.keys[At(t.n, k, j)] \in stop}
<1>0. Probe(t, k, stop) = At(t.n, k, IF hits = {} THEN 0 ELSE Min(hits))
  BY DEF Probe, At
<1>1. CASE hits = {}
  <2>1. ASSUME NEW i \in 0 .. t.n - 1 PROVE t.keys[i] \notin stop
    <3>1. PICK j \in 0 .. t.n - 1 : At(t.n, k, j) = i
      BY AtReaches
    <3> QED BY <1>1, <3>1
  <2>2. Probe(t, k, stop) = At(t.n, k, 0)
    BY <1>0, <1>1
  <2> QED BY <2>1, <2>2
<1>2. CASE hits # {}
  <2>1. hits \in SUBSET Nat
    OBVIOUS
  <2>2. \E m \in hits : \A j \in hits : m <= j
    <3> HIDE DEF hits
    <3> QED BY <1>2, <2>1, Least
  <2> DEFINE m == Min(hits)
  <2>3. m \in hits /\ \A j \in hits : m <= j
    <3> HIDE DEF hits
    <3> QED BY <2>2 DEF Min
  <2>4. Probe(t, k, stop) = At(t.n, k, m)
    BY <1>0, <1>2
  <2> HIDE DEF m
  <2>5. m \in 0 .. t.n - 1 /\ t.keys[At(t.n, k, m)] \in stop
    BY <2>3
  <2>6. \A i \in 0 .. m - 1 : t.keys[At(t.n, k, i)] \notin stop
    BY <2>3, <2>5
  <2> QED BY <2>4, <2>5, <2>6
<1> QED BY <1>1, <1>2

(* A lookup of a stored key ends at the slot that holds it. *)
LEMMA LookupStored ==
  ASSUME NEW t, t.n \in Nat, Probed(t), NEW k \in Keys,
         NEW i \in 0 .. t.n - 1, t.keys[i] = k
  PROVE  LookupSlot(t, k) = i
<1>1. k \in Nat /\ t.n > 0
  BY KeyAssumption
<1>2. PICK j \in 0 .. t.n - 1 : At(t.n, k, j) = i
  BY <1>1, AtReaches
<1>3. \A h \in 0 .. j - 1 : t.keys[At(t.n, k, h)] \notin {Empty, k}
  BY <1>2 DEF Probed
<1>4. PICK h \in 0 .. t.n - 1 :
          /\ LookupSlot(t, k) = At(t.n, k, h)
          /\ t.keys[At(t.n, k, h)] \in {Empty, k}
          /\ \A g \in 0 .. h - 1 : t.keys[At(t.n, k, g)] \notin {Empty, k}
  BY <1>1, ProbeEnds DEF LookupSlot
<1>5. h = j
  BY <1>2, <1>3, <1>4
<1> QED BY <1>2, <1>4, <1>5

(* A key is stored once. *)
LEMMA StoredOnce ==
  ASSUME NEW t, t.n \in Nat, Probed(t), NEW i \in 0 .. t.n - 1, NEW j \in 0 .. t.n - 1,
         t.keys[i] \in Keys, t.keys[i] = t.keys[j]
  PROVE  i = j
<1>1. LookupSlot(t, t.keys[i]) = i
  BY LookupStored
<1>2. LookupSlot(t, t.keys[j]) = j
  BY LookupStored
<1> QED BY <1>1, <1>2

(* Both probes end at a slot of the table. *)
LEMMA ProbeType ==
  ASSUME NEW t, t.n \in Nat, t.n > 0, NEW k \in Nat, NEW stop
  PROVE  Probe(t, k, stop) \in 0 .. t.n - 1
<1>1. PICK j \in 0 .. t.n - 1 : Probe(t, k, stop) = At(t.n, k, j)
  BY ProbeEnds
<1> QED BY <1>1, AtType

(* What a lookup returns. *)
LEMMA LookupHolds ==
  ASSUME NEW t, t.n \in Nat, Probed(t), NEW k \in Keys, NEW v, Holds(t, k, v)
  PROVE  HashContain(t, k) /\ HashLookup(t, k, None) = v
<1>1. PICK i \in 0 .. t.n - 1 : t.keys[i] = k /\ t.values[i] = v
  BY DEF Holds
<1>2. LookupSlot(t, k) = i
  BY <1>1, LookupStored
<1>3. HashContain(t, k)
  BY <1>1, <1>2 DEF HashContain
<1> QED BY <1>1, <1>2, <1>3 DEF HashLookup

(* A lookup of a key that is nowhere in the table finds nothing. *)
LEMMA LookupAbsent ==
  ASSUME NEW t, t.n \in Nat, NEW k \in Keys, Absent(t, k)
  PROVE  ~ HashContain(t, k) /\ HashLookup(t, k, None) = None
<1>1. ASSUME t.n # 0 PROVE t.keys[LookupSlot(t, k)] # k
  <2>1. LookupSlot(t, k) \in 0 .. t.n - 1
    BY <1>1, ProbeType, KeyAssumption DEF LookupSlot
  <2> QED BY <2>1 DEF Absent
<1>2. ~ HashContain(t, k)
  BY <1>1 DEF HashContain
<1> QED BY <1>2 DEF HashLookup

(* A key that is not contained is nowhere in the table. *)
LEMMA NotContained ==
  ASSUME NEW t, t.n \in Nat, Probed(t), NEW k \in Keys, ~ HashContain(t, k)
  PROVE  Absent(t, k)
<1> SUFFICES ASSUME NEW i \in 0 .. t.n - 1, t.keys[i] = k PROVE FALSE
  BY DEF Absent
<1>1. Holds(t, k, t.values[i])
  BY DEF Holds
<1> QED BY <1>1, LookupHolds

---------------------------------------------------------------------------
(* Adding a key. *)

(* A table with a slot for k. *)
Fits(t, k) == t.keys[InsertSlot(t, k)] \in {Empty, Deleted, k}

(* Where an added key goes: to its own slot or to one that is not in use,   *)
(* after slots that other keys or removed keys use.                         *)
LEMMA InsertEnds ==
  ASSUME NEW t, TableType(t), t.n > 0, NEW k \in Keys, Fits(t, k)
  PROVE  \E j \in 0 .. t.n - 1 :
            /\ InsertSlot(t, k) = At(t.n, k, j)
            /\ t.keys[At(t.n, k, j)] \in {Empty, Deleted, k}
            /\ \A i \in 0 .. j - 1 : t.keys[At(t.n, k, i)] \notin {Empty, Deleted, k}
<1>1. InsertSlot(t, k) \in 0 .. t.n - 1
  BY ProbeType, KeyAssumption DEF InsertSlot, TableType
<1> QED BY <1>1, ProbeEnds, KeyAssumption DEF InsertSlot, Fits, TableType

(* What an add writes. *)
LEMMA StoreWrites ==
  ASSUME NEW t, TableType(t), t.n > 0, NEW k \in Keys, NEW v \in Values
  PROVE  /\ InsertSlot(t, k) \in 0 .. t.n - 1
         /\ Store(t, k, v) = [n |-> t.n, adds |-> t.adds + 1,
                              keys |-> [t.keys EXCEPT ![InsertSlot(t, k)] = k],
                              values |-> [t.values EXCEPT ![InsertSlot(t, k)] = v]]
<1> DEFINE s == InsertSlot(t, k)
<1>1. s \in 0 .. t.n - 1
  BY ProbeType, KeyAssumption DEF InsertSlot, TableType
<1>2. Store(t, k, v) = [t EXCEPT !.keys[s] = k, !.values[s] = v, !.adds = @ + 1]
  BY DEF Store
<1> HIDE DEF s
<1>3. t \in Tables(t.n)
  BY DEF TableType
<1>4. Store(t, k, v) = [n |-> t.n, adds |-> t.adds + 1,
                        keys |-> [t.keys EXCEPT ![s] = k], values |-> [t.values EXCEPT ![s] = v]]
  BY <1>2, <1>3 DEF Tables
<1> QED BY <1>1, <1>4 DEF s

(* An add keeps the type of the table. *)
LEMMA StoreType ==
  ASSUME NEW t, TableType(t), t.n > 0, NEW k \in Keys, NEW v \in Values
  PROVE  TableType(Store(t, k, v)) /\ Store(t, k, v).n = t.n /\ Store(t, k, v).adds = t.adds + 1
<1> DEFINE u == Store(t, k, v)
           s == InsertSlot(t, k)
<1>1. /\ s \in 0 .. t.n - 1
      /\ u = [n |-> t.n, adds |-> t.adds + 1,
              keys |-> [t.keys EXCEPT ![s] = k], values |-> [t.values EXCEPT ![s] = v]]
  BY StoreWrites
<1>2. t.n \in Nat /\ t \in Tables(t.n)
  BY DEF TableType
<1> HIDE DEF u, s
<1>3. u \in Tables(t.n)
  BY <1>1, <1>2 DEF Tables
<1>4. u.n = t.n /\ u.adds = t.adds + 1
  BY <1>1
<1>5. ASSUME NEW i \in 0 .. t.n - 1, u.keys[i] \in Keys PROVE u.values[i] \in Values
  <2>1. t.keys[i] \in Keys => t.values[i] \in Values
    BY DEF TableType
  <2> QED BY <1>1, <1>2, <1>5, <2>1 DEF Tables
<1>6. TableType(u)
  BY <1>2, <1>3, <1>4, <1>5 DEF TableType
<1> QED BY <1>4, <1>6 DEF u

(* Adding an absent key, or any key to a table without deleted slots, keeps *)
(* the probes and changes what the table holds for that key alone.          *)
LEMMA StoreHolds ==
  ASSUME NEW t, TableType(t), t.n > 0, Probed(t), NEW k \in Keys, NEW v \in Values,
         Fits(t, k), NoDeleted(t) \/ Absent(t, k)
  PROVE  LET u == Store(t, k, v)
         IN  /\ Probed(u)
             /\ NoDeleted(t) => NoDeleted(u)
             /\ Holds(u, k, v)
             /\ \A l \in Keys : l # k => /\ \A w : Holds(u, l, w) <=> Holds(t, l, w)
                                         /\ Absent(t, l) <=> Absent(u, l)
<1> DEFINE u == Store(t, k, v)
           n == t.n
           s == InsertSlot(t, k)
<1>1. /\ n \in Nat /\ n > 0 /\ u.n = n /\ s \in 0 .. n - 1
      /\ u.keys = [t.keys EXCEPT ![s] = k]
      /\ u.values = [t.values EXCEPT ![s] = v]
      /\ DOMAIN t.keys = 0 .. n - 1 /\ DOMAIN t.values = 0 .. n - 1
  <2>1. n \in Nat /\ DOMAIN t.keys = 0 .. n - 1 /\ DOMAIN t.values = 0 .. n - 1
    BY DEF TableType, Tables
  <2>2. /\ s \in 0 .. n - 1
        /\ u = [n |-> n, adds |-> t.adds + 1,
                keys |-> [t.keys EXCEPT ![s] = k], values |-> [t.values EXCEPT ![s] = v]]
    BY StoreWrites
  <2> HIDE DEF u, s, n
  <2> QED BY <2>1, <2>2 DEF n
<1>2. PICK j \in 0 .. n - 1 :
          /\ s = At(n, k, j)
          /\ t.keys[At(n, k, j)] \in {Empty, Deleted, k}
          /\ \A i \in 0 .. j - 1 : t.keys[At(n, k, i)] \notin {Empty, Deleted, k}
  BY InsertEnds
<1> HIDE DEF u, s, n
<1>3. /\ u.keys[s] = k /\ u.values[s] = v
      /\ \A i \in 0 .. n - 1 : i # s => u.keys[i] = t.keys[i] /\ u.values[i] = t.values[i]
      /\ t.keys[s] \in {Empty, Deleted, k}
  BY <1>1, <1>2
<1>4. Empty \notin Keys /\ Deleted \notin Keys /\ Empty # Deleted /\ Keys \subseteq Nat
  BY KeyAssumption DEF Empty, Deleted
<1>5. \A i \in 0 .. n - 1 : t.keys[i] = k => i = s
  <2> SUFFICES ASSUME NEW i \in 0 .. n - 1, t.keys[i] = k, i # s PROVE FALSE
    OBVIOUS
  <2>1. NoDeleted(t)
    BY DEF Absent, n
  <2>2. t.keys[s] \in {Empty, k}
    BY <1>1, <1>3, <2>1 DEF NoDeleted, n
  <2>3. PICK h \in 0 .. n - 1 : At(n, k, h) = i
    <3>1. k \in Nat /\ n \in Nat /\ n > 0
      BY <1>1, <1>4
    <3> QED BY <3>1, AtReaches
  <2>4. j < h
    <3>1. h # j
      BY <1>2, <2>3
    <3> QED BY <1>2, <2>3, <3>1
  <2>5. t.keys[At(n, k, j)] \notin {Empty, k}
    BY <2>3, <2>4 DEF Probed, n
  <2> QED BY <1>2, <2>2, <2>5
<1>6. Probed(u)
  <2> SUFFICES ASSUME NEW l \in Keys, NEW h \in 0 .. n - 1, u.keys[At(n, l, h)] = l,
                      NEW i \in 0 .. h - 1
               PROVE  u.keys[At(n, l, i)] \notin {Empty, l}
    BY <1>1 DEF Probed
  <2>0. /\ i \in 0 .. n - 1 /\ i # h
        /\ At(n, l, i) \in 0 .. n - 1 /\ At(n, l, h) \in 0 .. n - 1
        /\ At(n, l, i) # At(n, l, h)
    <3>1. l \in Nat
      BY <1>4
    <3>2. i \in 0 .. n - 1 /\ i # h /\ i \in Nat /\ h \in Nat
      BY <1>1
    <3>3. At(n, l, i) \in 0 .. n - 1 /\ At(n, l, h) \in 0 .. n - 1
      BY <1>1, <3>1, <3>2, AtType
    <3> QED BY <1>1, <3>1, <3>2, <3>3, AtApart
  <2>1. CASE l = k
    <3>1. At(n, l, h) = s
      BY <1>3, <1>5, <2>0, <2>1
    <3>2. h = j
      BY <1>1, <1>2, <1>4, <2>1, <3>1, AtApart
    <3> QED BY <1>2, <1>3, <2>0, <2>1, <3>1, <3>2
  <2>2. CASE l # k
    <3>1. At(n, l, h) # s /\ t.keys[At(n, l, h)] = l
      BY <1>3, <2>0, <2>2
    <3>2. t.keys[At(n, l, i)] \notin {Empty, l}
      BY <3>1 DEF Probed, n
    <3> QED BY <1>3, <1>4, <2>0, <2>2, <3>2
  <2> QED BY <2>1, <2>2
<1>7. NoDeleted(t) => NoDeleted(u)
  BY <1>1, <1>3, <1>4 DEF NoDeleted, n
<1>8. Holds(u, k, v)
  BY <1>1, <1>3 DEF Holds
<1>9. ASSUME NEW l \in Keys, l # k
      PROVE  /\ \A w : Holds(u, l, w) <=> Holds(t, l, w)
             /\ Absent(t, l) <=> Absent(u, l)
  <2>1. \A i \in 0 .. n - 1 : u.keys[i] = l <=> t.keys[i] = l
    BY <1>3, <1>4, <1>9
  <2>2. \A i \in 0 .. n - 1 : u.keys[i] = l => u.values[i] = t.values[i]
    BY <1>3, <1>9
  <2> QED BY <1>1, <2>1, <2>2 DEF Holds, Absent, n
<1> QED BY <1>6, <1>7, <1>8, <1>9 DEF u

---------------------------------------------------------------------------
(* Growing. *)

(* The slots in use, by a key or as deleted. *)
Used(t) == {i \in 0 .. t.n - 1 : t.keys[i] # Empty}

(* Their number is a natural. *)
LEMMA UsedFinite ==
  ASSUME NEW t, t.n \in Nat
  PROVE  IsFiniteSet(Used(t)) /\ Cardinality(Used(t)) \in Nat
<1>1. IsFiniteSet(0 .. t.n - 1) /\ Used(t) \in SUBSET (0 .. t.n - 1)
  BY FS_Interval DEF Used
<1>2. IsFiniteSet(Used(t))
  BY <1>1, FS_Subset
<1> QED BY <1>2, FS_CardinalityType

(* An empty slot is a slot for any key. *)
LEMMA FitsIfFree ==
  ASSUME NEW t, TableType(t), t.n > 0, NEW k \in Keys, Cardinality(Used(t)) < t.n
  PROVE  Fits(t, k)
<1>1. t.n \in Nat /\ k \in Nat
  BY KeyAssumption DEF TableType
<1>2. PICK i \in 0 .. t.n - 1 : t.keys[i] = Empty
  <2> SUFFICES ASSUME \A i \in 0 .. t.n - 1 : t.keys[i] # Empty PROVE FALSE
    OBVIOUS
  <2>1. Used(t) = 0 .. t.n - 1
    BY DEF Used
  <2>2. Cardinality(0 .. t.n - 1) = t.n
    BY <1>1, FS_Interval
  <2> QED BY <1>1, <2>1, <2>2
<1>3. t.keys[Probe(t, k, {Empty, Deleted, k})] \in {Empty, Deleted, k}
  BY <1>1, <1>2, ProbeEnds
<1> QED BY <1>3 DEF Fits, InsertSlot

(* An add uses at most one more slot. *)
LEMMA StoreUsed ==
  ASSUME NEW t, TableType(t), t.n > 0, NEW k \in Keys, NEW v \in Values
  PROVE  Cardinality(Used(Store(t, k, v))) <= Cardinality(Used(t)) + 1
<1> DEFINE u == Store(t, k, v)
           s == InsertSlot(t, k)
           n == t.n
<1>1. /\ s \in 0 .. n - 1
      /\ u = [n |-> n, adds |-> t.adds + 1,
              keys |-> [t.keys EXCEPT ![s] = k], values |-> [t.values EXCEPT ![s] = v]]
  BY StoreWrites
<1>2. n \in Nat /\ DOMAIN t.keys = 0 .. n - 1
  BY DEF TableType, Tables
<1> HIDE DEF u, s, n
<1>3. u.n = n /\ \A i \in 0 .. n - 1 : i # s => u.keys[i] = t.keys[i]
  BY <1>1, <1>2
<1>4. Used(u) \subseteq Used(t) \union {s}
  BY <1>3 DEF Used, n
<1>5. IsFiniteSet(Used(t)) /\ Cardinality(Used(t)) \in Nat
  BY <1>2, UsedFinite DEF n
<1>6. /\ IsFiniteSet(Used(t) \union {s})
      /\ Cardinality(Used(t) \union {s}) \in Nat
      /\ Cardinality(Used(t) \union {s}) <= Cardinality(Used(t)) + 1
  <2>1. /\ IsFiniteSet(Used(t) \union {s})
        /\ Cardinality(Used(t) \union {s})
             = IF s \in Used(t) THEN Cardinality(Used(t)) ELSE Cardinality(Used(t)) + 1
    BY <1>5, FS_AddElement
  <2> QED BY <1>5, <2>1
<1>7. Cardinality(Used(u)) <= Cardinality(Used(t) \union {s}) /\ Cardinality(Used(u)) \in Nat
  BY <1>2, <1>3, <1>4, <1>6, FS_Subset, UsedFinite
<1> QED BY <1>5, <1>6, <1>7 DEF u

(* A new table holds nothing. *)
LEMMA NewTableFacts ==
  ASSUME NEW n \in Nat
  PROVE  /\ TableType(NewTable(n)) /\ NewTable(n).n = n /\ NewTable(n).adds = 0
         /\ Probed(NewTable(n)) /\ NoDeleted(NewTable(n))
         /\ Used(NewTable(n)) = {}
         /\ \A k \in Keys : Absent(NewTable(n), k) /\ \A v : ~ Holds(NewTable(n), k, v)
<1> DEFINE t == NewTable(n)
<1>1. t = [n |-> n, adds |-> 0,
           keys |-> [i \in 0 .. n - 1 |-> Empty], values |-> [i \in 0 .. n - 1 |-> 0]]
  BY DEF NewTable
<1> HIDE DEF t
<1>2. Empty \notin Keys /\ Empty # Deleted
  BY KeyAssumption DEF Empty, Deleted
<1>3. t.n = n /\ t.adds = 0 /\ \A i \in 0 .. n - 1 : t.keys[i] = Empty
  BY <1>1
<1>4. t \in Tables(n)
  BY <1>1 DEF Tables
<1>5. TableType(t) /\ NoDeleted(t) /\ Used(t) = {}
  BY <1>2, <1>3, <1>4 DEF TableType, NoDeleted, Used
<1>6. Probed(t)
  <2> SUFFICES ASSUME NEW k \in Keys, NEW j \in 0 .. n - 1, t.keys[At(n, k, j)] = k PROVE FALSE
    BY <1>3 DEF Probed
  <2>1. At(n, k, j) \in 0 .. n - 1
    BY AtType, KeyAssumption
  <2> QED BY <1>2, <1>3, <2>1
<1>7. \A k \in Keys : Absent(t, k) /\ \A v : ~ Holds(t, k, v)
  BY <1>2, <1>3 DEF Absent, Holds
<1> QED BY <1>3, <1>5, <1>6, <1>7 DEF t

(* The slots are moved one by one: the recursive function of MoveAll has a  *)
(* value for every slot.                                                    *)
LEMMA MoveAllSteps ==
  ASSUME NEW t, t.n \in Nat, NEW u
  PROVE  \E f : /\ f[0] = u
                /\ \A j \in 0 .. t.n - 1 : f[j + 1] = MoveSlot(t, j, f[j])
                /\ MoveAll(t, u) = f[t.n]
<1> DEFINE Moves(f, m) ==
             f = [j \in 0 .. m |-> IF j = 0 THEN u ELSE MoveSlot(t, j - 1, f[j - 1])]
           S == {m \in 0 .. t.n : \E f : Moves(f, m)}
<1>1. 0 \in S
  <2> DEFINE f == [j \in 0 .. 0 |-> u]
  <2>1. Moves(f, 0)
    OBVIOUS
  <2> HIDE DEF f, Moves
  <2> QED BY <2>1
<1>2. ASSUME NEW m \in 0 .. t.n - 1, m \in S PROVE m + 1 \in S
  <2>1. PICK f : Moves(f, m)
    BY <1>2
  <2> DEFINE g == [j \in 0 .. m + 1 |-> IF j = m + 1 THEN MoveSlot(t, m, f[m]) ELSE f[j]]
  <2>2. ASSUME NEW j \in 0 .. m + 1
        PROVE  g[j] = IF j = 0 THEN u ELSE MoveSlot(t, j - 1, g[j - 1])
    <3>1. CASE j = m + 1
      BY <3>1
    <3>2. CASE j # m + 1
      BY <2>1, <3>2
    <3> QED BY <3>1, <3>2
  <2>3. g = [j \in 0 .. m + 1 |-> g[j]]
    OBVIOUS
  <2> HIDE DEF g
  <2>4. Moves(g, m + 1)
    BY <2>2, <2>3
  <2> QED BY <2>4
<1>3. t.n \in S
  <2> HIDE DEF S
  <2>1. \A m \in 0 .. t.n : m \in S
    BY <1>1, <1>2, Induct
  <2> QED BY <2>1
<1> DEFINE f == CHOOSE f : Moves(f, t.n)
<1>4. Moves(f, t.n)
  <2>1. \E h : Moves(h, t.n)
    BY <1>3
  <2> HIDE DEF Moves
  <2> QED BY <2>1
<1>5. MoveAll(t, u) = f[t.n]
  BY DEF MoveAll
<1> HIDE DEF f
<1>6. /\ f[0] = u
      /\ \A j \in 0 .. t.n - 1 : f[j + 1] = MoveSlot(t, j, f[j])
  BY <1>4
<1> QED BY <1>5, <1>6

(* A key is held with a value in one of the first j slots of t. *)
HeldBefore(t, j, k, v) == \E i \in 0 .. j - 1 : t.keys[i] = k /\ t.values[i] = v

(* The larger table m, once the first j slots of t are moved. *)
Moved(t, m, j) ==
    /\ TableType(m) /\ m.n = 2 * t.n /\ Probed(m) /\ NoDeleted(m)
    /\ m.adds <= j /\ Cardinality(Used(m)) <= m.adds
    /\ \A k \in Keys : /\ \A v : Holds(m, k, v) <=> HeldBefore(t, j, k, v)
                       /\ Absent(m, k) <=> \A i \in 0 .. j - 1 : t.keys[i] # k

(* Moving one more slot. *)
LEMMA MovedStep ==
  ASSUME NEW t, TableType(t), Probed(t), NEW j \in 0 .. t.n - 1, NEW m, Moved(t, m, j)
  PROVE  Moved(t, MoveSlot(t, j, m), j + 1)
<1>1. /\ t.n \in Nat /\ j \in Nat /\ j < t.n
      /\ t.keys[j] \in Keys \union {Empty, Deleted}
      /\ t.keys[j] \in Keys => t.values[j] \in Values
  BY DEF TableType, Tables
<1>2. Empty \notin Keys /\ Deleted \notin Keys /\ Keys \subseteq Nat /\ ~ (Empty >= 0) /\ ~ (Deleted >= 0)
  BY KeyAssumption DEF Empty, Deleted
<1>3. /\ TableType(m) /\ m.n = 2 * t.n /\ m.n > 0 /\ Probed(m) /\ NoDeleted(m)
      /\ m.adds \in Nat /\ m.adds <= j /\ Cardinality(Used(m)) <= m.adds
      /\ Cardinality(Used(m)) \in Nat
  <2>1. m.n \in Nat /\ m.adds \in Nat
    BY DEF Moved, TableType, Tables
  <2> QED BY <1>1, <2>1, UsedFinite DEF Moved
<1>4. CASE t.keys[j] \notin Keys
  <2>1. MoveSlot(t, j, m) = m
    BY <1>1, <1>2, <1>4 DEF MoveSlot
  <2>2. \A k \in Keys : \A v : HeldBefore(t, j + 1, k, v) <=> HeldBefore(t, j, k, v)
    BY <1>1, <1>4 DEF HeldBefore
  <2>3. \A k \in Keys : (\A i \in 0 .. j : t.keys[i] # k) <=> (\A i \in 0 .. j - 1 : t.keys[i] # k)
    BY <1>1, <1>4
  <2> QED BY <1>1, <1>3, <2>1, <2>2, <2>3 DEF Moved
<1>5. CASE t.keys[j] \in Keys
  <2> DEFINE l == t.keys[j]
             w == t.values[j]
             u == Store(m, l, w)
  <2>1. MoveSlot(t, j, m) = u
    <3>1. t.keys[j] \in Nat
      BY <1>2, <1>5
    <3>2. t.keys[j] >= 0
      BY <3>1
    <3> QED BY <3>2 DEF MoveSlot
  <2>2. \A i \in 0 .. j - 1 : t.keys[i] # l
    <3> SUFFICES ASSUME NEW i \in 0 .. j - 1, t.keys[i] = t.keys[j] PROVE FALSE
      OBVIOUS
    <3>1. i \in 0 .. t.n - 1 /\ i # j
      BY <1>1
    <3> QED BY <1>1, <1>5, <3>1, StoredOnce
  <2>3. Absent(m, l)
    BY <1>5, <2>2 DEF Moved
  <2>4. l \in Keys /\ w \in Values
    BY <1>1, <1>5
  <2>5. Fits(m, l)
    <3>1. Cardinality(Used(m)) < m.n
      BY <1>1, <1>3
    <3> QED BY <1>3, <2>4, <3>1, FitsIfFree
  <2> HIDE DEF u, l, w
  <2>6. TableType(u) /\ u.n = m.n /\ u.adds = m.adds + 1
    BY <1>3, <2>4, StoreType DEF u
  <2>7. Cardinality(Used(u)) <= Cardinality(Used(m)) + 1 /\ Cardinality(Used(u)) \in Nat
    <3>1. u.n \in Nat
      BY <2>6 DEF TableType
    <3> QED BY <1>3, <2>4, <3>1, StoreUsed, UsedFinite DEF u
  <2>8. /\ Probed(u) /\ NoDeleted(u) /\ Holds(u, l, w)
        /\ \A k \in Keys : k # l => /\ \A v : Holds(u, k, v) <=> Holds(m, k, v)
                                    /\ Absent(m, k) <=> Absent(u, k)
    BY <1>3, <2>3, <2>4, <2>5, StoreHolds DEF u
  <2>9. ASSUME NEW k \in Keys
        PROVE  /\ \A v : Holds(u, k, v) <=> HeldBefore(t, j + 1, k, v)
               /\ Absent(u, k) <=> \A i \in 0 .. j : t.keys[i] # k
    <3>1. CASE k = l
      <4>1. ASSUME NEW v, Holds(u, l, v) PROVE v = w
        <5>1. u.n \in Nat
          BY <2>6 DEF TableType
        <5>2. HashLookup(u, l, None) = v /\ HashLookup(u, l, None) = w
          BY <2>4, <2>8, <4>1, <5>1, LookupHolds
        <5> QED BY <5>2
      <4>2. \A v : HeldBefore(t, j + 1, l, v) <=> v = w
        BY <1>1, <2>2 DEF HeldBefore, l, w
      <4>3. ~ Absent(u, l)
        BY <2>8 DEF Holds, Absent
      <4>4. t.keys[j] = l /\ j \in 0 .. j
        BY <1>1 DEF l
      <4> QED BY <2>8, <3>1, <4>1, <4>2, <4>3, <4>4
    <3>2. CASE k # l
      <4>1. \A v : HeldBefore(t, j + 1, k, v) <=> HeldBefore(t, j, k, v)
        BY <1>1, <3>2 DEF HeldBefore, l
      <4>2. (\A i \in 0 .. j : t.keys[i] # k) <=> (\A i \in 0 .. j - 1 : t.keys[i] # k)
        BY <1>1, <3>2 DEF l
      <4> QED BY <2>8, <3>2, <4>1, <4>2 DEF Moved
    <3> QED BY <3>1, <3>2
  <2>10. Moved(t, u, j + 1)
    BY <1>1, <1>3, <2>6, <2>7, <2>8, <2>9 DEF Moved
  <2> QED BY <2>1, <2>10
<1> QED BY <1>4, <1>5

(* A grown table holds what the smaller one held, and has room.             *)
LEMMA GrowMoved ==
  ASSUME NEW t, TableType(t), Probed(t)
  PROVE  Moved(t, Grow(t), t.n)
<1>1. t.n \in Nat
  BY DEF TableType
<1>2. PICK f : /\ f[0] = NewTable(2 * t.n)
               /\ \A j \in 0 .. t.n - 1 : f[j + 1] = MoveSlot(t, j, f[j])
               /\ MoveAll(t, NewTable(2 * t.n)) = f[t.n]
  BY <1>1, MoveAllSteps
<1> DEFINE S == {j \in 0 .. t.n : Moved(t, f[j], j)}
<1>3. 0 \in S
  <2> DEFINE u == NewTable(2 * t.n)
  <2>1. 2 * t.n \in Nat
    BY <1>1
  <2>2. /\ TableType(u) /\ u.n = 2 * t.n /\ u.adds = 0
        /\ Probed(u) /\ NoDeleted(u) /\ Used(u) = {}
        /\ \A k \in Keys : Absent(u, k) /\ \A v : ~ Holds(u, k, v)
    BY <2>1, NewTableFacts
  <2>3. Cardinality(Used(u)) = 0
    BY <2>2, FS_EmptySet
  <2>4. \A k, v : ~ HeldBefore(t, 0, k, v)
    BY DEF HeldBefore
  <2> HIDE DEF u
  <2>5. Moved(t, u, 0)
    BY <2>2, <2>3, <2>4 DEF Moved
  <2> QED BY <1>1, <1>2, <2>5 DEF u
<1>4. ASSUME NEW j \in 0 .. t.n - 1, j \in S PROVE j + 1 \in S
  <2>1. Moved(t, MoveSlot(t, j, f[j]), j + 1)
    BY <1>4, MovedStep
  <2> QED BY <1>1, <1>2, <2>1
<1>5. t.n \in S
  <2> HIDE DEF S
  <2>1. \A j \in 0 .. t.n : j \in S
    BY <1>1, <1>3, <1>4, Induct
  <2> QED BY <1>1, <2>1
<1> QED BY <1>2, <1>5 DEF Grow

(* It makes room for any key. *)
LEMMA GrowRoom ==
  ASSUME NEW t, TableType(t), Probed(t), t.n > 0
  PROVE  LET g == Grow(t)
         IN  /\ 10 * g.adds < 7 * g.n /\ g.n = 2 * t.n
             /\ \A k \in Keys : Fits(g, k) /\ ~ MustGrow(g, k)
<1> DEFINE g == Grow(t)
<1>1. Moved(t, g, t.n)
  BY GrowMoved
<1> HIDE DEF g
<1>2. /\ TableType(g) /\ t.n \in Nat /\ g.n = 2 * t.n /\ g.adds \in Nat /\ g.adds <= t.n
      /\ Cardinality(Used(g)) <= g.adds /\ Cardinality(Used(g)) \in Nat
  <2>1. TableType(g) /\ t.n \in Nat /\ g.n \in Nat /\ g.adds \in Nat
    BY <1>1 DEF Moved, TableType, Tables
  <2> QED BY <1>1, <2>1, UsedFinite DEF Moved
<1>3. \A k \in Keys : Fits(g, k)
  <2>1. Cardinality(Used(g)) < g.n /\ g.n > 0
    BY <1>2
  <2> QED BY <1>2, <2>1, FitsIfFree
<1>4. 10 * g.adds < 7 * g.n
  BY <1>2
<1>5. \A k \in Keys : ~ MustGrow(g, k)
  BY <1>2, <1>3, <1>4 DEF MustGrow, Fits
<1> QED BY <1>2, <1>3, <1>4, <1>5 DEF g

---------------------------------------------------------------------------
(* The calls. *)

(* u holds for l what t holds for it. *)
SameFor(t, u, l) == /\ \A w : Holds(u, l, w) <=> Holds(t, l, w)
                    /\ Absent(t, l) <=> Absent(u, l)

(* Then lookups of l return the same. *)
LEMMA SameLookup ==
  ASSUME NEW t, NEW u, t.n \in Nat, u.n \in Nat, Probed(t), Probed(u),
         NEW l \in Keys, SameFor(t, u, l)
  PROVE  HashLookup(u, l, None) = HashLookup(t, l, None)
<1>1. CASE Absent(t, l)
  <2>1. Absent(u, l)
    BY <1>1 DEF SameFor
  <2> QED BY <1>1, <2>1, LookupAbsent
<1>2. CASE ~ Absent(t, l)
  <2>1. PICK w : Holds(t, l, w)
    BY <1>2 DEF Absent, Holds
  <2>2. Holds(u, l, w)
    BY <2>1 DEF SameFor
  <2> QED BY <2>1, <2>2, LookupHolds
<1> QED BY <1>1, <1>2

(* The first add allocates the table: it still holds nothing. *)
LEMMA AllocatedFacts ==
  ASSUME NEW t, TableType(t), Probed(t)
  PROVE  LET a == Allocated(t)
         IN  /\ TableType(a) /\ a.n > 0 /\ Probed(a)
             /\ NoDeleted(t) => NoDeleted(a)
             /\ \A l \in Keys : SameFor(t, a, l)
<1>1. t.n \in Nat
  BY DEF TableType
<1>2. CASE t.n = 0
  <2>1. Allocated(t) = NewTable(InitialSize) /\ InitialSize \in Nat /\ InitialSize > 0
    BY <1>2, SizeAssumption DEF Allocated
  <2>2. \A l \in Keys : Absent(t, l) /\ \A w : ~ Holds(t, l, w)
    BY <1>2 DEF Absent, Holds
  <2> QED BY <2>1, <2>2, NewTableFacts DEF SameFor
<1>3. CASE t.n # 0
  <2>1. Allocated(t) = t /\ t.n > 0
    BY <1>1, <1>3 DEF Allocated
  <2> QED BY <2>1 DEF SameFor
<1> QED BY <1>2, <1>3

(* An add grows the table when it must, and then has a slot for the key.    *)
LEMMA GrownFacts ==
  ASSUME NEW t, TableType(t), t.n > 0, Probed(t), NEW k \in Keys
  PROVE  LET g == Grown(t, k)
         IN  /\ TableType(g) /\ g.n > 0 /\ Probed(g) /\ Fits(g, k)
             /\ NoDeleted(t) => NoDeleted(g)
             /\ \A l \in Keys : SameFor(t, g, l)
<1>0. t.n \in Nat
  BY DEF TableType
<1>1. CASE ~ MustGrow(t, k)
  <2>1. Grown(t, k) = t /\ Fits(t, k)
    BY <1>1 DEF Grown, MustGrow, Fits
  <2> QED BY <2>1 DEF SameFor
<1>2. CASE MustGrow(t, k)
  <2> DEFINE g == Grow(t)
  <2>1. Grown(t, k) = g
    BY <1>2 DEF Grown
  <2>2. Moved(t, g, t.n)
    BY GrowMoved
  <2>3. Fits(g, k)
    BY GrowRoom
  <2> HIDE DEF g
  <2>4. TableType(g) /\ g.n > 0 /\ Probed(g) /\ NoDeleted(g)
    BY <1>0, <2>2 DEF Moved
  <2>5. \A l \in Keys : SameFor(t, g, l)
    BY <2>2 DEF Moved, SameFor, HeldBefore, Holds, Absent
  <2> QED BY <2>1, <2>3, <2>4, <2>5
<1> QED BY <1>1, <1>2

(* Adding an absent key, or any key to a table without deleted slots, is    *)
(* that change of the dictionary.                                           *)
LEMMA AddFacts ==
  ASSUME NEW t, TableType(t), Probed(t), NEW k \in Keys, NEW v \in Values,
         NoDeleted(t) \/ ~ HashContain(t, k)
  PROVE  LET u == HashAdd(t, k, v)
         IN  /\ TableType(u) /\ Probed(u)
             /\ NoDeleted(t) => NoDeleted(u)
             /\ Holds(u, k, v)
             /\ \A l \in Keys : l # k => SameFor(t, u, l)
<1> DEFINE a == Allocated(t)
           g == Grown(a, k)
           u == Store(g, k, v)
<1>1. /\ TableType(a) /\ a.n > 0 /\ Probed(a)
      /\ NoDeleted(t) => NoDeleted(a)
      /\ \A l \in Keys : SameFor(t, a, l)
  BY AllocatedFacts
<1>2. HashAdd(t, k, v) = u
  BY DEF HashAdd
<1> HIDE DEF a
<1>3. /\ TableType(g) /\ g.n > 0 /\ Probed(g) /\ Fits(g, k)
      /\ NoDeleted(a) => NoDeleted(g)
      /\ \A l \in Keys : SameFor(a, g, l)
  BY <1>1, GrownFacts
<1> HIDE DEF g
<1>4. NoDeleted(g) \/ Absent(g, k)
  <2>1. CASE NoDeleted(t)
    BY <1>1, <1>3, <2>1
  <2>2. CASE ~ HashContain(t, k)
    <3>1. Absent(t, k)
      BY <2>2, NotContained DEF TableType
    <3> QED BY <1>1, <1>3, <3>1 DEF SameFor
  <2> QED BY <2>1, <2>2
<1>5. TableType(u)
  BY <1>3, StoreType
<1>6. /\ Probed(u)
      /\ NoDeleted(g) => NoDeleted(u)
      /\ Holds(u, k, v)
      /\ \A l \in Keys : l # k => SameFor(g, u, l)
  BY <1>3, <1>4, StoreHolds DEF SameFor
<1> HIDE DEF u
<1>7. \A l \in Keys : l # k => SameFor(t, u, l)
  BY <1>1, <1>3, <1>6 DEF SameFor
<1> QED BY <1>1, <1>2, <1>3, <1>5, <1>6, <1>7

(* A remove marks the slot of the key as deleted, and touches no other. *)
LEMMA RemoveFacts ==
  ASSUME NEW t, TableType(t), Probed(t), NEW k \in Keys
  PROVE  LET u == HashRemove(t, k)
         IN  /\ TableType(u) /\ Probed(u)
             /\ Absent(u, k)
             /\ \A l \in Keys : l # k => SameFor(t, u, l)
<1>1. CASE ~ HashContain(t, k)
  <2>1. HashRemove(t, k) = t
    BY <1>1 DEF HashRemove
  <2>2. Absent(t, k)
    BY <1>1, NotContained DEF TableType
  <2> QED BY <2>1, <2>2 DEF SameFor
<1>2. CASE HashContain(t, k)
  <2> DEFINE n == t.n
             s == LookupSlot(t, k)
             u == [t EXCEPT !.keys[s] = Deleted, !.values[s] = 0]
  <2>1. HashRemove(t, k) = u
    BY <1>2 DEF HashRemove
  <2>2. n \in Nat /\ n > 0 /\ t.keys[s] = k /\ t \in Tables(n)
        /\ \A i \in 0 .. n - 1 : t.keys[i] \in Keys => t.values[i] \in Values
    BY <1>2 DEF HashContain, TableType
  <2>3. s \in 0 .. n - 1
    BY <2>2, ProbeType, KeyAssumption DEF LookupSlot
  <2>4. \A i \in 0 .. n - 1 : i # s => t.keys[i] # k
    BY <2>2, <2>3, StoredOnce
  <2> HIDE DEF s
  <2>5. u = [n |-> n, adds |-> t.adds, keys |-> [t.keys EXCEPT ![s] = Deleted],
             values |-> [t.values EXCEPT ![s] = 0]]
    <3>1. t \in Tables(t.n)
      BY <2>2
    <3>2. PICK m, a, ks, vs : t = [n |-> m, adds |-> a, keys |-> ks, values |-> vs]
      BY <3>1 DEF Tables
    <3> DEFINE w == [t EXCEPT !.keys[s] = Deleted]
               hs == [ks EXCEPT ![s] = Deleted]
    <3>3. t.keys = ks /\ t.values = vs /\ t.n = m /\ t.adds = a
      BY <3>2
    <3>4. w = [t EXCEPT !.keys = hs]
      BY <3>3
    <3>5. u = [w EXCEPT !.values[s] = 0]
      OBVIOUS
    <3> HIDE DEF w, hs, u
    <3>6. w = [n |-> m, adds |-> a, keys |-> hs, values |-> vs]
      BY <3>2, <3>4
    <3>7. u = [n |-> m, adds |-> a, keys |-> hs, values |-> [vs EXCEPT ![s] = 0]]
      BY <3>5, <3>6
    <3> QED BY <3>3, <3>7 DEF hs
  <2> HIDE DEF u, n
  <2>6. Empty \notin Keys /\ Deleted \notin Keys /\ Empty # Deleted
    BY KeyAssumption DEF Empty, Deleted
  <2>7. /\ u.n = n /\ u.keys[s] = Deleted
        /\ \A i \in 0 .. n - 1 : i # s => u.keys[i] = t.keys[i] /\ u.values[i] = t.values[i]
    BY <2>2, <2>3, <2>5 DEF Tables
  <2>8. u \in Tables(n)
    BY <2>2, <2>3, <2>5 DEF Tables
  <2>9. TableType(u)
    BY <2>2, <2>6, <2>7, <2>8 DEF TableType
  <2>10. Absent(u, k)
    BY <2>4, <2>6, <2>7 DEF Absent
  <2>11. ASSUME NEW l \in Keys, l # k PROVE SameFor(t, u, l)
    <3>1. \A i \in 0 .. n - 1 : u.keys[i] = l <=> t.keys[i] = l
      BY <2>2, <2>6, <2>7, <2>11
    <3>2. \A i \in 0 .. n - 1 : u.keys[i] = l => u.values[i] = t.values[i]
      BY <2>6, <2>7, <2>11
    <3> QED BY <2>7, <3>1, <3>2 DEF SameFor, Holds, Absent, n
  <2>12. Probed(u)
    <3> SUFFICES ASSUME NEW l \in Keys, NEW h \in 0 .. n - 1, u.keys[At(n, l, h)] = l,
                        NEW i \in 0 .. h - 1
                 PROVE  u.keys[At(n, l, i)] \notin {Empty, l}
      BY <2>7 DEF Probed
    <3>1. l \in Nat /\ i \in Nat /\ h \in Nat
      BY <2>2, KeyAssumption
    <3>2. At(n, l, i) \in 0 .. n - 1 /\ At(n, l, h) \in 0 .. n - 1
      BY <2>2, <3>1, AtType
    <3>3. t.keys[At(n, l, h)] = l
      BY <2>6, <2>7, <3>2
    <3>4. t.keys[At(n, l, i)] \notin {Empty, l}
      BY <3>3 DEF Probed, n
    <3> QED BY <2>6, <2>7, <3>2, <3>4
  <2> QED BY <2>1, <2>9, <2>10, <2>11, <2>12
<1> QED BY <1>1, <1>2

(* A clone holds the same. *)
LEMMA CloneFacts ==
  ASSUME NEW t, TableType(t), Probed(t)
  PROVE  LET u == HashClone(t)
         IN  /\ TableType(u) /\ Probed(u)
             /\ NoDeleted(t) => NoDeleted(u)
             /\ \A l \in Keys : SameFor(t, u, l)
<1> DEFINE u == HashClone(t)
<1>1. t \in Tables(t.n)
  BY DEF TableType
<1>2. u = [n |-> t.n, adds |-> 0, keys |-> t.keys, values |-> t.values]
  BY <1>1 DEF HashClone, Tables
<1> HIDE DEF u
<1>3. u.n = t.n /\ u.keys = t.keys /\ u.values = t.values
  BY <1>2
<1>4. u \in Tables(t.n)
  BY <1>1, <1>2 DEF Tables
<1>5. TableType(u)
  BY <1>3, <1>4 DEF TableType
<1>6. Probed(u) /\ (NoDeleted(t) => NoDeleted(u)) /\ \A l \in Keys : SameFor(t, u, l)
  BY <1>3 DEF Probed, NoDeleted, SameFor, Holds, Absent
<1> QED BY <1>5, <1>6 DEF u

---------------------------------------------------------------------------
(* The invariant of a table used in one of the two clean ways. *)

Calls == {"none", "add", "remove", "clean", "clone"}
             \X (Keys \union {None}) \X (Values \union {None})

(* A table that is only updated has no deleted slots. *)
TableInv ==
    /\ TableType(table) /\ Probed(table)
    /\ use = "update" => NoDeleted(table)
    /\ use \in Uses /\ last \in Calls

(* The ways of use this proof is about: the third one is the finding of the *)
(* run hash_remove.                                                         *)
CleanUses == Uses \subseteq {"update", "remove"}

(* A zeroed ce_hash_t is such a table. *)
LEMMA InitInv == Init => TableInv
  BY NewTableFacts DEF Init, TableInv, Calls

(* What an add does, in both uses. *)
LEMMA AddKeyFacts ==
  ASSUME CleanUses, TableInv, NEW k \in Keys, NEW v \in Values, AddKey(k, v)
  PROVE  /\ TableType(table') /\ Probed(table')
         /\ NoDeleted(table) => NoDeleted(table')
         /\ Holds(table', k, v)
         /\ \A l \in Keys : l # k => SameFor(table, table', l)
<1>1. NoDeleted(table) \/ ~ HashContain(table, k)
  BY DEF CleanUses, TableInv, AddKey
<1>2. table' = HashAdd(table, k, v)
  BY DEF AddKey
<1>3. TableType(table) /\ Probed(table)
  BY DEF TableInv
<1> QED BY <1>1, <1>2, <1>3, AddFacts

(* Every call keeps the invariant. *)
LEMMA NextInv == CleanUses /\ TableInv /\ [Next]_vars => TableInv'
<1> SUFFICES ASSUME CleanUses, TableInv, [Next]_vars PROVE TableInv'
  OBVIOUS
<1>0. TableType(table) /\ Probed(table) /\ table.n \in Nat
  BY DEF TableInv, TableType
<1>1. ASSUME NEW k \in Keys, NEW v \in Values, AddKey(k, v) PROVE TableInv'
  <2>1. TableType(table') /\ Probed(table') /\ (NoDeleted(table) => NoDeleted(table'))
    BY <1>1, AddKeyFacts
  <2>2. use' = use /\ last' = <<"add", k, v>>
    BY <1>1 DEF AddKey
  <2> QED BY <2>1, <2>2 DEF TableInv, Calls
<1>2. ASSUME NEW k \in Keys, RemoveKey(k) PROVE TableInv'
  <2>1. table' = HashRemove(table, k) /\ use' = use /\ use # "update" /\ last' = <<"remove", k, None>>
    BY <1>2 DEF RemoveKey
  <2>2. TableType(table') /\ Probed(table')
    BY <1>0, <2>1, RemoveFacts
  <2> QED BY <2>1, <2>2 DEF TableInv, Calls
<1>3. CASE CleanTable
  <2>1. table' = NewTable(0) /\ use' = use /\ last' = <<"clean", None, None>>
    BY <1>3 DEF CleanTable, HashClean
  <2>2. TableType(table') /\ Probed(table') /\ NoDeleted(table')
    BY <2>1, NewTableFacts
  <2> QED BY <2>1, <2>2 DEF TableInv, Calls
<1>4. CASE CloneTable
  <2>1. table' = HashClone(table) /\ use' = use /\ last' = <<"clone", None, None>>
    BY <1>4 DEF CloneTable
  <2>2. TableType(table') /\ Probed(table') /\ (NoDeleted(table) => NoDeleted(table'))
    BY <1>0, <2>1, CloneFacts
  <2> QED BY <2>1, <2>2 DEF TableInv, Calls
<1>5. CASE UNCHANGED vars
  BY <1>5 DEF vars, TableInv
<1> QED BY <1>1, <1>2, <1>3, <1>4, <1>5 DEF Next

(* So it always holds. *)
LEMMA TableInvariant == ASSUME CleanUses PROVE Spec => []TableInv
<1>1. TableInv /\ [Next]_vars => TableInv'
  BY NextInv
<1> QED BY <1>1, InitInv, PTL DEF Spec

---------------------------------------------------------------------------
(* The theorems: for every size, every set of keys and values, and however  *)
(* large the table may grow.                                                *)

(* Type correctness: slots, keys and values of a table in use are always    *)
(* what ce_hash_add and ce_hash_remove write.                               *)
THEOREM TypeSafe == ASSUME CleanUses PROVE Spec => []TypeOK
<1>1. TableInv => TypeOK
  BY DEF TableInv, TableType, Tables, TypeOK, Calls
<1> QED BY <1>1, TableInvariant, PTL

(* Every stored key is found in the slot that holds it: no removed key, no  *)
(* collision and no growth cuts a probe short or leaves a second copy.      *)
THEOREM ProbesAlwaysReach == ASSUME CleanUses PROVE Spec => []ProbesReach
<1>1. TableInv => ProbesReach
  BY LookupStored DEF TableInv, TableType, ProbesReach
<1> QED BY <1>1, TableInvariant, PTL

(* Growing once makes room: the loop of ce_hash_add ends and its recursion  *)
(* is one level deep, for any table and key.                                *)
THEOREM GrowthAlwaysSettles == ASSUME CleanUses PROVE Spec => []GrowthSettles
<1>1. TableInv => GrowthSettles
  BY GrowRoom DEF TableInv, GrowthSettles
<1> QED BY <1>1, TableInvariant, PTL

(* Each call is, in what lookups return, the dictionary's call of that      *)
(* name.                                                                    *)
LEMMA DictStep == CleanUses /\ TableInv /\ TableInv' /\ [Next]_vars => [Dict!Next]_(Dict!vars)
<1> SUFFICES ASSUME CleanUses, TableInv, TableInv', [Next]_vars PROVE [Dict!Next]_(Dict!vars)
  OBVIOUS
<1> DEFINE d == [l \in Keys |-> HashLookup(table, l, None)]
           e == [l \in Keys |-> HashLookup(table', l, None)]
<1>0. /\ TableType(table) /\ Probed(table) /\ table.n \in Nat
      /\ TableType(table') /\ Probed(table') /\ table'.n \in Nat
  BY DEF TableInv, TableType
<1>1. ASSUME NEW k \in Keys, NEW v \in Values, AddKey(k, v) PROVE Dict!Add(k, v)
  <2>1. Holds(table', k, v) /\ \A l \in Keys : l # k => SameFor(table, table', l)
    BY <1>1, AddKeyFacts
  <2>2. HashLookup(table', k, None) = v
    BY <1>0, <2>1, LookupHolds
  <2>3. \A l \in Keys : l # k => HashLookup(table', l, None) = HashLookup(table, l, None)
    BY <1>0, <2>1, SameLookup
  <2>4. e = [d EXCEPT ![k] = v]
    BY <2>2, <2>3
  <2>5. last' = <<"add", k, v>>
    BY <1>1 DEF AddKey
  <2> QED BY <2>4, <2>5 DEF Dict!Add
<1>2. ASSUME NEW k \in Keys, RemoveKey(k) PROVE Dict!Remove(k)
  <2>0. table' = HashRemove(table, k) /\ last' = <<"remove", k, None>>
    BY <1>2 DEF RemoveKey
  <2>1. Absent(table', k) /\ \A l \in Keys : l # k => SameFor(table, table', l)
    BY <1>0, <2>0, RemoveFacts
  <2>2. HashLookup(table', k, None) = None
    BY <1>0, <2>1, LookupAbsent
  <2>3. \A l \in Keys : l # k => HashLookup(table', l, None) = HashLookup(table, l, None)
    BY <1>0, <2>1, SameLookup
  <2>4. e = [d EXCEPT ![k] = None]
    BY <2>2, <2>3
  <2> QED BY <2>0, <2>4 DEF Dict!Remove
<1>3. CASE CleanTable
  <2>1. table' = NewTable(0) /\ last' = <<"clean", None, None>>
    BY <1>3 DEF CleanTable, HashClean
  <2>2. \A l \in Keys : HashLookup(table', l, None) = None
    BY <1>0, <2>1, NewTableFacts, LookupAbsent
  <2>3. e = [l \in Keys |-> None]
    BY <2>2
  <2>4. Dict!Clean
    BY <2>1, <2>3 DEF Dict!Clean
  <2> QED BY <2>4 DEF Dict!Next
<1>4. CASE CloneTable
  <2>1. table' = HashClone(table) /\ last' = <<"clone", None, None>>
    BY <1>4 DEF CloneTable
  <2>2. \A l \in Keys : SameFor(table, table', l)
    BY <1>0, <2>1, CloneFacts
  <2>3. \A l \in Keys : HashLookup(table', l, None) = HashLookup(table, l, None)
    BY <1>0, <2>2, SameLookup
  <2>4. e = d
    BY <2>3
  <2>5. Dict!Clone
    BY <2>1, <2>4 DEF Dict!Clone
  <2> QED BY <2>5 DEF Dict!Next
<1>5. CASE UNCHANGED vars
  BY <1>5 DEF vars, Dict!vars
<1> QED BY <1>1, <1>2, <1>3, <1>4, <1>5 DEF Next, Dict!Next

(* A table that holds nothing is the empty dictionary. *)
LEMMA DictInit == Init => Dict!Init
<1> SUFFICES ASSUME Init PROVE Dict!Init
  OBVIOUS
<1>1. table = NewTable(0) /\ last = <<"none", None, None>>
  BY DEF Init
<1>2. \A l \in Keys : HashLookup(table, l, None) = None
  <2>1. table.n \in Nat /\ \A l \in Keys : Absent(table, l)
    BY <1>1, NewTableFacts
  <2> QED BY <2>1, LookupAbsent
<1> QED BY <1>1, <1>2 DEF Dict!Init

(* A table that is only updated, and one that is removed from and to which  *)
(* only absent keys are added, are dictionaries: linear probing, deleted    *)
(* slots, growth and the stale load factor of a clone do not show.          *)
THEOREM TableIsDictionary == ASSUME CleanUses PROVE Spec => ImplementsDictionary
<1>1. TableInv /\ TableInv' /\ [Next]_vars => [Dict!Next]_(Dict!vars)
  BY DictStep
<1>2. Spec => []TableInv
  BY TableInvariant
<1>3. Spec => Dict!Spec
  BY <1>1, <1>2, DictInit, PTL DEF Spec, Dict!Spec
<1> QED BY <1>3 DEF ImplementsDictionary

=============================================================================
