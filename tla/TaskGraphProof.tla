---------------------------- MODULE TaskGraphProof ---------------------------
(***************************************************************************)
(* What the graph of TaskGraph is built to, for any names and lists: every *)
(* name once, each before those it is listed to come before, unless the    *)
(* lists go round in a circle.                                             *)
(***************************************************************************)
EXTENDS TaskGraph, SequenceTheorems, FiniteSetTheorems, TLAPS

---------------------------------------------------------------------------
(* Induction, from the well-foundedness of the finite subsets of Nat. *)

(* A set of naturals has a least element. *)
LEMMA Least ==
  ASSUME NEW S \in SUBSET Nat, S # {}
  PROVE  \E m \in S : \A k \in S : m <= k
<1> DEFINE R == StrictSubsetOrdering(Nat)
           T == {0 .. k : k \in S}
<1>1. T \subseteq FiniteSubsetsOf(Nat)
  <2> SUFFICES ASSUME NEW k \in S PROVE 0 .. k \in FiniteSubsetsOf(Nat)
    OBVIOUS
  <2>1. IsFiniteSet(0 .. k)
    BY FS_Interval
  <2> QED BY <2>1 DEF FiniteSubsetsOf
<1>2. \A j, k \in S : j < k => <<0 .. j, 0 .. k>> \in R
  BY DEF StrictSubsetOrdering
<1>3. T # {}
  OBVIOUS
<1>4. IsWellFoundedOn(R, FiniteSubsetsOf(Nat))
  BY FS_StrictSubsetOrderingWellFounded
<1> HIDE DEF R
<1>5. PICK x \in T : \A y \in T : ~ (<<y, x>> \in R)
  <2> HIDE DEF T
  <2> QED BY <1>1, <1>3, <1>4, WFMin
<1>6. PICK m \in S : x = 0 .. m
  OBVIOUS
<1>7. \A k \in S : ~ (k < m)
  BY <1>2, <1>5, <1>6
<1> QED BY <1>7

(* A set that holds 0, and k + 1 with k, holds every number up to n. *)
LEMMA Induct ==
  ASSUME NEW n \in Nat, NEW S, 0 \in S, \A k \in 0 .. n - 1 : k \in S => k + 1 \in S
  PROVE  \A k \in 0 .. n : k \in S
<1> SUFFICES ASSUME NEW j \in 0 .. n, j \notin S PROVE FALSE
  OBVIOUS
<1> DEFINE T == {k \in 0 .. n : k \notin S}
<1>0. T \in SUBSET Nat /\ T # {}
  OBVIOUS
<1>1. PICK m \in T : \A k \in T : m <= k
  <2> HIDE DEF T
  <2> QED BY <1>0, Least
<1>2. m # 0 /\ m - 1 \in 0 .. n - 1 /\ m - 1 \notin T
  BY <1>1
<1>3. (m - 1) + 1 \in S
  BY <1>2
<1> QED BY <1>1, <1>3

IsStep(step, n, S) == step \in [(1 .. n) \X S -> S]

Follows(f, n, S, a, step) ==
    f \in [0 .. n -> S] /\ f[0] = a /\ \A i \in 1 .. n : f[i] = step[<<i, f[i - 1]>>]

(* A function defined by recursion over 0 .. n exists. *)
LEMMA Recursion ==
  ASSUME NEW n \in Nat, NEW S, NEW a \in S, NEW step, IsStep(step, n, S)
  PROVE  \E f : Follows(f, n, S, a, step)
<1>0. step \in [(1 .. n) \X S -> S]
  BY DEF IsStep
<1> DEFINE Steps(f, m) ==
             /\ f \in [0 .. m -> S]
             /\ f = [i \in 0 .. m |-> IF i = 0 THEN a ELSE step[<<i, f[i - 1]>>]]
           T == {m \in 0 .. n : \E f : Steps(f, m)}
<1>1. 0 \in T
  <2> DEFINE f == [i \in 0 .. 0 |-> a]
  <2>1. Steps(f, 0)
    OBVIOUS
  <2> HIDE DEF f, Steps
  <2> QED BY <2>1
<1>2. ASSUME NEW m \in 0 .. n - 1, m \in T PROVE m + 1 \in T
  <2>1. PICK f : Steps(f, m)
    BY <1>2
  <2> DEFINE g == [i \in 0 .. m + 1 |-> IF i = m + 1 THEN step[<<m + 1, f[m]>>] ELSE f[i]]
  <2>2. step[<<m + 1, f[m]>>] \in S
    BY <1>0, <2>1
  <2>3. g \in [0 .. m + 1 -> S]
    BY <2>1, <2>2
  <2>4. ASSUME NEW i \in 0 .. m + 1
        PROVE  g[i] = IF i = 0 THEN a ELSE step[<<i, g[i - 1]>>]
    <3>1. CASE i = m + 1
      <4>1. m \in 0 .. m + 1 /\ m # m + 1
        OBVIOUS
      <4>2. g[m] = f[m] /\ g[m + 1] = step[<<m + 1, f[m]>>]
        BY <4>1
      <4>3. i - 1 = m /\ i # 0
        BY <3>1
      <4> HIDE DEF g
      <4> QED BY <3>1, <4>2, <4>3
    <3>2. CASE i # m + 1
      BY <2>1, <3>2
    <3> QED BY <3>1, <3>2
  <2>5. g = [i \in 0 .. m + 1 |-> g[i]]
    OBVIOUS
  <2> HIDE DEF g
  <2>6. Steps(g, m + 1)
    BY <2>3, <2>4, <2>5
  <2> HIDE DEF Steps
  <2> QED BY <2>6
<1>3. n \in T
  <2> HIDE DEF T
  <2>1. \A m \in 0 .. n : m \in T
    BY <1>1, <1>2, Induct
  <2> QED BY <2>1
<1>4. PICK f : Steps(f, n)
  BY <1>3
<1>5. f[0] = a /\ \A i \in 1 .. n : f[i] = step[<<i, f[i - 1]>>]
  BY <1>4
<1> QED BY <1>4, <1>5 DEF Follows

---------------------------------------------------------------------------
(* How often a name is in a list. *)

Listed(s) == {s[i] : i \in 1 .. Len(s)}
Once(s) == \A i, j \in 1 .. Len(s) : s[i] = s[j] => i = j
Spots(s, a) == {i \in 1 .. Len(s) : s[i] = a}
Count(s, a) == Cardinality(Spots(s, a))

(* A count is a number, 0 for a name that is not in the list. *)
LEMMA CountType ==
  ASSUME NEW S, NEW s \in Seq(S), NEW a
  PROVE  /\ IsFiniteSet(Spots(s, a)) /\ Count(s, a) \in Nat
         /\ Count(s, a) = 0 <=> a \notin Listed(s)
<1>1. IsFiniteSet(1 .. Len(s)) /\ Spots(s, a) \in SUBSET (1 .. Len(s))
  BY FS_Interval DEF Spots
<1>2. IsFiniteSet(Spots(s, a))
  BY <1>1, FS_Subset
<1>3. Count(s, a) = 0 <=> Spots(s, a) = {}
  BY <1>2, FS_EmptySet DEF Count
<1>4. Spots(s, a) = {} <=> a \notin Listed(s)
  BY DEF Spots, Listed
<1> QED BY <1>2, <1>3, <1>4, FS_CardinalityType DEF Count

(* The empty list is the one without names. *)
LEMMA NothingListed ==
  ASSUME NEW S, NEW s \in Seq(S)
  PROVE  s = << >> <=> Listed(s) = {}
<1>1. Len(s) \in Nat /\ (s = << >> <=> Len(s) = 0)
  BY EmptySeq
<1>2. Listed(s) = {} <=> Len(s) = 0
  <2>1. ASSUME Len(s) # 0 PROVE s[1] \in Listed(s)
    BY <1>1, <2>1 DEF Listed
  <2> QED BY <2>1 DEF Listed
<1> QED BY <1>1, <1>2

(* A name that is appended. *)
LEMMA AppendFacts ==
  ASSUME NEW S, NEW s \in Seq(S), NEW e \in S
  PROVE  /\ Append(s, e) \in Seq(S) /\ Append(s, e) # << >>
         /\ Listed(Append(s, e)) = Listed(s) \union {e}
         /\ Once(s) /\ e \notin Listed(s) => Once(Append(s, e))
         /\ \A a : Count(Append(s, e), a) = IF a = e THEN Count(s, a) + 1 ELSE Count(s, a)
<1> DEFINE r == Append(s, e)
<1>1. /\ r \in Seq(S) /\ Len(s) \in Nat /\ Len(r) = Len(s) + 1
      /\ r[Len(s) + 1] = e
      /\ \A i \in 1 .. Len(s) : r[i] = s[i]
  OBVIOUS
<1> HIDE DEF r
<1>2. r # << >>
  BY <1>1
<1>3. Listed(r) = Listed(s) \union {e}
  <2>1. e \in Listed(r)
    BY <1>1 DEF Listed
  <2>2. Listed(s) \subseteq Listed(r)
    BY <1>1 DEF Listed
  <2>3. Listed(r) \subseteq Listed(s) \union {e}
    BY <1>1 DEF Listed
  <2> QED BY <2>1, <2>2, <2>3
<1>4. Once(s) /\ e \notin Listed(s) => Once(r)
  BY <1>1 DEF Once, Listed
<1>5. ASSUME NEW a PROVE Count(r, a) = IF a = e THEN Count(s, a) + 1 ELSE Count(s, a)
  <2>1. Spots(r, a) = IF a = e THEN Spots(s, a) \union {Len(s) + 1} ELSE Spots(s, a)
    BY <1>1 DEF Spots
  <2>2. Len(s) + 1 \notin Spots(s, a)
    BY <1>1 DEF Spots
  <2> QED BY <2>1, <2>2, CountType, FS_AddElement DEF Count
<1> QED BY <1>1, <1>2, <1>3, <1>4, <1>5 DEF r

(* A name that is taken out once. *)
LEMMA RemoveFacts ==
  ASSUME NEW S, NEW s \in Seq(S), NEW e \in Listed(s)
  PROVE  /\ RemoveFirst(s, e) \in Seq(S)
         /\ \A a : Count(RemoveFirst(s, e), a) = IF a = e THEN Count(s, a) - 1 ELSE Count(s, a)
<1> DEFINE I == {i \in 1 .. Len(s) : s[i] = e}
           m == Min(I)
           n == Len(s)
           r == SubSeq(s, 1, m - 1) \o SubSeq(s, m + 1, n)
<1>1. I \in SUBSET Nat /\ I # {} /\ n \in Nat
  BY DEF Listed
<1>2. m \in I
  <2> HIDE DEF I
  <2>1. \E i \in I : \A j \in I : i <= j
    BY <1>1, Least
  <2> QED BY <2>1 DEF Min
<1>3. RemoveFirst(s, e) = r
  <2>1. \E i \in 1 .. Len(s) : s[i] = e
    BY DEF Listed
  <2>2. SelectInSeq(s, LAMBDA v : v = e) = m
    BY <1>1 DEF SelectInSeq
  <2> HIDE DEF m
  <2> QED BY <2>1, <2>2 DEF RemoveFirst, RemoveAt
<1> HIDE DEF m
<1>4. m \in 1 .. n /\ s[m] = e
  BY <1>2
<1>5. /\ r \in Seq(S) /\ Len(r) = n - 1
      /\ \A i \in 1 .. n - 1 : r[i] = IF i < m THEN s[i] ELSE s[i + 1]
  <2>1. /\ SubSeq(s, 1, m - 1) \in Seq(S) /\ Len(SubSeq(s, 1, m - 1)) = m - 1
        /\ \A i \in 1 .. m - 1 : SubSeq(s, 1, m - 1)[i] = s[i]
    BY <1>4
  <2>2. /\ SubSeq(s, m + 1, n) \in Seq(S) /\ Len(SubSeq(s, m + 1, n)) = n - m
        /\ \A i \in 1 .. n - m : SubSeq(s, m + 1, n)[i] = s[m + i]
    BY <1>4
  <2> DEFINE u == SubSeq(s, 1, m - 1)
             v == SubSeq(s, m + 1, n)
  <2> HIDE DEF u, v
  <2>3. /\ u \o v \in Seq(S) /\ Len(u \o v) = (m - 1) + (n - m)
        /\ \A i \in 1 .. (m - 1) + (n - m) : (u \o v)[i] = IF i <= m - 1 THEN u[i] ELSE v[i - (m - 1)]
    BY <2>1, <2>2, ConcatProperties DEF u, v
  <2>4. r = u \o v
    BY DEF u, v
  <2>5. n \in Nat /\ m \in 1 .. n
    BY <1>1, <1>4
  <2> HIDE DEF r, n
  <2> DEFINE w == u \o v
  <2> HIDE DEF w
  <2>8. w \in Seq(S) /\ Len(w) = (m - 1) + (n - m) /\ r = w
    BY <2>3, <2>4 DEF w
  <2>6. Len(r) = n - 1
    BY <2>5, <2>8
  <2>7. ASSUME NEW i \in 1 .. n - 1 PROVE r[i] = IF i < m THEN s[i] ELSE s[i + 1]
    <3>1. r[i] = IF i <= m - 1 THEN u[i] ELSE v[i - (m - 1)]
      BY <2>3, <2>4, <2>5
    <3>2. CASE i < m
      BY <2>1, <2>5, <3>1, <3>2 DEF u
    <3>3. CASE i >= m
      BY <2>2, <2>5, <3>1, <3>3 DEF v
    <3> QED BY <2>5, <3>2, <3>3
  <2> QED BY <2>3, <2>4, <2>6, <2>7
<1> HIDE DEF r, n
<1>6. ASSUME NEW a PROVE Count(r, a) = IF a = e THEN Count(s, a) - 1 ELSE Count(s, a)
  <2> DEFINE T == Spots(s, a) \ {m}
             f == [i \in T |-> IF i < m THEN i ELSE i - 1]
  <2>1. Spots(s, a) \subseteq 1 .. n /\ Len(s) = n /\ n \in Nat
    BY <1>1 DEF Spots, n
  <2>2. f \in Bijection(T, Spots(r, a))
    <3>1. \A i \in T : f[i] \in Spots(r, a)
      BY <1>4, <1>5, <2>1 DEF Spots
    <3>2. \A i, j \in T : f[i] = f[j] => i = j
      BY <1>4, <2>1 DEF Spots
    <3>3. \A k \in Spots(r, a) : \E i \in T : f[i] = k
      <4> SUFFICES ASSUME NEW k \in Spots(r, a) PROVE \E i \in T : f[i] = k
        OBVIOUS
      <4>1. k \in 1 .. n - 1 /\ r[k] = a
        BY <1>5 DEF Spots
      <4>2. CASE k < m
        BY <1>4, <1>5, <2>1, <4>1, <4>2 DEF Spots
      <4>3. CASE k >= m
        <5>1. k + 1 \in T
          BY <1>4, <1>5, <2>1, <4>1, <4>3 DEF Spots
        <5>2. f[k + 1] = k
          BY <1>4, <4>1, <4>3, <5>1
        <5> QED BY <5>1, <5>2
      <4> QED BY <1>4, <4>1, <4>2, <4>3
    <3> QED BY <3>1, <3>2, <3>3 DEF Bijection, Injection, Surjection, IsInjective
  <2> HIDE DEF f
  <2>3. IsFiniteSet(Spots(s, a)) /\ Count(s, a) \in Nat
    BY CountType
  <2>4. IsFiniteSet(T) /\ Cardinality(T) = IF m \in Spots(s, a) THEN Count(s, a) - 1 ELSE Count(s, a)
    BY <2>3, FS_RemoveElement DEF Count
  <2>5. Cardinality(Spots(r, a)) = Cardinality(T)
    BY <2>2, <2>4, FS_Bijection DEF ExistsBijection
  <2>6. m \in Spots(s, a) <=> a = e
    BY <1>4, <2>1 DEF Spots
  <2> QED BY <2>4, <2>5, <2>6 DEF Count
<1> QED BY <1>3, <1>5, <1>6

(* r is s with e once less. *)
Lacks(r, s, e, S) ==
    r \in Seq(S) /\ \A a : Count(r, a) = IF a = e THEN Count(s, a) - 1 ELSE Count(s, a)

(* The last one moved into the place m. *)
LEMMA GapFacts ==
  ASSUME NEW S, NEW s \in Seq(S), NEW e, NEW m \in 1 .. Len(s), s[m] = e
  PROVE  Lacks(Front([s EXCEPT ![m] = s[Len(s)]]), s, e, S)
<1> DEFINE n == Len(s)
           r == Front([s EXCEPT ![m] = s[Len(s)]])
<1>1. n \in Nat
  OBVIOUS
<1>3. r = Front([s EXCEPT ![m] = s[n]])
  OBVIOUS
<1> HIDE DEF r
<1>4. m \in 1 .. n /\ s[m] = e
  OBVIOUS
<1>5. /\ r \in Seq(S) /\ Len(r) = n - 1
      /\ \A i \in 1 .. n - 1 : r[i] = IF i = m THEN s[n] ELSE s[i]
  <2> DEFINE u == [s EXCEPT ![m] = s[n]]
  <2>1. u \in Seq(S) /\ Len(u) = n /\ \A i \in 1 .. n : u[i] = IF i = m THEN s[n] ELSE s[i]
    BY <1>4
  <2>2. r = SubSeq(u, 1, n - 1)
    BY <1>3, <2>1 DEF Front
  <2> HIDE DEF u, n
  <2>3. /\ 1 \in Int /\ n - 1 \in Int /\ \A i \in 1 .. n - 1 : u[i] \in S
    BY <1>1, <2>1
  <2>4. /\ r \in Seq(S)
        /\ Len(r) = IF 1 <= n - 1 THEN (n - 1) - 1 + 1 ELSE 0
        /\ \A i \in 1 .. (n - 1) - 1 + 1 : r[i] = u[1 + i - 1]
    BY <2>2, <2>3, SubSeqProperties
  <2>5. Len(r) = n - 1
    BY <1>1, <1>4, <2>4
  <2>6. \A i \in 1 .. n - 1 : r[i] = u[i]
    BY <1>1, <2>4
  <2> QED BY <1>1, <2>1, <2>4, <2>5, <2>6
<1>6. ASSUME NEW a PROVE Count(r, a) = IF a = e THEN Count(s, a) - 1 ELSE Count(s, a)
  <2> DEFINE T == Spots(s, a) \ {m}
             f == [i \in T |-> IF i = n THEN m ELSE i]
  <2>1. /\ n \in Nat /\ \A i : i \in Spots(s, a) <=> i \in 1 .. n /\ s[i] = a
        /\ \A i : i \in Spots(r, a) <=> i \in 1 .. n - 1 /\ r[i] = a
    BY <1>1, <1>5 DEF Spots
  <2> HIDE DEF n
  <2>2. f \in Bijection(T, Spots(r, a))
    <3>1. ASSUME NEW i \in T PROVE f[i] \in Spots(r, a)
      <4>1. CASE i = n
        BY <1>4, <1>5, <2>1, <4>1
      <4>2. CASE i # n
        BY <1>4, <1>5, <2>1, <4>2
      <4> QED BY <4>1, <4>2
    <3>2. \A i, j \in T : f[i] = f[j] => i = j
      BY <1>4, <2>1
    <3>3. ASSUME NEW k \in Spots(r, a) PROVE \E i \in T : f[i] = k
      <4>1. CASE k = m
        <5>1. n \in T /\ f[n] = m
          BY <1>4, <1>5, <2>1, <4>1
        <5> QED BY <4>1, <5>1
      <4>2. CASE k # m
        <5>1. k \in T /\ f[k] = k
          BY <1>4, <1>5, <2>1, <4>2
        <5> QED BY <5>1
      <4> QED BY <4>1, <4>2
    <3> HIDE DEF T
    <3> QED BY <3>1, <3>2, <3>3 DEF Bijection, Injection, Surjection, IsInjective
  <2> HIDE DEF f
  <2>3. IsFiniteSet(Spots(s, a)) /\ Count(s, a) \in Nat
    BY CountType
  <2>4. IsFiniteSet(T) /\ Cardinality(T) = IF m \in Spots(s, a) THEN Count(s, a) - 1 ELSE Count(s, a)
    BY <2>3, FS_RemoveElement DEF Count
  <2>5. Cardinality(Spots(r, a)) = Cardinality(T)
    BY <2>2, <2>4, FS_Bijection DEF ExistsBijection
  <2>6. m \in Spots(s, a) <=> a = e
    BY <1>4, <2>1
  <2> QED BY <2>4, <2>5, <2>6 DEF Count
<1> QED BY <1>5, <1>6 DEF Lacks, r

(* Two lists, one after the other. *)
LEMMA ConcatFacts ==
  ASSUME NEW S, NEW s \in Seq(S), NEW t \in Seq(S), NEW a
  PROVE  s \o t \in Seq(S) /\ Count(s \o t, a) = Count(s, a) + Count(t, a)
<1> DEFINE n == Len(s)
           r == s \o t
           U == {n + k : k \in Spots(t, a)}
           f == [k \in Spots(t, a) |-> n + k]
<1>1. /\ n \in Nat /\ Len(t) \in Nat /\ r \in Seq(S) /\ Len(r) = n + Len(t)
      /\ \A i \in 1 .. n + Len(t) : r[i] = IF i <= n THEN s[i] ELSE t[i - n]
  BY ConcatProperties
<1> HIDE DEF n, r
<1>2. \A k \in Spots(t, a) : k \in 1 .. Len(t) /\ t[k] = a
  BY DEF Spots
<1>3. Spots(r, a) = Spots(s, a) \union U
  <2>1. ASSUME NEW i \in Spots(r, a) PROVE i \in Spots(s, a) \union U
    <3>1. i \in 1 .. n + Len(t) /\ r[i] = a
      BY <1>1 DEF Spots
    <3>2. CASE i <= n
      BY <1>1, <3>1, <3>2 DEF Spots, n
    <3>3. CASE i > n
      <4>1. i - n \in 1 .. Len(t) /\ n + (i - n) = i /\ t[i - n] = a
        BY <1>1, <3>1, <3>3
      <4>2. i - n \in Spots(t, a)
        BY <4>1 DEF Spots
      <4> QED BY <4>1, <4>2
    <3> QED BY <1>1, <3>1, <3>2, <3>3
  <2>2. ASSUME NEW i \in Spots(s, a) PROVE i \in Spots(r, a)
    BY <1>1 DEF Spots, n
  <2>3. ASSUME NEW k \in Spots(t, a) PROVE n + k \in Spots(r, a)
    <3>1. n + k \in 1 .. n + Len(t) /\ ~ (n + k <= n) /\ (n + k) - n = k
      BY <1>1, <1>2
    <3>2. r[n + k] = a
      BY <1>1, <1>2, <3>1
    <3> QED BY <1>1, <3>1, <3>2 DEF Spots
  <2> QED BY <2>1, <2>2, <2>3
<1>4. f \in Bijection(Spots(t, a), U)
  <2>1. \A k, l \in Spots(t, a) : f[k] = f[l] => k = l
    BY <1>1, <1>2
  <2> QED BY <2>1 DEF Bijection, Injection, Surjection, IsInjective
<1>5. /\ IsFiniteSet(Spots(s, a)) /\ Count(s, a) \in Nat
      /\ IsFiniteSet(Spots(t, a)) /\ Count(t, a) \in Nat
  BY CountType
<1>6. IsFiniteSet(U) /\ Cardinality(U) = Count(t, a)
  <2> HIDE DEF f, U
  <2> QED BY <1>4, <1>5, FS_Bijection DEF ExistsBijection, Count
<1>7. Spots(s, a) \intersect U = {}
  BY <1>1, <1>2 DEF Spots, n
<1>8. Cardinality(Spots(s, a) \union U) = Count(s, a) + Count(t, a) - Cardinality(Spots(s, a) \intersect U)
  <2> HIDE DEF U
  <2> QED BY <1>5, <1>6, FS_Union DEF Count
<1>9. Cardinality(Spots(s, a) \intersect U) = 0
  BY <1>7, FS_EmptySet
<1>10. Count(r, a) = Count(s, a) + Count(t, a)
  BY <1>3, <1>5, <1>8, <1>9 DEF Count
<1> QED BY <1>1, <1>10 DEF r

(* The last name that is taken off. *)
LEMMA FrontFacts ==
  ASSUME NEW S, NEW s \in Seq(S), s # << >>, Once(s)
  PROVE  /\ Front(s) \in Seq(S) /\ Last(s) \in S /\ Last(s) \in Listed(s)
         /\ Once(Front(s)) /\ Listed(Front(s)) = Listed(s) \ {Last(s)}
<1> DEFINE n == Len(s)
           f == Front(s)
<1>1. n \in Nat \ {0}
  BY EmptySeq
<1>2. f \in Seq(S) /\ Len(f) = n - 1 /\ \A i \in 1 .. n - 1 : f[i] = s[i]
  <2> DEFINE u == SubSeq(s, 1, n - 1)
  <2>1. u \in Seq(S) /\ Len(u) = n - 1 /\ \A i \in 1 .. n - 1 : u[i] = s[i]
    <3>1. /\ 1 \in Int /\ n - 1 \in Int /\ \A i \in 1 .. n - 1 : s[i] \in S
      BY <1>1
    <3> HIDE DEF n
    <3>2. /\ u \in Seq(S)
          /\ Len(u) = IF 1 <= n - 1 THEN (n - 1) - 1 + 1 ELSE 0
          /\ \A i \in 1 .. (n - 1) - 1 + 1 : u[i] = s[1 + i - 1]
      BY <3>1, SubSeqProperties
    <3>3. Len(u) = n - 1
      BY <1>1, <3>2
    <3>4. \A i \in 1 .. n - 1 : u[i] = s[i]
      BY <1>1, <3>2
    <3> QED BY <3>2, <3>3, <3>4
  <2>2. f = u
    BY DEF Front
  <2> HIDE DEF u, f, n
  <2> QED BY <2>1, <2>2
<1>3. Last(s) = s[n] /\ n \in 1 .. n /\ s[n] \in S
  BY <1>1 DEF Last
<1> HIDE DEF f
<1>4. Last(s) \in Listed(s)
  BY <1>3 DEF Listed
<1>5. Once(f)
  BY <1>1, <1>2 DEF Once
<1>6. Listed(f) = Listed(s) \ {Last(s)}
  <2>1. ASSUME NEW i \in 1 .. n - 1 PROVE f[i] \in Listed(s) /\ f[i] # Last(s)
    BY <1>1, <1>2, <1>3 DEF Once, Listed
  <2>2. ASSUME NEW i \in 1 .. n, s[i] # Last(s) PROVE s[i] \in Listed(f)
    <3>1. i \in 1 .. n - 1
      BY <1>1, <1>3, <2>2
    <3> QED BY <1>2, <3>1 DEF Listed
  <2>3. Listed(f) \subseteq Listed(s) \ {Last(s)}
    BY <1>2, <2>1 DEF Listed
  <2>4. Listed(s) \ {Last(s)} \subseteq Listed(f)
    BY <2>2 DEF Listed
  <2> QED BY <2>3, <2>4
<1> QED BY <1>2, <1>3, <1>4, <1>5, <1>6 DEF f

Headed(r, x, s) ==
    /\ Len(r) = Len(s) + 1 /\ r[1] = x
    /\ \A i \in 1 .. Len(s) : r[i + 1] = s[i]
    /\ Once(r) /\ Listed(r) = Listed(s) \union {x}

(* A name put in front. *)
LEMMA ConsFacts ==
  ASSUME NEW S, NEW s \in Seq(S), NEW x \in S, x \notin Listed(s), Once(s)
  PROVE  <<x>> \o s \in Seq(S) /\ Headed(<<x>> \o s, x, s)
<1> DEFINE n == Len(s)
           r == <<x>> \o s
<1>1. /\ n \in Nat /\ r \in Seq(S) /\ Len(r) = n + 1 /\ r[1] = x
      /\ \A i \in 1 .. n : r[i + 1] = s[i]
  OBVIOUS
<1> HIDE DEF n, r
<1>2. \A i \in 1 .. n + 1 : i = 1 \/ (i - 1 \in 1 .. n /\ r[i] = s[i - 1])
  <2> SUFFICES ASSUME NEW i \in 1 .. n + 1, i # 1 PROVE i - 1 \in 1 .. n /\ r[i] = s[i - 1]
    OBVIOUS
  <2>1. i - 1 \in 1 .. n /\ (i - 1) + 1 = i
    BY <1>1
  <2>2. r[(i - 1) + 1] = s[i - 1]
    BY <1>1, <2>1
  <2> QED BY <2>1, <2>2
<1>3. \A i \in 1 .. n : s[i] \in Listed(s) /\ s[i] # x
  BY DEF Listed, n
<1>4. Once(r)
  <2> SUFFICES ASSUME NEW i \in 1 .. n + 1, NEW j \in 1 .. n + 1, r[i] = r[j] PROVE i = j
    BY <1>1 DEF Once
  <2>1. CASE i = 1
    BY <1>1, <1>2, <1>3, <2>1
  <2>2. CASE j = 1
    BY <1>1, <1>2, <1>3, <2>2
  <2>3. CASE i # 1 /\ j # 1
    <3>1. i - 1 \in 1 .. n /\ j - 1 \in 1 .. n /\ s[i - 1] = s[j - 1]
      BY <1>2, <2>3
    <3>2. i - 1 = j - 1
      BY <3>1 DEF Once, n
    <3> QED BY <3>2
  <2> QED BY <2>1, <2>2, <2>3
<1>5. Listed(r) = Listed(s) \union {x}
  <2>1. x \in Listed(r)
    BY <1>1 DEF Listed
  <2>2. ASSUME NEW i \in 1 .. n PROVE s[i] \in Listed(r)
    <3>1. i + 1 \in 1 .. n + 1 /\ r[i + 1] = s[i]
      BY <1>1
    <3> QED BY <1>1, <3>1 DEF Listed
  <2>3. ASSUME NEW i \in 1 .. n + 1 PROVE r[i] \in Listed(s) \union {x}
    BY <1>1, <1>2, <1>3
  <2>4. Listed(r) \subseteq Listed(s) \union {x}
    BY <1>1, <2>3 DEF Listed
  <2>5. Listed(s) \subseteq Listed(r)
    BY <2>2 DEF Listed, n
  <2> QED BY <2>1, <2>4, <2>5
<1> QED BY <1>1, <1>4, <1>5 DEF n, r, Headed

(* A list that repeats nothing is as long as it has names. *)
LEMMA OnceCounts ==
  ASSUME NEW S, NEW s \in Seq(S), Once(s)
  PROVE  IsFiniteSet(Listed(s)) /\ Cardinality(Listed(s)) = Len(s)
<1> DEFINE f == [i \in 1 .. Len(s) |-> s[i]]
<1>1. Len(s) \in Nat
  OBVIOUS
<1>2. f \in Bijection(1 .. Len(s), Listed(s))
  <2>1. f \in [1 .. Len(s) -> Listed(s)]
    BY DEF Listed
  <2>2. \A i, j \in 1 .. Len(s) : f[i] = f[j] => i = j
    BY DEF Once
  <2>3. \A a \in Listed(s) : \E i \in 1 .. Len(s) : f[i] = a
    BY DEF Listed
  <2> QED BY <2>1, <2>2, <2>3 DEF Bijection, Injection, Surjection, IsInjective
<1> HIDE DEF f
<1>3. IsFiniteSet(1 .. Len(s)) /\ Cardinality(1 .. Len(s)) = Len(s)
  BY <1>1, FS_Interval
<1> QED BY <1>2, <1>3, FS_Bijection DEF ExistsBijection

RestSpots(s, i, a) == {k \in i + 1 .. Len(s) : s[k] = a}

(* How often a is in s after the first i. *)
Rest(s, i, a) == Cardinality(RestSpots(s, i, a))

(* What is left of a list that is gone through. *)
LEMMA RestFacts ==
  ASSUME NEW S, NEW s \in Seq(S), NEW a
  PROVE  /\ Rest(s, 0, a) = Count(s, a) /\ Rest(s, Len(s), a) = 0
         /\ \A i \in 0 .. Len(s) : Rest(s, i, a) \in Nat
         /\ \A i \in 0 .. Len(s) - 1 :
               Rest(s, i + 1, a) = IF s[i + 1] = a THEN Rest(s, i, a) - 1 ELSE Rest(s, i, a)
<1>0. Len(s) \in Nat
  OBVIOUS
<1>1. Rest(s, 0, a) = Count(s, a)
  BY DEF Rest, RestSpots, Count, Spots
<1>2. Rest(s, Len(s), a) = 0
  <2>1. RestSpots(s, Len(s), a) = {}
    BY <1>0 DEF RestSpots
  <2> QED BY <2>1, FS_EmptySet DEF Rest
<1>3. ASSUME NEW i \in 0 .. Len(s) PROVE IsFiniteSet(RestSpots(s, i, a)) /\ Rest(s, i, a) \in Nat
  <2>1. IsFiniteSet(i + 1 .. Len(s)) /\ RestSpots(s, i, a) \in SUBSET (i + 1 .. Len(s))
    BY <1>0, FS_Interval DEF RestSpots
  <2>2. IsFiniteSet(RestSpots(s, i, a))
    BY <2>1, FS_Subset
  <2> QED BY <2>2, FS_CardinalityType DEF Rest
<1>4. ASSUME NEW i \in 0 .. Len(s) - 1
      PROVE  Rest(s, i + 1, a) = IF s[i + 1] = a THEN Rest(s, i, a) - 1 ELSE Rest(s, i, a)
  <2>1. IsFiniteSet(RestSpots(s, i, a))
    BY <1>0, <1>3
  <2>2. RestSpots(s, i + 1, a) = RestSpots(s, i, a) \ {i + 1}
    BY <1>0 DEF RestSpots
  <2>3. i + 1 \in RestSpots(s, i, a) <=> s[i + 1] = a
    BY <1>0 DEF RestSpots
  <2> QED BY <2>1, <2>2, <2>3, FS_RemoveElement DEF Rest
<1> QED BY <1>1, <1>2, <1>3, <1>4

---------------------------------------------------------------------------
(* The graph while things are added to it. *)

GraphType == [name : Seq(Names), before : [Names -> Seq(Names)],
              after : [Names -> Seq(Names)], input : Seq(Names), output : Seq(Names)]

(* x is listed to come before y. *)
Arc(g, x, y) == y \in Listed(g.before[x])

(* The two lists of arcs agree, and the arcs are between names. *)
Sound(g) ==
    /\ g \in GraphType
    /\ Once(g.name)
    /\ \A x, y \in Names : Count(g.before[x], y) = Count(g.after[y], x)
    /\ \A x, y \in Names : Arc(g, x, y) => x \in Listed(g.name) /\ y \in Listed(g.name)
    /\ g.input = << >> /\ g.output = << >>

(* What a graph is made of. *)
LEMMA SoundType ==
  ASSUME NEW g, Sound(g)
  PROVE  /\ g \in GraphType /\ g.name \in Seq(Names) /\ Listed(g.name) \subseteq Names
         /\ g.before \in [Names -> Seq(Names)] /\ g.after \in [Names -> Seq(Names)]
         /\ g.input = << >> /\ g.output = << >>
<1>1. g \in GraphType /\ g.input = << >> /\ g.output = << >>
  BY DEF Sound
<1>2. /\ g.name \in Seq(Names)
      /\ g.before \in [Names -> Seq(Names)] /\ g.after \in [Names -> Seq(Names)]
  BY <1>1 DEF GraphType
<1>3. Listed(g.name) \subseteq Names
  BY <1>2 DEF Listed
<1> QED BY <1>1, <1>2, <1>3

(* The empty graph. *)
LEMMA EmptyFacts ==
  /\ Sound(BagEmpty) /\ Listed(BagEmpty.name) = {}
  /\ \A x, y \in Names : ~ Arc(BagEmpty, x, y)
<1>1. Listed(<< >>) = {}
  BY DEF Listed
<1>2. BagEmpty \in GraphType
  <2>1. << >> \in Seq(Names)
    OBVIOUS
  <2> QED BY <2>1 DEF BagEmpty, GraphType
<1>3. Once(<< >>)
  BY DEF Once
<1>4. /\ BagEmpty.name = << >> /\ BagEmpty.input = << >> /\ BagEmpty.output = << >>
      /\ \A x \in Names : BagEmpty.before[x] = << >> /\ BagEmpty.after[x] = << >>
  BY DEF BagEmpty
<1>5. \A a : Count(<< >>, a) = 0
  BY <1>1, FS_EmptySet DEF Count, Spots
<1> QED BY <1>1, <1>2, <1>3, <1>4, <1>5 DEF Sound, Arc

(* h is g with the name z and the arc from x to y. *)
Extended(g, z, x, y, h) ==
    /\ Sound(h) /\ Listed(h.name) = Listed(g.name) \union {z}
    /\ \A a, b \in Names : Arc(h, a, b) <=> Arc(g, a, b) \/ (a = x /\ b = y)

Has(g, z, x) == x = z \/ x \in Listed(g.name)

(* A new arc between names, one of which may be new. *)
LEMMA PrecedeFacts ==
  ASSUME NEW g, Sound(g), NEW z \in Names, NEW x, NEW y, Has(g, z, x), Has(g, z, y)
  PROVE  Extended(g, z, x, y, Precede(GetOrCreate(g, z), x, y))
<1> DEFINE e == GetOrCreate(g, z)
           h == Precede(GetOrCreate(g, z), x, y)
<1>0. g \in GraphType /\ g.name \in Seq(Names) /\ Listed(g.name) \subseteq Names
  BY SoundType
<1>1. /\ e \in GraphType /\ Once(e.name) /\ Listed(e.name) = Listed(g.name) \union {z}
      /\ e.before = g.before /\ e.after = g.after /\ e.input = g.input /\ e.output = g.output
  <2>1. Contains(g.name, z) <=> z \in Listed(g.name)
    BY DEF Contains, Listed
  <2>2. CASE z \in Listed(g.name)
    BY <1>0, <2>1, <2>2 DEF GetOrCreate, Sound
  <2>3. CASE z \notin Listed(g.name)
    <3>1. /\ Append(g.name, z) \in Seq(Names) /\ Once(Append(g.name, z))
          /\ Listed(Append(g.name, z)) = Listed(g.name) \union {z}
      BY <1>0, <2>3, AppendFacts DEF Sound
    <3>2. e = [g EXCEPT !.name = Append(g.name, z)]
      BY <2>1, <2>3 DEF GetOrCreate
    <3> QED BY <1>0, <3>1, <3>2 DEF GraphType
  <2> QED BY <2>2, <2>3
<1> HIDE DEF e
<1>2. x \in Names /\ y \in Names /\ x \in Listed(e.name) /\ y \in Listed(e.name)
  BY <1>0, <1>1 DEF Has
<1>3. /\ h = [e EXCEPT !.before[x] = Append(e.before[x], y), !.after[y] = Append(e.after[y], x)]
  BY DEF e, Precede
<1> HIDE DEF h
<1>4. /\ e.before \in [Names -> Seq(Names)] /\ e.after \in [Names -> Seq(Names)]
      /\ \A a \in Names : e.before[a] \in Seq(Names) /\ e.after[a] \in Seq(Names)
  BY <1>1 DEF GraphType
<1>5. Append(e.before[x], y) \in Seq(Names) /\ Append(e.after[y], x) \in Seq(Names)
  BY <1>2, <1>4, AppendFacts
<1>6. /\ h \in GraphType /\ h.name = e.name /\ h.input = e.input /\ h.output = e.output
      /\ \A a \in Names : h.before[a] = IF a = x THEN Append(e.before[x], y) ELSE e.before[a]
      /\ \A a \in Names : h.after[a] = IF a = y THEN Append(e.after[y], x) ELSE e.after[a]
  BY <1>1, <1>2, <1>3, <1>4, <1>5 DEF GraphType
<1>7. ASSUME NEW a \in Names, NEW b \in Names
      PROVE  /\ Count(h.before[a], b) = IF a = x /\ b = y THEN Count(e.before[a], b) + 1 ELSE Count(e.before[a], b)
             /\ Count(h.after[b], a) = IF a = x /\ b = y THEN Count(e.after[b], a) + 1 ELSE Count(e.after[b], a)
             /\ Arc(h, a, b) <=> Arc(g, a, b) \/ (a = x /\ b = y)
  <2> DEFINE u == e.before[x]
             v == e.after[y]
  <2>0. u \in Seq(Names) /\ v \in Seq(Names)
    BY <1>2, <1>4
  <2>4. /\ Listed(Append(u, y)) = Listed(u) \union {y}
        /\ Count(Append(u, y), b) = IF b = y THEN Count(u, b) + 1 ELSE Count(u, b)
        /\ Count(Append(v, x), a) = IF a = x THEN Count(v, a) + 1 ELSE Count(v, a)
    <3> HIDE DEF u, v
    <3> QED BY <1>2, <2>0, AppendFacts
  <2>1. Count(h.before[a], b) = IF a = x /\ b = y THEN Count(e.before[a], b) + 1 ELSE Count(e.before[a], b)
    BY <1>6, <2>4
  <2>2. Count(h.after[b], a) = IF a = x /\ b = y THEN Count(e.after[b], a) + 1 ELSE Count(e.after[b], a)
    BY <1>6, <2>4
  <2>3. Listed(h.before[a]) = IF a = x THEN Listed(e.before[a]) \union {y} ELSE Listed(e.before[a])
    BY <1>6, <2>4
  <2> QED BY <1>1, <2>1, <2>2, <2>3 DEF Arc
<1>8. \A a, b \in Names : Count(h.before[a], b) = Count(h.after[b], a)
  BY <1>1, <1>7 DEF Sound
<1>9. \A a, b \in Names : Arc(h, a, b) => a \in Listed(h.name) /\ b \in Listed(h.name)
  BY <1>1, <1>2, <1>6, <1>7 DEF Sound
<1>10. Sound(h)
  BY <1>1, <1>6, <1>8, <1>9 DEF Sound
<1> QED BY <1>1, <1>6, <1>7, <1>10 DEF Extended, h

(* A new name. *)
LEMMA CreateFacts ==
  ASSUME NEW g, Sound(g), NEW z \in Names, NEW h, h = GetOrCreate(g, z)
  PROVE  /\ Sound(h) /\ Listed(h.name) = Listed(g.name) \union {z}
         /\ \A a, b \in Names : Arc(h, a, b) <=> Arc(g, a, b)
<1>0. g \in GraphType /\ g.name \in Seq(Names)
  BY DEF Sound, GraphType
<1>1. Contains(g.name, z) <=> z \in Listed(g.name)
  BY DEF Contains, Listed
<1>2. CASE z \in Listed(g.name)
  BY <1>1, <1>2 DEF GetOrCreate
<1>3. CASE z \notin Listed(g.name)
  <2>1. /\ Append(g.name, z) \in Seq(Names) /\ Once(Append(g.name, z))
        /\ Listed(Append(g.name, z)) = Listed(g.name) \union {z}
    BY <1>0, <1>3, AppendFacts DEF Sound
  <2>2. h = [g EXCEPT !.name = Append(g.name, z)]
    BY <1>1, <1>3 DEF GetOrCreate
  <2>3. /\ h \in GraphType /\ h.name = Append(g.name, z)
        /\ h.before = g.before /\ h.after = g.after /\ h.input = g.input /\ h.output = g.output
    BY <1>0, <2>1, <2>2 DEF GraphType
  <2>4. \A a, b \in Names : Arc(h, a, b) <=> Arc(g, a, b)
    BY <2>3 DEF Arc
  <2> QED BY <2>1, <2>3, <2>4 DEF Sound
<1> QED BY <1>2, <1>3

Upto(s, n) == {s[k] : k \in 1 .. n}

(* One name more. *)
LEMMA UptoFacts ==
  ASSUME NEW s
  PROVE  /\ Upto(s, 0) = {} /\ Upto(s, Len(s)) = Listed(s)
         /\ \A n \in Nat : Upto(s, n + 1) = Upto(s, n) \union {s[n + 1]}
<1>1. ASSUME NEW n \in Nat PROVE Upto(s, n + 1) = Upto(s, n) \union {s[n + 1]}
  BY 1 .. n + 1 = (1 .. n) \union {n + 1} DEF Upto
<1> QED BY <1>1 DEF Upto, Listed

(* h is g with x before each of befores and after each of afters. *)
Added(g, x, befores, afters, h) ==
    /\ Sound(h)
    /\ Listed(h.name) = Listed(g.name) \union {x} \union Listed(befores) \union Listed(afters)
    /\ \A a, b \in Names : Arc(h, a, b) <=> \/ Arc(g, a, b)
                                            \/ a = x /\ b \in Listed(befores)
                                            \/ b = x /\ a \in Listed(afters)

(* A task, system or entity with its two lists. *)
LEMMA AddFacts ==
  ASSUME NEW g, Sound(g), NEW x \in Names, NEW befores \in Seq(Names), NEW afters \in Seq(Names),
         NEW h, h = BagAdd(g, x, befores, afters)
  PROVE  Added(g, x, befores, afters, h)
<1> DEFINE G == {e \in GraphType : Sound(e) /\ x \in Listed(e.name)}
<1>3. GetOrCreate(g, x) \in G
  <2> DEFINE e == GetOrCreate(g, x)
  <2>1. Sound(e) /\ x \in Listed(e.name)
    BY CreateFacts
  <2> HIDE DEF e
  <2> QED BY <2>1, SoundType DEF e
<1>4. ASSUME NEW e \in G, NEW z \in Names
      PROVE  /\ Precede(GetOrCreate(e, z), x, z) \in G
             /\ Precede(GetOrCreate(e, z), z, x) \in G
  <2>1. /\ Sound(e) /\ x \in Listed(e.name)
    OBVIOUS
  <2> HIDE DEF G
  <2> DEFINE b == Precede(GetOrCreate(e, z), x, z)
             a == Precede(GetOrCreate(e, z), z, x)
  <2>2. Sound(b) /\ Listed(b.name) = Listed(e.name) \union {z}
    <3>1. Has(e, z, x) /\ Has(e, z, z)
      BY <2>1 DEF Has
    <3>2. Extended(e, z, x, z, b)
      BY <2>1, <3>1, PrecedeFacts
    <3> QED BY <3>2 DEF Extended
  <2>3. Sound(a) /\ Listed(a.name) = Listed(e.name) \union {z}
    <3>1. Has(e, z, x) /\ Has(e, z, z)
      BY <2>1 DEF Has
    <3>2. Extended(e, z, z, x, a)
      BY <2>1, <3>1, PrecedeFacts
    <3> QED BY <3>2 DEF Extended
  <2> HIDE DEF a, b
  <2>4. a \in G /\ b \in G
    BY <2>1, <2>2, <2>3, SoundType DEF G
  <2> QED BY <2>4 DEF a, b
<1>10. \A e \in G : Sound(e) /\ x \in Listed(e.name)
  OBVIOUS
<1>11. \A e : Sound(e) /\ x \in Listed(e.name) => e \in G
  BY SoundType
<1> HIDE DEF G
<1> DEFINE n == Len(befores)
           m == Len(afters)
           Early(f) == f = [i \in 0 .. n |-> IF i = 0 THEN GetOrCreate(g, x)
                              ELSE Precede(GetOrCreate(f[i - 1], befores[i]), x, befores[i])]
           earlier == CHOOSE f : Early(f)
           Late(f) == f = [i \in 0 .. m |-> IF i = 0 THEN earlier[n]
                             ELSE Precede(GetOrCreate(f[i - 1], afters[i]), afters[i], x)]
           later == CHOOSE f : Late(f)
<1>1. /\ n \in Nat /\ m \in Nat
      /\ \A i \in 1 .. n : befores[i] \in Names
      /\ \A i \in 1 .. m : afters[i] \in Names
  OBVIOUS
<1>2. h = later[m]
  BY DEF BagAdd
<1>5. Early(earlier)
  <2> DEFINE step == [p \in (1 .. n) \X G |->
                        Precede(GetOrCreate(p[2], befores[p[1]]), x, befores[p[1]])]
  <2>1. IsStep(step, n, G)
    <3>1. \A p \in (1 .. n) \X G : step[p] \in G
      BY <1>1, <1>4
    <3> QED BY <3>1 DEF IsStep
  <2>2. \A i \in 1 .. n : \A e \in G :
           step[<<i, e>>] = Precede(GetOrCreate(e, befores[i]), x, befores[i])
    OBVIOUS
  <2> HIDE DEF step, n, earlier
  <2>3. PICK f : Follows(f, n, G, GetOrCreate(g, x), step)
    <3>1. n \in Nat /\ GetOrCreate(g, x) \in G
      BY <1>1, <1>3
    <3> QED BY <2>1, <3>1, Recursion
  <2>7. f \in [0 .. n -> G] /\ f[0] = GetOrCreate(g, x) /\ \A i \in 1 .. n : f[i] = step[<<i, f[i - 1]>>]
    BY <2>3 DEF Follows
  <2>4. ASSUME NEW i \in 1 .. n PROVE f[i] = Precede(GetOrCreate(f[i - 1], befores[i]), x, befores[i])
    <3>1. i - 1 \in 0 .. n
      BY <1>1
    <3>2. f[i - 1] \in G
      BY <2>7, <3>1
    <3> QED BY <2>2, <2>7, <3>2
  <2>5. \A i \in 0 .. n : f[i] = IF i = 0 THEN GetOrCreate(g, x)
                                 ELSE Precede(GetOrCreate(f[i - 1], befores[i]), x, befores[i])
    BY <1>1, <2>4, <2>7
  <2>6. Early(f)
    BY <2>5, <2>7
  <2> HIDE DEF Early
  <2> QED BY <2>6 DEF earlier
<1> DEFINE Good(e, B, A) ==
             /\ Sound(e)
             /\ Listed(e.name) = Listed(g.name) \union {x} \union B \union A
             /\ \A a, b \in Names : Arc(e, a, b) <=> \/ Arc(g, a, b)
                                                     \/ a = x /\ b \in B
                                                     \/ b = x /\ a \in A
<1>6. Good(earlier[n], Listed(befores), {})
  <2> DEFINE S == {i \in 0 .. n : Good(earlier[i], Upto(befores, i), {})}
  <2>0. /\ earlier[0] = GetOrCreate(g, x)
        /\ \A i \in 0 .. n - 1 : earlier[i + 1] = Precede(GetOrCreate(earlier[i], befores[i + 1]), x, befores[i + 1])
    <3> HIDE DEF earlier
    <3> QED BY <1>1, <1>5
  <2> HIDE DEF earlier, n
  <2>1. 0 \in S
    <3>1. Upto(befores, 0) = {}
      BY UptoFacts
    <3> DEFINE e == earlier[0]
    <3>3. e = GetOrCreate(g, x)
      BY <2>0
    <3> HIDE DEF e
    <3>4. /\ Sound(e) /\ Listed(e.name) = Listed(g.name) \union {x}
          /\ \A a, b \in Names : Arc(e, a, b) <=> Arc(g, a, b)
      BY <3>3, CreateFacts
    <3>2. Good(earlier[0], Upto(befores, 0), {})
      BY <3>1, <3>4 DEF e
    <3> HIDE DEF Good
    <3> QED BY <1>1, <3>2
  <2>2. ASSUME NEW i \in 0 .. n - 1, i \in S PROVE i + 1 \in S
    <3>1. /\ i \in Nat /\ i + 1 \in 0 .. n /\ befores[i + 1] \in Names
          /\ Good(earlier[i], Upto(befores, i), {})
      BY <1>1, <2>2
    <3>2. Upto(befores, i + 1) = Upto(befores, i) \union {befores[i + 1]}
      BY <3>1, UptoFacts
    <3> DEFINE d == earlier[i]
               e == earlier[i + 1]
    <3> HIDE DEF d, e
    <3>5. /\ x \in Listed(d.name) /\ Sound(d)
          /\ e = Precede(GetOrCreate(d, befores[i + 1]), x, befores[i + 1])
      BY <2>0, <3>1 DEF d, e
    <3>3. /\ Sound(e) /\ Listed(e.name) = Listed(d.name) \union {befores[i + 1]}
          /\ \A a, b \in Names : Arc(e, a, b) <=> Arc(d, a, b) \/ (a = x /\ b = befores[i + 1])
      <4> DEFINE z == befores[i + 1]
      <4> HIDE DEF S, Good, z
      <4>1. z \in Names /\ Has(d, z, x) /\ Has(d, z, z)
        BY <3>1, <3>5 DEF z, Has
      <4>2. Sound(d) /\ e = Precede(GetOrCreate(d, z), x, z)
        BY <3>5 DEF z
      <4>3. Extended(d, z, x, z, e)
        BY <4>1, <4>2, PrecedeFacts
      <4> QED BY <4>3 DEF Extended, z
    <3>4. Good(e, Upto(befores, i + 1), {})
      BY <3>1, <3>2, <3>3 DEF d
    <3> QED BY <3>1, <3>4 DEF e
  <2> HIDE DEF S
  <2>3. \A i \in 0 .. n : i \in S
    <3>1. n \in Nat
      BY <1>1
    <3> QED BY <2>1, <2>2, <3>1, Induct
  <2>4. n \in S
    BY <1>1, <2>3
  <2> QED BY <2>4, UptoFacts DEF S, n
<1>7. earlier[n] \in G
  <2>1. Sound(earlier[n]) /\ x \in Listed(earlier[n].name)
    BY <1>6
  <2> HIDE DEF earlier, n
  <2> QED BY <1>11, <2>1
<1> HIDE DEF earlier
<1>8. Late(later)
  <2> DEFINE step == [p \in (1 .. m) \X G |->
                        Precede(GetOrCreate(p[2], afters[p[1]]), afters[p[1]], x)]
  <2>1. IsStep(step, m, G)
    <3>1. \A p \in (1 .. m) \X G : step[p] \in G
      BY <1>1, <1>4
    <3> QED BY <3>1 DEF IsStep
  <2>2. \A i \in 1 .. m : \A e \in G :
           step[<<i, e>>] = Precede(GetOrCreate(e, afters[i]), afters[i], x)
    OBVIOUS
  <2> HIDE DEF step, n, m
  <2>3. PICK f : Follows(f, m, G, earlier[n], step)
    <3>1. m \in Nat /\ earlier[n] \in G
      BY <1>1, <1>7
    <3> QED BY <2>1, <3>1, Recursion
  <2>7. f \in [0 .. m -> G] /\ f[0] = earlier[n] /\ \A i \in 1 .. m : f[i] = step[<<i, f[i - 1]>>]
    BY <2>3 DEF Follows
  <2>4. ASSUME NEW i \in 1 .. m PROVE f[i] = Precede(GetOrCreate(f[i - 1], afters[i]), afters[i], x)
    <3>1. i - 1 \in 0 .. m
      BY <1>1
    <3>2. f[i - 1] \in G
      BY <2>7, <3>1
    <3> QED BY <2>2, <2>7, <3>2
  <2>5. \A i \in 0 .. m : f[i] = IF i = 0 THEN earlier[n]
                                 ELSE Precede(GetOrCreate(f[i - 1], afters[i]), afters[i], x)
    BY <1>1, <2>4, <2>7
  <2>6. Late(f)
    BY <2>5, <2>7
  <2> HIDE DEF Late
  <2> QED BY <2>6 DEF later
<1>9. Good(later[m], Listed(befores), Listed(afters))
  <2> DEFINE S == {i \in 0 .. m : Good(later[i], Listed(befores), Upto(afters, i))}
  <2>0. /\ later[0] = earlier[n]
        /\ \A i \in 0 .. m - 1 : later[i + 1] = Precede(GetOrCreate(later[i], afters[i + 1]), afters[i + 1], x)
    <3> HIDE DEF later
    <3> QED BY <1>1, <1>8
  <2> HIDE DEF later, m
  <2>1. 0 \in S
    <3>1. Upto(afters, 0) = {}
      BY UptoFacts
    <3>2. Good(later[0], Listed(befores), Upto(afters, 0))
      BY <1>6, <2>0, <3>1
    <3> HIDE DEF Good
    <3> QED BY <1>1, <3>2
  <2>2. ASSUME NEW i \in 0 .. m - 1, i \in S PROVE i + 1 \in S
    <3>1. /\ i \in Nat /\ i + 1 \in 0 .. m /\ afters[i + 1] \in Names
          /\ Good(later[i], Listed(befores), Upto(afters, i))
      BY <1>1, <2>2
    <3>2. Upto(afters, i + 1) = Upto(afters, i) \union {afters[i + 1]}
      BY <3>1, UptoFacts
    <3> DEFINE d == later[i]
               e == later[i + 1]
    <3> HIDE DEF d, e
    <3>5. /\ x \in Listed(d.name) /\ Sound(d)
          /\ e = Precede(GetOrCreate(d, afters[i + 1]), afters[i + 1], x)
      BY <2>0, <3>1 DEF d, e
    <3>3. /\ Sound(e) /\ Listed(e.name) = Listed(d.name) \union {afters[i + 1]}
          /\ \A a, b \in Names : Arc(e, a, b) <=> Arc(d, a, b) \/ (a = afters[i + 1] /\ b = x)
      <4> DEFINE z == afters[i + 1]
      <4> HIDE DEF S, Good, z
      <4>1. z \in Names /\ Has(d, z, x) /\ Has(d, z, z)
        BY <3>1, <3>5 DEF z, Has
      <4>2. Sound(d) /\ e = Precede(GetOrCreate(d, z), z, x)
        BY <3>5 DEF z
      <4>3. Extended(d, z, z, x, e)
        BY <4>1, <4>2, PrecedeFacts
      <4> QED BY <4>3 DEF Extended, z
    <3>4. Good(e, Listed(befores), Upto(afters, i + 1))
      BY <3>1, <3>2, <3>3 DEF d
    <3> QED BY <3>1, <3>4 DEF e
  <2> HIDE DEF S
  <2>3. \A i \in 0 .. m : i \in S
    <3>1. m \in Nat
      BY <1>1
    <3> QED BY <2>1, <2>2, <3>1, Induct
  <2>4. m \in S
    BY <1>1, <2>3
  <2> QED BY <2>4, UptoFacts DEF S, m
<1> QED BY <1>2, <1>9 DEF Added

---------------------------------------------------------------------------
(* The graph while names are popped. *)

(* The graph h that g became: what was popped waits for nothing and nothing *)
(* waits for it, the others wait for what they waited for, and a name waits *)
(* for nothing when it is in the input.                                     *)
Popping(g, h) ==
    /\ h \in GraphType
    /\ h.name = g.name
    /\ Once(h.output) /\ Once(h.input)
    /\ \A x \in Listed(h.input) : x \notin Listed(h.output) /\ x \in Listed(g.name)
    /\ Listed(h.output) \subseteq Listed(g.name)
    /\ \A x, y \in Names : Count(h.before[x], y) =
           IF y \in Listed(h.output) THEN 0 ELSE Count(g.before[x], y)
    /\ \A y \in Names : y \notin Listed(h.output) => h.after[y] = g.after[y]
    /\ \A x \in Listed(g.name) :
           h.before[x] = << >> <=> x \in Listed(h.input) \/ x \in Listed(h.output)
    /\ \A i \in 1 .. Len(h.output) : \A y \in Names : Arc(g, h.output[i], y) =>
           \E j \in 1 .. Len(h.output) : i < j /\ h.output[j] = y

(* x is popped from h, and the first i of those after it are released in r. *)
Releasing(g, h, x, i, r) ==
    /\ r \in GraphType
    /\ r.name = g.name /\ r.output = <<x>> \o h.output /\ r.after = h.after
    /\ Once(r.input)
    /\ \A a \in Listed(r.input) : a \notin Listed(h.output) /\ a # x /\ a \in Listed(g.name)
    /\ \A a, b \in Names : Count(r.before[a], b) =
           IF b = x THEN Rest(g.after[x], i, a) ELSE Count(h.before[a], b)
    /\ \A a \in Listed(g.name) :
           r.before[a] = << >> <=> a \in Listed(r.input) \/ a \in Listed(h.output) \/ a = x

(* One more is released. *)
LEMMA ReleaseFacts ==
  ASSUME NEW g, Sound(g), NEW h, NEW x \in Names, NEW r,
         NEW i \in 0 .. Len(g.after[x]) - 1, Releasing(g, h, x, i, r)
  PROVE  Releasing(g, h, x, i + 1, Release(r, x, g.after[x][i + 1]))
<1> DEFINE L == g.after[x]
           y == L[i + 1]
           waits == RemoveFirst(r.before[y], x)
           t == Release(r, x, y)
<1>1. /\ L \in Seq(Names) /\ i + 1 \in 1 .. Len(L) /\ y \in Names /\ y \in Listed(L)
  <2>1. L \in Seq(Names)
    BY SoundType
  <2>2. i + 1 \in 1 .. Len(L)
    BY <2>1
  <2>3. y \in Names
    BY <2>1, <2>2
  <2> QED BY <2>1, <2>2, <2>3 DEF Listed
<1>2. y \in Listed(g.name)
  <2>1. Count(L, y) # 0
    BY <1>1, CountType
  <2>2. Count(g.before[y], x) = Count(L, y)
    BY <1>1 DEF Sound
  <2>3. g.before[y] \in Seq(Names)
    BY <1>1, SoundType
  <2>4. Arc(g, y, x)
    BY <2>1, <2>2, <2>3, CountType DEF Arc
  <2> QED BY <1>1, <2>4 DEF Sound
<1>3. \A a \in Names : /\ Rest(L, i, a) \in Nat /\ Rest(L, i + 1, a) \in Nat
                       /\ Rest(L, i + 1, a) = IF y = a THEN Rest(L, i, a) - 1 ELSE Rest(L, i, a)
  <2>1. i \in 0 .. Len(L) /\ i + 1 \in 0 .. Len(L)
    BY <1>1
  <2> HIDE DEF L, y
  <2> SUFFICES ASSUME NEW a \in Names
               PROVE  /\ Rest(L, i, a) \in Nat /\ Rest(L, i + 1, a) \in Nat
                      /\ Rest(L, i + 1, a) = IF y = a THEN Rest(L, i, a) - 1 ELSE Rest(L, i, a)
    OBVIOUS
  <2>2. /\ \A k \in 0 .. Len(L) : Rest(L, k, a) \in Nat
        /\ \A k \in 0 .. Len(L) - 1 :
               Rest(L, k + 1, a) = IF L[k + 1] = a THEN Rest(L, k, a) - 1 ELSE Rest(L, k, a)
    BY <1>1, RestFacts
  <2>3. i \in 0 .. Len(L) - 1
    BY DEF L
  <2> QED BY <2>1, <2>2, <2>3 DEF y
<1> HIDE DEF L
<1>4. /\ r \in GraphType /\ r.before \in [Names -> Seq(Names)] /\ r.input \in Seq(Names)
      /\ r.before[y] \in Seq(Names)
  <2>1. r \in GraphType
    BY DEF Releasing
  <2>2. r.before \in [Names -> Seq(Names)] /\ r.input \in Seq(Names)
    BY <2>1 DEF GraphType
  <2> QED BY <1>1, <2>1, <2>2
<1>5. \A a, b \in Names : Count(r.before[a], b) =
           IF b = x THEN Rest(L, i, a) ELSE Count(h.before[a], b)
  BY DEF Releasing, L
<1> HIDE DEF y
<1>6. x \in Listed(r.before[y]) /\ r.before[y] # << >>
  <2>1. Count(r.before[y], x) # 0
    BY <1>1, <1>3, <1>5
  <2>2. x \in Listed(r.before[y])
    BY <1>4, <2>1, CountType
  <2> QED BY <1>4, <2>2, NothingListed
<1>7. /\ waits \in Seq(Names)
      /\ \A b : Count(waits, b) = IF b = x THEN Count(r.before[y], b) - 1 ELSE Count(r.before[y], b)
  BY <1>4, <1>6, RemoveFacts
<1> HIDE DEF waits
<1>8. t = [r EXCEPT !.before[y] = waits, !.input = IF waits = << >> THEN Append(r.input, y) ELSE r.input]
  BY DEF Release, waits
<1>9. y \notin Listed(r.input) /\ y \notin Listed(h.output) /\ y # x
  BY <1>2, <1>6 DEF Releasing
<1> DEFINE input == IF waits = << >> THEN Append(r.input, y) ELSE r.input
<1>10. /\ input \in Seq(Names)
       /\ Once(input)
       /\ Listed(input) = IF waits = << >> THEN Listed(r.input) \union {y} ELSE Listed(r.input)
  <2>1. Once(r.input)
    BY DEF Releasing
  <2> QED BY <1>1, <1>4, <1>9, <2>1, AppendFacts
<1> HIDE DEF input, t
<1>11. /\ t \in GraphType /\ t.input = input /\ t.name = r.name /\ t.output = r.output /\ t.after = r.after
       /\ \A a \in Names : t.before[a] = IF a = y THEN waits ELSE r.before[a]
  BY <1>1, <1>4, <1>7, <1>8, <1>10 DEF GraphType, input
<1>12. \A a, b \in Names : Count(t.before[a], b) =
           IF b = x THEN Rest(L, i + 1, a) ELSE Count(h.before[a], b)
  <2> SUFFICES ASSUME NEW a \in Names, NEW b \in Names
               PROVE  Count(t.before[a], b) = IF b = x THEN Rest(L, i + 1, a) ELSE Count(h.before[a], b)
    OBVIOUS
  <2>1. CASE a = y
    BY <1>1, <1>3, <1>5, <1>7, <1>11, <2>1
  <2>2. CASE a # y
    BY <1>1, <1>3, <1>5, <1>11, <2>2
  <2> QED BY <2>1, <2>2
<1>13. \A a \in Listed(g.name) :
           t.before[a] = << >> <=> a \in Listed(t.input) \/ a \in Listed(h.output) \/ a = x
  <2> SUFFICES ASSUME NEW a \in Listed(g.name)
               PROVE  t.before[a] = << >> <=> a \in Listed(t.input) \/ a \in Listed(h.output) \/ a = x
    OBVIOUS
  <2>0. a \in Names
    BY SoundType
  <2>1. CASE a = y
    BY <1>9, <1>10, <1>11, <2>0, <2>1
  <2>2. CASE a # y
    <3>1. r.before[a] = << >> <=> a \in Listed(r.input) \/ a \in Listed(h.output) \/ a = x
      BY DEF Releasing
    <3> QED BY <1>10, <1>11, <2>0, <2>2, <3>1
  <2> QED BY <2>1, <2>2
<1>14. \A a \in Listed(t.input) : a \notin Listed(h.output) /\ a # x /\ a \in Listed(g.name)
  <2>1. \A a \in Listed(r.input) : a \notin Listed(h.output) /\ a # x /\ a \in Listed(g.name)
    BY DEF Releasing
  <2> QED BY <1>2, <1>9, <1>10, <1>11, <2>1
<1>15. r.name = g.name /\ r.output = <<x>> \o h.output /\ r.after = h.after
  BY DEF Releasing
<1>16. Releasing(g, h, x, i + 1, t)
  BY <1>10, <1>11, <1>12, <1>13, <1>14, <1>15 DEF Releasing, L
<1> QED BY <1>16 DEF t, y, L

(* The last name of the input is popped. *)
LEMMA PopFacts ==
  ASSUME NEW g, Sound(g), NEW h, Popping(g, h), h.input # << >>
  PROVE  Popping(g, PopInput(h)) /\ Len(PopInput(h).output) = Len(h.output) + 1
<1> DEFINE x == Last(h.input)
           L == g.after[x]
           m == Len(L)
           start == [h EXCEPT !.input = Front(@), !.output = <<x>> \o @]
           Steps(f) == f = [i \in 0 .. m |-> IF i = 0 THEN start ELSE Release(f[i - 1], x, L[i])]
           released == CHOOSE f : Steps(f)
           t == PopInput(h)
<1>1. h \in GraphType /\ h.input \in Seq(Names) /\ h.output \in Seq(Names)
      /\ h.before \in [Names -> Seq(Names)] /\ h.after \in [Names -> Seq(Names)]
      /\ Once(h.input) /\ Once(h.output)
  <2>1. h \in GraphType /\ Once(h.input) /\ Once(h.output)
    BY DEF Popping
  <2> QED BY <2>1 DEF GraphType
<1>2. /\ Front(h.input) \in Seq(Names) /\ x \in Names /\ x \in Listed(h.input)
      /\ Once(Front(h.input)) /\ Listed(Front(h.input)) = Listed(h.input) \ {x}
  BY <1>1, FrontFacts
<1>3. x \notin Listed(h.output) /\ x \in Listed(g.name) /\ h.after[x] = L
  BY <1>2 DEF Popping
<1>4. L \in Seq(Names) /\ m \in Nat
  BY <1>2, SoundType
<1>5. t = [released[m] EXCEPT !.after[x] = << >>]
  BY <1>3 DEF PopInput
<1> HIDE DEF x
<1> DEFINE out == <<x>> \o h.output
<1>6. /\ out \in Seq(Names) /\ Len(out) = Len(h.output) + 1 /\ out[1] = x
      /\ \A i \in 1 .. Len(h.output) : out[i + 1] = h.output[i]
      /\ Once(out) /\ Listed(out) = Listed(h.output) \union {x}
  <2>1. out \in Seq(Names) /\ Headed(out, x, h.output)
    BY <1>1, <1>2, <1>3, ConsFacts
  <2> HIDE DEF out
  <2> QED BY <2>1 DEF Headed
<1> HIDE DEF out
<1>7. /\ start \in GraphType /\ start.name = h.name /\ start.before = h.before
      /\ start.after = h.after /\ start.input = Front(h.input) /\ start.output = out
  BY <1>1, <1>2, <1>6 DEF GraphType, out
<1> HIDE DEF start, L, m
<1>8. Releasing(g, h, x, 0, start)
  <2>1. \A a, b \in Names : Count(start.before[a], b) =
           IF b = x THEN Rest(L, 0, a) ELSE Count(h.before[a], b)
    <3> SUFFICES ASSUME NEW a \in Names PROVE Count(h.before[a], x) = Rest(L, 0, a)
      BY <1>7
    <3>1. Count(h.before[a], x) = Count(g.before[a], x)
      BY <1>2, <1>3 DEF Popping
    <3>2. Count(g.before[a], x) = Count(L, a)
      BY <1>2 DEF Sound, L
    <3>3. Rest(L, 0, a) = Count(L, a)
      BY <1>4, RestFacts
    <3> QED BY <3>1, <3>2, <3>3
  <2>2. \A a \in Listed(start.input) : a \notin Listed(h.output) /\ a # x /\ a \in Listed(g.name)
    BY <1>2, <1>7 DEF Popping
  <2>3. \A a \in Listed(g.name) :
           start.before[a] = << >> <=> a \in Listed(start.input) \/ a \in Listed(h.output) \/ a = x
    BY <1>2, <1>7 DEF Popping
  <2>4. h.name = g.name
    BY DEF Popping
  <2> QED BY <1>2, <1>7, <2>1, <2>2, <2>3, <2>4 DEF Releasing, L, out
<1>9. \A i \in 0 .. m - 1 : \A r : Releasing(g, h, x, i, r) => Releasing(g, h, x, i + 1, Release(r, x, L[i + 1]))
  BY <1>2, ReleaseFacts DEF L, m
<1>10. Steps(released)
  <2> DEFINE step == [p \in (1 .. m) \X GraphType |->
                        IF Releasing(g, h, x, p[1] - 1, p[2]) THEN Release(p[2], x, L[p[1]]) ELSE start]
  <2>1. IsStep(step, m, GraphType)
    <3> SUFFICES ASSUME NEW i \in 1 .. m, NEW r \in GraphType, Releasing(g, h, x, i - 1, r)
                 PROVE  Release(r, x, L[i]) \in GraphType
      BY <1>7 DEF IsStep
    <3>1. i - 1 \in 0 .. m - 1 /\ (i - 1) + 1 = i
      BY <1>4
    <3>2. Releasing(g, h, x, (i - 1) + 1, Release(r, x, L[(i - 1) + 1]))
      BY <1>9, <3>1
    <3> QED BY <3>1, <3>2 DEF Releasing
  <2>2. \A i \in 1 .. m : \A r \in GraphType : Releasing(g, h, x, i - 1, r) =>
           step[<<i, r>>] = Release(r, x, L[i])
    OBVIOUS
  <2> HIDE DEF step
  <2>3. PICK f : Follows(f, m, GraphType, start, step)
    BY <1>4, <1>7, <2>1, Recursion
  <2>4. f \in [0 .. m -> GraphType] /\ f[0] = start /\ \A i \in 1 .. m : f[i] = step[<<i, f[i - 1]>>]
    BY <2>3 DEF Follows
  <2> DEFINE S == {i \in 0 .. m : Releasing(g, h, x, i, f[i])}
  <2>5. \A i \in 0 .. m - 1 : Releasing(g, h, x, i, f[i]) => f[i + 1] = Release(f[i], x, L[i + 1])
    <3> SUFFICES ASSUME NEW i \in 0 .. m - 1, Releasing(g, h, x, i, f[i])
                 PROVE  f[i + 1] = Release(f[i], x, L[i + 1])
      OBVIOUS
    <3>1. i \in 0 .. m /\ i + 1 \in 1 .. m /\ (i + 1) - 1 = i
      BY <1>4
    <3>2. f[i] \in GraphType
      BY <2>4, <3>1
    <3> QED BY <2>2, <2>4, <3>1, <3>2
  <2>6. 0 \in S
    BY <1>4, <1>8, <2>4
  <2>7. ASSUME NEW i \in 0 .. m - 1, i \in S PROVE i + 1 \in S
    <3>1. i + 1 \in 0 .. m /\ Releasing(g, h, x, i + 1, Release(f[i], x, L[i + 1]))
      BY <1>4, <1>9, <2>7
    <3> QED BY <2>5, <2>7, <3>1
  <2> HIDE DEF S
  <2>8. \A i \in 0 .. m : i \in S
    BY <1>4, <2>6, <2>7, Induct
  <2>9. \A i \in 1 .. m : f[i] = Release(f[i - 1], x, L[i])
    <3> SUFFICES ASSUME NEW i \in 1 .. m PROVE f[i] = Release(f[i - 1], x, L[i])
      OBVIOUS
    <3>1. i - 1 \in 0 .. m - 1 /\ i - 1 \in 0 .. m /\ (i - 1) + 1 = i
      BY <1>4
    <3>2. Releasing(g, h, x, i - 1, f[i - 1])
      BY <2>8, <3>1 DEF S
    <3>3. f[(i - 1) + 1] = Release(f[i - 1], x, L[(i - 1) + 1])
      BY <2>5, <3>1, <3>2
    <3> QED BY <3>1, <3>3
  <2>10. \A i \in 0 .. m : f[i] = IF i = 0 THEN start ELSE Release(f[i - 1], x, L[i])
    BY <1>4, <2>4, <2>9
  <2>11. Steps(f)
    BY <2>4, <2>10
  <2> HIDE DEF Steps
  <2> QED BY <2>11 DEF released
<1> HIDE DEF released
<1>11. Releasing(g, h, x, m, released[m])
  <2> DEFINE S == {i \in 0 .. m : Releasing(g, h, x, i, released[i])}
  <2>1. /\ released[0] = start
        /\ \A i \in 0 .. m - 1 : released[i + 1] = Release(released[i], x, L[i + 1])
    BY <1>4, <1>10
  <2>2. 0 \in S
    BY <1>4, <1>8, <2>1
  <2>3. ASSUME NEW i \in 0 .. m - 1, i \in S PROVE i + 1 \in S
    <3>1. i + 1 \in 0 .. m /\ Releasing(g, h, x, i + 1, Release(released[i], x, L[i + 1]))
      BY <1>4, <1>9, <2>3
    <3> QED BY <2>1, <3>1
  <2> HIDE DEF S
  <2>4. \A i \in 0 .. m : i \in S
    BY <1>4, <2>2, <2>3, Induct
  <2> QED BY <1>4, <2>4 DEF S
<1> DEFINE r == released[m]
<1> HIDE DEF r, t
<1>12. /\ r \in GraphType /\ r.name = g.name /\ r.output = out /\ r.after = h.after /\ Once(r.input)
       /\ \A a \in Listed(r.input) : a \notin Listed(h.output) /\ a # x /\ a \in Listed(g.name)
       /\ \A a, b \in Names : Count(r.before[a], b) = IF b = x THEN Rest(L, m, a) ELSE Count(h.before[a], b)
       /\ \A a \in Listed(g.name) :
             r.before[a] = << >> <=> a \in Listed(r.input) \/ a \in Listed(h.output) \/ a = x
  BY <1>11 DEF r, Releasing, L, out
<1>13. /\ t \in GraphType /\ t.name = r.name /\ t.before = r.before /\ t.input = r.input /\ t.output = r.output
       /\ \A a \in Names : t.after[a] = IF a = x THEN << >> ELSE r.after[a]
  <2>1. t = [r EXCEPT !.after[x] = << >>]
    BY <1>5 DEF r
  <2>2. << >> \in Seq(Names)
    OBVIOUS
  <2> QED BY <1>2, <1>12, <2>1, <2>2 DEF GraphType
<1>14. \A a, b \in Names : Count(t.before[a], b) =
           IF b \in Listed(t.output) THEN 0 ELSE Count(g.before[a], b)
  <2> SUFFICES ASSUME NEW a \in Names, NEW b \in Names
               PROVE  Count(t.before[a], b) = IF b \in Listed(t.output) THEN 0 ELSE Count(g.before[a], b)
    OBVIOUS
  <2>1. CASE b = x
    <3>1. Rest(L, m, a) = 0
      BY <1>4, RestFacts DEF m
    <3> QED BY <1>6, <1>12, <1>13, <2>1, <3>1
  <2>2. CASE b # x
    <3>1. Count(h.before[a], b) = IF b \in Listed(h.output) THEN 0 ELSE Count(g.before[a], b)
      BY DEF Popping
    <3> QED BY <1>6, <1>12, <1>13, <2>2, <3>1
  <2> QED BY <2>1, <2>2
<1>15. \A a \in Names : a \notin Listed(t.output) => t.after[a] = g.after[a]
  BY <1>6, <1>12, <1>13 DEF Popping
<1>16. \A a \in Listed(t.input) : a \notin Listed(t.output) /\ a \in Listed(g.name)
  BY <1>6, <1>12, <1>13
<1>17. Listed(t.output) \subseteq Listed(g.name)
  BY <1>3, <1>6, <1>12, <1>13 DEF Popping
<1>18. \A a \in Listed(g.name) :
           t.before[a] = << >> <=> a \in Listed(t.input) \/ a \in Listed(t.output)
  BY <1>6, <1>12, <1>13
<1>19. ASSUME NEW i \in 1 .. Len(t.output), NEW y \in Names, Arc(g, t.output[i], y)
       PROVE  \E j \in 1 .. Len(t.output) : i < j /\ t.output[j] = y
  <2>0. t.output = out /\ Len(h.output) \in Nat
    BY <1>1, <1>12, <1>13
  <2>1. CASE i = 1
    <3>1. Arc(g, x, y)
      BY <1>6, <1>19, <2>0, <2>1
    <3>2. Count(g.before[x], y) # 0
      <4>1. g.before[x] \in Seq(Names)
        BY <1>2, SoundType
      <4> QED BY <3>1, <4>1, CountType DEF Arc
    <3>3. h.before[x] = << >>
      BY <1>2, <1>3 DEF Popping
    <3>4. Count(h.before[x], y) = 0
      <4>1. Listed(h.before[x]) = {} /\ h.before[x] \in Seq(Names)
        BY <1>1, <1>2, <3>3, NothingListed
      <4> QED BY <4>1, CountType
    <3>5. y \in Listed(h.output)
      BY <1>2, <3>2, <3>4 DEF Popping
    <3>6. PICK j \in 1 .. Len(h.output) : h.output[j] = y
      BY <3>5 DEF Listed
    <3>7. j + 1 \in 1 .. Len(out) /\ i < j + 1 /\ out[j + 1] = y
      BY <1>6, <2>0, <2>1, <3>6
    <3> QED BY <2>0, <3>7
  <2>2. CASE i # 1
    <3>1. i - 1 \in 1 .. Len(h.output) /\ (i - 1) + 1 = i
      BY <1>6, <2>0, <2>2
    <3>2. out[i] = h.output[i - 1]
      BY <1>6, <3>1
    <3>3. Arc(g, h.output[i - 1], y)
      BY <1>19, <2>0, <3>2
    <3>4. PICK j \in 1 .. Len(h.output) : i - 1 < j /\ h.output[j] = y
      BY <3>1, <3>3 DEF Popping
    <3>5. j + 1 \in 1 .. Len(out) /\ i < j + 1 /\ out[j + 1] = y
      BY <1>6, <2>0, <3>1, <3>4
    <3> QED BY <2>0, <3>5
  <2> QED BY <2>1, <2>2
<1>20. Popping(g, t)
  <2>1. t \in GraphType /\ t.name = g.name /\ Once(t.output) /\ Once(t.input)
    BY <1>6, <1>12, <1>13
  <2> QED BY <2>1, <1>14, <1>15, <1>16, <1>17, <1>18, <1>19 DEF Popping
<1>21. Len(t.output) = Len(h.output) + 1
  BY <1>6, <1>12, <1>13
<1> QED BY <1>20, <1>21 DEF t

---------------------------------------------------------------------------
(* The graph that is built. *)

(* The names that come before nothing, each once. *)
LEMMA FreeFacts ==
  ASSUME NEW g, Sound(g)
  PROVE  /\ Free(g) \in Seq(Names) /\ Once(Free(g))
         /\ \A x : x \in Listed(Free(g)) <=> x \in Listed(g.name) /\ g.before[x] = << >>
<1> DEFINE n == Len(g.name)
           Steps(f) == f = [i \in 0 .. n |-> IF i = 0 THEN << >>
                              ELSE IF g.before[g.name[i]] # << >> THEN f[i - 1]
                              ELSE Append(f[i - 1], g.name[i])]
           free == CHOOSE f : Steps(f)
<1>1. g.name \in Seq(Names) /\ n \in Nat /\ \A i \in 1 .. n : g.name[i] \in Names
  <2>1. g.name \in Seq(Names)
    BY SoundType
  <2> QED BY <2>1
<1>2. Free(g) = free[n]
  BY DEF Free
<1>3. Once(g.name)
  BY DEF Sound
<1> HIDE DEF n
<1>4. Steps(free)
  <2> DEFINE step == [p \in (1 .. n) \X Seq(Names) |->
                        IF g.before[g.name[p[1]]] # << >> THEN p[2] ELSE Append(p[2], g.name[p[1]])]
  <2>1. IsStep(step, n, Seq(Names))
    <3> SUFFICES ASSUME NEW i \in 1 .. n, NEW s \in Seq(Names) PROVE Append(s, g.name[i]) \in Seq(Names)
      BY DEF IsStep
    <3>1. g.name[i] \in Names
      BY <1>1
    <3> QED BY <3>1
  <2>2. \A i \in 1 .. n : \A s \in Seq(Names) :
           step[<<i, s>>] = IF g.before[g.name[i]] # << >> THEN s ELSE Append(s, g.name[i])
    OBVIOUS
  <2> HIDE DEF step
  <2>3. PICK f : Follows(f, n, Seq(Names), << >>, step)
    <3>1. << >> \in Seq(Names)
      OBVIOUS
    <3> QED BY <1>1, <2>1, <3>1, Recursion
  <2>4. f \in [0 .. n -> Seq(Names)] /\ f[0] = << >> /\ \A i \in 1 .. n : f[i] = step[<<i, f[i - 1]>>]
    BY <2>3 DEF Follows
  <2>5. ASSUME NEW i \in 1 .. n
        PROVE  f[i] = IF g.before[g.name[i]] # << >> THEN f[i - 1] ELSE Append(f[i - 1], g.name[i])
    <3>1. f[i - 1] \in Seq(Names)
      BY <1>1, <2>4
    <3> QED BY <2>2, <2>4, <3>1
  <2>6. \A i \in 0 .. n : f[i] = IF i = 0 THEN << >>
                              ELSE IF g.before[g.name[i]] # << >> THEN f[i - 1]
                              ELSE Append(f[i - 1], g.name[i])
    <3> SUFFICES ASSUME NEW i \in 0 .. n
                 PROVE  f[i] = IF i = 0 THEN << >>
                              ELSE IF g.before[g.name[i]] # << >> THEN f[i - 1]
                              ELSE Append(f[i - 1], g.name[i])
      OBVIOUS
    <3>1. CASE i = 0
      BY <2>4, <3>1
    <3>2. CASE i # 0
      <4>1. i \in 1 .. n
        BY <1>1, <3>2
      <4> QED BY <2>5, <3>2, <4>1
    <3> QED BY <3>1, <3>2
  <2>7. Steps(f)
    BY <2>4, <2>6
  <2> HIDE DEF Steps
  <2> QED BY <2>7 DEF free
<1> HIDE DEF free
<1> DEFINE Good(s, i) ==
             /\ s \in Seq(Names) /\ Once(s)
             /\ \A x : x \in Listed(s) <=> x \in Upto(g.name, i) /\ g.before[x] = << >>
           S == {i \in 0 .. n : Good(free[i], i)}
<1>5. free[0] = << >> /\ \A i \in 0 .. n - 1 :
        free[i + 1] = IF g.before[g.name[i + 1]] # << >> THEN free[i] ELSE Append(free[i], g.name[i + 1])
  <2>1. 0 \in 0 .. n
    BY <1>1
  <2>2. free[0] = << >>
    BY <1>4, <2>1
  <2>3. ASSUME NEW i \in 0 .. n - 1
        PROVE  free[i + 1] = IF g.before[g.name[i + 1]] # << >> THEN free[i] ELSE Append(free[i], g.name[i + 1])
    <3>1. i + 1 \in 0 .. n /\ i + 1 # 0 /\ (i + 1) - 1 = i
      BY <1>1
    <3>2. free[i + 1] = IF g.before[g.name[i + 1]] # << >> THEN free[(i + 1) - 1]
                        ELSE Append(free[(i + 1) - 1], g.name[i + 1])
      BY <1>4, <3>1
    <3> QED BY <3>1, <3>2
  <2> QED BY <2>2, <2>3
<1>6. 0 \in S
  <2>1. << >> \in Seq(Names) /\ Once(<< >>) /\ Listed(<< >>) = {} /\ Upto(g.name, 0) = {}
    BY DEF Once, Listed, Upto
  <2>2. Good(free[0], 0)
    BY <1>5, <2>1
  <2> HIDE DEF Good
  <2> QED BY <1>1, <2>2
<1>7. ASSUME NEW i \in 0 .. n - 1, i \in S PROVE i + 1 \in S
  <2> DEFINE s == free[i]
             x == g.name[i + 1]
             t == free[i + 1]
  <2>1. s \in Seq(Names) /\ Once(s) /\ \A a : a \in Listed(s) <=> a \in Upto(g.name, i) /\ g.before[a] = << >>
    BY <1>7
  <2>2. i \in Nat /\ i + 1 \in 0 .. n /\ i + 1 \in 1 .. n /\ x \in Names
    BY <1>1
  <2>3. Upto(g.name, i + 1) = Upto(g.name, i) \union {x}
    BY <2>2, UptoFacts
  <2>4. t = IF g.before[x] # << >> THEN s ELSE Append(s, x)
    BY <1>5
  <2>5. x \notin Upto(g.name, i)
    BY <1>1, <1>3, <2>2 DEF Once, Upto, n
  <2> HIDE DEF s, x, t
  <2>6. t \in Seq(Names) /\ Once(t) /\ \A a : a \in Listed(t) <=> a \in Upto(g.name, i + 1) /\ g.before[a] = << >>
    <3>1. CASE g.before[x] # << >>
      BY <2>1, <2>3, <2>4, <3>1
    <3>2. CASE g.before[x] = << >>
      <4>1. t = Append(s, x) /\ x \notin Listed(s)
        BY <2>1, <2>4, <2>5, <3>2
      <4>2. t \in Seq(Names) /\ Once(t) /\ Listed(t) = Listed(s) \union {x}
        BY <2>1, <2>2, <4>1, AppendFacts
      <4> QED BY <2>1, <2>3, <3>2, <4>2
    <3> QED BY <3>1, <3>2
  <2> QED BY <2>2, <2>6 DEF t
<1>8. \A i \in 0 .. n : i \in S
  <2> HIDE DEF S
  <2> QED BY <1>1, <1>6, <1>7, Induct
<1>9. Good(free[n], n)
  <2> HIDE DEF Good
  <2> QED BY <1>1, <1>8
<1>10. Upto(g.name, n) = Listed(g.name)
  BY UptoFacts DEF n
<1> QED BY <1>2, <1>9, <1>10

(* As much is popped as there are names, or there is nothing to pop. *)
LEMMA BuildFacts ==
  ASSUME NEW g, Sound(g)
  PROVE  /\ Popping(g, BagBuild(g))
         /\ BagBuild(g).input = << >> \/ Len(BagBuild(g).output) >= Len(g.name)
<1> DEFINE n == Len(g.name)
           start == [g EXCEPT !.input = Free(g)]
           Steps(f) == f = [i \in 0 .. n |-> IF i = 0 THEN start
                              ELSE LET h == f[i - 1] IN IF h.input = << >> THEN h ELSE PopInput(h)]
           pops == CHOOSE f : Steps(f)
           Good(h, i) == Popping(g, h) /\ (h.input = << >> \/ Len(h.output) >= i)
<1>1. /\ g \in GraphType /\ g.name \in Seq(Names) /\ n \in Nat /\ Listed(g.name) \subseteq Names
      /\ g.input = << >> /\ g.output = << >> /\ \A x \in Names : g.before[x] \in Seq(Names)
  BY SoundType
<1>2. BagBuild(g) = pops[n]
  BY DEF BagBuild
<1> HIDE DEF n
<1>3. Good(start, 0)
  <2>1. /\ start \in GraphType /\ start.input = Free(g) /\ start.output = << >>
        /\ start.name = g.name /\ start.before = g.before /\ start.after = g.after
    BY <1>1, FreeFacts DEF GraphType
  <2> HIDE DEF start
  <2>2. Once(start.output) /\ Listed(start.output) = {} /\ Len(start.output) = 0
    BY <2>1 DEF Once, Listed
  <2>3. Popping(g, start)
    BY <1>1, <2>1, <2>2, FreeFacts DEF Popping
  <2> QED BY <2>2, <2>3
<1> HIDE DEF start
<1>4. ASSUME NEW i \in 0 .. n - 1, NEW h, Good(h, i)
      PROVE  Good(IF h.input = << >> THEN h ELSE PopInput(h), i + 1)
  <2>1. CASE h.input = << >>
    BY <1>4, <2>1
  <2>2. CASE h.input # << >>
    <3>1. Popping(g, PopInput(h)) /\ Len(PopInput(h).output) = Len(h.output) + 1
      BY <1>4, <2>2, PopFacts
    <3>2. Len(h.output) >= i /\ Len(h.output) \in Nat
      <4>1. h.output \in Seq(Names)
        BY <1>4 DEF Popping, GraphType
      <4> QED BY <1>4, <2>2, <4>1
    <3> QED BY <2>2, <3>1, <3>2
  <2> QED BY <2>1, <2>2
<1>5. Steps(pops)
  <2> DEFINE G == {h \in GraphType : Popping(g, h)}
             step == [p \in (1 .. n) \X G |-> IF p[2].input = << >> THEN p[2] ELSE PopInput(p[2])]
  <2>0. \A h : Popping(g, h) => h \in G
    BY DEF Popping
  <2>1. IsStep(step, n, G)
    <3>1. ASSUME NEW h \in G, h.input # << >> PROVE PopInput(h) \in G
      <4>1. Popping(g, h)
        OBVIOUS
      <4>2. Popping(g, PopInput(h))
        BY <3>1, <4>1, PopFacts
      <4> HIDE DEF G
      <4> QED BY <2>0, <4>2
    <3> HIDE DEF G
    <3> QED BY <3>1 DEF IsStep
  <2>2. \A i \in 1 .. n : \A h \in G : step[<<i, h>>] = IF h.input = << >> THEN h ELSE PopInput(h)
    OBVIOUS
  <2>3. start \in G
    BY <1>3, <2>0
  <2> HIDE DEF step, G
  <2>4. PICK f : Follows(f, n, G, start, step)
    BY <1>1, <2>1, <2>3, Recursion
  <2>5. f \in [0 .. n -> G] /\ f[0] = start /\ \A i \in 1 .. n : f[i] = step[<<i, f[i - 1]>>]
    BY <2>4 DEF Follows
  <2>6. ASSUME NEW i \in 1 .. n
        PROVE  f[i] = LET h == f[i - 1] IN IF h.input = << >> THEN h ELSE PopInput(h)
    <3>1. f[i - 1] \in G
      BY <1>1, <2>5
    <3> QED BY <2>2, <2>5, <3>1
  <2>7. \A i \in 0 .. n : f[i] = IF i = 0 THEN start
                              ELSE LET h == f[i - 1] IN IF h.input = << >> THEN h ELSE PopInput(h)
    BY <1>1, <2>5, <2>6
  <2>8. Steps(f)
    BY <2>5, <2>7
  <2> HIDE DEF Steps
  <2> QED BY <2>8 DEF pops
<1> HIDE DEF pops
<1> DEFINE S == {i \in 0 .. n : Good(pops[i], i)}
<1>6. pops[0] = start /\ \A i \in 0 .. n - 1 :
        pops[i + 1] = IF pops[i].input = << >> THEN pops[i] ELSE PopInput(pops[i])
  BY <1>1, <1>5
<1>7. 0 \in S
  <2> HIDE DEF Good
  <2> QED BY <1>1, <1>3, <1>6
<1>8. ASSUME NEW i \in 0 .. n - 1, i \in S PROVE i + 1 \in S
  <2> HIDE DEF Good
  <2>1. Good(pops[i], i) /\ i + 1 \in 0 .. n
    BY <1>1, <1>8
  <2>2. Good(IF pops[i].input = << >> THEN pops[i] ELSE PopInput(pops[i]), i + 1)
    BY <1>4, <2>1
  <2>3. Good(pops[i + 1], i + 1)
    BY <1>6, <2>2
  <2> QED BY <2>1, <2>3
<1>9. \A i \in 0 .. n : i \in S
  <2> HIDE DEF S
  <2> QED BY <1>1, <1>7, <1>8, Induct
<1>10. Good(pops[n], n)
  <2> HIDE DEF Good
  <2> QED BY <1>1, <1>9
<1> QED BY <1>2, <1>10 DEF n

(* The output: names of the graph, each once, and each before every other   *)
(* that it is listed to come before.                                        *)
THEOREM OutputOrdered ==
  ASSUME NEW g, Sound(g)
  PROVE  /\ BagOutput(g) \in Seq(Names) /\ Once(BagOutput(g))
         /\ Listed(BagOutput(g)) \subseteq Listed(g.name)
         /\ \A i \in 1 .. Len(BagOutput(g)) : \A y \in Names : Arc(g, BagOutput(g)[i], y) =>
               \E j \in 1 .. Len(BagOutput(g)) : i < j /\ BagOutput(g)[j] = y
<1>1. Popping(g, BagBuild(g))
  BY BuildFacts
<1>2. BagBuild(g).output \in Seq(Names)
  BY <1>1 DEF Popping, GraphType
<1> QED BY <1>1, <1>2 DEF Popping, BagOutput

(* No circle: along an arc the rank falls. *)
Ranked(g) == \E rank \in [Names -> Nat] : \A x, y \in Names : Arc(g, x, y) => rank[y] < rank[x]

(* The output has every name of a graph whose lists do not go round in a    *)
(* circle.                                                                  *)
THEOREM OutputComplete ==
  ASSUME NEW g, Sound(g), Ranked(g)
  PROVE  Listed(BagOutput(g)) = Listed(g.name) /\ Len(BagOutput(g)) = Len(g.name)
<1> DEFINE h == BagBuild(g)
           o == h.output
<1>1. Popping(g, h) /\ (h.input = << >> \/ Len(o) >= Len(g.name))
  BY BuildFacts
<1>2. o = BagOutput(g)
  BY DEF BagOutput
<1> HIDE DEF h
<1>3. /\ o \in Seq(Names) /\ Once(o) /\ Listed(o) \subseteq Listed(g.name)
      /\ \A x \in Names : h.before[x] \in Seq(Names)
  BY <1>1 DEF Popping, GraphType
<1>4. g.name \in Seq(Names) /\ Once(g.name) /\ Listed(g.name) \subseteq Names
  BY SoundType DEF Sound
<1>5. /\ IsFiniteSet(Listed(o)) /\ Cardinality(Listed(o)) = Len(o) /\ Len(o) \in Nat
      /\ IsFiniteSet(Listed(g.name)) /\ Cardinality(Listed(g.name)) = Len(g.name) /\ Len(g.name) \in Nat
  BY <1>3, <1>4, OnceCounts
<1>6. Cardinality(Listed(o)) <= Cardinality(Listed(g.name)) /\
      (Cardinality(Listed(g.name)) = Cardinality(Listed(o)) => Listed(g.name) = Listed(o))
  BY <1>3, <1>5, FS_Subset
<1>7. Listed(o) = Listed(g.name)
  <2>1. CASE Len(o) >= Len(g.name)
    BY <1>5, <1>6, <2>1
  <2>2. CASE h.input = << >>
    <3> SUFFICES ASSUME Listed(g.name) \ Listed(o) # {} PROVE FALSE
      BY <1>3
    <3>1. PICK rank \in [Names -> Nat] : \A x, y \in Names : Arc(g, x, y) => rank[y] < rank[x]
      BY DEF Ranked
    <3> DEFINE T == {rank[x] : x \in Listed(g.name) \ Listed(o)}
    <3>2. T \in SUBSET Nat /\ T # {}
      BY <1>4
    <3>3. PICK m \in T : \A k \in T : m <= k
      <4> HIDE DEF T
      <4> QED BY <3>2, Least
    <3>4. PICK x \in Listed(g.name) \ Listed(o) : m = rank[x]
      OBVIOUS
    <3>5. x \in Names /\ h.before[x] # << >>
      <4>1. Listed(h.input) = {}
        BY <2>2 DEF Listed
      <4> QED BY <1>1, <1>4, <3>4, <4>1 DEF Popping
    <3>6. PICK y : y \in Listed(h.before[x])
      BY <1>3, <3>5, NothingListed
    <3>7. y \in Names /\ Count(h.before[x], y) # 0
      <4>1. h.before[x] \in Seq(Names)
        BY <1>3, <3>5
      <4>2. y \in Names
        BY <3>6, <4>1 DEF Listed
      <4> QED BY <3>6, <4>1, <4>2, CountType
    <3>8. y \notin Listed(o) /\ Count(g.before[x], y) # 0
      BY <1>1, <3>5, <3>7 DEF Popping
    <3>9. Arc(g, x, y)
      <4>1. g.before[x] \in Seq(Names)
        BY <3>5, SoundType
      <4> QED BY <3>8, <4>1, CountType DEF Arc
    <3>10. y \in Listed(g.name)
      BY <3>5, <3>7, <3>9 DEF Sound
    <3>11. rank[y] < rank[x] /\ rank[y] \in T /\ rank[y] \in Nat /\ rank[x] \in Nat
      BY <3>1, <3>5, <3>7, <3>8, <3>9, <3>10
    <3> HIDE DEF T
    <3> QED BY <3>3, <3>4, <3>11
  <2> QED BY <1>1, <2>1, <2>2
<1>8. Len(o) = Len(g.name)
  BY <1>5, <1>7
<1> QED BY <1>2, <1>7, <1>8

---------------------------------------------------------------------------
(* The order of things that are added one after the other. *)

(* x is listed to come before y, by the lists of one of the things added.   *)
Comes(s, before, after, x, y) ==
    (x \in Listed(s) /\ y \in Listed(before[x])) \/ (y \in Listed(s) /\ x \in Listed(after[y]))

(* What is added, and what the lists name besides. *)
Named(s, before, after) ==
    Listed(s) \union {x \in Names : \E y \in Names : \/ Comes(s, before, after, x, y)
                                                   \/ Comes(s, before, after, y, x)}

NoCircle(s, before, after) ==
    \E rank \in [Names -> Nat] :
        \A x, y \in Names : Comes(s, before, after, x, y) => rank[y] < rank[x]

(* o has them in the order of the lists, each once, and all of them when    *)
(* there is no circle.                                                      *)
Orders(o, s, before, after) ==
    /\ o \in Seq(Names) /\ Once(o) /\ Listed(o) \subseteq Named(s, before, after)
    /\ \A i, j \in 1 .. Len(o) : Comes(s, before, after, o[i], o[j]) => i < j
    /\ NoCircle(s, before, after) => Listed(o) = Named(s, before, after)

(* What a loop of ce_bag_add and ce_bag_build makes of the lists. *)
THEOREM OrderFollowsLists ==
  ASSUME NEW s \in Seq(Names), NEW before \in [Names -> Seq(Names)], NEW after \in [Names -> Seq(Names)]
  PROVE  Orders(BagOrder(s, before, after), s, before, after)
<1> DEFINE n == Len(s)
           next(i, g) == BagAdd(g, s[i], before[s[i]], after[s[i]])
           Steps(f) == f = [i \in 0 .. n |-> IF i = 0 THEN BagEmpty ELSE next(i, f[i - 1])]
           graph == CHOOSE f : Steps(f)
           Sounds == {g \in GraphType : Sound(g)}
<1>1. n \in Nat
  OBVIOUS
<1>2. BagOrder(s, before, after) = BagOutput(graph[n])
  BY DEF BagOrder
<1>3. \A i \in 1 .. n : s[i] \in Names
  OBVIOUS
<1>4. \A x \in Names : before[x] \in Seq(Names) /\ after[x] \in Seq(Names)
  OBVIOUS
<1>5. ASSUME NEW i \in 1 .. n, NEW g, Sound(g)
      PROVE  next(i, g) \in Sounds /\ Added(g, s[i], before[s[i]], after[s[i]], next(i, g))
  <2> DEFINE x == s[i]
             h == next(i, g)
  <2>1. x \in Names /\ before[x] \in Seq(Names) /\ after[x] \in Seq(Names)
    BY <1>3, <1>4
  <2>2. h = BagAdd(g, x, before[x], after[x])
    OBVIOUS
  <2> HIDE DEF x, h
  <2>3. Added(g, x, before[x], after[x], h)
    BY <1>5, <2>1, <2>2, AddFacts
  <2>4. h \in Sounds
    BY <2>3, SoundType DEF Added
  <2> QED BY <2>3, <2>4 DEF x, h
<1>6. /\ Sound(BagEmpty) /\ BagEmpty \in Sounds /\ Listed(BagEmpty.name) = {}
      /\ \A a, b \in Names : ~ Arc(BagEmpty, a, b)
  <2>1. Sound(BagEmpty) /\ Listed(BagEmpty.name) = {} /\ \A a, b \in Names : ~ Arc(BagEmpty, a, b)
    BY EmptyFacts
  <2> QED BY <2>1, SoundType
<1>7. \A g \in Sounds : Sound(g)
  OBVIOUS
<1> HIDE DEF n, Sounds, next
<1>8. Steps(graph)
  <2> DEFINE step == [p \in (1 .. n) \X Sounds |-> next(p[1], p[2])]
  <2>1. IsStep(step, n, Sounds)
    BY <1>5, <1>7 DEF IsStep
  <2>2. \A i \in 1 .. n : \A g \in Sounds : step[<<i, g>>] = next(i, g)
    OBVIOUS
  <2> HIDE DEF step
  <2>3. PICK f : Follows(f, n, Sounds, BagEmpty, step)
    BY <1>1, <1>6, <2>1, Recursion
  <2>4. f \in [0 .. n -> Sounds] /\ f[0] = BagEmpty /\ \A i \in 1 .. n : f[i] = step[<<i, f[i - 1]>>]
    BY <2>3 DEF Follows
  <2>5. ASSUME NEW i \in 1 .. n PROVE f[i] = next(i, f[i - 1])
    <3> HIDE DEF Steps
    <3>1. i - 1 \in 0 .. n
      BY <1>1
    <3>2. f[i - 1] \in Sounds
      BY <2>4, <3>1
    <3> QED BY <2>2, <2>4, <3>2
  <2>6. \A i \in 0 .. n : f[i] = IF i = 0 THEN BagEmpty ELSE next(i, f[i - 1])
    BY <1>1, <2>4, <2>5
  <2>7. Steps(f)
    BY <2>4, <2>6
  <2> HIDE DEF Steps
  <2> QED BY <2>7 DEF graph
<1> HIDE DEF graph
<1> DEFINE K(i) == {s[k] : k \in 1 .. i}
           Upon(i, x, y) == (x \in K(i) /\ y \in Listed(before[x])) \/ (y \in K(i) /\ x \in Listed(after[y]))
           Good(g, i) ==
             /\ Sound(g)
             /\ \A x \in Names : x \in Listed(g.name) <=>
                   x \in K(i) \/ \E y \in Names : Upon(i, x, y) \/ Upon(i, y, x)
             /\ \A x, y \in Names : Arc(g, x, y) <=> Upon(i, x, y)
           S == {i \in 0 .. n : Good(graph[i], i)}
<1>9. graph[0] = BagEmpty /\ \A i \in 0 .. n - 1 : graph[i + 1] = next(i + 1, graph[i])
  BY <1>1, <1>8
<1>10. 0 \in S
  <2>1. K(0) = {}
    OBVIOUS
  <2> HIDE DEF K
  <2>2. Good(graph[0], 0)
    BY <1>6, <1>9, <2>1
  <2> HIDE DEF Good
  <2> QED BY <1>1, <2>2
<1>11. ASSUME NEW i \in 0 .. n - 1, i \in S PROVE i + 1 \in S
  <2> DEFINE z == s[i + 1]
             g == graph[i]
             h == graph[i + 1]
  <2>1. i + 1 \in 0 .. n /\ i + 1 \in 1 .. n /\ Good(g, i)
    BY <1>1, <1>11
  <2>2. K(i + 1) = K(i) \union {z}
    BY <1>1, 1 .. i + 1 = (1 .. i) \union {i + 1}
  <2>3. z \in Names /\ before[z] \in Seq(Names) /\ after[z] \in Seq(Names)
    BY <1>3, <1>4, <2>1
  <2>4. h = next(i + 1, g)
    BY <1>9
  <2>5. Added(g, z, before[z], after[z], h)
    <3>1. Sound(g)
      BY <2>1
    <3> HIDE DEF Good, K, S, g
    <3>2. Added(g, z, before[z], after[z], next(i + 1, g))
      BY <1>5, <2>1, <3>1
    <3> QED BY <2>4, <3>2
  <2> HIDE DEF K, z, g, h
  <2>6. \A x, y \in Names : Upon(i + 1, x, y) <=>
           Upon(i, x, y) \/ (x = z /\ y \in Listed(before[z])) \/ (y = z /\ x \in Listed(after[z]))
    BY <2>2
  <2>7. \A x, y \in Names : Arc(h, x, y) <=> Upon(i + 1, x, y)
    BY <2>1, <2>5, <2>6 DEF Added
  <2>8. \A x \in Names : x \in Listed(h.name) <=>
          x \in K(i + 1) \/ \E y \in Names : Upon(i + 1, x, y) \/ Upon(i + 1, y, x)
    <3>1. Sound(h) /\ Listed(h.name) = Listed(g.name) \union {z} \union Listed(before[z]) \union Listed(after[z])
      BY <2>5 DEF Added
    <3>2. \A x \in Names : x \in Listed(g.name) <=>
            x \in K(i) \/ \E y \in Names : Upon(i, x, y) \/ Upon(i, y, x)
      BY <2>1
    <3> HIDE DEF Upon, Good
    <3> QED BY <2>2, <2>3, <2>6, <3>1, <3>2
  <2>9. Good(h, i + 1)
    <3>1. Sound(h)
      BY <2>5 DEF Added
    <3> HIDE DEF Upon
    <3> QED BY <2>7, <2>8, <3>1
  <2> HIDE DEF Good
  <2> QED BY <2>1, <2>9 DEF h
<1>12. \A i \in 0 .. n : i \in S
  <2> HIDE DEF S
  <2> QED BY <1>1, <1>10, <1>11, Induct
<1>13. Good(graph[n], n)
  <2> HIDE DEF Good
  <2> QED BY <1>1, <1>12
<1>14. K(n) = Listed(s)
  BY DEF Listed, n
<1> DEFINE g == graph[n]
           o == BagOrder(s, before, after)
           N == Named(s, before, after)
           C(x, y) == Comes(s, before, after, x, y)
<1>15. \A x, y : Upon(n, x, y) <=> C(x, y)
  <2> HIDE DEF K
  <2> QED BY <1>14 DEF Comes
<1> HIDE DEF K, Upon, g, o, C
<1>16. /\ Sound(g) /\ Listed(g.name) = N
       /\ \A x, y \in Names : Arc(g, x, y) <=> C(x, y)
  <2>1. Sound(g) /\ \A x, y \in Names : Arc(g, x, y) <=> C(x, y)
    BY <1>13, <1>15 DEF g
  <2>2. \A x \in Names : x \in Listed(g.name) <=> x \in Listed(s) \/ \E y \in Names : C(x, y) \/ C(y, x)
    BY <1>13, <1>14, <1>15 DEF g
  <2>3. \A x \in Names : x \in N <=> x \in Listed(s) \/ \E y \in Names : C(x, y) \/ C(y, x)
    BY DEF Named, C
  <2>4. N \subseteq Names
    BY <1>3 DEF Named, Listed, n
  <2>5. Listed(g.name) \subseteq Names
    BY <2>1, SoundType
  <2> HIDE DEF N
  <2> QED BY <2>1, <2>2, <2>3, <2>4, <2>5
<1> HIDE DEF N
<1>17. /\ o = BagOutput(g)
       /\ o \in Seq(Names) /\ Once(o) /\ Listed(o) \subseteq N
       /\ \A i \in 1 .. Len(o) : \A y \in Names : Arc(g, o[i], y) =>
             \E j \in 1 .. Len(o) : i < j /\ o[j] = y
  <2>1. o = BagOutput(g)
    BY <1>2 DEF o, g
  <2> QED BY <1>16, <2>1, OutputOrdered
<1>18. ASSUME NEW i \in 1 .. Len(o), NEW j \in 1 .. Len(o), C(o[i], o[j])
       PROVE  i < j
  <2>1. o[i] \in Names /\ o[j] \in Names
    BY <1>17
  <2>2. PICK k \in 1 .. Len(o) : i < k /\ o[k] = o[j]
    BY <1>16, <1>17, <1>18, <2>1
  <2>3. k = j
    BY <1>17, <2>2 DEF Once
  <2> QED BY <2>2, <2>3
<1>19. ASSUME NoCircle(s, before, after) PROVE Listed(o) = N
  <2>1. Ranked(g)
    BY <1>16, <1>19 DEF NoCircle, Ranked, C
  <2> QED BY <1>16, <1>17, <2>1, OutputComplete
<1>20. Orders(o, s, before, after)
  BY <1>17, <1>18, <1>19 DEF Orders, N, C
<1> QED BY <1>20 DEF o

=============================================================================
