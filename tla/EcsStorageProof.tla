--------------------------- MODULE EcsStorageProof ---------------------------
(***************************************************************************)
(* What the functions of ecs.c that EcsStorage models do to a world, for   *)
(* any entities, components, data, chunks and capacity: one lemma for what *)
(* a function keeps of the lists of chunks and the index of entities, and  *)
(* one for the places it changes.  Then that EcsStorage implements         *)
(* EcsWorld: the invariant of the storage, action by action, and the step  *)
(* of the world that each action is.                                       *)
(***************************************************************************)
EXTENDS EcsStorage, SequenceTheorems, FiniteSetTheorems, TLAPS

---------------------------------------------------------------------------
(* Types of the parts of a world. *)

Fits(m) == {d \in [m -> Data \union SUBSET Entities] : \A c \in m : d[c] \in Val(c)}
Contents == UNION {Fits(m) : m \in SUBSET Comps}
Places == [ent : Entities, data : Contents]
Links == Chunks \union {NoChunk}
ChunkRecs == [mask : SUBSET Comps, slots : Seq(Places), next : Links, prev : Links]
Worlds == [chunk : [Chunks -> ChunkRecs], used : SUBSET Chunks, first : [Masks -> Links],
           entChunk : [Entities -> Links], entIdx : [Entities -> 0 .. Capacity]]

(* The chunks of an archetype are linked in both directions and there are   *)
(* at most two of them; a chunk that is not used is blank.                  *)
Linked(s) ==
    /\ \A m \in Masks : s.first[m] # NoChunk =>
          s.first[m] \in s.used /\ s.chunk[s.first[m]].mask = m
    /\ \A k \in s.used :
          /\ s.chunk[k].mask \in Masks
          /\ s.chunk[k].prev = NoChunk => s.first[s.chunk[k].mask] = k
          /\ s.chunk[k].prev # NoChunk =>
                s.chunk[k].prev \in s.used /\ s.chunk[s.chunk[k].prev].next = k
          /\ s.chunk[k].next # NoChunk =>
                /\ s.chunk[k].next \in s.used
                /\ s.chunk[s.chunk[k].next].prev = k
                /\ s.chunk[s.chunk[k].next].mask = s.chunk[k].mask
                /\ s.chunk[s.chunk[k].next].next = NoChunk
    /\ \A k \in Chunks \ s.used : s.chunk[k] = Blank

(* What the places hold fits them, and there are not too many or none. *)
Filled(s) ==
    /\ \A k \in Chunks : \A i \in DOMAIN s.chunk[k].slots :
          s.chunk[k].slots[i].data \in Fits(s.chunk[k].mask)
    /\ \A k \in s.used : Len(s.chunk[k].slots) <= Capacity
Occupied(s) == \A k \in s.used : s.chunk[k].slots # << >>

(* The parts of a world have their types. *)
LEMMA WorldTypes ==
  ASSUME NEW s \in Worlds
  PROVE  /\ s.chunk \in [Chunks -> ChunkRecs] /\ s.used \subseteq Chunks
         /\ s.first \in [Masks -> Links] /\ s.entChunk \in [Entities -> Links]
         /\ s.entIdx \in [Entities -> 0 .. Capacity]
         /\ \A k \in Chunks : /\ s.chunk[k].mask \in SUBSET Comps /\ s.chunk[k].slots \in Seq(Places)
                              /\ s.chunk[k].next \in Links /\ s.chunk[k].prev \in Links
BY DEF Worlds, ChunkRecs

(* A blank chunk is a chunk. *)
LEMMA BlankTypes ==
  /\ Blank \in ChunkRecs /\ Blank.slots = << >> /\ Blank.mask = {}
  /\ Blank.next = NoChunk /\ Blank.prev = NoChunk
  /\ \A m \in SUBSET Comps, n \in Links :
        LET c == [Blank EXCEPT !.mask = m, !.next = n]
        IN  c \in ChunkRecs /\ c.mask = m /\ c.slots = << >> /\ c.next = n /\ c.prev = NoChunk
  /\ \A m \in SUBSET Comps :
        LET c == [Blank EXCEPT !.mask = m]
        IN  c \in ChunkRecs /\ c.mask = m /\ c.slots = << >> /\ c.next = NoChunk /\ c.prev = NoChunk
<1>1. << >> \in Seq(Places)
  BY EmptySeq
<1> QED BY <1>1 DEF Blank, ChunkRecs, Links

(* It has no place. *)
LEMMA BlankChunk ==
  Blank \in ChunkRecs /\ Blank.slots = << >> /\ DOMAIN Blank.slots = {}
<1>1. << >> \in Seq(Places) /\ DOMAIN << >> = {}
  BY EmptySeq
<1> QED BY <1>1, BlankTypes DEF Blank

---------------------------------------------------------------------------
(* Adding an entity to an archetype. *)

(* A chunk taken from the pool is one that was free (chunk_pool_free). *)
LEMMA FreeChunk ==
  ASSUME NEW s \in Worlds, Chunks \ s.used # {}
  PROVE  NewChunk(s) \in Chunks /\ NewChunk(s) \notin s.used /\ NewChunk(s) # NoChunk
<1>1. \E k \in Chunks \ s.used : TRUE
  OBVIOUS
<1>2. NewChunk(s) \in Chunks \ s.used
  BY <1>1 DEF NewChunk
<1> QED BY <1>2, ChunkAssumption

(* The archetype is there, with its first chunk. *)
LEMMA ArchetypeMade ==
  ASSUME NEW s \in Worlds, Linked(s), Filled(s), NEW m \in Masks, Chunks \ s.used # {}
  PROVE  LET a == WithArchetype(s, m)
         IN  /\ a \in Worlds /\ Linked(a) /\ Filled(a)
             /\ a.first[m] \in a.used /\ a.chunk[a.first[m]].mask = m
             /\ s.first[m] # NoChunk => a = s
             /\ s.first[m] = NoChunk => a.chunk[a.first[m]].next = NoChunk
             /\ s.used \subseteq a.used /\ a.used \subseteq s.used \union {a.first[m]}
             /\ \A j \in Chunks : a.chunk[j].slots = s.chunk[j].slots
             /\ \A j \in s.used : a.chunk[j] = s.chunk[j]
             /\ \A n \in Masks : n # m => a.first[n] = s.first[n]
             /\ a.entChunk = s.entChunk /\ a.entIdx = s.entIdx
<1> DEFINE a == WithArchetype(s, m)
           k == NewChunk(s)
           c == [Blank EXCEPT !.mask = m]
<1>1. CASE s.first[m] # NoChunk
  <2>1. a = s
    BY <1>1 DEF WithArchetype
  <2>2. s.first[m] \in s.used /\ s.chunk[s.first[m]].mask = m
    BY <1>1 DEF Linked
  <2> HIDE DEF a
  <2> QED BY <1>1, <2>1, <2>2 DEF a
<1>2. CASE s.first[m] = NoChunk
  <2>0. m \in SUBSET Comps /\ m # {}
    BY DEF Masks
  <2>1. k \in Chunks /\ k \notin s.used /\ k # NoChunk
    BY FreeChunk
  <2>2. c \in ChunkRecs /\ c.mask = m /\ c.slots = << >> /\ c.next = NoChunk /\ c.prev = NoChunk
    BY <2>0, BlankTypes
  <2>3. a = [s EXCEPT !.used = @ \union {k}, !.first[m] = k, !.chunk[k] = c]
    BY <1>2 DEF WithArchetype
  <2> HIDE DEF a, c, k
  <2>4. /\ a.used = s.used \union {k}
        /\ a.first = [s.first EXCEPT ![m] = k]
        /\ a.chunk = [s.chunk EXCEPT ![k] = c]
        /\ a.entChunk = s.entChunk /\ a.entIdx = s.entIdx
    BY <2>3 DEF Worlds
  <2>5. a \in Worlds
    <3>1. a.used \in SUBSET Chunks
      BY <2>1, <2>4, WorldTypes
    <3>2. a.first \in [Masks -> Links]
      BY <2>1, <2>4, WorldTypes DEF Links
    <3>3. a.chunk \in [Chunks -> ChunkRecs]
      <4>1. s.chunk \in [Chunks -> ChunkRecs]
        BY WorldTypes
      <4> QED BY <2>2, <2>4, <4>1
    <3> QED BY <2>3, <3>1, <3>2, <3>3 DEF Worlds
  <2>6. /\ a.first[m] = k /\ \A n \in Masks : n # m => a.first[n] = s.first[n]
        /\ a.chunk[k] = c /\ \A j \in Chunks : j # k => a.chunk[j] = s.chunk[j]
    BY <2>1, <2>4, WorldTypes
  <2>7. s.chunk[k] = Blank
    BY <2>1 DEF Linked
  <2>8. \A j \in Chunks : a.chunk[j].slots = s.chunk[j].slots
    BY <2>2, <2>6, <2>7, BlankTypes
  <2>9. \A j \in s.used : j # k /\ j \in Chunks /\ a.chunk[j] = s.chunk[j]
    BY <2>1, <2>6, WorldTypes
  <2>10. Linked(a)
    <3>1. ASSUME NEW n \in Masks, a.first[n] # NoChunk
          PROVE  a.first[n] \in a.used /\ a.chunk[a.first[n]].mask = n
      BY <2>2, <2>4, <2>6, <2>9, <3>1 DEF Linked
    <3>2. ASSUME NEW j \in a.used
          PROVE  /\ a.chunk[j].mask \in Masks
                 /\ a.chunk[j].prev = NoChunk => a.first[a.chunk[j].mask] = j
                 /\ a.chunk[j].prev # NoChunk =>
                      a.chunk[j].prev \in a.used /\ a.chunk[a.chunk[j].prev].next = j
                 /\ a.chunk[j].next # NoChunk =>
                      /\ a.chunk[j].next \in a.used
                      /\ a.chunk[a.chunk[j].next].prev = j
                      /\ a.chunk[a.chunk[j].next].mask = a.chunk[j].mask
                      /\ a.chunk[a.chunk[j].next].next = NoChunk
      <4>1. CASE j = k
        BY <2>2, <2>6, <4>1
      <4>2. CASE j # k
        <5>1. j \in s.used /\ a.chunk[j] = s.chunk[j]
          BY <2>4, <2>9, <4>2
        <5>2. s.chunk[j].prev = NoChunk => s.chunk[j].mask # m
          BY <1>2, <5>1, <2>9, ChunkAssumption, WorldTypes DEF Linked
        <5> QED BY <2>4, <2>6, <2>9, <5>1, <5>2 DEF Linked
      <4> QED BY <4>1, <4>2
    <3>3. \A j \in Chunks \ a.used : a.chunk[j] = Blank
      BY <2>4, <2>6 DEF Linked
    <3> QED BY <3>1, <3>2, <3>3 DEF Linked
  <2>11. Filled(a)
    <3>1. ASSUME NEW j \in Chunks, NEW i \in DOMAIN a.chunk[j].slots
          PROVE  a.chunk[j].slots[i].data \in Fits(a.chunk[j].mask)
      <4>1. j # k
        BY <2>2, <2>6, <3>1, EmptySeq
      <4> QED BY <2>6, <3>1, <4>1 DEF Filled
    <3>2. ASSUME NEW j \in a.used PROVE Len(a.chunk[j].slots) <= Capacity
      <4>1. CASE j = k
        BY <2>2, <2>6, <4>1, CapacityAssumption, EmptySeq
      <4>2. CASE j # k
        BY <2>4, <2>9, <4>2 DEF Filled
      <4> QED BY <4>1, <4>2
    <3> QED BY <3>1, <3>2 DEF Filled
  <2> QED BY <1>2, <2>1, <2>2, <2>4, <2>5, <2>6, <2>8, <2>9, <2>10, <2>11 DEF a
<1> QED BY <1>1, <1>2

(* Before the first chunk of an archetype there is none. *)
LEMMA FirstIsFirst ==
  ASSUME NEW s \in Worlds, Linked(s), NEW k \in s.used, s.first[s.chunk[k].mask] = k
  PROVE  s.chunk[k].prev = NoChunk
<1> SUFFICES ASSUME s.chunk[k].prev # NoChunk PROVE FALSE
  OBVIOUS
<1> DEFINE p == s.chunk[k].prev
           q == s.chunk[p].prev
<1>1. p \in s.used /\ s.chunk[p].next = k /\ k # NoChunk
  BY ChunkAssumption, WorldTypes DEF Linked
<1>2. s.chunk[k].mask = s.chunk[p].mask /\ s.chunk[k].next = NoChunk
  BY <1>1 DEF Linked
<1>3. p # k
  BY <1>1, <1>2
<1>4. q # NoChunk
  BY <1>1, <1>2, <1>3 DEF Linked
<1>5. q \in s.used /\ s.chunk[q].next = p
  BY <1>1, <1>4 DEF Linked
<1>6. p # NoChunk => s.chunk[p].next = NoChunk
  BY <1>5 DEF Linked
<1> QED BY <1>1, <1>6

(* An archetype that has a chunk has a first one. *)
LEMMA FirstThere ==
  ASSUME NEW s \in Worlds, Linked(s), NEW k \in s.used
  PROVE  s.first[s.chunk[k].mask] # NoChunk
<1> DEFINE p == s.chunk[k].prev
<1>1. k # NoChunk
  BY ChunkAssumption, WorldTypes
<1>2. CASE p = NoChunk
  BY <1>1, <1>2 DEF Linked
<1>3. CASE p # NoChunk
  <2>1. p \in s.used /\ s.chunk[p].next = k /\ s.chunk[p].mask = s.chunk[k].mask
    BY <1>1, <1>3 DEF Linked
  <2>2. s.chunk[p].prev = NoChunk
    <3> SUFFICES ASSUME s.chunk[p].prev # NoChunk PROVE FALSE
      OBVIOUS
    <3> DEFINE q == s.chunk[p].prev
    <3>1. q \in s.used /\ s.chunk[q].next = p
      BY <2>1 DEF Linked
    <3>2. s.chunk[p].next = NoChunk
      BY <1>3, <3>1 DEF Linked
    <3> QED BY <1>1, <2>1, <3>2
  <2> QED BY <1>3, <2>1, <2>2 DEF Linked
<1> QED BY <1>2, <1>3

(* The search for room ends at the second chunk at the latest.              *)
LEMMA RoomFound ==
  ASSUME NEW s \in Worlds, Linked(s), NEW m \in Masks, s.first[m] # NoChunk,
         LET k == s.first[m] IN Full(s, k) /\ s.chunk[k].next # NoChunk => ~ Full(s, s.chunk[k].next)
  PROVE  LET last == RoomOrLast(s, m)
         IN  /\ last \in s.used /\ s.chunk[last].mask = m
             /\ Full(s, last) => s.first[m] = last /\ s.chunk[last].next = NoChunk
<1> DEFINE F(f) == [k \in Chunks |-> IF Full(s, k) /\ s.chunk[k].next # NoChunk THEN f[s.chunk[k].next] ELSE k]
           from == CHOOSE f : f = F(f)
           g == [k \in Chunks |-> IF Full(s, k) /\ s.chunk[k].next # NoChunk THEN s.chunk[k].next ELSE k]
<1>1. ASSUME NEW k \in Chunks, s.chunk[k].next # NoChunk
      PROVE  s.chunk[k].next \in s.used /\ s.chunk[k].next \in Chunks /\ s.chunk[s.chunk[k].next].next = NoChunk
  <2>1. k \in s.used
    BY <1>1, BlankTypes DEF Linked
  <2> QED BY <1>1, <2>1, WorldTypes DEF Linked
<1>2. g = F(g)
  BY <1>1
<1>3. RoomOrLast(s, m) = from[s.first[m]]
  BY DEF RoomOrLast
<1>4. from = F(from)
  <2> HIDE DEF F
  <2> QED BY <1>2
<1> HIDE DEF from
<1>5. s.first[m] \in s.used /\ s.first[m] \in Chunks /\ s.chunk[s.first[m]].mask = m
  BY WorldTypes DEF Linked
<1>6. CASE Full(s, s.first[m]) /\ s.chunk[s.first[m]].next # NoChunk
  <2> DEFINE n == s.chunk[s.first[m]].next
  <2>1. n \in s.used /\ n \in Chunks /\ s.chunk[n].next = NoChunk /\ s.chunk[n].mask = m
    BY <1>1, <1>5, <1>6 DEF Linked
  <2>2. from[s.first[m]] = from[n]
    BY <1>4, <1>5, <1>6
  <2>3. from[n] = n
    BY <1>4, <2>1
  <2>4. ~ Full(s, n)
    BY <1>6
  <2> QED BY <1>3, <2>1, <2>2, <2>3, <2>4
<1>7. CASE ~ (Full(s, s.first[m]) /\ s.chunk[s.first[m]].next # NoChunk)
  <2>1. from[s.first[m]] = s.first[m]
    BY <1>4, <1>5, <1>7
  <2> QED BY <1>3, <1>5, <1>7, <2>1
<1> QED BY <1>6, <1>7

(* A full archetype of one chunk gets another one before it.                *)
LEMMA ChunkPrepended ==
  ASSUME NEW s \in Worlds, Linked(s), Filled(s), NEW last \in s.used, Chunks \ s.used # {},
         s.first[s.chunk[last].mask] = last, s.chunk[last].next = NoChunk
  PROVE  LET m == s.chunk[last].mask
             b == Prepended(s, last)
         IN  /\ b \in Worlds /\ Linked(b) /\ Filled(b)
             /\ b.first[m] \in b.used /\ b.chunk[b.first[m]].mask = m /\ b.first[m] \notin s.used
             /\ s.used \subseteq b.used /\ b.used \subseteq s.used \union {b.first[m]}
             /\ \A j \in Chunks : b.chunk[j].slots = s.chunk[j].slots
             /\ \A j \in s.used : b.chunk[j].mask = s.chunk[j].mask
             /\ \A j \in s.used : j # last => b.chunk[j] = s.chunk[j]
             /\ \A n \in Masks : n # m => b.first[n] = s.first[n]
             /\ b.entChunk = s.entChunk /\ b.entIdx = s.entIdx
<1> DEFINE m == s.chunk[last].mask
           b == Prepended(s, last)
           k == NewChunk(s)
           c == [Blank EXCEPT !.mask = m, !.next = last]
           l == [s.chunk[last] EXCEPT !.next = NoChunk, !.prev = k]
<1>1. last \in Chunks /\ last # NoChunk /\ m \in Masks /\ m \in SUBSET Comps /\ last \in Links /\ NoChunk \in Links
  BY ChunkAssumption, WorldTypes DEF Linked, Masks, Links
<1>2. k \in Chunks /\ k \notin s.used /\ k # NoChunk /\ k # last
  BY FreeChunk
<1>3. c \in ChunkRecs /\ c.mask = m /\ c.slots = << >> /\ c.next = last /\ c.prev = NoChunk
  <2> HIDE DEF m
  <2> QED BY <1>1, EmptySeq DEF Blank, ChunkRecs
<1>4. l \in ChunkRecs /\ l.mask = m /\ l.slots = s.chunk[last].slots /\ l.next = NoChunk /\ l.prev = k
  <2>1. s.chunk[last] \in ChunkRecs /\ k \in Links
    BY <1>1, <1>2, WorldTypes DEF Links
  <2> QED BY <1>1, <2>1 DEF ChunkRecs
<1>5. b = [s EXCEPT !.used = @ \union {k}, !.first[m] = k,
                    !.chunk = [[s.chunk EXCEPT ![last] = l] EXCEPT ![k] = c]]
  BY <1>1, WorldTypes DEF Prepended
<1> HIDE DEF b, c, l, k
<1>6. /\ b.used = s.used \union {k}
      /\ b.first = [s.first EXCEPT ![m] = k]
      /\ b.chunk = [[s.chunk EXCEPT ![last] = l] EXCEPT ![k] = c]
      /\ b.entChunk = s.entChunk /\ b.entIdx = s.entIdx
  BY <1>5 DEF Worlds
<1>7. b \in Worlds
  <2>1. b.used \in SUBSET Chunks
    BY <1>2, <1>6, WorldTypes
  <2>2. b.first \in [Masks -> Links]
    <3>1. s.first \in [Masks -> Links] /\ k \in Links
      BY <1>2, WorldTypes DEF Links
    <3> QED BY <1>6, <3>1
  <2>3. b.chunk \in [Chunks -> ChunkRecs]
    <3>1. s.chunk \in [Chunks -> ChunkRecs]
      BY WorldTypes
    <3> QED BY <1>3, <1>4, <1>6, <3>1
  <2> QED BY <1>5, <2>1, <2>2, <2>3 DEF Worlds
<1>8. /\ b.first[m] = k /\ \A n \in Masks : n # m => b.first[n] = s.first[n]
      /\ b.chunk[k] = c /\ b.chunk[last] = l
      /\ \A j \in Chunks : j # k /\ j # last => b.chunk[j] = s.chunk[j]
  BY <1>1, <1>2, <1>6, WorldTypes
<1>9. s.chunk[k] = Blank /\ s.chunk[last].prev = NoChunk
  BY <1>2, FirstIsFirst DEF Linked
<1>10. \A j \in Chunks : b.chunk[j].slots = s.chunk[j].slots
  BY <1>3, <1>4, <1>8, <1>9, BlankTypes
<1>11. \A j \in s.used : j \in Chunks /\ j # k /\ b.chunk[j].mask = s.chunk[j].mask
  BY <1>2, <1>4, <1>8, WorldTypes
<1>12. Linked(b)
  <2>1. ASSUME NEW n \in Masks, b.first[n] # NoChunk
        PROVE  b.first[n] \in b.used /\ b.chunk[b.first[n]].mask = n
    BY <1>3, <1>6, <1>8, <1>11, <2>1 DEF Linked
  <2>2. ASSUME NEW j \in b.used
        PROVE  /\ b.chunk[j].mask \in Masks
               /\ b.chunk[j].prev = NoChunk => b.first[b.chunk[j].mask] = j
               /\ b.chunk[j].prev # NoChunk =>
                    b.chunk[j].prev \in b.used /\ b.chunk[b.chunk[j].prev].next = j
               /\ b.chunk[j].next # NoChunk =>
                    /\ b.chunk[j].next \in b.used
                    /\ b.chunk[b.chunk[j].next].prev = j
                    /\ b.chunk[b.chunk[j].next].mask = b.chunk[j].mask
                    /\ b.chunk[b.chunk[j].next].next = NoChunk
    <3>1. CASE j = k
      BY <1>1, <1>3, <1>4, <1>6, <1>8, <3>1
    <3>2. CASE j = last
      BY <1>1, <1>2, <1>3, <1>4, <1>6, <1>8, <3>2
    <3>3. CASE j # k /\ j # last
      <4>1. j \in s.used /\ j \in Chunks /\ b.chunk[j] = s.chunk[j]
        BY <1>6, <1>8, <1>11, <3>3
      <4>2. s.chunk[j].mask \in Masks
        BY <4>1 DEF Linked
      <4>3. s.chunk[j].prev = NoChunk => s.first[s.chunk[j].mask] = j /\ s.chunk[j].mask # m
        BY <3>3, <4>1 DEF Linked
      <4>4. s.chunk[j].prev # NoChunk => /\ s.chunk[j].prev \in s.used /\ s.chunk[s.chunk[j].prev].next = j
                                         /\ s.chunk[j].prev # last
        BY <1>1, <4>1, ChunkAssumption DEF Linked
      <4>5. s.chunk[j].next # NoChunk =>
                    /\ s.chunk[j].next \in s.used /\ s.chunk[j].next # last
                    /\ s.chunk[s.chunk[j].next].prev = j
                    /\ s.chunk[s.chunk[j].next].mask = s.chunk[j].mask
                    /\ s.chunk[s.chunk[j].next].next = NoChunk
        BY <1>9, <4>1, ChunkAssumption DEF Linked
      <4> QED BY <1>6, <1>8, <1>11, <4>1, <4>2, <4>3, <4>4, <4>5
    <3> QED BY <3>1, <3>2, <3>3
  <2>3. \A j \in Chunks \ b.used : b.chunk[j] = Blank
    BY <1>6, <1>8 DEF Linked
  <2> QED BY <2>1, <2>2, <2>3 DEF Linked
<1>13. Filled(b)
  <2>1. ASSUME NEW j \in Chunks, NEW i \in DOMAIN b.chunk[j].slots
        PROVE  b.chunk[j].slots[i].data \in Fits(b.chunk[j].mask)
    <3>1. j # k
      BY <1>3, <1>8, <2>1, EmptySeq
    <3> QED BY <1>4, <1>8, <2>1, <3>1 DEF Filled
  <2>2. ASSUME NEW j \in b.used PROVE Len(b.chunk[j].slots) <= Capacity
    <3>1. CASE j = k
      BY <1>3, <1>8, <3>1, CapacityAssumption, EmptySeq
    <3>2. CASE j # k
      BY <1>6, <1>10, <1>11, <3>2 DEF Filled
    <3> QED BY <3>1, <3>2
  <2> QED BY <2>1, <2>2 DEF Filled
<1> QED BY <1>2, <1>3, <1>6, <1>7, <1>8, <1>10, <1>11, <1>12, <1>13 DEF b

(* Other slots in one chunk leave its archetype as it is. *)
Refilled(s, t, k, x) ==
    /\ t.used = s.used /\ t.first = s.first
    /\ t.chunk = [s.chunk EXCEPT ![k] = [s.chunk[k] EXCEPT !.slots = x]]

Kept(s, t, k, x) ==
    /\ t.chunk \in [Chunks -> ChunkRecs]
    /\ t.chunk[k].slots = x
    /\ \A j \in Chunks : j # k => t.chunk[j] = s.chunk[j]
    /\ \A j \in Chunks : /\ t.chunk[j].mask = s.chunk[j].mask
                         /\ t.chunk[j].next = s.chunk[j].next
                         /\ t.chunk[j].prev = s.chunk[j].prev
    /\ Linked(t) /\ Filled(t)
    /\ (\A j \in s.used : j # k => s.chunk[j].slots # << >>) => Occupied(t)

(* So its links stay. *)
LEMMA SlotsSet ==
  ASSUME NEW s \in Worlds, Linked(s), Filled(s), NEW k \in s.used,
         NEW x \in Seq(Places), x # << >>, Len(x) <= Capacity,
         \A i \in DOMAIN x : x[i].data \in Fits(s.chunk[k].mask),
         NEW t, Refilled(s, t, k, x)
  PROVE  Kept(s, t, k, x)
<1> DEFINE c == [s.chunk[k] EXCEPT !.slots = x]
<1>1. k \in Chunks /\ s.chunk \in [Chunks -> ChunkRecs] /\ s.used \subseteq Chunks
  BY WorldTypes
<1>2. c \in ChunkRecs /\ c.slots = x /\ c.mask = s.chunk[k].mask /\ c.next = s.chunk[k].next /\ c.prev = s.chunk[k].prev
  BY <1>1 DEF ChunkRecs
<1>3. t.chunk = [s.chunk EXCEPT ![k] = c] /\ t.used = s.used /\ t.first = s.first
  BY DEF Refilled
<1> HIDE DEF c
<1>4. t.chunk \in [Chunks -> ChunkRecs]
  BY <1>1, <1>2, <1>3
<1>5. t.chunk[k] = c /\ \A j \in Chunks : j # k => t.chunk[j] = s.chunk[j]
  BY <1>1, <1>3
<1>6. \A j \in Chunks : /\ t.chunk[j].mask = s.chunk[j].mask
                        /\ t.chunk[j].next = s.chunk[j].next
                        /\ t.chunk[j].prev = s.chunk[j].prev
  BY <1>2, <1>5
<1>7. Linked(t)
  <2>1. ASSUME NEW n \in Masks, t.first[n] # NoChunk
        PROVE  t.first[n] \in t.used /\ t.chunk[t.first[n]].mask = n
    BY <1>1, <1>3, <1>6, <2>1 DEF Linked
  <2>2. ASSUME NEW j \in t.used
        PROVE  /\ t.chunk[j].mask \in Masks
               /\ t.chunk[j].prev = NoChunk => t.first[t.chunk[j].mask] = j
               /\ t.chunk[j].prev # NoChunk =>
                    t.chunk[j].prev \in t.used /\ t.chunk[t.chunk[j].prev].next = j
               /\ t.chunk[j].next # NoChunk =>
                    /\ t.chunk[j].next \in t.used
                    /\ t.chunk[t.chunk[j].next].prev = j
                    /\ t.chunk[t.chunk[j].next].mask = t.chunk[j].mask
                    /\ t.chunk[t.chunk[j].next].next = NoChunk
    <3>1. j \in s.used /\ j \in Chunks
      BY <1>1, <1>3
    <3> QED BY <1>1, <1>3, <1>6, <3>1 DEF Linked
  <2>3. \A j \in Chunks \ t.used : t.chunk[j] = Blank
    BY <1>3, <1>5 DEF Linked
  <2> QED BY <2>1, <2>2, <2>3 DEF Linked
<1>8. Filled(t)
  BY <1>1, <1>2, <1>3, <1>5 DEF Filled
<1>9. (\A j \in s.used : j # k => s.chunk[j].slots # << >>) => Occupied(t)
  BY <1>1, <1>2, <1>3, <1>5 DEF Occupied
<1> QED BY <1>2, <1>4, <1>5, <1>6, <1>7, <1>8, <1>9 DEF Kept

(* Entity e is at a new last place of a chunk of archetype m, with data.    *)
Come(s, t, e, m, data) ==
    LET k == t.entChunk[e]
    IN  /\ k \in t.used /\ t.chunk[k].mask = m
        /\ t.chunk[k].slots = Append(s.chunk[k].slots, [ent |-> e, data |-> data])
        /\ \A j \in Chunks : j # k => t.chunk[j].slots = s.chunk[j].slots
        /\ s.used \subseteq t.used /\ t.used \subseteq s.used \union {k}
        /\ \A j \in s.used : /\ t.chunk[j].mask = s.chunk[j].mask
                             /\ s.chunk[j].mask # m => t.chunk[j] = s.chunk[j]
        /\ \A n \in Masks : n # m => t.first[n] = s.first[n]
        /\ t.entChunk = [s.entChunk EXCEPT ![e] = k]
        /\ t.entIdx = [s.entIdx EXCEPT ![e] = Len(t.chunk[k].slots)]

(* Adding an entity appends it to a chunk of its archetype, and changes no  *)
(* slot otherwise.                                                          *)
LEMMA EntityAdded ==
  ASSUME NEW s \in Worlds, Linked(s), Filled(s), Occupied(s),
         NEW m \in Masks, NEW e \in Entities, NEW data \in Fits(m), Chunks \ s.used # {},
         LET k == s.first[m]
         IN  k # NoChunk => (Full(s, k) /\ s.chunk[k].next # NoChunk => ~ Full(s, s.chunk[k].next))
  PROVE  LET t == AddToArchetype(s, e, m, data)
         IN  t \in Worlds /\ Linked(t) /\ Filled(t) /\ Occupied(t) /\ Come(s, t, e, m, data)
<1> DEFINE t == AddToArchetype(s, e, m, data)
           a == WithArchetype(s, m)
           last == RoomOrLast(a, m)
           b == IF Full(a, last) THEN Prepended(a, last) ELSE a
           k == IF Full(a, last) THEN b.first[m] ELSE last
           place == [ent |-> e, data |-> data]
           x == Append(b.chunk[k].slots, place)
<1>0. t = [b EXCEPT !.chunk[k].slots = x, !.entChunk[e] = k, !.entIdx[e] = Len(x)]
  BY DEF AddToArchetype
<1>1. /\ a \in Worlds /\ Linked(a) /\ Filled(a)
      /\ a.first[m] \in a.used /\ a.chunk[a.first[m]].mask = m
      /\ s.first[m] # NoChunk => a = s
      /\ s.first[m] = NoChunk => a.chunk[a.first[m]].next = NoChunk
      /\ s.used \subseteq a.used /\ a.used \subseteq s.used \union {a.first[m]}
      /\ \A j \in Chunks : a.chunk[j].slots = s.chunk[j].slots
      /\ \A j \in s.used : a.chunk[j] = s.chunk[j]
      /\ \A n \in Masks : n # m => a.first[n] = s.first[n]
      /\ a.entChunk = s.entChunk /\ a.entIdx = s.entIdx
  BY ArchetypeMade
<1> HIDE DEF t, a
<1>2. a.first[m] # NoChunk /\ a.first[m] \in Chunks
  BY <1>1, ChunkAssumption, WorldTypes
<1>3. LET f == a.first[m] IN Full(a, f) /\ a.chunk[f].next # NoChunk => ~ Full(a, a.chunk[f].next)
  BY <1>1
<1>4. /\ last \in a.used /\ a.chunk[last].mask = m
      /\ Full(a, last) => a.first[m] = last /\ a.chunk[last].next = NoChunk
  BY <1>1, <1>2, <1>3, RoomFound
<1> HIDE DEF last
<1>5. ASSUME Full(a, last) PROVE s.first[m] # NoChunk /\ a = s
  <2>1. CASE s.first[m] = NoChunk
    <3>1. last \notin s.used
      BY <1>1, <1>4, <2>1, FirstThere
    <3>2. last \in Chunks /\ s.chunk[last] = Blank
      BY <1>1, <1>4, <3>1, WorldTypes DEF Linked
    <3>3. a.chunk[last].slots = << >>
      BY <1>1, <3>2, BlankTypes
    <3>4. Len(a.chunk[last].slots) = 0
      BY <3>3, EmptySeq
    <3> QED BY <1>5, <3>4, CapacityAssumption DEF Full
  <2> QED BY <1>1, <2>1
<1>6. /\ b \in Worlds /\ Linked(b) /\ Filled(b)
      /\ k \in b.used /\ b.chunk[k].mask = m /\ ~ Full(b, k)
      /\ s.used \subseteq b.used /\ b.used \subseteq s.used \union {k}
      /\ \A j \in Chunks : b.chunk[j].slots = s.chunk[j].slots
      /\ \A j \in s.used : /\ b.chunk[j].mask = s.chunk[j].mask
                           /\ s.chunk[j].mask # m => b.chunk[j] = s.chunk[j]
      /\ \A n \in Masks : n # m => b.first[n] = s.first[n]
      /\ b.entChunk = s.entChunk /\ b.entIdx = s.entIdx
  <2>1. CASE Full(a, last)
    <3>1. a = s /\ b = Prepended(s, last) /\ k = b.first[m]
      BY <1>5, <2>1
    <3>2. last \in s.used /\ s.chunk[last].mask = m /\ s.first[s.chunk[last].mask] = last /\ s.chunk[last].next = NoChunk
      BY <1>4, <2>1, <3>1
    <3> HIDE DEF b, k
    <3>3. /\ b \in Worlds /\ Linked(b) /\ Filled(b)
          /\ k \in b.used /\ b.chunk[k].mask = m /\ k \notin s.used
          /\ s.used \subseteq b.used /\ b.used \subseteq s.used \union {k}
          /\ \A j \in Chunks : b.chunk[j].slots = s.chunk[j].slots
          /\ \A j \in s.used : b.chunk[j].mask = s.chunk[j].mask
          /\ \A j \in s.used : j # last => b.chunk[j] = s.chunk[j]
          /\ \A n \in Masks : n # m => b.first[n] = s.first[n]
          /\ b.entChunk = s.entChunk /\ b.entIdx = s.entIdx
      BY <3>1, <3>2, ChunkPrepended
    <3>4. k \in Chunks /\ s.chunk[k] = Blank
      BY <3>3, WorldTypes DEF Linked
    <3>5. ~ Full(b, k)
      <4>1. b.chunk[k].slots = << >>
        BY <3>3, <3>4, BlankTypes
      <4>2. Len(b.chunk[k].slots) = 0
        BY <4>1, EmptySeq
      <4> QED BY <4>2, CapacityAssumption DEF Full
    <3> QED BY <3>2, <3>3, <3>5
  <2>2. CASE ~ Full(a, last)
    <3>1. b = a /\ k = last
      BY <2>2
    <3> HIDE DEF b, k
    <3>2. a.used \subseteq s.used \union {last}
      <4>1. CASE s.first[m] # NoChunk
        BY <1>1, <4>1
      <4>2. CASE s.first[m] = NoChunk
        <5>1. last \notin s.used
          BY <1>1, <1>4, <4>2, FirstThere
        <5> QED BY <1>1, <1>4, <5>1
      <4> QED BY <4>1, <4>2
    <3> QED BY <1>1, <1>4, <2>2, <3>1, <3>2
  <2> QED BY <2>1, <2>2
<1> HIDE DEF b, k
<1>7. k \in Chunks /\ b.chunk[k].slots = s.chunk[k].slots /\ s.chunk[k].slots \in Seq(Places)
  BY <1>6, WorldTypes
<1>8. place \in Places /\ place.data = data
  BY DEF Places, Contents, Masks
<1> HIDE DEF place
<1>9. /\ x \in Seq(Places) /\ Len(x) = Len(s.chunk[k].slots) + 1 /\ Len(s.chunk[k].slots) \in Nat
      /\ DOMAIN x = 1 .. Len(x) /\ DOMAIN s.chunk[k].slots = 1 .. Len(s.chunk[k].slots)
      /\ \A i \in 1 .. Len(s.chunk[k].slots) : x[i] = s.chunk[k].slots[i]
      /\ x[Len(s.chunk[k].slots) + 1] = place
  BY <1>7, <1>8, AppendProperties, LenProperties
<1>10. x = Append(s.chunk[k].slots, place)
  BY <1>7
<1> HIDE DEF x
<1>11. x # << >> /\ Len(x) <= Capacity
  <2>1. ~ Len(s.chunk[k].slots) + 1 > Capacity
    BY <1>6, <1>7 DEF Full
  <2>2. Len(x) <= Capacity /\ Len(x) # 0
    BY <1>9, <2>1, CapacityAssumption
  <2> QED BY <2>2, EmptySeq
<1>12. \A i \in DOMAIN x : x[i].data \in Fits(b.chunk[k].mask)
  <2> SUFFICES ASSUME NEW i \in DOMAIN x PROVE x[i].data \in Fits(b.chunk[k].mask)
    OBVIOUS
  <2>1. CASE i = Len(s.chunk[k].slots) + 1
    BY <1>6, <1>8, <1>9, <2>1
  <2>2. CASE i # Len(s.chunk[k].slots) + 1
    <3>1. i \in DOMAIN b.chunk[k].slots /\ x[i] = b.chunk[k].slots[i]
      BY <1>7, <1>9, <2>2
    <3> QED BY <1>6, <1>7, <3>1 DEF Filled
  <2> QED BY <2>1, <2>2
<1>13. /\ t.used = b.used /\ t.first = b.first
       /\ t.chunk = [b.chunk EXCEPT ![k].slots = x]
       /\ t.entChunk = [s.entChunk EXCEPT ![e] = k]
       /\ t.entIdx = [s.entIdx EXCEPT ![e] = Len(x)]
  BY <1>0, <1>6 DEF Worlds
<1>14. /\ t.chunk \in [Chunks -> ChunkRecs]
       /\ t.chunk[k].slots = x
       /\ \A j \in Chunks : j # k => t.chunk[j] = b.chunk[j]
       /\ \A j \in Chunks : t.chunk[j].mask = b.chunk[j].mask
       /\ Linked(t) /\ Filled(t)
       /\ (\A j \in b.used : j # k => b.chunk[j].slots # << >>) => Occupied(t)
  <2>1. /\ b \in Worlds /\ Linked(b) /\ Filled(b) /\ k \in b.used
        /\ x \in Seq(Places) /\ x # << >> /\ Len(x) <= Capacity
        /\ \A i \in DOMAIN x : x[i].data \in Fits(b.chunk[k].mask)
        /\ Refilled(b, t, k, x)
    BY <1>6, <1>9, <1>11, <1>12, <1>13 DEF Refilled
  <2>2. Kept(b, t, k, x)
    BY <2>1, SlotsSet
  <2> QED BY <2>2 DEF Kept
<1>15. Occupied(t)
  BY <1>6, <1>14, WorldTypes DEF Occupied
<1>16. t.entChunk \in [Entities -> Links] /\ t.entIdx \in [Entities -> 0 .. Capacity] /\ t.entChunk[e] = k
  <2>1. Len(x) \in 0 .. Capacity /\ k \in Links
    BY <1>7, <1>9, <1>11, CapacityAssumption DEF Links
  <2>2. s.entChunk \in [Entities -> Links] /\ s.entIdx \in [Entities -> 0 .. Capacity]
    BY WorldTypes
  <2> QED BY <1>13, <2>1, <2>2
<1>17. t \in Worlds
  BY <1>0, <1>6, <1>13, <1>14, <1>16 DEF Worlds
<1>18. \A j \in s.used : /\ t.chunk[j].mask = s.chunk[j].mask
                         /\ s.chunk[j].mask # m => t.chunk[j] = s.chunk[j]
  BY <1>6, <1>14, WorldTypes
<1>19. \A j \in Chunks : j # k => t.chunk[j].slots = s.chunk[j].slots
  BY <1>6, <1>14
<1>20. k \in t.used /\ t.chunk[k].mask = m /\ s.used \subseteq t.used /\ t.used \subseteq s.used \union {k}
  BY <1>6, <1>7, <1>13, <1>14
<1>21. t.chunk[k].slots = Append(s.chunk[k].slots, [ent |-> e, data |-> data])
  BY <1>10, <1>14 DEF place
<1>22. t.entIdx = [s.entIdx EXCEPT ![e] = Len(t.chunk[k].slots)] /\ \A n \in Masks : n # m => t.first[n] = s.first[n]
  BY <1>6, <1>13, <1>14
<1>23. k = t.entChunk[e]
  BY <1>16
<1> HIDE DEF Linked, Filled, Occupied
<1> QED BY <1>13, <1>14, <1>15, <1>17, <1>18, <1>19, <1>20, <1>21, <1>22, <1>23 DEF t, Come

---------------------------------------------------------------------------
(* Removing an entity from an archetype. *)

(* An archetype with one chunk is freed with that chunk. *)
Freed(s, m, k) == [s EXCEPT !.used = @ \ {k}, !.first[m] = NoChunk]

(* That is all that its list leads to. *)
LEMMA ArchetypeFreed ==
  ASSUME NEW s \in Worlds, Linked(s), NEW m \in Masks, NEW k \in s.used,
         s.first[m] = k, s.chunk[k].next = NoChunk
  PROVE  FreeArchetype(s, m) = Freed(s, m, k)
<1> DEFINE F(f) == [j \in Chunks |-> {j} \union IF s.chunk[j].next = NoChunk THEN {} ELSE f[s.chunk[j].next]]
           after == CHOOSE f : f = F(f)
           g == [j \in Chunks |-> {j} \union IF s.chunk[j].next = NoChunk THEN {} ELSE {s.chunk[j].next}]
<1>1. ASSUME NEW j \in Chunks, s.chunk[j].next # NoChunk
      PROVE  s.chunk[j].next \in Chunks /\ s.chunk[s.chunk[j].next].next = NoChunk
  <2>1. j \in s.used
    BY <1>1, BlankTypes DEF Linked
  <2> QED BY <1>1, <2>1, WorldTypes DEF Linked
<1>2. g = F(g)
  BY <1>1
<1>3. FreeArchetype(s, m) = [s EXCEPT !.used = @ \ after[s.first[m]], !.first[m] = NoChunk]
  BY DEF FreeArchetype
<1>4. after = F(after)
  <2> HIDE DEF F
  <2> QED BY <1>2
<1> HIDE DEF after
<1>5. k \in Chunks
  BY WorldTypes
<1>6. after[k] = {k}
  BY <1>4, <1>5
<1> QED BY <1>3, <1>6 DEF Freed

(* An emptied chunk leaves its archetype. *)
LEMMA ChunkEmptied ==
  ASSUME NEW s \in Worlds, Linked(s), Filled(s), NEW k \in s.used,
         s.first[s.chunk[k].mask] = k => s.chunk[k].next = NoChunk
  PROVE  LET t == EmptyChunk(s, k)
         IN  /\ t \in Worlds /\ Linked(t) /\ Filled(t)
             /\ t.used = s.used \ {k}
             /\ \A j \in t.used : t.chunk[j].mask = s.chunk[j].mask /\ t.chunk[j].slots = s.chunk[j].slots
             /\ t.entChunk = s.entChunk /\ t.entIdx = s.entIdx
<1> DEFINE t == EmptyChunk(s, k)
           m == s.chunk[k].mask
           p == s.chunk[k].prev
<1>1. /\ k \in Chunks /\ k # NoChunk /\ m \in Masks /\ s.used \subseteq Chunks
      /\ s.chunk \in [Chunks -> ChunkRecs] /\ s.first \in [Masks -> Links]
  BY ChunkAssumption, WorldTypes DEF Linked
<1>2. s.chunk[k].next = NoChunk
  <2>1. CASE s.first[m] # k
    <3>1. p # NoChunk
      BY <2>1 DEF Linked
    <3>2. p \in s.used /\ s.chunk[p].next = k
      BY <3>1 DEF Linked
    <3> QED BY <1>1, <3>2 DEF Linked
  <2> QED BY <2>1
<1>3. CASE s.first[m] = k
  <2>1. p = NoChunk
    BY <1>3, FirstIsFirst
  <2>2. FreeArchetype(s, m) = Freed(s, m, k)
    <3> HIDE DEF m
    <3>1. m \in Masks /\ s.first[m] = k /\ s.chunk[k].next = NoChunk
      BY <1>1, <1>2, <1>3
    <3> QED BY <3>1, ArchetypeFreed
  <2>3. t = [[s EXCEPT !.used = @ \ {k}, !.first[m] = NoChunk] EXCEPT !.chunk = [s.chunk EXCEPT ![k] = Blank]]
    BY <1>2, <1>3, <2>1, <2>2 DEF EmptyChunk, Freed
  <2> HIDE DEF t
  <2>4. /\ t.used = s.used \ {k} /\ t.first = [s.first EXCEPT ![m] = NoChunk]
        /\ t.chunk = [s.chunk EXCEPT ![k] = Blank]
        /\ t.entChunk = s.entChunk /\ t.entIdx = s.entIdx
    BY <2>3 DEF Worlds
  <2>5. t \in Worlds
    <3>1. t.chunk \in [Chunks -> ChunkRecs]
      BY <1>1, <2>4, BlankChunk
    <3>2. t.first \in [Masks -> Links]
      BY <1>1, <2>4 DEF Links
    <3>3. t.used \in SUBSET Chunks
      BY <1>1, <2>4
    <3> QED BY <2>3, <2>4, <3>1, <3>2, <3>3 DEF Worlds
  <2>6. /\ t.first[m] = NoChunk /\ \A n \in Masks : n # m => t.first[n] = s.first[n]
        /\ t.chunk[k] = Blank /\ \A j \in Chunks : j # k => t.chunk[j] = s.chunk[j]
    BY <1>1, <2>4
  <2>7. Linked(t)
    <3>1. ASSUME NEW n \in Masks, t.first[n] # NoChunk
          PROVE  t.first[n] \in t.used /\ t.chunk[t.first[n]].mask = n
      <4>1. n # m /\ t.first[n] = s.first[n]
        BY <2>6, <3>1
      <4>2. s.first[n] \in s.used /\ s.chunk[s.first[n]].mask = n /\ s.first[n] # k
        BY <3>1, <4>1 DEF Linked
      <4> QED BY <1>1, <2>4, <2>6, <4>1, <4>2
    <3>2. ASSUME NEW j \in t.used
          PROVE  /\ t.chunk[j].mask \in Masks
                 /\ t.chunk[j].prev = NoChunk => t.first[t.chunk[j].mask] = j
                 /\ t.chunk[j].prev # NoChunk =>
                      t.chunk[j].prev \in t.used /\ t.chunk[t.chunk[j].prev].next = j
                 /\ t.chunk[j].next # NoChunk =>
                      /\ t.chunk[j].next \in t.used
                      /\ t.chunk[t.chunk[j].next].prev = j
                      /\ t.chunk[t.chunk[j].next].mask = t.chunk[j].mask
                      /\ t.chunk[t.chunk[j].next].next = NoChunk
      <4>1. j \in s.used /\ j \in Chunks /\ j # k /\ j # NoChunk /\ t.chunk[j] = s.chunk[j]
        BY <1>1, <2>4, <2>6, ChunkAssumption
      <4>2. s.chunk[j].mask \in Masks
        BY <4>1 DEF Linked
      <4>3. s.chunk[j].prev = NoChunk => s.first[s.chunk[j].mask] = j /\ s.chunk[j].mask # m
        BY <1>3, <4>1 DEF Linked
      <4>4. s.chunk[j].prev # NoChunk => /\ s.chunk[j].prev \in s.used /\ s.chunk[s.chunk[j].prev].next = j
                                         /\ s.chunk[j].prev # k
        BY <1>2, <4>1 DEF Linked
      <4>5. s.chunk[j].next # NoChunk =>
                    /\ s.chunk[j].next \in s.used /\ s.chunk[j].next # k
                    /\ s.chunk[s.chunk[j].next].prev = j
                    /\ s.chunk[s.chunk[j].next].mask = s.chunk[j].mask
                    /\ s.chunk[s.chunk[j].next].next = NoChunk
        BY <2>1, <4>1 DEF Linked
      <4> QED BY <1>1, <2>4, <2>6, <4>1, <4>2, <4>3, <4>4, <4>5
    <3>3. \A j \in Chunks \ t.used : t.chunk[j] = Blank
      BY <2>4, <2>6 DEF Linked
    <3> QED BY <3>1, <3>2, <3>3 DEF Linked
  <2>8. Filled(t)
    <3>1. \A j \in Chunks : \A i \in DOMAIN t.chunk[j].slots : t.chunk[j].slots[i].data \in Fits(t.chunk[j].mask)
      BY <2>6, BlankChunk DEF Filled
    <3>2. \A j \in t.used : Len(t.chunk[j].slots) <= Capacity
      BY <1>1, <2>4, <2>6 DEF Filled
    <3> QED BY <3>1, <3>2 DEF Filled
  <2>9. \A j \in t.used : t.chunk[j] = s.chunk[j]
    BY <1>1, <2>4, <2>6
  <2> HIDE DEF Linked, Filled
  <2> QED BY <2>4, <2>5, <2>7, <2>8, <2>9 DEF t
<1>4. CASE s.first[m] # k
  <2>1. p # NoChunk
    BY <1>4 DEF Linked
  <2>2. p \in s.used /\ p \in Chunks /\ p # k /\ s.chunk[p].next = k /\ s.chunk[p].mask = m
    BY <1>1, <1>2, <2>1 DEF Linked
  <2> DEFINE q == [s.chunk[p] EXCEPT !.next = NoChunk]
  <2>3. q \in ChunkRecs /\ q.next = NoChunk /\ q.prev = s.chunk[p].prev /\ q.mask = m /\ q.slots = s.chunk[p].slots
    <3>1. s.chunk[p] \in ChunkRecs
      BY <1>1, <2>2
    <3> QED BY <2>2, <3>1 DEF ChunkRecs, Links
  <2>4. t = [[s EXCEPT !.used = @ \ {k}] EXCEPT !.chunk = [[s.chunk EXCEPT ![p] = q] EXCEPT ![k] = Blank]]
    BY <1>2, <1>4, <2>1 DEF EmptyChunk
  <2> HIDE DEF t, q, p
  <2>5. /\ t.used = s.used \ {k} /\ t.first = s.first
        /\ t.chunk = [[s.chunk EXCEPT ![p] = q] EXCEPT ![k] = Blank]
        /\ t.entChunk = s.entChunk /\ t.entIdx = s.entIdx
    BY <2>4 DEF Worlds
  <2>6. t \in Worlds
    <3>1. t.chunk \in [Chunks -> ChunkRecs]
      BY <1>1, <2>3, <2>5, BlankChunk
    <3>2. t.used \in SUBSET Chunks
      BY <1>1, <2>5
    <3> QED BY <2>4, <2>5, <3>1, <3>2 DEF Worlds
  <2>7. /\ t.chunk[k] = Blank /\ t.chunk[p] = q
        /\ \A j \in Chunks : j # k /\ j # p => t.chunk[j] = s.chunk[j]
    BY <1>1, <2>2, <2>5
  <2>8. Linked(t)
    <3>1. ASSUME NEW n \in Masks, t.first[n] # NoChunk
          PROVE  t.first[n] \in t.used /\ t.chunk[t.first[n]].mask = n
      <4>1. s.first[n] \in s.used /\ s.chunk[s.first[n]].mask = n /\ s.first[n] # k
        BY <1>4, <2>5, <3>1 DEF Linked
      <4> QED BY <1>1, <2>2, <2>3, <2>5, <2>7, <4>1
    <3>2. ASSUME NEW j \in t.used
          PROVE  /\ t.chunk[j].mask \in Masks
                 /\ t.chunk[j].prev = NoChunk => t.first[t.chunk[j].mask] = j
                 /\ t.chunk[j].prev # NoChunk =>
                      t.chunk[j].prev \in t.used /\ t.chunk[t.chunk[j].prev].next = j
                 /\ t.chunk[j].next # NoChunk =>
                      /\ t.chunk[j].next \in t.used
                      /\ t.chunk[t.chunk[j].next].prev = j
                      /\ t.chunk[t.chunk[j].next].mask = t.chunk[j].mask
                      /\ t.chunk[t.chunk[j].next].next = NoChunk
      <4>1. j \in s.used /\ j \in Chunks /\ j # k /\ j # NoChunk
        BY <1>1, <2>5, ChunkAssumption
      <4>2. s.chunk[j].mask \in Masks /\ t.chunk[j].mask = s.chunk[j].mask /\ t.chunk[j].prev = s.chunk[j].prev
        BY <2>2, <2>3, <2>7, <4>1 DEF Linked
      <4>3. s.chunk[j].prev = NoChunk => s.first[s.chunk[j].mask] = j
        BY <4>1 DEF Linked
      <4>4. s.chunk[j].prev # NoChunk => /\ s.chunk[j].prev \in s.used /\ s.chunk[s.chunk[j].prev].next = j
                                         /\ s.chunk[j].prev # k /\ s.chunk[j].prev # p
                                         /\ s.chunk[j].prev \in Chunks
        BY <1>1, <1>2, <2>2, <4>1 DEF Linked
      <4>5. CASE j = p
        BY <2>3, <2>5, <2>7, <4>1, <4>2, <4>3, <4>4, <4>5
      <4>6. CASE j # p
        <5>1. t.chunk[j] = s.chunk[j]
          BY <2>7, <4>1, <4>6
        <5>2. s.chunk[j].next # NoChunk =>
                    /\ s.chunk[j].next \in s.used /\ s.chunk[j].next # k /\ s.chunk[j].next \in Chunks
                    /\ s.chunk[s.chunk[j].next].prev = j
                    /\ s.chunk[s.chunk[j].next].mask = s.chunk[j].mask
                    /\ s.chunk[s.chunk[j].next].next = NoChunk
                    /\ s.chunk[j].next # p
          BY <1>1, <2>2, <4>1, <4>6 DEF Linked, p
        <5> QED BY <2>5, <2>7, <4>1, <4>2, <4>3, <4>4, <5>1, <5>2
      <4> QED BY <4>5, <4>6
    <3>3. \A j \in Chunks \ t.used : t.chunk[j] = Blank
      BY <2>2, <2>5, <2>7 DEF Linked
    <3> QED BY <3>1, <3>2, <3>3 DEF Linked
  <2>9. \A j \in t.used : t.chunk[j].mask = s.chunk[j].mask /\ t.chunk[j].slots = s.chunk[j].slots
    BY <1>1, <2>2, <2>3, <2>5, <2>7
  <2>10. Filled(t)
    <3>1. ASSUME NEW j \in Chunks, NEW i \in DOMAIN t.chunk[j].slots
          PROVE t.chunk[j].slots[i].data \in Fits(t.chunk[j].mask)
      <4>1. CASE j = k
        BY <2>7, <3>1, <4>1, BlankChunk
      <4>2. CASE j # k
        <5>1. t.chunk[j].mask = s.chunk[j].mask /\ t.chunk[j].slots = s.chunk[j].slots
          BY <2>2, <2>3, <2>7, <4>2
        <5> QED BY <3>1, <5>1 DEF Filled
      <4> QED BY <4>1, <4>2
    <3>2. \A j \in t.used : Len(t.chunk[j].slots) <= Capacity
      BY <1>1, <2>5, <2>9 DEF Filled
    <3> QED BY <3>1, <3>2 DEF Filled
  <2> HIDE DEF Linked, Filled
  <2> QED BY <2>5, <2>6, <2>8, <2>9, <2>10 DEF t
<1> QED BY <1>3, <1>4

(* The last place of a chunk fills the gap. *)
GapFilled(q, i) ==
    LET rest == SubSeq(q, 1, Len(q) - 1)
    IN  IF i = Len(q) THEN rest ELSE [rest EXCEPT ![i] = q[Len(q)]]

(* All other places stay where they are. *)
LEMMA GapFills ==
  ASSUME NEW q \in Seq(Places), NEW i \in DOMAIN q, Len(q) > 1
  PROVE  LET x == GapFilled(q, i)
         IN  /\ x \in Seq(Places) /\ x # << >> /\ Len(x) = Len(q) - 1
             /\ DOMAIN x = 1 .. Len(q) - 1 /\ DOMAIN q = 1 .. Len(q) /\ Len(q) \in Nat
             /\ \A j \in DOMAIN x : j \in DOMAIN q /\ x[j] = IF j = i THEN q[Len(q)] ELSE q[j]
<1> DEFINE n == Len(q)
           rest == SubSeq(q, 1, n - 1)
           x == GapFilled(q, i)
<1>0. n > 1
  OBVIOUS
<1>1. n \in Nat /\ DOMAIN q = 1 .. n /\ \A j \in 1 .. n : q[j] \in Places
  BY LenProperties
<1>2. /\ rest \in Seq(Places) /\ Len(rest) = n - 1
      /\ \A j \in 1 .. n - 1 : rest[j] = q[j]
  <2>1. 1 \in Int /\ n - 1 \in Int /\ \A j \in 1 .. n - 1 : q[j] \in Places
    BY <1>1
  <2>2. /\ rest \in Seq(Places)
        /\ Len(rest) = IF 1 <= n - 1 THEN n - 1 - 1 + 1 ELSE 0
        /\ \A j \in 1 .. n - 1 - 1 + 1 : rest[j] = q[1 + j - 1]
    BY <2>1, SubSeqProperties
  <2> HIDE DEF rest
  <2> HIDE DEF n
  <2>3. 1 <= n - 1 /\ n - 1 - 1 + 1 = n - 1
    BY <1>0, <1>1
  <2>4. \A j \in 1 .. n - 1 : 1 + j - 1 = j
    BY <1>1
  <2> QED BY <2>2, <2>3, <2>4
<1>3. DOMAIN rest = 1 .. n - 1
  BY <1>2, LenProperties
<1> HIDE DEF rest
<1>4. CASE i = n
  <2>1. x = rest
    BY <1>4 DEF GapFilled, rest
  <2> HIDE DEF x
  <2>2. Len(rest) # 0 /\ \A j \in 1 .. n - 1 : j \in 1 .. n /\ j # n
    <3> HIDE DEF n
    <3> QED BY <1>0, <1>1, <1>2
  <2>3. rest # << >>
    BY <2>2, EmptySeq
  <2> QED BY <1>1, <1>2, <1>3, <1>4, <2>1, <2>2, <2>3 DEF x
<1>5. CASE i # n
  <2>1. x = [rest EXCEPT ![i] = q[n]]
    BY <1>5 DEF GapFilled, rest
  <2>2. i \in 1 .. Len(rest) /\ q[n] \in Places
    BY <1>1, <1>2, <1>5
  <2> HIDE DEF x
  <2>3. x \in Seq(Places) /\ Len(x) = n - 1
    BY <1>2, <2>1, <2>2, ExceptSeq
  <2>4. DOMAIN x = 1 .. n - 1 /\ \A j \in 1 .. n - 1 : x[j] = IF j = i THEN q[n] ELSE q[j]
    BY <1>2, <1>3, <2>1
  <2> QED BY <1>1, <2>3, <2>4, EmptySeq DEF x
<1> QED BY <1>4, <1>5

(* Place i of chunk k is gone: what was at the last place of the chunk is   *)
(* there now, or the chunk is empty and not used any more.                  *)
Gone(s, t, i, k) ==
    LET q == s.chunk[k].slots
    IN  /\ t.entChunk = s.entChunk
        /\ \A j \in t.used : t.chunk[j].mask = s.chunk[j].mask
        /\ \A j \in t.used : j # k => t.chunk[j].slots = s.chunk[j].slots
        /\ Len(q) \in Nat /\ DOMAIN q = 1 .. Len(q)
        /\ Len(q) = 1 => t.used = s.used \ {k} /\ t.entIdx = s.entIdx
        /\ Len(q) # 1 => t.used = s.used /\ Len(q) > 1 /\ t.chunk[k].slots = GapFilled(q, i)
        /\ Len(q) # 1 /\ i = Len(q) => t.entIdx = s.entIdx
        /\ Len(q) # 1 /\ i # Len(q) => t.entIdx = [s.entIdx EXCEPT ![q[Len(q)].ent] = i]

(* Removing what is at a place moves the last entity of the chunk there,    *)
(* and changes no other place.                                              *)
LEMMA PlaceRemoved ==
  ASSUME NEW s \in Worlds, Linked(s), Filled(s), Occupied(s),
         NEW k \in s.used, NEW i \in DOMAIN s.chunk[k].slots,
         ~ (s.first[s.chunk[k].mask] = k /\ Len(s.chunk[k].slots) = 1 /\ s.chunk[k].next # NoChunk)
  PROVE  LET t == RemoveFromArchetype(s, i, k)
         IN  t \in Worlds /\ Linked(t) /\ Filled(t) /\ Occupied(t) /\ Gone(s, t, i, k)
<1> DEFINE t == RemoveFromArchetype(s, i, k)
           q == s.chunk[k].slots
           n == Len(q)
           x == GapFilled(q, i)
<1>1. k \in Chunks /\ s.used \subseteq Chunks /\ q \in Seq(Places)
  BY WorldTypes
<1>2. n \in Nat /\ DOMAIN q = 1 .. n /\ i \in 1 .. n /\ \A j \in 1 .. n : q[j] \in Places
  BY <1>1, LenProperties
<1>3. CASE n = 1
  <2>1. t = EmptyChunk(s, k)
    BY <1>3 DEF RemoveFromArchetype
  <2>2. s.first[s.chunk[k].mask] = k => s.chunk[k].next = NoChunk
    BY <1>3
  <2>3. /\ t \in Worlds /\ Linked(t) /\ Filled(t)
        /\ t.used = s.used \ {k}
        /\ \A j \in t.used : t.chunk[j].mask = s.chunk[j].mask /\ t.chunk[j].slots = s.chunk[j].slots
        /\ t.entChunk = s.entChunk /\ t.entIdx = s.entIdx
    BY <2>1, <2>2, ChunkEmptied
  <2> HIDE DEF t
  <2>4. Occupied(t)
    BY <2>3 DEF Occupied
  <2> QED BY <1>2, <1>3, <2>3, <2>4 DEF t, Gone
<1>4. CASE n # 1
  <2>1. n > 1
    <3> HIDE DEF n
    <3> QED BY <1>2, <1>4
  <2>2. /\ x \in Seq(Places) /\ x # << >> /\ Len(x) = n - 1
        /\ DOMAIN x = 1 .. n - 1
        /\ \A j \in DOMAIN x : j \in DOMAIN q /\ x[j] = IF j = i THEN q[n] ELSE q[j]
    BY <1>1, <1>2, <2>1, GapFills
  <2>3. Len(x) <= Capacity
    <3>1. n <= Capacity
      BY DEF Filled
    <3> QED BY <1>2, <2>2, <3>1, CapacityAssumption
  <2>4. \A j \in DOMAIN x : x[j].data \in Fits(s.chunk[k].mask)
    <3>1. n \in DOMAIN q
      BY <1>2, <2>1
    <3>2. \A j \in DOMAIN q : q[j].data \in Fits(s.chunk[k].mask)
      BY <1>1 DEF Filled
    <3> QED BY <2>2, <3>1, <3>2
  <2>5. q[n].ent \in Entities
    BY <1>2, <2>1 DEF Places
  <2>6. CASE i = n
    <3>1. t = [s EXCEPT !.chunk[k].slots = x]
      BY <1>2, <2>1, <2>6 DEF RemoveFromArchetype, GapFilled
    <3> HIDE DEF t, x
    <3>2. t.entChunk = s.entChunk /\ t.entIdx = s.entIdx /\ t.used = s.used /\ t.first = s.first
          /\ t.chunk = [s.chunk EXCEPT ![k].slots = x]
      BY <3>1 DEF Worlds
    <3>3. Refilled(s, t, k, x)
      BY <3>2 DEF Refilled
    <3>4. /\ t.chunk \in [Chunks -> ChunkRecs]
          /\ t.chunk[k].slots = x
          /\ \A j \in Chunks : j # k => t.chunk[j] = s.chunk[j]
          /\ \A j \in Chunks : t.chunk[j].mask = s.chunk[j].mask
          /\ Linked(t) /\ Filled(t)
          /\ (\A j \in s.used : j # k => s.chunk[j].slots # << >>) => Occupied(t)
      <4>1. Kept(s, t, k, x)
        BY <2>2, <2>3, <2>4, <3>3, SlotsSet
      <4> QED BY <4>1 DEF Kept
    <3>5. Occupied(t)
      BY <3>4 DEF Occupied
    <3>6. t \in Worlds
      BY <3>1, <3>2, <3>4 DEF Worlds
    <3>7. /\ \A j \in t.used : t.chunk[j].mask = s.chunk[j].mask
          /\ \A j \in t.used : j # k => t.chunk[j].slots = s.chunk[j].slots
      BY <1>1, <3>2, <3>4
    <3> QED BY <1>2, <1>4, <2>1, <2>6, <3>2, <3>4, <3>5, <3>6, <3>7 DEF t, x, Gone
  <2>7. CASE i # n
    <3>1. t = [s EXCEPT !.chunk[k].slots = x, !.entIdx[q[n].ent] = i]
      BY <1>2, <2>1, <2>7 DEF RemoveFromArchetype, GapFilled
    <3> HIDE DEF t, x
    <3>2. /\ t.entChunk = s.entChunk /\ t.entIdx = [s.entIdx EXCEPT ![q[n].ent] = i]
          /\ t.used = s.used /\ t.first = s.first
          /\ t.chunk = [s.chunk EXCEPT ![k].slots = x]
      BY <3>1 DEF Worlds
    <3>3. Refilled(s, t, k, x)
      BY <3>2 DEF Refilled
    <3>4. /\ t.chunk \in [Chunks -> ChunkRecs]
          /\ t.chunk[k].slots = x
          /\ \A j \in Chunks : j # k => t.chunk[j] = s.chunk[j]
          /\ \A j \in Chunks : t.chunk[j].mask = s.chunk[j].mask
          /\ Linked(t) /\ Filled(t)
          /\ (\A j \in s.used : j # k => s.chunk[j].slots # << >>) => Occupied(t)
      <4>1. Kept(s, t, k, x)
        BY <2>2, <2>3, <2>4, <3>3, SlotsSet
      <4> QED BY <4>1 DEF Kept
    <3>5. Occupied(t)
      BY <3>4 DEF Occupied
    <3>6. t.entIdx \in [Entities -> 0 .. Capacity]
      <4>1. s.entIdx \in [Entities -> 0 .. Capacity] /\ n <= Capacity
        BY WorldTypes DEF Filled
      <4>2. i \in 0 .. Capacity
        BY <1>2, <4>1, CapacityAssumption
      <4> QED BY <3>2, <4>1, <4>2
    <3>7. t \in Worlds
      BY <3>1, <3>2, <3>4, <3>6 DEF Worlds
    <3>8. /\ \A j \in t.used : t.chunk[j].mask = s.chunk[j].mask
          /\ \A j \in t.used : j # k => t.chunk[j].slots = s.chunk[j].slots
      BY <1>1, <3>2, <3>4
    <3> QED BY <1>2, <1>4, <2>1, <2>7, <3>2, <3>4, <3>5, <3>7, <3>8 DEF t, x, Gone
  <2> QED BY <2>6, <2>7
<1> QED BY <1>3, <1>4

---------------------------------------------------------------------------
(* The index. *)

Nothing == [c \in {} |-> 0]

(* What the index and the chunks say that entity e has.                     *)
Has(s, e) == IF s.entChunk[e] = NoChunk THEN Nothing ELSE s.chunk[s.entChunk[e]].slots[s.entIdx[e]].data

(* Entity e is at place i of chunk k. *)
Lives(s, e, k, i) ==
    /\ k \in s.used /\ i \in DOMAIN s.chunk[k].slots
    /\ s.chunk[k].slots[i].ent = e

(* The index and the chunks agree on the entities that live, place i of     *)
(* chunk k left out.                                                        *)
IndexedBut(s, live, k, i) ==
    /\ \A e \in live : s.entChunk[e] # NoChunk =>
          Lives(s, e, s.entChunk[e], s.entIdx[e]) /\ ~ (s.entChunk[e] = k /\ s.entIdx[e] = i)
    /\ \A j \in s.used : \A l \in DOMAIN s.chunk[j].slots : ~ (j = k /\ l = i) =>
          LET e == s.chunk[j].slots[l].ent
          IN  e \in live /\ s.entChunk[e] = j /\ s.entIdx[e] = l
Indexed(s, live) ==
    /\ \A e \in live : s.entChunk[e] # NoChunk => Lives(s, e, s.entChunk[e], s.entIdx[e])
    /\ \A j \in s.used : \A l \in DOMAIN s.chunk[j].slots :
          LET e == s.chunk[j].slots[l].ent
          IN  e \in live /\ s.entChunk[e] = j /\ s.entIdx[e] = l

Chunked(s) == s \in Worlds /\ Linked(s) /\ Filled(s) /\ Occupied(s)
Good(s, live) == Chunked(s) /\ Indexed(s, live)

(* Filling the gap repairs an index that is right but for the gap, and      *)
(* leaves every entity that lives what it has.                              *)
LEMMA GapRepaired ==
  ASSUME NEW s, Chunked(s), NEW live \in SUBSET Entities,
         NEW k \in s.used, NEW i \in DOMAIN s.chunk[k].slots, IndexedBut(s, live, k, i),
         ~ (s.first[s.chunk[k].mask] = k /\ Len(s.chunk[k].slots) = 1 /\ s.chunk[k].next # NoChunk)
  PROVE  LET t == RemoveFromArchetype(s, i, k)
         IN  Good(t, live) /\ \A e \in live : Has(t, e) = Has(s, e)
<1> DEFINE t == RemoveFromArchetype(s, i, k)
           q == s.chunk[k].slots
           n == Len(q)
           x == GapFilled(q, i)
<1>1. /\ t \in Worlds /\ Linked(t) /\ Filled(t) /\ Occupied(t)
      /\ t.entChunk = s.entChunk
      /\ \A j \in t.used : j # k => t.chunk[j].slots = s.chunk[j].slots
      /\ n \in Nat /\ DOMAIN q = 1 .. n
      /\ n = 1 => t.used = s.used \ {k} /\ t.entIdx = s.entIdx
      /\ n # 1 => t.used = s.used /\ n > 1 /\ t.chunk[k].slots = x
      /\ n # 1 /\ i = n => t.entIdx = s.entIdx
      /\ n # 1 /\ i # n => t.entIdx = [s.entIdx EXCEPT ![q[n].ent] = i]
  <2>1. s \in Worlds /\ Linked(s) /\ Filled(s) /\ Occupied(s)
    BY DEF Chunked
  <2>2. t \in Worlds /\ Linked(t) /\ Filled(t) /\ Occupied(t) /\ Gone(s, t, i, k)
    BY <2>1, PlaceRemoved
  <2> HIDE DEF t
  <2> QED BY <2>2 DEF Gone
<1> HIDE DEF t
<1>2. q \in Seq(Places) /\ s.entIdx \in [Entities -> 0 .. Capacity] /\ k \in Chunks
  BY WorldTypes DEF Chunked
<1>3. i \in 1 .. n
  BY <1>1
<1>4. ASSUME n # 1
      PROVE  /\ DOMAIN x = 1 .. n - 1 /\ \A j \in 1 .. n - 1 : x[j] = IF j = i THEN q[n] ELSE q[j]
  <2>1. n > 1 /\ i \in DOMAIN q
    BY <1>1, <1>4
  <2> HIDE DEF q
  <2> QED BY <1>2, <2>1, GapFills
<1> HIDE DEF x
<1>5. ASSUME NEW e \in live, s.entChunk[e] # NoChunk
      PROVE  Lives(t, e, s.entChunk[e], t.entIdx[e]) /\ Has(t, e) = Has(s, e)
  <2> DEFINE j == s.entChunk[e]
             l == s.entIdx[e]
  <2>1. Lives(s, e, j, l) /\ ~ (j = k /\ l = i)
    BY <1>5 DEF IndexedBut
  <2>2. CASE n = 1
    <3>1. j # k
      BY <1>1, <1>3, <2>1, <2>2 DEF Lives
    <3> QED BY <1>1, <2>1, <2>2, <3>1 DEF Lives, Has
  <2>3. CASE n # 1 /\ j # k
    <3>1. t.entIdx[e] = l
      <4>1. CASE i # n
        <5>1. s.entChunk[q[n].ent] = k
          BY <1>1, <1>3, <4>1 DEF IndexedBut
        <5>2. q[n].ent # e
          BY <2>3, <5>1
        <5> QED BY <1>1, <1>2, <2>3, <4>1, <5>2
      <4> QED BY <1>1, <2>3, <4>1
    <3> QED BY <1>1, <2>1, <2>3, <3>1 DEF Lives, Has
  <2>4. CASE n # 1 /\ j = k
    <3>1. l \in 1 .. n /\ q[l].ent = e /\ l # i
      BY <1>1, <2>1, <2>4 DEF Lives
    <3>2. CASE i = n
      <4>1. l \in 1 .. n - 1 /\ t.entIdx[e] = l
        BY <1>1, <2>4, <3>1, <3>2
      <4>2. t.chunk[k].slots[l] = q[l] /\ l \in DOMAIN t.chunk[k].slots
        BY <1>1, <1>4, <2>4, <3>1, <4>1
      <4> QED BY <1>1, <2>4, <3>1, <4>1, <4>2 DEF Lives, Has
    <3>3. CASE i # n /\ l = n
      <4>1. t.entIdx[e] = i
        BY <1>1, <1>2, <2>4, <3>1, <3>3
      <4>2. i \in 1 .. n - 1
        BY <1>1, <1>3, <3>3
      <4>3. t.chunk[k].slots[i] = q[l] /\ i \in DOMAIN t.chunk[k].slots
        BY <1>1, <1>4, <2>4, <3>3, <4>2
      <4> QED BY <1>1, <2>4, <3>1, <4>1, <4>3 DEF Lives, Has
    <3>4. CASE i # n /\ l # n
      <4>1. s.entIdx[q[n].ent] = n
        BY <1>1, <1>3, <3>4 DEF IndexedBut
      <4>2. q[n].ent # e
        BY <3>4, <4>1
      <4>3. l \in 1 .. n - 1 /\ t.entIdx[e] = l
        BY <1>1, <1>2, <2>4, <3>1, <3>4, <4>2
      <4>4. t.chunk[k].slots[l] = q[l] /\ l \in DOMAIN t.chunk[k].slots
        BY <1>1, <1>4, <2>4, <3>1, <4>3
      <4> QED BY <1>1, <2>4, <3>1, <4>3, <4>4 DEF Lives, Has
    <3> QED BY <3>2, <3>3, <3>4
  <2> QED BY <2>2, <2>3, <2>4
<1>6. ASSUME NEW j \in t.used, NEW l \in DOMAIN t.chunk[j].slots
      PROVE  LET e == t.chunk[j].slots[l].ent IN e \in live /\ t.entChunk[e] = j /\ t.entIdx[e] = l
  <2> DEFINE e == t.chunk[j].slots[l].ent
  <2>1. CASE j # k
    <3>1. e \in live /\ s.entChunk[e] = j /\ s.entIdx[e] = l
      BY <1>1, <1>6, <2>1 DEF IndexedBut
    <3>2. t.entIdx[e] = l
      <4>1. CASE n # 1 /\ i # n
        <5>1. s.entChunk[q[n].ent] = k
          BY <1>1, <1>3, <4>1 DEF IndexedBut
        <5>2. q[n].ent # e
          BY <2>1, <3>1, <5>1
        <5> QED BY <1>1, <1>2, <3>1, <4>1, <5>2
      <4> QED BY <1>1, <3>1, <4>1
    <3> QED BY <1>1, <3>1, <3>2
  <2>2. CASE j = k
    <3>1. n # 1 /\ l \in 1 .. n - 1 /\ e = IF l = i THEN q[n].ent ELSE q[l].ent
      BY <1>1, <1>4, <1>6, <2>2
    <3>2. CASE l = i
      <4>1. i # n /\ e = q[n].ent
        BY <1>1, <3>1, <3>2
      <4>2. e \in live /\ s.entChunk[e] = k
        BY <1>1, <1>3, <4>1 DEF IndexedBut
      <4>3. t.entIdx[e] = i
        BY <1>1, <1>2, <3>1, <4>1, <4>2
      <4> QED BY <1>1, <2>2, <3>2, <4>2, <4>3
    <3>3. CASE l # i
      <4>1. l \in DOMAIN q /\ e = q[l].ent /\ l # n
        BY <1>1, <3>1, <3>3
      <4>2. e \in live /\ s.entChunk[e] = k /\ s.entIdx[e] = l
        BY <3>3, <4>1 DEF IndexedBut
      <4>3. t.entIdx[e] = l
        <5>1. CASE i # n
          <6>1. s.entIdx[q[n].ent] = n
            BY <1>1, <1>3, <5>1 DEF IndexedBut
          <6>2. q[n].ent # e
            BY <4>1, <4>2, <6>1
          <6> QED BY <1>1, <1>2, <3>1, <4>2, <5>1, <6>2
        <5> QED BY <1>1, <3>1, <4>2, <5>1
      <4> QED BY <1>1, <2>2, <4>2, <4>3
    <3> QED BY <3>2, <3>3
  <2> QED BY <2>1, <2>2
<1>7. \A e \in live : s.entChunk[e] = NoChunk => Has(t, e) = Has(s, e)
  BY <1>1 DEF Has
<1>8. Indexed(t, live)
  BY <1>1, <1>5, <1>6 DEF Indexed
<1>9. \A e \in live : Has(t, e) = Has(s, e)
  BY <1>5, <1>7
<1> QED BY <1>1, <1>8, <1>9 DEF Good, Chunked, t

(* What is or would be in archetype m has room there. *)
Roomy(s, m) ==
    /\ Chunks \ s.used # {}
    /\ LET k == s.first[m]
       IN  k # NoChunk => (Full(s, k) /\ s.chunk[k].next # NoChunk => ~ Full(s, s.chunk[k].next))

(* An entity added to an archetype has the data, all others have what they  *)
(* had, and the index is right but for the place it had before, if any.     *)
LEMMA EntityPlaced ==
  ASSUME NEW s, NEW live \in SUBSET Entities, Good(s, live),
         NEW e \in live, NEW m \in Masks, NEW data \in Fits(m), Roomy(s, m),
         s.entChunk[e] # NoChunk => s.chunk[s.entChunk[e]].mask # m
  PROVE  LET t == AddToArchetype(s, e, m, data)
         IN  /\ Chunked(t) /\ Come(s, t, e, m, data)
             /\ IndexedBut(t, live, s.entChunk[e], s.entIdx[e])
             /\ Has(t, e) = data
             /\ \A x \in live : x # e => Has(t, x) = Has(s, x)
<1> DEFINE t == AddToArchetype(s, e, m, data)
           k == t.entChunk[e]
           q == s.chunk[k].slots
           n == Len(q)
           place == [ent |-> e, data |-> data]
           gap == s.entChunk[e]
           idx == s.entIdx[e]
<1>1. t \in Worlds /\ Linked(t) /\ Filled(t) /\ Occupied(t) /\ Come(s, t, e, m, data)
  <2>1. s \in Worlds /\ Linked(s) /\ Filled(s) /\ Occupied(s) /\ Chunks \ s.used # {}
        /\ LET j == s.first[m]
           IN  j # NoChunk => (Full(s, j) /\ s.chunk[j].next # NoChunk => ~ Full(s, s.chunk[j].next))
    BY DEF Good, Chunked, Roomy
  <2> QED BY <2>1, EntityAdded
<1> HIDE DEF t
<1>2. /\ k \in t.used /\ t.chunk[k].mask = m
      /\ t.chunk[k].slots = Append(q, place)
      /\ \A j \in Chunks : j # k => t.chunk[j].slots = s.chunk[j].slots
      /\ s.used \subseteq t.used /\ t.used \subseteq s.used \union {k}
      /\ \A j \in s.used : t.chunk[j].mask = s.chunk[j].mask
      /\ t.entChunk = [s.entChunk EXCEPT ![e] = k]
      /\ t.entIdx = [s.entIdx EXCEPT ![e] = Len(t.chunk[k].slots)]
  BY <1>1 DEF Come
<1>3. /\ k \in Chunks /\ k # NoChunk /\ q \in Seq(Places) /\ s.used \subseteq Chunks
      /\ s.entChunk \in [Entities -> Links] /\ s.entIdx \in [Entities -> 0 .. Capacity]
  BY <1>1, <1>2, ChunkAssumption, WorldTypes DEF Good, Chunked
<1>4. Indexed(s, live)
  BY DEF Good
<1>5. place \in Places /\ place.ent = e /\ place.data = data
  BY DEF Places, Contents, Masks
<1> HIDE DEF place
<1>6. /\ n \in Nat /\ DOMAIN q = 1 .. n
      /\ Len(t.chunk[k].slots) = n + 1 /\ DOMAIN t.chunk[k].slots = 1 .. n + 1
      /\ \A i \in 1 .. n : t.chunk[k].slots[i] = q[i]
      /\ t.chunk[k].slots[n + 1] = place
  <2> HIDE DEF k
  <2>1. /\ Append(q, place) \in Seq(Places) /\ Len(Append(q, place)) = n + 1
        /\ \A i \in 1 .. n : Append(q, place)[i] = q[i]
        /\ Append(q, place)[n + 1] = place
    BY <1>3, <1>5, AppendProperties
  <2>2. n \in Nat /\ DOMAIN q = 1 .. n
    BY <1>3, LenProperties
  <2>3. DOMAIN Append(q, place) = 1 .. Len(Append(q, place))
    BY <2>1, LenProperties
  <2> QED BY <1>2, <2>1, <2>2, <2>3
<1>7. k \notin s.used => n = 0
  <2> SUFFICES ASSUME k \notin s.used PROVE n = 0
    OBVIOUS
  <2>1. s.chunk[k] = Blank
    BY <1>3 DEF Good, Chunked, Linked
  <2> QED BY <2>1, BlankChunk, EmptySeq
<1>8. gap # k
  <2> HIDE DEF k
  <2> SUFFICES ASSUME gap = k PROVE FALSE
    OBVIOUS
  <2>1. gap # NoChunk /\ gap \in s.used
    BY <1>3, <1>4 DEF Indexed, Lives
  <2>2. s.chunk[gap].mask # m
    BY <2>1
  <2> QED BY <1>2, <2>1, <2>2
<1>9. /\ t.entChunk[e] = k /\ t.entIdx[e] = n + 1
      /\ \A x \in live : x # e => t.entChunk[x] = s.entChunk[x] /\ t.entIdx[x] = s.entIdx[x]
  BY <1>2, <1>3, <1>6
<1>10. Lives(t, e, k, n + 1) /\ Has(t, e) = data
  <2> HIDE DEF k, n
  <2>1. n + 1 \in DOMAIN t.chunk[k].slots
    BY <1>6
  <2>2. Lives(t, e, k, n + 1)
    BY <1>2, <1>5, <1>6, <2>1 DEF Lives
  <2>3. Has(t, e) = t.chunk[k].slots[n + 1].data
    BY <1>3, <1>9 DEF Has
  <2> QED BY <1>5, <1>6, <2>2, <2>3
<1> HIDE DEF k, n
<1>11. ASSUME NEW x \in live, x # e
       PROVE  /\ t.entChunk[x] # NoChunk => /\ Lives(t, x, t.entChunk[x], t.entIdx[x])
                                            /\ ~ (t.entChunk[x] = gap /\ t.entIdx[x] = idx)
              /\ Has(t, x) = Has(s, x)
  <2> DEFINE j == s.entChunk[x]
             l == s.entIdx[x]
  <2>1. t.entChunk[x] = j /\ t.entIdx[x] = l
    BY <1>9, <1>11
  <2>2. CASE j = NoChunk
    BY <2>1, <2>2 DEF Has
  <2>3. CASE j # NoChunk
    <3>1. Lives(s, x, j, l)
      BY <1>4, <2>3 DEF Indexed
    <3>2. ~ (j = gap /\ l = idx)
      <4>1. gap # NoChunk => Lives(s, e, gap, idx)
        BY <1>4 DEF Indexed
      <4> QED BY <1>11, <2>3, <3>1, <4>1 DEF Lives
    <3>3. CASE j = k
      <4>1. l \in 1 .. n /\ q[l].ent = x
        BY <1>6, <3>1, <3>3 DEF Lives
      <4>2. l \in DOMAIN t.chunk[k].slots /\ t.chunk[k].slots[l] = q[l]
        <5>1. l \in 1 .. n + 1
          BY <1>6, <4>1
        <5> QED BY <1>6, <4>1, <5>1
      <4> QED BY <1>2, <2>1, <2>3, <3>2, <3>3, <4>1, <4>2 DEF Lives, Has
    <3>4. CASE j # k
      <4>1. j \in s.used /\ j \in Chunks /\ j \in t.used
        BY <1>2, <1>3, <3>1 DEF Lives
      <4>2. t.chunk[j].slots = s.chunk[j].slots
        BY <1>2, <3>4, <4>1
      <4> QED BY <2>1, <2>3, <3>1, <3>2, <4>1, <4>2 DEF Lives, Has
    <3> QED BY <3>3, <3>4
  <2> QED BY <2>2, <2>3
<1>12. ASSUME NEW j \in t.used, NEW l \in DOMAIN t.chunk[j].slots, ~ (j = gap /\ l = idx)
       PROVE  LET x == t.chunk[j].slots[l].ent IN x \in live /\ t.entChunk[x] = j /\ t.entIdx[x] = l
  <2> DEFINE x == t.chunk[j].slots[l].ent
  <2>1. CASE j = k /\ l = n + 1
    BY <1>5, <1>6, <1>9, <2>1
  <2>2. CASE j = k /\ l # n + 1
    <3>1. l \in 1 .. n /\ k \in s.used /\ t.chunk[j].slots[l] = q[l]
      <4>1. l \in 1 .. n + 1 /\ n \in Nat
        BY <1>6, <1>12, <2>2
      <4>2. l \in 1 .. n /\ n # 0
        BY <2>2, <4>1
      <4> QED BY <1>6, <1>7, <2>2, <4>2
    <3>2. x \in live /\ s.entChunk[x] = k /\ s.entIdx[x] = l
      BY <1>4, <1>6, <2>2, <3>1 DEF Indexed
    <3>3. x # e
      BY <1>8, <3>2
    <3> QED BY <1>9, <2>2, <3>2, <3>3
  <2>3. CASE j # k
    <3>1. j \in s.used /\ j \in Chunks /\ t.chunk[j].slots = s.chunk[j].slots
      BY <1>2, <1>3, <1>12, <2>3
    <3>2. x \in live /\ s.entChunk[x] = j /\ s.entIdx[x] = l
      BY <1>4, <1>12, <3>1 DEF Indexed
    <3>3. x # e
      BY <1>12, <3>2
    <3> QED BY <1>9, <3>2, <3>3
  <2> QED BY <2>1, <2>2, <2>3
<1>13. IndexedBut(t, live, gap, idx)
  <2>1. ASSUME NEW x \in live, t.entChunk[x] # NoChunk
        PROVE  Lives(t, x, t.entChunk[x], t.entIdx[x]) /\ ~ (t.entChunk[x] = gap /\ t.entIdx[x] = idx)
    <3>1. CASE x = e
      BY <1>8, <1>9, <1>10, <3>1
    <3>2. CASE x # e
      BY <1>11, <2>1, <3>2
    <3> QED BY <3>1, <3>2
  <2> QED BY <2>1, <1>12 DEF IndexedBut
<1> QED BY <1>1, <1>10, <1>11, <1>13 DEF Chunked, t

(* What the place of an entity holds fits the chunk. *)
LEMMA EntityHere ==
  ASSUME NEW s, NEW live, Good(s, live), NEW e \in live, s.entChunk[e] # NoChunk
  PROVE  LET k == s.entChunk[e]
             i == s.entIdx[e]
         IN  /\ k \in s.used /\ k \in Chunks /\ i \in DOMAIN s.chunk[k].slots
             /\ s.chunk[k].slots[i].ent = e
             /\ Has(s, e) = s.chunk[k].slots[i].data
             /\ s.chunk[k].mask \in Masks
             /\ Has(s, e) \in Fits(s.chunk[k].mask)
             /\ DOMAIN Has(s, e) = s.chunk[k].mask
<1> DEFINE k == s.entChunk[e]
           i == s.entIdx[e]
<1>1. Lives(s, e, k, i) /\ s \in Worlds /\ Linked(s) /\ Filled(s)
  BY DEF Good, Chunked, Indexed
<1>2. k \in s.used /\ k \in Chunks /\ i \in DOMAIN s.chunk[k].slots /\ s.chunk[k].slots[i].ent = e
  BY <1>1, WorldTypes DEF Lives
<1>3. s.chunk[k].mask \in Masks /\ s.chunk[k].slots[i].data \in Fits(s.chunk[k].mask)
  BY <1>1, <1>2 DEF Linked, Filled
<1>4. Has(s, e) = s.chunk[k].slots[i].data
  BY DEF Has
<1> HIDE DEF k, i
<1>5. Has(s, e) \in Fits(s.chunk[k].mask) /\ DOMAIN Has(s, e) = s.chunk[k].mask
  BY <1>3, <1>4 DEF Fits
<1> QED BY <1>2, <1>3, <1>4, <1>5 DEF k, i

(* Data moved to an archetype fits it. *)
LEMMA MovedFits ==
  ASSUME NEW n \in SUBSET Comps, NEW d \in Fits(n), NEW m \in SUBSET Comps
  PROVE  MovedData(d, m) \in Fits(m)
<1>1. DOMAIN d = n /\ \A c \in n : d[c] \in Val(c)
  BY DEF Fits
<1>2. \A c \in m : Default(c) \in Val(c)
  BY DataAssumption DEF Default, Val
<1>3. \A c \in m : (IF c \in DOMAIN d THEN d[c] ELSE Default(c)) \in Val(c)
  BY <1>1, <1>2
<1>4. \A c \in m : Val(c) \subseteq Data \union SUBSET Entities
  BY DEF Val
<1> DEFINE x == MovedData(d, m)
<1>5. DOMAIN x = m /\ x = [c \in m |-> x[c]] /\ \A c \in m : x[c] \in Val(c)
  BY <1>3 DEF MovedData
<1> HIDE DEF x
<1>6. x \in [m -> Data \union SUBSET Entities]
  <2>1. \A c \in m : x[c] \in Data \union SUBSET Entities
    BY <1>4, <1>5
  <2> QED BY <1>5, <2>1
<1> QED BY <1>5, <1>6 DEF Fits, x

(* An entity moves to another archetype with what it keeps. *)
LEMMA EntityMoved ==
  ASSUME alive \in SUBSET Entities, Good(w, alive), NEW e \in alive, w.entChunk[e] # NoChunk,
         NEW m \in Masks, m # Mask(e), Roomy(w, m), NotBeforeOthers(e)
  PROVE  /\ Good(Moved(e, m), alive)
         /\ Has(Moved(e, m), e) = MovedData(Has(w, e), m)
         /\ \A x \in alive : x # e => Has(Moved(e, m), x) = Has(w, x)
<1> DEFINE k == w.entChunk[e]
           i == w.entIdx[e]
           d == MovedData(Has(w, e), m)
           a == AddToArchetype(w, e, m, d)
           t == RemoveFromArchetype(a, i, k)
<1>1. /\ k \in w.used /\ k \in Chunks /\ i \in DOMAIN w.chunk[k].slots
      /\ w.chunk[k].slots[i].ent = e
      /\ Has(w, e) = w.chunk[k].slots[i].data
      /\ w.chunk[k].mask \in Masks /\ Has(w, e) \in Fits(w.chunk[k].mask)
  BY EntityHere
<1>2. Mask(e) = w.chunk[k].mask /\ Moved(e, m) = t
  BY <1>1 DEF Mask, Moved, Slot
<1>3. d \in Fits(m)
  BY <1>1, MovedFits DEF Masks
<1> HIDE DEF d
<1>4. /\ Chunked(a) /\ Come(w, a, e, m, d)
      /\ IndexedBut(a, alive, k, i)
      /\ Has(a, e) = d
      /\ \A x \in alive : x # e => Has(a, x) = Has(w, x)
  <2>1. w.chunk[w.entChunk[e]].mask # m
    BY <1>2
  <2> QED BY <1>3, <2>1, EntityPlaced
<1> HIDE DEF a
<1>5. k \in a.used /\ a.chunk[k] = w.chunk[k] /\ a.first[w.chunk[k].mask] = w.first[w.chunk[k].mask]
  BY <1>1, <1>2, <1>4 DEF Come
<1>6. ~ (a.first[a.chunk[k].mask] = k /\ Len(a.chunk[k].slots) = 1 /\ a.chunk[k].next # NoChunk)
  BY <1>2, <1>5 DEF NotBeforeOthers
<1>7. i \in DOMAIN a.chunk[k].slots
  BY <1>1, <1>5
<1> HIDE DEF k, i
<1>8. Good(t, alive) /\ \A x \in alive : Has(t, x) = Has(a, x)
  BY <1>4, <1>5, <1>6, <1>7, GapRepaired
<1> QED BY <1>2, <1>4, <1>8 DEF d

(* An entity leaves its archetype, and lives no more. *)
LEMMA EntityRemoved ==
  ASSUME alive \in SUBSET Entities, Good(w, alive), NEW e \in alive, w.entChunk[e] # NoChunk,
         NotBeforeOthers(e)
  PROVE  LET t == RemoveFromArchetype(w, w.entIdx[e], w.entChunk[e])
         IN  /\ Good(t, alive \ {e})
             /\ \A x \in alive : x # e => Has(t, x) = Has(w, x)
<1> DEFINE k == w.entChunk[e]
           i == w.entIdx[e]
           t == RemoveFromArchetype(w, i, k)
<1>1. /\ k \in w.used /\ k \in Chunks /\ i \in DOMAIN w.chunk[k].slots
      /\ w.chunk[k].slots[i].ent = e
      /\ w.chunk[k].mask \in Masks
  BY EntityHere
<1>2. Mask(e) = w.chunk[k].mask
  BY <1>1 DEF Mask
<1>3. ~ (w.first[w.chunk[k].mask] = k /\ Len(w.chunk[k].slots) = 1 /\ w.chunk[k].next # NoChunk)
  BY <1>2 DEF NotBeforeOthers
<1>4. Indexed(w, alive) /\ Chunked(w)
  BY DEF Good
<1>5. IndexedBut(w, alive \ {e}, k, i)
  <2>1. ASSUME NEW x \in alive \ {e}, w.entChunk[x] # NoChunk
        PROVE  Lives(w, x, w.entChunk[x], w.entIdx[x]) /\ ~ (w.entChunk[x] = k /\ w.entIdx[x] = i)
    <3>1. Lives(w, x, w.entChunk[x], w.entIdx[x])
      BY <1>4, <2>1 DEF Indexed
    <3> QED BY <1>1, <3>1 DEF Lives
  <2>2. ASSUME NEW j \in w.used, NEW l \in DOMAIN w.chunk[j].slots, ~ (j = k /\ l = i)
        PROVE  LET x == w.chunk[j].slots[l].ent IN x \in alive \ {e} /\ w.entChunk[x] = j /\ w.entIdx[x] = l
    BY <1>4, <2>2 DEF Indexed
  <2> QED BY <2>1, <2>2 DEF IndexedBut
<1>6. alive \ {e} \in SUBSET Entities
  OBVIOUS
<1> HIDE DEF k, i
<1>7. Good(t, alive \ {e}) /\ \A x \in alive \ {e} : Has(t, x) = Has(w, x)
  BY <1>1, <1>3, <1>4, <1>5, <1>6, GapRepaired
<1> QED BY <1>7 DEF t, k, i

(* Data stored in the place of an entity. *)
Put(s, e, d) == [s EXCEPT !.chunk[s.entChunk[e]].slots[s.entIdx[e]].data = d]

(* It changes what that entity has and nothing else. *)
LEMMA DataPut ==
  ASSUME NEW s, NEW live, Good(s, live), NEW e \in live, s.entChunk[e] # NoChunk,
         NEW d \in Fits(s.chunk[s.entChunk[e]].mask)
  PROVE  LET t == Put(s, e, d)
         IN  /\ Good(t, live) /\ Has(t, e) = d
             /\ \A x \in live : x # e => Has(t, x) = Has(s, x)
<1> DEFINE t == Put(s, e, d)
           k == s.entChunk[e]
           i == s.entIdx[e]
           q == s.chunk[k].slots
           p == [q[i] EXCEPT !.data = d]
           x == [q EXCEPT ![i] = p]
<1>1. /\ k \in s.used /\ k \in Chunks /\ i \in DOMAIN q /\ q[i].ent = e
      /\ s.chunk[k].mask \in Masks
  <2> HIDE DEF t, p, x, q, k, i
  <2>1. Lives(s, e, s.entChunk[e], s.entIdx[e]) /\ s \in Worlds /\ Linked(s)
    BY DEF Good, Chunked, Indexed
  <2>2. Lives(s, e, k, i) /\ q = s.chunk[k].slots
    BY <2>1 DEF q, k, i
  <2>3. k \in s.used /\ k \in Chunks /\ i \in DOMAIN q /\ q[i].ent = e
    BY <2>1, <2>2, WorldTypes DEF Lives
  <2> QED BY <2>1, <2>3 DEF Linked
<1>2. s \in Worlds /\ Linked(s) /\ Filled(s) /\ Occupied(s) /\ Indexed(s, live)
  BY DEF Good, Chunked
<1>3. q \in Seq(Places) /\ q # << >> /\ Len(q) <= Capacity
  BY <1>1, <1>2, WorldTypes DEF Filled, Occupied
<1>4. Len(q) \in Nat /\ DOMAIN q = 1 .. Len(q) /\ q[i] \in Places
  BY <1>1, <1>3, LenProperties
<1>5. p \in Places /\ p.ent = e /\ p.data = d
  <2>1. d \in Contents
    BY <1>1 DEF Contents, Masks
  <2> HIDE DEF q, k, i, t, x
  <2>2. q[i] \in Places /\ q[i].ent = e
    BY <1>1, <1>4
  <2> QED BY <2>1, <2>2 DEF Places
<1> HIDE DEF p
<1>6. x \in Seq(Places) /\ Len(x) = Len(q)
  <2> HIDE DEF q
  <2>1. i \in 1 .. Len(q)
    BY <1>1, <1>4
  <2> QED BY <1>3, <1>5, <2>1, ExceptSeq
<1>7. DOMAIN x = DOMAIN q /\ x[i] = p /\ \A l \in DOMAIN q : l # i => x[l] = q[l]
  BY <1>1
<1>8. x # << >>
  <2> HIDE DEF q
  <2>1. DOMAIN x # {}
    BY <1>1, <1>7
  <2> QED BY <2>1, EmptySeq DEF x
<1>9. \A l \in DOMAIN x : x[l].data \in Fits(s.chunk[k].mask)
  BY <1>1, <1>2, <1>5, <1>7 DEF Filled
<1>10. t = [s EXCEPT !.chunk = [s.chunk EXCEPT ![k] = [s.chunk[k] EXCEPT !.slots = x]]]
  BY DEF Put, p
<1> HIDE DEF t, x
<1>11. /\ t.used = s.used /\ t.first = s.first /\ t.entChunk = s.entChunk /\ t.entIdx = s.entIdx
       /\ t.chunk = [s.chunk EXCEPT ![k] = [s.chunk[k] EXCEPT !.slots = x]]
  BY <1>2, <1>10 DEF Worlds
<1>12. Refilled(s, t, k, x)
  BY <1>11 DEF Refilled
<1>13. Len(x) <= Capacity
  BY <1>3, <1>6
<1> HIDE DEF k, i
<1>14. /\ t.chunk \in [Chunks -> ChunkRecs]
       /\ t.chunk[k].slots = x
       /\ \A j \in Chunks : j # k => t.chunk[j] = s.chunk[j]
       /\ Linked(t) /\ Filled(t)
       /\ (\A j \in s.used : j # k => s.chunk[j].slots # << >>) => Occupied(t)
  <2>1. Kept(s, t, k, x)
    BY <1>1, <1>2, <1>6, <1>8, <1>9, <1>12, <1>13, SlotsSet
  <2> QED BY <2>1 DEF Kept
<1>15. t \in Worlds
  BY <1>2, <1>10, <1>11, <1>14 DEF Worlds
<1>16. Occupied(t)
  BY <1>2, <1>14 DEF Occupied
<1>17. \A j \in Chunks : DOMAIN t.chunk[j].slots = DOMAIN s.chunk[j].slots
                         /\ \A l \in DOMAIN s.chunk[j].slots : t.chunk[j].slots[l].ent = s.chunk[j].slots[l].ent
  BY <1>1, <1>5, <1>7, <1>14
<1>18. s.used \subseteq Chunks
  BY <1>2, WorldTypes
<1>19. Indexed(t, live)
  <2>1. ASSUME NEW y \in live, t.entChunk[y] # NoChunk PROVE Lives(t, y, t.entChunk[y], t.entIdx[y])
    <3>1. Lives(s, y, s.entChunk[y], s.entIdx[y])
      BY <1>2, <1>11, <2>1 DEF Indexed
    <3> QED BY <1>11, <1>17, <1>18, <3>1 DEF Lives
  <2>2. ASSUME NEW j \in t.used, NEW l \in DOMAIN t.chunk[j].slots
        PROVE  LET y == t.chunk[j].slots[l].ent IN y \in live /\ t.entChunk[y] = j /\ t.entIdx[y] = l
    <3>1. j \in s.used /\ j \in Chunks /\ l \in DOMAIN s.chunk[j].slots
      BY <1>11, <1>17, <1>18
    <3>2. t.chunk[j].slots[l].ent = s.chunk[j].slots[l].ent
      BY <1>17, <3>1
    <3> QED BY <1>2, <1>11, <3>1, <3>2 DEF Indexed
  <2> QED BY <2>1, <2>2 DEF Indexed
<1>20. Has(t, e) = d
  BY <1>1, <1>5, <1>7, <1>11, <1>14 DEF Has, k, i
<1>21. ASSUME NEW y \in live, y # e PROVE Has(t, y) = Has(s, y)
  <2>1. CASE s.entChunk[y] = NoChunk
    BY <1>11, <2>1 DEF Has
  <2>2. CASE s.entChunk[y] # NoChunk
    <3> DEFINE j == s.entChunk[y]
               l == s.entIdx[y]
    <3>1. j \in s.used /\ j \in Chunks /\ l \in DOMAIN s.chunk[j].slots /\ s.chunk[j].slots[l].ent = y
      BY <1>2, <1>18, <2>2 DEF Indexed, Lives
    <3>2. ~ (j = k /\ l = i)
      BY <1>1, <1>21, <3>1
    <3>3. t.chunk[j].slots[l] = s.chunk[j].slots[l]
      BY <1>7, <1>14, <3>1, <3>2
    <3> QED BY <1>11, <2>2, <3>3 DEF Has
  <2> QED BY <2>1, <2>2
<1> QED BY <1>15, <1>14, <1>16, <1>19, <1>20, <1>21 DEF Good, Chunked, t

---------------------------------------------------------------------------
(* The entity tree and the entities that a call of destroy has yet to take. *)

Kids(d) == IF ChildComp \in DOMAIN d THEN d[ChildComp] ELSE {}

(* Children live and have system state, and are in one list only.           *)
Tree(s, live) ==
    /\ \A p \in live : \A c \in Kids(Has(s, p)) :
          c \in live /\ DOMAIN Has(s, c) \intersect SysComps # {}
    /\ \A p, q \in live : \A c \in Kids(Has(s, p)) : c \in Kids(Has(s, q)) => p = q

(* The entities of q are children of entities with nothing but system       *)
(* state, and q names each one once.                                        *)
Queued(s, live, q) ==
    /\ \A i \in DOMAIN q : \E p \in live : q[i] \in Kids(Has(s, p)) /\ DOMAIN Has(s, p) \subseteq SysComps
    /\ \A i, j \in DOMAIN q : q[i] = q[j] => i = j

StorageInv ==
    /\ alive \in SUBSET Entities /\ doomed \in Seq(Entities)
    /\ Good(w, alive) /\ Tree(w, alive) /\ Queued(w, alive, doomed)

(* What an entity has, seen through the operators of the model.             *)
LEMMA Seen ==
  ASSUME StorageInv, NEW e \in alive
  PROVE  /\ Mask(e) = DOMAIN Has(w, e) /\ Mask(e) \in SUBSET Comps
         /\ Has(w, e) \in Fits(Mask(e))
         /\ Mask(e) = {} <=> w.entChunk[e] = NoChunk
         /\ e \in Stored <=> Mask(e) # {}
         /\ e \in Stored => Slot(e).data = Has(w, e)
         /\ ChildrenOf(e) = Kids(Has(w, e))
         /\ Kids(Has(w, e)) \subseteq Entities
         /\ w.entChunk[e] # NoChunk => w.chunk[w.entChunk[e]].mask = Mask(e)
<1>1. CASE w.entChunk[e] = NoChunk
  <2>1. Has(w, e) = Nothing /\ Mask(e) = {}
    BY <1>1 DEF Has, Mask
  <2>2. DOMAIN Nothing = {} /\ Nothing \in Fits({})
    BY DEF Nothing, Fits
  <2>3. e \notin Stored
    BY <2>1 DEF Stored
  <2>4. ChildrenOf(e) = {} /\ Kids(Has(w, e)) = {}
    BY <2>1, <2>2 DEF ChildrenOf, Kids
  <2> QED BY <1>1, <2>1, <2>2, <2>3, <2>4
<1>2. CASE w.entChunk[e] # NoChunk
  <2> DEFINE k == w.entChunk[e]
             i == w.entIdx[e]
  <2>1. /\ w.entChunk[e] \in w.used /\ Has(w, e) = w.chunk[w.entChunk[e]].slots[w.entIdx[e]].data
        /\ w.chunk[w.entChunk[e]].mask \in Masks
        /\ Has(w, e) \in Fits(w.chunk[w.entChunk[e]].mask)
        /\ DOMAIN Has(w, e) = w.chunk[w.entChunk[e]].mask
    BY <1>2, EntityHere DEF StorageInv
  <2>2. Mask(e) = w.chunk[w.entChunk[e]].mask
    BY <1>2 DEF Mask
  <2>3. Mask(e) # {} /\ Mask(e) \in SUBSET Comps
    BY <2>1, <2>2 DEF Masks
  <2>4. Slot(e).data = Has(w, e)
    BY <2>1 DEF Slot
  <2>5. ChildrenOf(e) = Kids(Has(w, e))
    BY <2>1, <2>2, <2>4 DEF ChildrenOf, Kids
  <2>6. Kids(Has(w, e)) \subseteq Entities
    BY <2>1, <2>2 DEF Kids, Fits, Val
  <2> QED BY <1>2, <2>1, <2>2, <2>3, <2>4, <2>5, <2>6 DEF Stored
<1> QED BY <1>1, <1>2

(* An entity that changes alone, loses children at most and is in no list   *)
(* unless it keeps system state leaves the tree a tree.                     *)
LEMMA TreeShrinks ==
  ASSUME NEW s, NEW t, NEW live, NEW rest, Tree(s, live), NEW e \in live,
         rest = live \/ rest = live \ {e},
         \A x \in rest : x # e => Has(t, x) = Has(s, x),
         e \in rest => Kids(Has(t, e)) \subseteq Kids(Has(s, e)),
         (e \in rest /\ DOMAIN Has(t, e) \intersect SysComps # {}) \/ (\A p \in live : e \notin Kids(Has(s, p)))
  PROVE  Tree(t, rest)
<1>1. \A p \in rest : p \in live /\ Kids(Has(t, p)) \subseteq Kids(Has(s, p))
  OBVIOUS
<1>2. ASSUME NEW p \in rest, NEW c \in Kids(Has(t, p))
      PROVE  c \in rest /\ DOMAIN Has(t, c) \intersect SysComps # {}
  <2>1. p \in live /\ c \in Kids(Has(s, p))
    BY <1>1, <1>2
  <2>2. c \in live /\ DOMAIN Has(s, c) \intersect SysComps # {}
    BY <2>1 DEF Tree
  <2>3. CASE c = e
    BY <2>1, <2>3
  <2>4. CASE c # e
    BY <2>2, <2>4
  <2> QED BY <2>3, <2>4
<1>3. ASSUME NEW p \in rest, NEW q \in rest, NEW c \in Kids(Has(t, p)), c \in Kids(Has(t, q)) PROVE p = q
  BY <1>1, <1>3 DEF Tree
<1> QED BY <1>2, <1>3 DEF Tree

(* The entity that Listed speaks of is in a list. *)
LEMMA Unlisted ==
  ASSUME StorageInv, NEW c, ~ Listed(c)
  PROVE  \A p \in alive : c \notin Kids(Has(w, p))
<1> SUFFICES ASSUME NEW p \in alive, c \in Kids(Has(w, p)) PROVE FALSE
  OBVIOUS
<1>1. p \in Stored /\ ChildrenOf(p) = Kids(Has(w, p))
  BY Seen DEF Kids
<1> QED BY <1>1 DEF Listed

(* With nothing to destroy there is nothing to say of the queue. *)
LEMMA QuietQueue == ASSUME NEW s, NEW live PROVE Queued(s, live, << >>)
BY EmptySeq DEF Queued

---------------------------------------------------------------------------
(* What each action does to what the entities have. *)

(* An entity without components gets its place. *)
LEMMA EntityEnters ==
  ASSUME StorageInv, NEW e \in alive, w.entChunk[e] = NoChunk,
         NEW m \in Masks, NEW data \in Fits(m), Roomy(w, m)
  PROVE  LET t == AddToArchetype(w, e, m, data)
         IN  /\ Good(t, alive) /\ t.entChunk[e] # NoChunk /\ Has(t, e) = data
             /\ \A x \in alive : x # e => Has(t, x) = Has(w, x)
<1> DEFINE t == AddToArchetype(w, e, m, data)
<1>1. /\ Chunked(t) /\ Come(w, t, e, m, data)
      /\ IndexedBut(t, alive, w.entChunk[e], w.entIdx[e])
      /\ Has(t, e) = data
      /\ \A x \in alive : x # e => Has(t, x) = Has(w, x)
  <2>1. alive \in SUBSET Entities /\ Good(w, alive)
    BY DEF StorageInv
  <2> QED BY <2>1, EntityPlaced
<1> HIDE DEF t
<1>2. t.used \subseteq Chunks /\ t.entChunk[e] \in t.used
  BY <1>1, WorldTypes DEF Chunked, Come
<1>3. NoChunk \notin t.used
  BY <1>2, ChunkAssumption
<1>4. Indexed(t, alive)
  <2>1. \A j \in t.used : j # w.entChunk[e]
    BY <1>3
  <2> QED BY <1>1, <2>1 DEF IndexedBut, Indexed
<1> QED BY <1>1, <1>2, <1>3, <1>4 DEF Good, t

(* What add_components, remove_components and destroy ask of the chunks.    *)
LEMMA RoomForIsRoomy == ASSUME NEW m, HasRoom, TwoChunksDo(m) PROVE Roomy(w, m)
BY DEF HasRoom, TwoChunksDo, Roomy

(* create_entities: a new entity has nothing. *)
LEMMA CreateEffect ==
  ASSUME StorageInv, NEW e \in Entities, Create(e)
  PROVE  /\ Good(w', alive \union {e}) /\ Has(w', e) = Nothing
         /\ \A x \in alive : Has(w', x) = Has(w, x)
<1>1. w' = [w EXCEPT !.entChunk[e] = NoChunk] /\ e \notin alive
  BY DEF Create
<1>2. w \in Worlds /\ Linked(w) /\ Filled(w) /\ Occupied(w) /\ Indexed(w, alive) /\ alive \in SUBSET Entities
  BY DEF StorageInv, Good, Chunked
<1>3. /\ w'.chunk = w.chunk /\ w'.used = w.used /\ w'.first = w.first /\ w'.entIdx = w.entIdx
      /\ w'.entChunk = [w.entChunk EXCEPT ![e] = NoChunk]
  BY <1>1, <1>2 DEF Worlds
<1>4. w' \in Worlds
  <2>1. w.entChunk \in [Entities -> Links] /\ NoChunk \in Links
    BY <1>2, WorldTypes DEF Links
  <2>2. w'.entChunk \in [Entities -> Links]
    BY <1>3, <2>1
  <2> QED BY <1>1, <1>2, <2>2 DEF Worlds
<1>5. w'.entChunk[e] = NoChunk /\ \A x \in alive : w'.entChunk[x] = w.entChunk[x]
  BY <1>1, <1>2, <1>3, WorldTypes
<1>6. Linked(w') /\ Filled(w') /\ Occupied(w')
  BY <1>2, <1>3 DEF Linked, Filled, Occupied
<1>7. Indexed(w', alive \union {e})
  <2>1. ASSUME NEW x \in alive \union {e}, w'.entChunk[x] # NoChunk
        PROVE  Lives(w', x, w'.entChunk[x], w'.entIdx[x])
    BY <1>2, <1>3, <1>5, <2>1 DEF Indexed, Lives
  <2>2. ASSUME NEW j \in w'.used, NEW l \in DOMAIN w'.chunk[j].slots
        PROVE  LET x == w'.chunk[j].slots[l].ent
               IN  x \in alive \union {e} /\ w'.entChunk[x] = j /\ w'.entIdx[x] = l
    BY <1>2, <1>3, <1>5 DEF Indexed
  <2> QED BY <2>1, <2>2 DEF Indexed
<1>8. Has(w', e) = Nothing /\ \A x \in alive : Has(w', x) = Has(w, x)
  BY <1>3, <1>5 DEF Has
<1> QED BY <1>4, <1>6, <1>7, <1>8 DEF Good, Chunked

(* A client's write changes one component of one entity. *)
LEMMA WriteEffect ==
  ASSUME StorageInv, NEW e \in alive, NEW c, NEW v \in Val(c), Write(e, c, v)
  PROVE  /\ c \in DOMAIN Has(w, e)
         /\ Good(w', alive) /\ Has(w', e) = [Has(w, e) EXCEPT ![c] = v]
         /\ \A x \in alive : x # e => Has(w', x) = Has(w, x)
<1> DEFINE d == [Has(w, e) EXCEPT ![c] = v]
<1>1. /\ c \in Mask(e)
      /\ w' = [w EXCEPT !.chunk[w.entChunk[e]].slots[w.entIdx[e]].data[c] = v]
  BY DEF Write
<1>2. /\ Mask(e) = DOMAIN Has(w, e) /\ w.entChunk[e] # NoChunk /\ Has(w, e) \in Fits(Mask(e))
      /\ w.chunk[w.entChunk[e]].mask = Mask(e)
  BY <1>1, Seen
<1>3. Has(w, e) = w.chunk[w.entChunk[e]].slots[w.entIdx[e]].data
  BY <1>2 DEF Has
<1>4. w' = Put(w, e, d)
  BY <1>1, <1>3 DEF Put
<1>5. d \in Fits(Mask(e))
  <2>1. Has(w, e) \in [Mask(e) -> Data \union SUBSET Entities] /\ \A b \in Mask(e) : Has(w, e)[b] \in Val(b)
    BY <1>2 DEF Fits
  <2>2. v \in Data \union SUBSET Entities
    BY DEF Val
  <2>3. d \in [Mask(e) -> Data \union SUBSET Entities]
    BY <2>1, <2>2
  <2>4. \A b \in Mask(e) : d[b] \in Val(b)
    BY <1>2, <2>1
  <2> QED BY <2>3, <2>4 DEF Fits
<1> HIDE DEF d
<1>6. Good(w, alive)
  BY DEF StorageInv
<1>7. /\ Good(Put(w, e, d), alive) /\ Has(Put(w, e, d), e) = d
      /\ \A x \in alive : x # e => Has(Put(w, e, d), x) = Has(w, x)
  BY <1>2, <1>5, <1>6, DataPut
<1> QED BY <1>1, <1>2, <1>4, <1>7 DEF d

(* The data that add_components is given fits the components. *)
LEMMA GivenFits ==
  ASSUME NEW set, NEW given \in Given(set)
  PROVE  /\ DOMAIN given = set /\ \A c \in set : given[c] \in Val(c)
         /\ ChildComp \in set => given[ChildComp] = {}
<1> PICK d \in [set -> Data] : given = [c \in set |-> IF c = ChildComp THEN {} ELSE d[c]]
  BY DEF Given
<1> QED BY DEF Val

(* What an entity has after components are added. *)
Added(d, m, given) == [c \in m |-> IF c \in DOMAIN given THEN given[c] ELSE MovedData(d, m)[c]]

(* add_components: the entity has the new components, with the data given.  *)
LEMMA AddEffect ==
  ASSUME StorageInv, NEW e \in Entities, NEW cs \in SUBSET Comps, NEW set \in SUBSET cs,
         NEW given \in Given(set), CanAdd(e, cs), Add(e, cs, given)
  PROVE  LET m == DOMAIN Has(w, e) \union cs
         IN  /\ e \in alive /\ alive' = alive /\ Good(w', alive)
             /\ Has(w', e) = Added(Has(w, e), m, given)
             /\ \A x \in alive : x # e => Has(w', x) = Has(w, x)
<1> DEFINE m == Mask(e) \union cs
           d == MovedData(Has(w, e), m)
           moved == CASE Mask(e) = m -> w
                      [] Mask(e) = {} -> AddToArchetype(w, e, m, MovedData(<< >>, m))
                      [] OTHER -> Moved(e, m)
           f == [c \in m |-> IF c \in DOMAIN given THEN given[c] ELSE moved.chunk[moved.entChunk[e]].slots[moved.entIdx[e]].data[c]]
<1>1. /\ e \in alive /\ cs # {} /\ alive' = alive
      /\ m # Mask(e) => HasRoom /\ TwoChunksDo(m)
      /\ Mask(e) \notin {{}, m} => NotBeforeOthers(e)
      /\ w' = Put(moved, e, f)
  BY DEF Add, CanAdd, Put
<1>2. /\ Mask(e) = DOMAIN Has(w, e) /\ Mask(e) \in SUBSET Comps /\ Has(w, e) \in Fits(Mask(e))
      /\ Mask(e) = {} <=> w.entChunk[e] = NoChunk
  BY <1>1, Seen
<1>3. m \in Masks /\ m \in SUBSET Comps /\ (m # Mask(e) => Roomy(w, m))
  BY <1>1, <1>2, RoomForIsRoomy DEF Masks
<1>4. d \in Fits(m)
  <2> HIDE DEF m
  <2> QED BY <1>2, <1>3, MovedFits
<1>5. alive \in SUBSET Entities /\ Good(w, alive)
  BY DEF StorageInv
<1>6. /\ Good(moved, alive) /\ moved.entChunk[e] # NoChunk
      /\ Has(moved, e) = d
      /\ \A x \in alive : x # e => Has(moved, x) = Has(w, x)
  <2>1. CASE Mask(e) = m
    <3>1. moved = w
      BY <1>1, <2>1
    <3> HIDE DEF moved
    <3>2. w.entChunk[e] # NoChunk
      BY <1>1, <1>2, <2>1
    <3>3. Has(w, e) = d
      <4>1. Has(w, e) = [c \in m |-> Has(w, e)[c]]
        BY <1>2, <2>1 DEF Fits
      <4> QED BY <1>2, <2>1, <4>1 DEF MovedData
    <3> QED BY <1>5, <3>1, <3>2, <3>3
  <2>2. CASE Mask(e) # m /\ Mask(e) = {}
    <3>1. moved = AddToArchetype(w, e, m, MovedData(<< >>, m))
      BY <2>2
    <3>2. MovedData(<< >>, m) = d
      <4>1. DOMAIN << >> = {} /\ DOMAIN Has(w, e) = {}
        BY <1>2, <2>2, BlankChunk DEF Blank
      <4> QED BY <4>1 DEF MovedData
    <3> HIDE DEF moved, m, d
    <3>3. w.entChunk[e] = NoChunk
      BY <1>2, <2>2
    <3>4. LET t == AddToArchetype(w, e, m, d)
          IN  /\ Good(t, alive) /\ t.entChunk[e] # NoChunk /\ Has(t, e) = d
              /\ \A x \in alive : x # e => Has(t, x) = Has(w, x)
      BY <1>1, <1>3, <1>4, <2>2, <3>3, EntityEnters
    <3> QED BY <3>1, <3>2, <3>4
  <2>3. CASE Mask(e) # m /\ Mask(e) # {}
    <3>1. moved = Moved(e, m)
      BY <2>3
    <3>2. w.entChunk[e] # NoChunk /\ NotBeforeOthers(e)
      BY <1>1, <1>2, <2>3
    <3> HIDE DEF moved, m
    <3>3. Good(moved, alive) /\ Has(moved, e) = d /\ \A x \in alive : x # e => Has(moved, x) = Has(w, x)
      BY <1>1, <1>3, <1>5, <2>3, <3>1, <3>2, EntityMoved
    <3>4. moved.entChunk[e] # NoChunk
      <4>1. DOMAIN d = m /\ m # {}
        BY <1>3 DEF MovedData, Masks
      <4>2. DOMAIN Nothing = {}
        BY DEF Nothing
      <4> QED BY <3>3, <4>1, <4>2 DEF Has
    <3> QED BY <3>3, <3>4
  <2> QED BY <2>1, <2>2, <2>3
<1> HIDE DEF moved
<1>7. moved.chunk[moved.entChunk[e]].mask = m
  <2>1. DOMAIN Has(moved, e) = moved.chunk[moved.entChunk[e]].mask
    <3> HIDE DEF d, m
    <3>1. e \in alive /\ Good(moved, alive) /\ moved.entChunk[e] # NoChunk
      BY <1>1, <1>6
    <3> QED BY <3>1, EntityHere, SMTT(30)
  <2>2. DOMAIN d = m
    BY DEF MovedData
  <2> QED BY <1>6, <2>1, <2>2
<1>8. f = Added(Has(w, e), m, given)
  <2>1. moved.chunk[moved.entChunk[e]].slots[moved.entIdx[e]].data = d
    BY <1>6 DEF Has
  <2> QED BY <2>1 DEF Added
<1>9. f \in Fits(m)
  <2>1. /\ DOMAIN given = set /\ \A c \in set : given[c] \in Val(c)
    BY GivenFits
  <2>2. d \in [m -> Data \union SUBSET Entities] /\ \A c \in m : d[c] \in Val(c)
    BY <1>4 DEF Fits
  <2>3. f = [c \in m |-> IF c \in DOMAIN given THEN given[c] ELSE d[c]]
    BY <1>8 DEF Added
  <2> HIDE DEF f, m, d
  <2>4. \A c \in m : f[c] \in Val(c)
    BY <2>1, <2>2, <2>3
  <2>5. \A c \in m : f[c] \in Data \union SUBSET Entities
    BY <2>4 DEF Val
  <2> QED BY <2>3, <2>4, <2>5 DEF Fits
<1> HIDE DEF f, m, d
<1>10. /\ Good(Put(moved, e, f), alive) /\ Has(Put(moved, e, f), e) = f
       /\ \A x \in alive : x # e => Has(Put(moved, e, f), x) = Has(moved, x)
  BY <1>1, <1>6, <1>7, <1>9, DataPut
<1> QED BY <1>1, <1>2, <1>6, <1>8, <1>10 DEF m

(* remove_components: the entity keeps the rest, or has nothing left and    *)
(* dies.                                                                    *)
LEMMA RemoveEffect ==
  ASSUME StorageInv, NEW e \in Entities, NEW cs \in SUBSET Comps, CanRemove(e, cs), Remove(e, cs)
  PROVE  LET m == DOMAIN Has(w, e) \ cs
         IN  /\ e \in alive
             /\ m # {} => alive' = alive /\ Has(w', e) = MovedData(Has(w, e), m)
             /\ m = {} => alive' = alive \ {e} /\ DOMAIN Has(w, e) \intersect SysComps # {}
             /\ m \intersect SysComps = {} => ~ Listed(e)
             /\ Good(w', alive')
             /\ \A x \in alive : x # e => Has(w', x) = Has(w, x)
<1> DEFINE m == Mask(e) \ cs
<1>1. /\ e \in alive /\ CanRemove(e, cs) /\ NotBeforeOthers(e) /\ cs \intersect Mask(e) # {}
      /\ m # {} => HasRoom /\ TwoChunksDo(m) /\ w' = Moved(e, m) /\ UNCHANGED alive
      /\ m = {} => /\ w' = RemoveFromArchetype(w, w.entIdx[e], w.entChunk[e])
                   /\ alive' = IF Mask(e) \intersect SysComps # {} THEN alive \ {e} ELSE alive
  BY DEF Remove, CanRemove
<1>2. /\ Mask(e) = DOMAIN Has(w, e) /\ Mask(e) \in SUBSET Comps
      /\ Mask(e) = {} <=> w.entChunk[e] = NoChunk
  BY <1>1, Seen
<1>3. /\ w.entChunk[e] # NoChunk /\ m # Mask(e)
      /\ m = {} => Mask(e) \intersect SysComps # {}
      /\ m \intersect SysComps = {} => ~ Listed(e)
  BY <1>1, <1>2 DEF CanRemove
<1>4. alive \in SUBSET Entities /\ Good(w, alive)
  BY DEF StorageInv
<1>5. m # {} => m \in Masks
  BY <1>2 DEF Masks
<1>6. CASE m # {}
  <2> HIDE DEF m
  <2>1. HasRoom /\ TwoChunksDo(m) /\ w' = Moved(e, m) /\ alive' = alive /\ m \in Masks
    BY <1>1, <1>5, <1>6
  <2>2. Roomy(w, m)
    BY <2>1, RoomForIsRoomy
  <2>3. /\ Good(Moved(e, m), alive) /\ Has(Moved(e, m), e) = MovedData(Has(w, e), m)
        /\ \A x \in alive : x # e => Has(Moved(e, m), x) = Has(w, x)
    BY <1>1, <1>3, <1>4, <2>1, <2>2, EntityMoved
  <2> QED BY <1>1, <1>2, <1>3, <1>6, <2>1, <2>3 DEF m
<1>7. CASE m = {}
  <2>1. w' = RemoveFromArchetype(w, w.entIdx[e], w.entChunk[e]) /\ alive' = alive \ {e}
    BY <1>1, <1>3, <1>7
  <2>2. LET t == RemoveFromArchetype(w, w.entIdx[e], w.entChunk[e])
        IN  Good(t, alive \ {e}) /\ \A x \in alive : x # e => Has(t, x) = Has(w, x)
    BY <1>1, <1>3, <1>4, EntityRemoved
  <2> QED BY <1>1, <1>2, <1>3, <1>7, <2>1, <2>2
<1> QED BY <1>6, <1>7

(* A turn of destroy: the entity keeps its system state, or dies without,   *)
(* and its children are next; an entity with nothing else stays.            *)
LEMMA DestroyEffect ==
  ASSUME StorageInv, NEW e \in alive, NEW rest, CanDestroy(e), DestroyOne(e, rest)
  PROVE  LET h == Has(w, e)
             m == DOMAIN h \intersect SysComps
         IN  /\ DOMAIN h # {}
             /\ m = DOMAIN h => UNCHANGED <<w, alive>> /\ doomed' = rest
             /\ m = {} => ~ Listed(e)
             /\ m # DOMAIN h =>
                  /\ m # {} => alive' = alive /\ Has(w', e) = MovedData(h, m)
                  /\ m = {} => alive' = alive \ {e}
                  /\ Good(w', alive')
                  /\ \A x \in alive : x # e => Has(w', x) = Has(w, x)
                  /\ \E children \in [1 .. Cardinality(Kids(h)) -> Kids(h)] :
                        /\ \A c \in Kids(h) : \E j \in DOMAIN children : children[j] = c
                        /\ doomed' = children \o rest
<1> DEFINE m == Mask(e) \intersect SysComps
           k == w.entChunk[e]
           last == w.chunk[k].slots[Len(w.chunk[k].slots)]
           found == IF ChildComp \in Mask(e) THEN last.data[ChildComp] ELSE {}
<1>1. /\ Mask(e) # {}
      /\ m = {} => ~ Listed(e)
      /\ m # Mask(e) => LastOrAlike(e) /\ NotBeforeOthers(e) /\ (m # {} => TwoChunksDo(m))
  BY DEF CanDestroy
<1>2. /\ Mask(e) = DOMAIN Has(w, e) /\ Mask(e) \in SUBSET Comps
      /\ w.entChunk[e] # NoChunk
      /\ ChildrenOf(e) = Kids(Has(w, e))
  <2>1. Mask(e) # {}
    BY DEF CanDestroy
  <2> QED BY <2>1, Seen
<1>3. alive \in SUBSET Entities /\ Good(w, alive)
  BY DEF StorageInv
<1>4. CASE m = Mask(e)
  BY <1>1, <1>2, <1>4 DEF DestroyOne
<1>5. CASE m # Mask(e)
  <2>1. /\ m # {} => HasRoom
        /\ w' = IF m = {} THEN RemoveFromArchetype(w, w.entIdx[e], w.entChunk[e]) ELSE Moved(e, m)
        /\ alive' = IF m = {} THEN alive \ {e} ELSE alive
        /\ \E children \in [1 .. Cardinality(found) -> found] :
               /\ \A c \in found : \E j \in DOMAIN children : children[j] = c
               /\ doomed' = children \o rest
    BY <1>5 DEF DestroyOne
  <2>2. LastOrAlike(e) /\ NotBeforeOthers(e) /\ (m # {} => TwoChunksDo(m))
    BY <1>1, <1>5
  <2>3. found = Kids(Has(w, e))
    <3>1. CASE ChildComp \in Mask(e)
      <4>1. found = ChildrenOf(e)
        BY <2>2, <3>1 DEF LastOrAlike
      <4> QED BY <1>2, <4>1
    <3>2. CASE ChildComp \notin Mask(e)
      BY <1>2, <3>2 DEF Kids
    <3> QED BY <3>1, <3>2
  <2> HIDE DEF found
  <2>4. /\ m # {} => alive' = alive /\ Has(w', e) = MovedData(Has(w, e), m)
        /\ m = {} => alive' = alive \ {e}
        /\ Good(w', alive')
        /\ \A x \in alive : x # e => Has(w', x) = Has(w, x)
    <3>1. CASE m # {}
      <4>1. m \in Masks
        BY <1>2, <3>1 DEF Masks
      <4> HIDE DEF m
      <4>2. w' = Moved(e, m) /\ alive' = alive /\ Roomy(w, m)
        BY <2>1, <2>2, <3>1, RoomForIsRoomy
      <4>3. /\ Good(Moved(e, m), alive) /\ Has(Moved(e, m), e) = MovedData(Has(w, e), m)
            /\ \A x \in alive : x # e => Has(Moved(e, m), x) = Has(w, x)
        BY <1>2, <1>3, <1>5, <2>2, <4>1, <4>2, EntityMoved
      <4> QED BY <3>1, <4>2, <4>3
    <3>2. CASE m = {}
      <4>1. w' = RemoveFromArchetype(w, w.entIdx[e], w.entChunk[e]) /\ alive' = alive \ {e}
        BY <2>1, <3>2
      <4>2. LET t == RemoveFromArchetype(w, w.entIdx[e], w.entChunk[e])
            IN  Good(t, alive \ {e}) /\ \A x \in alive : x # e => Has(t, x) = Has(w, x)
        BY <1>2, <1>3, <2>2, EntityRemoved
      <4> QED BY <3>2, <4>1, <4>2
    <3> QED BY <3>1, <3>2
  <2> QED BY <1>1, <1>2, <1>5, <2>1, <2>3, <2>4
<1> QED BY <1>4, <1>5

---------------------------------------------------------------------------
(* Every action keeps the storage as it should be. *)

(* The empty world. *)
LEMMA StorageInit == Init => StorageInv
<1> SUFFICES ASSUME Init PROVE StorageInv
  OBVIOUS
<1>1. /\ w = [chunk |-> [k \in Chunks |-> Blank], used |-> {}, first |-> [m \in Masks |-> NoChunk],
              entChunk |-> [e \in Entities |-> NoChunk], entIdx |-> [e \in Entities |-> 0]]
      /\ alive = {} /\ doomed = << >>
  BY DEF Init
<1>2. w \in Worlds
  <2>1. Blank \in ChunkRecs
    BY BlankChunk
  <2>2. /\ [k \in Chunks |-> Blank] \in [Chunks -> ChunkRecs]
        /\ [m \in Masks |-> NoChunk] \in [Masks -> Links]
        /\ [e \in Entities |-> NoChunk] \in [Entities -> Links]
        /\ [e \in Entities |-> 0] \in [Entities -> 0 .. Capacity]
    BY <2>1, CapacityAssumption DEF Links
  <2> QED BY <1>1, <2>2 DEF Worlds
<1>3. /\ w.used = {} /\ \A k \in Chunks : w.chunk[k] = Blank
      /\ \A m \in Masks : w.first[m] = NoChunk
  BY <1>1
<1>4. Linked(w) /\ Occupied(w) /\ Indexed(w, alive)
  BY <1>1, <1>3 DEF Linked, Occupied, Indexed
<1>5. Filled(w)
  BY <1>3, BlankChunk DEF Filled
<1>6. Tree(w, alive) /\ Queued(w, alive, doomed)
  BY <1>1, QuietQueue DEF Tree
<1>7. doomed \in Seq(Entities) /\ alive \in SUBSET Entities
  BY <1>1, EmptySeq
<1> QED BY <1>2, <1>4, <1>5, <1>6, <1>7 DEF StorageInv, Good, Chunked

(* A new entity is in no list and has none. *)
LEMMA InvCreate == ASSUME StorageInv, NEW e \in Entities, Create(e) PROVE StorageInv'
<1>1. /\ Good(w', alive \union {e}) /\ Has(w', e) = Nothing
      /\ \A x \in alive : Has(w', x) = Has(w, x)
  BY CreateEffect
<1>2. alive' = alive \union {e} /\ e \notin alive /\ doomed = << >> /\ doomed' = doomed
  BY DEF Create, Quiet
<1>3. Kids(Nothing) = {}
  BY DEF Kids, Nothing
<1>4. Tree(w, alive) /\ alive \in SUBSET Entities /\ doomed \in Seq(Entities)
  BY DEF StorageInv
<1>5. Tree(w', alive')
  <2>1. ASSUME NEW p \in alive', NEW c \in Kids(Has(w', p))
        PROVE  p \in alive /\ Has(w', p) = Has(w, p) /\ c \in alive /\ DOMAIN Has(w', c) \intersect SysComps # {}
    <3>1. p \in alive /\ Has(w', p) = Has(w, p)
      BY <1>1, <1>2, <1>3, <2>1
    <3>2. c \in alive /\ DOMAIN Has(w, c) \intersect SysComps # {}
      BY <1>4, <2>1, <3>1 DEF Tree
    <3> QED BY <1>1, <3>1, <3>2
  <2>2. ASSUME NEW p \in alive', NEW q \in alive', NEW c \in Kids(Has(w', p)), c \in Kids(Has(w', q))
        PROVE  p = q
    <3>1. /\ p \in alive /\ Has(w', p) = Has(w, p)
          /\ q \in alive /\ Has(w', q) = Has(w, q)
      BY <2>1, <2>2
    <3> QED BY <1>4, <2>2, <3>1 DEF Tree
  <2> QED BY <1>2, <2>1, <2>2 DEF Tree
<1>6. Queued(w', alive', doomed')
  BY <1>2, QuietQueue
<1>7. Good(w', alive')
  BY <1>1, <1>2
<1>8. alive' \in SUBSET Entities /\ doomed' \in Seq(Entities)
  BY <1>2, <1>4
<1> QED BY <1>5, <1>6, <1>7, <1>8 DEF StorageInv

(* Added components bring no children. *)
LEMMA InvAdd ==
  ASSUME StorageInv, NEW e \in Entities, NEW cs \in SUBSET Comps, NEW set \in SUBSET cs,
         NEW given \in Given(set), CanAdd(e, cs), Add(e, cs, given)
  PROVE  StorageInv'
<1> DEFINE m == DOMAIN Has(w, e) \union cs
<1>1. /\ e \in alive /\ alive' = alive /\ Good(w', alive)
      /\ Has(w', e) = Added(Has(w, e), m, given)
      /\ \A x \in alive : x # e => Has(w', x) = Has(w, x)
  BY AddEffect
<1>2. doomed = << >> /\ doomed' = doomed
  BY DEF Add, Quiet
<1>3. Tree(w, alive) /\ alive \in SUBSET Entities /\ doomed \in Seq(Entities)
  BY DEF StorageInv
<1>4. Kids(Has(w', e)) \subseteq Kids(Has(w, e))
  <2>1. DOMAIN given = set /\ (ChildComp \in set => given[ChildComp] = {})
    BY GivenFits
  <2>2. DOMAIN Has(w', e) = m /\ \A c \in m : Has(w', e)[c] = IF c \in DOMAIN given THEN given[c]
                                          ELSE IF c \in DOMAIN Has(w, e) THEN Has(w, e)[c] ELSE Default(c)
    BY <1>1 DEF Added, MovedData
  <2>3. Default(ChildComp) = {}
    BY DEF Default
  <2> QED BY <2>1, <2>2, <2>3 DEF Kids
<1>5. DOMAIN Has(w, e) \subseteq DOMAIN Has(w', e)
  BY <1>1 DEF Added
<1>6. (DOMAIN Has(w', e) \intersect SysComps # {}) \/ (\A p \in alive : e \notin Kids(Has(w, p)))
  BY <1>3, <1>5 DEF Tree
<1>7. Tree(w', alive')
  <2>1. Tree(w', alive)
    <3>1. /\ \A x \in alive : x # e => Has(w', x) = Has(w, x)
          /\ e \in alive => Kids(Has(w', e)) \subseteq Kids(Has(w, e))
          /\ (e \in alive /\ DOMAIN Has(w', e) \intersect SysComps # {}) \/ (\A p \in alive : e \notin Kids(Has(w, p)))
      BY <1>1, <1>4, <1>6
    <3>2. e \in alive /\ Tree(w, alive)
      BY <1>1, <1>3
    <3> QED BY <3>1, <3>2, TreeShrinks
  <2> QED BY <1>1, <2>1
<1>8. Queued(w', alive', doomed')
  BY <1>2, QuietQueue
<1> QED BY <1>1, <1>2, <1>3, <1>7, <1>8 DEF StorageInv

(* What clients write keeps the tree a tree. *)
LEMMA InvStore == ASSUME StorageInv, NEW e \in Entities, e \in Stored, Store(e) PROVE StorageInv'
<1>1. e \in alive
  BY DEF Stored
<1>2. Tree(w, alive) /\ alive \in SUBSET Entities /\ doomed \in Seq(Entities)
  BY DEF StorageInv
<1>3. ASSUME NEW c, NEW v \in Val(c), Write(e, c, v),
             \/ c = ChildComp => v \subseteq ChildrenOf(e)
             \/ /\ c = ChildComp
                /\ \E x \in Stored \ {e} : /\ ~ Listed(x) /\ Mask(x) \intersect SysComps # {}
                                           /\ v = ChildrenOf(e) \union {x}
      PROVE  StorageInv'
  <2>1. /\ c \in DOMAIN Has(w, e)
        /\ Good(w', alive) /\ Has(w', e) = [Has(w, e) EXCEPT ![c] = v]
        /\ \A x \in alive : x # e => Has(w', x) = Has(w, x)
    BY <1>1, <1>3, WriteEffect
  <2>2. doomed = << >> /\ doomed' = doomed /\ alive' = alive
    BY <1>3 DEF Write, Quiet
  <2>3. ChildrenOf(e) = Kids(Has(w, e))
    BY <1>1, Seen
  <2>4. \A x \in alive : DOMAIN Has(w', x) = DOMAIN Has(w, x)
    BY <1>1, <2>1
  <2>5. /\ c # ChildComp => Kids(Has(w', e)) = Kids(Has(w, e))
        /\ c = ChildComp => Kids(Has(w', e)) = v
    BY <2>1 DEF Kids
  <2>6. Tree(w', alive)
    <3>1. CASE c = ChildComp => v \subseteq ChildrenOf(e)
      <4>1. Kids(Has(w', e)) \subseteq Kids(Has(w, e))
        BY <2>3, <2>5, <3>1
      <4>2. (DOMAIN Has(w', e) \intersect SysComps # {}) \/ (\A p \in alive : e \notin Kids(Has(w, p)))
        BY <1>1, <1>2, <2>4 DEF Tree
      <4>3. /\ \A x \in alive : x # e => Has(w', x) = Has(w, x)
            /\ e \in alive => Kids(Has(w', e)) \subseteq Kids(Has(w, e))
            /\ (e \in alive /\ DOMAIN Has(w', e) \intersect SysComps # {}) \/ (\A p \in alive : e \notin Kids(Has(w, p)))
        BY <1>1, <2>1, <4>1, <4>2
      <4> QED BY <1>1, <1>2, <4>3, TreeShrinks
    <3>2. CASE /\ c = ChildComp
               /\ \E x \in Stored \ {e} : /\ ~ Listed(x) /\ Mask(x) \intersect SysComps # {}
                                          /\ v = ChildrenOf(e) \union {x}
      <4>1. PICK x \in Stored \ {e} : /\ ~ Listed(x) /\ Mask(x) \intersect SysComps # {}
                                      /\ v = ChildrenOf(e) \union {x}
        BY <3>2
      <4>2. x \in alive /\ DOMAIN Has(w, x) \intersect SysComps # {}
        BY <4>1, Seen DEF Stored
      <4>3. \A p \in alive : x \notin Kids(Has(w, p))
        BY <4>1, Unlisted
      <4>4. Kids(Has(w', e)) = Kids(Has(w, e)) \union {x}
        BY <2>3, <2>5, <3>2, <4>1
      <4>5. ASSUME NEW p \in alive, NEW d \in Kids(Has(w', p))
            PROVE  /\ d # x => d \in Kids(Has(w, p))
                   /\ d = x => p = e
        BY <2>1, <4>3, <4>4, <4>5
      <4>6. ASSUME NEW p \in alive, NEW d \in Kids(Has(w', p))
            PROVE  d \in alive /\ DOMAIN Has(w', d) \intersect SysComps # {}
        BY <1>2, <2>4, <4>2, <4>5, <4>6 DEF Tree
      <4>7. ASSUME NEW p \in alive, NEW q \in alive, NEW d \in Kids(Has(w', p)), d \in Kids(Has(w', q))
            PROVE  p = q
        BY <1>2, <4>5, <4>7 DEF Tree
      <4> QED BY <4>6, <4>7 DEF Tree
    <3> QED BY <1>3, <3>1, <3>2
  <2>7. Queued(w', alive', doomed')
    BY <2>2, QuietQueue
  <2> QED BY <1>2, <2>1, <2>2, <2>6, <2>7 DEF StorageInv
<1>4. CASE \E c \in Comps \ {ChildComp} : \E v \in Data : Write(e, c, v)
  <2>1. PICK c \in Comps \ {ChildComp}, v \in Data : Write(e, c, v)
    BY <1>4
  <2>2. v \in Val(c) /\ c # ChildComp
    BY <2>1 DEF Val
  <2> QED BY <1>3, <2>1, <2>2
<1>5. CASE \E c \in Stored \ {e} : /\ ~ Listed(c) /\ Mask(c) \intersect SysComps # {}
                                   /\ Write(e, ChildComp, ChildrenOf(e) \union {c})
  <2>1. PICK c \in Stored \ {e} : /\ ~ Listed(c) /\ Mask(c) \intersect SysComps # {}
                                  /\ Write(e, ChildComp, ChildrenOf(e) \union {c})
    BY <1>5
  <2>2. ChildrenOf(e) \union {c} \in Val(ChildComp)
    BY <1>1, <1>2, <2>1, Seen DEF Stored, Val
  <2> QED BY <1>3, <2>1, <2>2
<1>6. CASE \E c \in ChildrenOf(e) : Write(e, ChildComp, ChildrenOf(e) \ {c})
  <2>1. PICK c \in ChildrenOf(e) : Write(e, ChildComp, ChildrenOf(e) \ {c})
    BY <1>6
  <2>2. ChildrenOf(e) \ {c} \in Val(ChildComp)
    BY <1>1, Seen DEF Val
  <2> QED BY <1>3, <2>1, <2>2
<1> QED BY <1>4, <1>5, <1>6 DEF Store

(* What is in a list keeps system state. *)
LEMMA InvRemove ==
  ASSUME StorageInv, NEW e \in Entities, NEW cs \in SUBSET Comps, CanRemove(e, cs), Remove(e, cs)
  PROVE  StorageInv'
<1> DEFINE m == DOMAIN Has(w, e) \ cs
<1>1. /\ e \in alive
      /\ m # {} => alive' = alive /\ Has(w', e) = MovedData(Has(w, e), m)
      /\ m = {} => alive' = alive \ {e} /\ DOMAIN Has(w, e) \intersect SysComps # {}
      /\ m \intersect SysComps = {} => ~ Listed(e)
      /\ Good(w', alive')
      /\ \A x \in alive : x # e => Has(w', x) = Has(w, x)
  BY RemoveEffect
<1>2. doomed = << >> /\ doomed' = doomed
  BY DEF Remove, Quiet
<1>3. Tree(w, alive) /\ alive \in SUBSET Entities /\ doomed \in Seq(Entities)
  BY DEF StorageInv
<1>4. e \in alive' => m # {} /\ DOMAIN Has(w', e) = m /\ Kids(Has(w', e)) \subseteq Kids(Has(w, e))
  BY <1>1 DEF MovedData, Kids
<1>5. (e \in alive' /\ DOMAIN Has(w', e) \intersect SysComps # {}) \/ (\A p \in alive : e \notin Kids(Has(w, p)))
  <2>1. CASE m \intersect SysComps = {}
    BY <1>1, <2>1, Unlisted
  <2>2. CASE m \intersect SysComps # {}
    BY <1>1, <1>4, <2>2
  <2> QED BY <2>1, <2>2
<1>6. Tree(w', alive')
  <2> HIDE DEF m
  <2>1. alive' = alive \/ alive' = alive \ {e}
    BY <1>1
  <2>2. \A x \in alive' : x # e => Has(w', x) = Has(w, x)
    BY <1>1, <2>1
  <2> QED BY <1>1, <1>3, <1>4, <1>5, <2>1, <2>2, TreeShrinks
<1>7. Queued(w', alive', doomed')
  BY <1>2, QuietQueue
<1> QED BY <1>1, <1>2, <1>3, <1>6, <1>7 DEF StorageInv

(* An enumeration of a finite set as long as the set names each once. *)
LEMMA NamedOnce ==
  ASSUME NEW found, IsFiniteSet(found),
         NEW f \in [1 .. Cardinality(found) -> found],
         \A c \in found : \E j \in DOMAIN f : f[j] = c
  PROVE  /\ f \in Seq(found) /\ DOMAIN f = 1 .. Len(f) /\ Len(f) \in Nat
         /\ \A i, j \in DOMAIN f : f[i] = f[j] => i = j
<1> DEFINE n == Cardinality(found)
<1>1. n \in Nat
  BY FS_CardinalityType
<1>2. IsFiniteSet(1 .. n) /\ Cardinality(1 .. n) = n
  <2>1. /\ IsFiniteSet(1 .. n) /\ Cardinality(1 .. n) = IF 1 > n THEN 0 ELSE n - 1 + 1
    BY <1>1, FS_Interval
  <2> HIDE DEF n
  <2> QED BY <1>1, <2>1
<1>3. f \in Surjection(1 .. n, found)
  BY DEF Surjection
<1>4. f \in Injection(1 .. n, found)
  BY <1>2, <1>3, FS_SurjSameCardinalityImpliesInj
<1>5. \A i, j \in DOMAIN f : f[i] = f[j] => i = j
  BY <1>4 DEF Injection, IsInjective
<1>6. f \in Seq(found)
  BY <1>1, SeqDef
<1> QED BY <1>5, <1>6, LenProperties

(* The children that destroy takes up are those of the entity it was at,    *)
(* which has only system state now.                                         *)
LEMMA InvDestroyOne ==
  ASSUME StorageInv, NEW e \in alive, NEW rest \in Seq(Entities), Queued(w, alive, rest),
         CanDestroy(e), DestroyOne(e, rest)
  PROVE  StorageInv'
<1> DEFINE h == Has(w, e)
           m == DOMAIN h \intersect SysComps
<1>1. /\ m = DOMAIN h => UNCHANGED <<w, alive>> /\ doomed' = rest
      /\ m = {} => ~ Listed(e)
      /\ m # DOMAIN h =>
           /\ m # {} => alive' = alive /\ Has(w', e) = MovedData(h, m)
           /\ m = {} => alive' = alive \ {e}
           /\ Good(w', alive')
           /\ \A x \in alive : x # e => Has(w', x) = Has(w, x)
           /\ \E children \in [1 .. Cardinality(Kids(h)) -> Kids(h)] :
                 /\ \A c \in Kids(h) : \E j \in DOMAIN children : children[j] = c
                 /\ doomed' = children \o rest
  BY DestroyEffect
<1>2. Tree(w, alive) /\ alive \in SUBSET Entities /\ Good(w, alive)
  BY DEF StorageInv
<1>3. CASE m = DOMAIN h
  BY <1>1, <1>2, <1>3 DEF StorageInv
<1>4. CASE m # DOMAIN h
  <2>1. /\ m # {} => alive' = alive /\ Has(w', e) = MovedData(h, m)
        /\ m = {} => alive' = alive \ {e}
        /\ Good(w', alive')
        /\ \A x \in alive : x # e => Has(w', x) = Has(w, x)
    BY <1>1, <1>4
  <2>2. PICK f \in [1 .. Cardinality(Kids(h)) -> Kids(h)] :
                 /\ \A c \in Kids(h) : \E j \in DOMAIN f : f[j] = c
                 /\ doomed' = f \o rest
    BY <1>1, <1>4
  <2>3. Kids(h) \subseteq Entities
    BY Seen
  <2>4. /\ f \in Seq(Kids(h)) /\ DOMAIN f = 1 .. Len(f) /\ Len(f) \in Nat
        /\ \A i, j \in DOMAIN f : f[i] = f[j] => i = j
    <3>1. IsFiniteSet(Kids(h))
      BY <2>3, EntityAssumption, FS_Subset
    <3> HIDE DEF h
    <3> QED BY <2>2, <3>1, NamedOnce
  <2>5. Kids(h) # {} => m # {}
    BY CompAssumption DEF Kids
  <2>6. e \in alive' => m # {} /\ DOMAIN Has(w', e) = m /\ Kids(Has(w', e)) = Kids(h)
    <3> SUFFICES ASSUME e \in alive' PROVE m # {} /\ DOMAIN Has(w', e) = m /\ Kids(Has(w', e)) = Kids(h)
      OBVIOUS
    <3>1. m # {} /\ Has(w', e) = MovedData(h, m)
      BY <2>1
    <3>2. DOMAIN Has(w', e) = m /\ \A c \in m : Has(w', e)[c] = h[c]
      BY <3>1 DEF MovedData
    <3> QED BY <3>1, <3>2, CompAssumption DEF Kids
  <2>7. (e \in alive' /\ DOMAIN Has(w', e) \intersect SysComps # {}) \/ (\A p \in alive : e \notin Kids(Has(w, p)))
    <3>1. CASE m = {}
      BY <1>1, <3>1, Unlisted
    <3>2. CASE m # {}
      BY <2>1, <2>6, <3>2
    <3> QED BY <3>1, <3>2
  <2> HIDE DEF m
  <2>8. Tree(w', alive')
    <3>1. alive' = alive \/ alive' = alive \ {e}
      BY <2>1
    <3>2. /\ \A x \in alive' : x # e => Has(w', x) = Has(w, x)
          /\ e \in alive' => Kids(Has(w', e)) \subseteq Kids(Has(w, e))
      BY <2>1, <2>6, <3>1
    <3> QED BY <1>2, <2>7, <3>1, <3>2, TreeShrinks
  <2>9. /\ f \o rest \in Seq(Entities)
        /\ DOMAIN (f \o rest) = 1 .. Len(f) + Len(rest)
        /\ DOMAIN rest = 1 .. Len(rest) /\ Len(rest) \in Nat
        /\ \A i \in 1 .. Len(f) + Len(rest) : (f \o rest)[i] = IF i <= Len(f) THEN f[i] ELSE rest[i - Len(f)]
    <3>1. f \in Seq(Entities)
      BY <2>3, <2>4, SeqMonotonic
    <3>2. /\ f \o rest \in Seq(Entities) /\ Len(f \o rest) = Len(f) + Len(rest)
          /\ \A i \in 1 .. Len(f) + Len(rest) : (f \o rest)[i] = IF i <= Len(f) THEN f[i] ELSE rest[i - Len(f)]
      BY <3>1, ConcatProperties
    <3>3. DOMAIN (f \o rest) = 1 .. Len(f \o rest) /\ DOMAIN rest = 1 .. Len(rest) /\ Len(rest) \in Nat
      BY <3>2, LenProperties
    <3> QED BY <3>2, <3>3
  <2> DEFINE q == f \o rest
             n == Len(f)
  <2>10. ASSUME NEW i \in DOMAIN q
         PROVE  \/ i \in DOMAIN f /\ q[i] = f[i] /\ q[i] \in Kids(h)
                \/ i > n /\ i - n \in DOMAIN rest /\ q[i] = rest[i - n]
    <3>1. i \in 1 .. n + Len(rest) /\ q[i] = IF i <= n THEN f[i] ELSE rest[i - n]
      BY <2>9, <2>10
    <3>2. \A j \in DOMAIN f : f[j] \in Kids(h)
      BY <2>2
    <3> HIDE DEF q, n
    <3>3. n \in Nat /\ DOMAIN f = 1 .. n /\ DOMAIN rest = 1 .. Len(rest) /\ Len(rest) \in Nat
      BY <2>4, <2>9 DEF n
    <3>4. CASE i <= n
      <4>1. i \in 1 .. n
        BY <3>1, <3>3, <3>4
      <4> QED BY <3>1, <3>2, <3>3, <3>4, <4>1
    <3>5. CASE i > n
      <4>1. i - n \in 1 .. Len(rest) /\ ~ (i <= n)
        BY <3>1, <3>3, <3>5
      <4> QED BY <3>1, <3>3, <3>5, <4>1
    <3> QED BY <3>1, <3>3, <3>4, <3>5
  <2>11. ASSUME NEW j \in DOMAIN rest
         PROVE  /\ rest[j] \notin Kids(h)
                /\ \E p \in alive' : rest[j] \in Kids(Has(w', p)) /\ DOMAIN Has(w', p) \subseteq SysComps
    <3>1. PICK p \in alive : rest[j] \in Kids(Has(w, p)) /\ DOMAIN Has(w, p) \subseteq SysComps
      BY <2>11 DEF Queued
    <3>2. p # e
      BY <1>4, <3>1 DEF m
    <3>3. p \in alive' /\ Has(w', p) = Has(w, p)
      BY <2>1, <3>2
    <3> QED BY <1>2, <3>1, <3>2, <3>3 DEF Tree
  <2>12. Queued(w', alive', q)
    <3>1. ASSUME NEW i \in DOMAIN q
          PROVE  \E p \in alive' : q[i] \in Kids(Has(w', p)) /\ DOMAIN Has(w', p) \subseteq SysComps
      <4>1. CASE i \in DOMAIN f /\ q[i] = f[i] /\ q[i] \in Kids(h)
        <5>1. m # {} /\ e \in alive'
          BY <2>1, <2>5, <4>1
        <5>2. m \subseteq SysComps
          BY DEF m
        <5> QED BY <2>6, <4>1, <5>1, <5>2
      <4>2. CASE i - n \in DOMAIN rest /\ q[i] = rest[i - n]
        <5> HIDE DEF q, n
        <5> QED BY <2>11, <4>2
      <4> QED BY <2>10, <4>1, <4>2
    <3>2. ASSUME NEW i \in DOMAIN q, NEW j \in DOMAIN q, q[i] = q[j]
          PROVE  i = j
      <4>1. \A a, b \in DOMAIN rest : rest[a] = rest[b] => a = b
        BY DEF Queued
      <4>2. i \in Int /\ j \in Int /\ n \in Int
        BY <2>4, <2>9, <3>2
      <4>3. \/ i \in DOMAIN f /\ q[i] = f[i] /\ q[i] \in Kids(h)
            \/ i > n /\ i - n \in DOMAIN rest /\ q[i] = rest[i - n]
        BY <2>10
      <4>4. \/ j \in DOMAIN f /\ q[j] = f[j] /\ q[j] \in Kids(h)
            \/ j > n /\ j - n \in DOMAIN rest /\ q[j] = rest[j - n]
        BY <2>10
      <4> HIDE DEF q, n, h
      <4>5. CASE i \in DOMAIN f /\ q[i] = f[i] /\ q[i] \in Kids(h)
        BY <2>4, <2>11, <3>2, <4>4, <4>5
      <4>6. CASE i - n \in DOMAIN rest /\ q[i] = rest[i - n]
        <5>1. j - n \in DOMAIN rest /\ q[j] = rest[j - n]
          BY <2>11, <3>2, <4>4, <4>6
        <5>2. i - n = j - n
          BY <3>2, <4>1, <4>6, <5>1
        <5> QED BY <4>2, <5>2
      <4> QED BY <4>3, <4>5, <4>6
    <3> QED BY <3>1, <3>2 DEF Queued
  <2>13. alive' \in SUBSET Entities
    BY <1>2, <2>1
  <2> QED BY <2>1, <2>2, <2>8, <2>9, <2>12, <2>13 DEF StorageInv
<1> QED BY <1>3, <1>4

(* The next entity to destroy is the first one that is awaited.             *)
LEMMA NextAwaited ==
  ASSUME StorageInv, doomed # << >>
  PROVE  /\ Head(doomed) \in alive /\ Head(doomed) \in Awaited
         /\ Tail(doomed) \in Seq(Entities) /\ Queued(w, alive, Tail(doomed))
         /\ {Tail(doomed)[i] : i \in DOMAIN Tail(doomed)} = Awaited \ {Head(doomed)}
<1> DEFINE e == Head(doomed)
           t == Tail(doomed)
           n == Len(doomed)
<1>1. doomed \in Seq(Entities) /\ Queued(w, alive, doomed) /\ Tree(w, alive)
  BY DEF StorageInv
<1>2. n \in Nat /\ DOMAIN doomed = 1 .. n /\ n # 0
  BY <1>1, LenProperties, EmptySeq
<1>3. e = doomed[1]
  BY <1>1
<1>4. t \in Seq(Entities) /\ Len(t) = n - 1 /\ \A i \in 1 .. Len(t) : t[i] = doomed[i + 1]
  BY <1>1, HeadTailProperties
<1>5. DOMAIN t = 1 .. n - 1
  BY <1>4, LenProperties
<1> HIDE DEF e, t, n
<1>6. \A i \in DOMAIN t : i + 1 \in DOMAIN doomed /\ t[i] = doomed[i + 1] /\ i + 1 # 1 /\ i \in Int
  BY <1>2, <1>4, <1>5
<1>7. 1 \in DOMAIN doomed
  BY <1>2
<1>8. e \in alive
  BY <1>1, <1>3, <1>7 DEF Queued, Tree
<1>9. Queued(w, alive, t)
  <2>1. ASSUME NEW i \in DOMAIN t, NEW j \in DOMAIN t, t[i] = t[j] PROVE i = j
    <3>1. i + 1 = j + 1
      BY <1>1, <1>6, <2>1 DEF Queued
    <3> QED BY <1>6, <3>1
  <2>2. \A i \in DOMAIN t : \E p \in alive : t[i] \in Kids(Has(w, p)) /\ DOMAIN Has(w, p) \subseteq SysComps
    BY <1>1, <1>6 DEF Queued
  <2> QED BY <2>1, <2>2 DEF Queued
<1>10. {t[i] : i \in DOMAIN t} = {doomed[i] : i \in DOMAIN doomed} \ {e}
  <2>1. ASSUME NEW i \in DOMAIN t PROVE t[i] \in {doomed[j] : j \in DOMAIN doomed} /\ t[i] # e
    BY <1>1, <1>3, <1>6, <1>7 DEF Queued
  <2>2. ASSUME NEW j \in DOMAIN doomed, doomed[j] # e PROVE \E i \in DOMAIN t : t[i] = doomed[j]
    <3>1. j - 1 \in 1 .. n - 1 /\ (j - 1) + 1 = j
      BY <1>2, <1>3, <2>2
    <3> QED BY <1>5, <1>6, <3>1
  <2> QED BY <2>1, <2>2
<1> QED BY <1>3, <1>4, <1>7, <1>8, <1>9, <1>10 DEF Awaited, e, t

(* Destroying takes entities that live. *)
LEMMA InvDestroy ==
  ASSUME StorageInv,
         \/ \E e \in Entities : CanDestroy(e) /\ Destroy(e)
         \/ doomed # << >> /\ CanDestroy(Head(doomed)) /\ DestroyChild
  PROVE  StorageInv'
<1>1. ASSUME NEW e \in Entities, CanDestroy(e), Destroy(e) PROVE StorageInv'
  <2>1. e \in alive /\ CanDestroy(e) /\ DestroyOne(e, << >>)
    BY <1>1 DEF Destroy
  <2>2. << >> \in Seq(Entities) /\ Queued(w, alive, << >>)
    BY EmptySeq, QuietQueue
  <2> QED BY <2>1, <2>2, InvDestroyOne
<1>2. ASSUME CanDestroy(Head(doomed)), DestroyChild PROVE StorageInv'
  <2>1. doomed # << >> /\ CanDestroy(Head(doomed)) /\ DestroyOne(Head(doomed), Tail(doomed))
    BY <1>2 DEF DestroyChild
  <2>2. Head(doomed) \in alive /\ Tail(doomed) \in Seq(Entities) /\ Queued(w, alive, Tail(doomed))
    BY <2>1, NextAwaited
  <2> QED BY <2>1, <2>2, InvDestroyOne
<1> QED BY <1>1, <1>2

---------------------------------------------------------------------------
(* The invariant and the properties that follow from it. *)

(* The storage of the entities of a world keeps its invariant, with clients *)
(* that keep to CanAdd, CanRemove and CanDestroy; so do the other theorems. *)
THEOREM StorageInvariant == Spec => []StorageInv
<1>1. StorageInv /\ [Next]_vars => StorageInv'
  <2> SUFFICES ASSUME StorageInv, [Next]_vars PROVE StorageInv'
    OBVIOUS
  <2>1. ASSUME NEW e \in Entities, Create(e) PROVE StorageInv'
    BY <2>1, InvCreate
  <2>2. ASSUME NEW e \in Entities, NEW cs \in SUBSET Comps, NEW set \in SUBSET cs,
               NEW given \in Given(set), CanAdd(e, cs), Add(e, cs, given)
        PROVE  StorageInv'
    BY <2>2, InvAdd
  <2>3. ASSUME NEW e \in Entities, e \in Stored, Store(e) PROVE StorageInv'
    BY <2>3, InvStore
  <2>4. ASSUME NEW e \in Entities, NEW cs \in SUBSET Comps, CanRemove(e, cs), Remove(e, cs) PROVE StorageInv'
    BY <2>4, InvRemove
  <2>5. ASSUME \/ \E e \in Entities : CanDestroy(e) /\ Destroy(e)
               \/ doomed # << >> /\ CanDestroy(Head(doomed)) /\ DestroyChild
        PROVE  StorageInv'
    BY <2>5, InvDestroy
  <2>6. ASSUME UNCHANGED vars PROVE StorageInv'
    BY <2>6 DEF vars, StorageInv
  <2> QED BY <2>1, <2>2, <2>3, <2>4, <2>5, <2>6 DEF Next
<1> QED BY <1>1, StorageInit, PTL DEF Spec

(* The index and the chunks agree for any number of entities, chunks and    *)
(* places in a chunk: no removal leaves an index behind (ecs.c:573).        *)
THEOREM IndexAndChunksAgree == Spec => []IndexAgrees
<1>1. StorageInv => IndexAgrees
  <2> SUFFICES ASSUME StorageInv PROVE IndexAgrees
    OBVIOUS
  <2>1. Indexed(w, alive)
    BY DEF StorageInv, Good
  <2>2. ASSUME NEW e \in Stored
        PROVE  w.entIdx[e] \in DOMAIN w.chunk[w.entChunk[e]].slots /\ Slot(e).ent = e
    <3>1. e \in alive /\ w.entChunk[e] # NoChunk
      BY Seen DEF Stored
    <3> QED BY <2>1, <3>1 DEF Indexed, Lives, Slot
  <2> QED BY <2>1, <2>2 DEF IndexAgrees, Indexed
<1> QED BY <1>1, StorageInvariant, PTL

(* Every field of a world keeps to its range: no chunk holds more than      *)
(* Capacity entities, and the data at a place is what its archetype says.   *)
THEOREM StorageTypes == Spec => []TypeOK
<1>1. StorageInv => TypeOK
  <2> SUFFICES ASSUME StorageInv PROVE TypeOK
    OBVIOUS
  <2>1. w \in Worlds /\ Linked(w) /\ Filled(w) /\ alive \subseteq Entities /\ doomed \in Seq(Entities)
    BY DEF StorageInv, Good, Chunked
  <2>2. /\ w.used \subseteq Chunks
        /\ w.first \in [Masks -> Chunks \union {NoChunk}]
        /\ w.entChunk \in [Entities -> Chunks \union {NoChunk}]
        /\ w.entIdx \in [Entities -> 0..Capacity]
    BY <2>1, WorldTypes DEF Links
  <2>3. ASSUME NEW k \in Chunks
        PROVE  LET c == w.chunk[k]
               IN  /\ {c.next, c.prev} \subseteq Chunks \union {NoChunk}
                   /\ Len(c.slots) <= Capacity
                   /\ k \in w.used => c.mask \in Masks
                   /\ \A i \in DOMAIN c.slots :
                         /\ c.slots[i].ent \in Entities
                         /\ DOMAIN c.slots[i].data = c.mask
                         /\ \A t \in c.mask : c.slots[i].data[t] \in Val(t)
    <3>1. /\ w.chunk[k].next \in Links /\ w.chunk[k].prev \in Links
          /\ w.chunk[k].slots \in Seq(Places)
      BY <2>1, WorldTypes
    <3>2. Len(w.chunk[k].slots) <= Capacity
      <4>1. CASE k \in w.used
        BY <2>1, <4>1 DEF Filled
      <4>2. CASE k \notin w.used
        <5>1. w.chunk[k].slots = << >>
          BY <2>1, <4>2, BlankChunk DEF Linked
        <5> QED BY <5>1, EmptySeq, CapacityAssumption
      <4> QED BY <4>1, <4>2
    <3>3. k \in w.used => w.chunk[k].mask \in Masks
      BY <2>1 DEF Linked
    <3>4. ASSUME NEW i \in DOMAIN w.chunk[k].slots
          PROVE  /\ w.chunk[k].slots[i].ent \in Entities
                 /\ DOMAIN w.chunk[k].slots[i].data = w.chunk[k].mask
                 /\ \A t \in w.chunk[k].mask : w.chunk[k].slots[i].data[t] \in Val(t)
      <4>1. w.chunk[k].slots[i].ent \in Entities
        <5>1. i \in 1 .. Len(w.chunk[k].slots)
          BY <3>1, LenProperties
        <5>2. w.chunk[k].slots[i] \in Places
          BY <3>1, <5>1, ElementOfSeq
        <5> QED BY <5>2 DEF Places
      <4>2. w.chunk[k].slots[i].data \in Fits(w.chunk[k].mask)
        BY <2>1 DEF Filled
      <4> QED BY <4>1, <4>2 DEF Fits
    <3> QED BY <3>1, <3>2, <3>3, <3>4 DEF Links
  <2> QED BY <2>1, <2>2, <2>3 DEF TypeOK
<1> QED BY <1>1, StorageInvariant, PTL

---------------------------------------------------------------------------
(* The storage implements the world. *)

(* What the world sees: what the entities that live have. *)
LEMMA ComponentsShown ==
  StorageInv => Components = [e \in Entities |-> IF e \in alive THEN Has(w, e) ELSE Nothing]
<1> SUFFICES ASSUME StorageInv, NEW e \in Entities
             PROVE  (IF e \in Stored THEN Slot(e).data ELSE [c \in {} |-> 0])
                       = IF e \in alive THEN Has(w, e) ELSE Nothing
  BY DEF Components
<1>1. CASE e \in Stored
  BY <1>1, Seen DEF Stored
<1>2. CASE e \notin alive
  BY <1>2 DEF Stored, Nothing
<1>3. CASE e \in alive /\ e \notin Stored
  <2>1. w.entChunk[e] = NoChunk
    BY <1>3, Seen
  <2> QED BY <1>3, <2>1 DEF Has, Nothing
<1> QED BY <1>1, <1>2, <1>3

(* With nothing to destroy the world awaits nothing. *)
LEMMA QuietWorld == ASSUME doomed = << >> PROVE Awaited = {}
<1>1. DOMAIN << >> = {}
  BY BlankChunk DEF Blank
<1> QED BY <1>1 DEF Awaited

(* What the world that the storage implements shows is what its entities have. *)
Shows == Components = [e \in Entities |-> IF e \in alive THEN Has(w, e) ELSE Nothing]

(* Seen by the world, a step that changes what one entity has does only that. *)
LEMMA OneChanges ==
  ASSUME Shows, Shows', alive \in SUBSET Entities, NEW e \in Entities, NEW d,
         alive' = alive \/ alive' = alive \ {e} \/ alive' = alive \union {e},
         e \in alive' => Has(w', e) = d,
         e \notin alive' => d = Nothing,
         \A x \in alive : x # e => Has(w', x) = Has(w, x)
  PROVE  Components' = [Components EXCEPT ![e] = d]
<1>1. /\ Components = [x \in Entities |-> IF x \in alive THEN Has(w, x) ELSE Nothing]
      /\ Components' = [x \in Entities |-> IF x \in alive' THEN Has(w', x) ELSE Nothing]
  BY DEF Shows
<1>2. ASSUME NEW x \in Entities
      PROVE  (IF x \in alive' THEN Has(w', x) ELSE Nothing)
                = IF x = e THEN d ELSE IF x \in alive THEN Has(w, x) ELSE Nothing
  OBVIOUS
<1> QED BY <1>1, <1>2

(* The empty storage is the empty world. *)
LEMMA WorldInit == Init => World!Init
<1> SUFFICES ASSUME Init PROVE World!Init
  OBVIOUS
<1>1. StorageInv /\ alive = {} /\ doomed = << >>
  BY StorageInit DEF Init
<1>2. Components = [e \in Entities |-> Nothing]
  BY <1>1, ComponentsShown
<1>3. Awaited = {}
  BY <1>1, QuietWorld
<1> QED BY <1>1, <1>2, <1>3 DEF World!Init, World!Nothing, Nothing

(* create_entities creates. *)
LEMMA WorldCreate ==
  ASSUME StorageInv, Shows, Shows', NEW e \in Entities, Create(e)
  PROVE  World!Create(e)
<1>1. /\ Has(w', e) = Nothing /\ \A x \in alive : Has(w', x) = Has(w, x)
  BY CreateEffect
<1>2. alive' = alive \union {e} /\ e \notin alive /\ doomed = << >> /\ doomed' = doomed
  BY DEF Create, Quiet
<1>3. Components' = [x \in Entities |-> IF x \in alive' THEN Has(w', x) ELSE Nothing]
      /\ Components = [x \in Entities |-> IF x \in alive THEN Has(w, x) ELSE Nothing]
  BY DEF Shows
<1>4. Components' = Components
  <2>1. \A x \in Entities : (IF x \in alive' THEN Has(w', x) ELSE Nothing)
                               = IF x \in alive THEN Has(w, x) ELSE Nothing
    BY <1>1, <1>2
  <2> QED BY <1>3, <2>1
<1>5. Awaited = {} /\ Awaited' = Awaited
  BY <1>2, QuietWorld DEF Awaited
<1> QED BY <1>2, <1>4, <1>5 DEF World!Create

(* add_components adds. *)
LEMMA WorldAdd ==
  ASSUME StorageInv, Shows, Shows', NEW e \in Entities, NEW cs \in SUBSET Comps, NEW set \in SUBSET cs,
         NEW given \in Given(set), CanAdd(e, cs), Add(e, cs, given)
  PROVE  World!Add(e, cs, given)
<1> DEFINE h == Has(w, e)
           m == DOMAIN h \union cs
<1>1. /\ e \in alive /\ alive' = alive
      /\ Has(w', e) = Added(h, m, given)
      /\ \A x \in alive : x # e => Has(w', x) = Has(w, x)
  BY AddEffect
<1>2. doomed = << >> /\ doomed' = doomed
  BY DEF Add, Quiet
<1>3. Components[e] = h
  BY <1>1 DEF Shows
<1>4. Awaited = {} /\ Awaited' = Awaited
  BY <1>2, QuietWorld DEF Awaited
<1>5. alive \in SUBSET Entities
  BY DEF StorageInv
<1>6. Components' = [Components EXCEPT ![e] = Added(h, m, given)]
  BY <1>1, <1>5, OneChanges
<1>7. \A c \in Comps : World!Default(c) = Default(c)
  BY DEF World!Default, Default
<1>8. Added(h, m, given) = [c \in DOMAIN World!Extended(h, cs) |->
                               IF c \in DOMAIN given THEN given[c] ELSE World!Extended(h, cs)[c]]
  <2>1. World!Extended(h, cs) = [c \in m |-> IF c \in DOMAIN h THEN h[c] ELSE World!Default(c)]
    BY DEF World!Extended
  <2>2. MovedData(h, m) = [c \in m |-> IF c \in DOMAIN h THEN h[c] ELSE Default(c)]
    BY DEF MovedData
  <2>3. \A c : World!Default(c) = Default(c)
    BY DEF World!Default, Default
  <2>4. World!Extended(h, cs) = MovedData(h, m)
    BY <2>1, <2>2, <2>3
  <2>5. DOMAIN MovedData(h, m) = m
    BY <2>2
  <2> QED BY <2>4, <2>5 DEF Added
<1> QED BY <1>1, <1>2, <1>3, <1>4, <1>6, <1>8 DEF World!Add

(* A client's write writes. *)
LEMMA WorldWrite ==
  ASSUME StorageInv, Shows, Shows', NEW e \in alive, NEW c \in Comps, NEW v \in Val(c), Write(e, c, v)
  PROVE  World!Next
<1> DEFINE h == Has(w, e)
<1>1. /\ c \in DOMAIN h
      /\ Has(w', e) = [h EXCEPT ![c] = v]
      /\ \A x \in alive : x # e => Has(w', x) = Has(w, x)
  BY WriteEffect
<1>2. doomed = << >> /\ doomed' = doomed /\ alive' = alive
  BY DEF Write, Quiet
<1>3. alive \in SUBSET Entities /\ e \in Entities
  BY DEF StorageInv
<1>4. Components[e] = h
  BY <1>3 DEF Shows
<1>5. Awaited = {} /\ Awaited' = Awaited
  BY <1>2, QuietWorld DEF Awaited
<1>6. Components' = [Components EXCEPT ![e] = [h EXCEPT ![c] = v]]
  BY <1>1, <1>2, <1>3, OneChanges
<1>7. Components' = [Components EXCEPT ![e][c] = v]
  BY <1>4, <1>6
<1>8. World!Write(e, c, v)
  BY <1>1, <1>2, <1>4, <1>5, <1>7 DEF World!Write
<1>9. v \in World!Val(c)
  BY DEF World!Val, Val
<1> QED BY <1>3, <1>8, <1>9 DEF World!Next

(* What clients store they write. *)
LEMMA WorldStore ==
  ASSUME StorageInv, Shows, Shows', NEW e \in Entities, e \in Stored, Store(e)
  PROVE  World!Next
<1>1. e \in alive
  BY DEF Stored
<1>2. CASE \E c \in Comps \ {ChildComp} : \E v \in Data : Write(e, c, v)
  <2>1. PICK c \in Comps \ {ChildComp}, v \in Data : Write(e, c, v)
    BY <1>2
  <2>2. v \in Val(c) /\ c \in Comps
    BY <2>1 DEF Val
  <2> QED BY <1>1, <2>1, <2>2, WorldWrite
<1>3. CASE \E c \in Stored \ {e} : /\ ~ Listed(c) /\ Mask(c) \intersect SysComps # {}
                                   /\ Write(e, ChildComp, ChildrenOf(e) \union {c})
  <2>1. PICK c \in Stored \ {e} : Write(e, ChildComp, ChildrenOf(e) \union {c})
    BY <1>3
  <2>2. ChildrenOf(e) \union {c} \in Val(ChildComp) /\ ChildComp \in Comps
    BY <1>1, <2>1, Seen, CompAssumption DEF Stored, Val, StorageInv
  <2> QED BY <1>1, <2>1, <2>2, WorldWrite
<1>4. CASE \E c \in ChildrenOf(e) : Write(e, ChildComp, ChildrenOf(e) \ {c})
  <2>1. PICK c \in ChildrenOf(e) : Write(e, ChildComp, ChildrenOf(e) \ {c})
    BY <1>4
  <2>2. ChildrenOf(e) \ {c} \in Val(ChildComp) /\ ChildComp \in Comps
    BY <1>1, Seen, CompAssumption DEF Val
  <2> QED BY <1>1, <2>1, <2>2, WorldWrite
<1> QED BY <1>2, <1>3, <1>4 DEF Store

(* Data cut down to some of its components. *)
LEMMA CutDown ==
  ASSUME NEW h, NEW cs
  PROVE  LET m == DOMAIN h \intersect cs
         IN  /\ World!Masked(h, cs) = MovedData(h, m)
             /\ DOMAIN MovedData(h, m) = m
             /\ m = {} => MovedData(h, m) = Nothing
<1> DEFINE m == DOMAIN h \intersect cs
<1>1. World!Masked(h, cs) = [c \in m |-> h[c]]
  BY DEF World!Masked
<1>2. MovedData(h, m) = [c \in m |-> h[c]]
  BY DEF MovedData
<1>3. m = {} => [c \in m |-> h[c]] = Nothing
  BY DEF Nothing
<1> QED BY <1>1, <1>2, <1>3

(* remove_components removes. *)
LEMMA WorldRemove ==
  ASSUME StorageInv, Shows, Shows', NEW e \in Entities, NEW cs \in SUBSET Comps, CanRemove(e, cs), Remove(e, cs)
  PROVE  World!Remove(e, cs)
<1> DEFINE h == Has(w, e)
           m == DOMAIN h \ cs
           d == World!Masked(h, Comps \ cs)
<1>1. /\ e \in alive
      /\ m # {} => alive' = alive /\ Has(w', e) = MovedData(h, m)
      /\ m = {} => alive' = alive \ {e} /\ DOMAIN h \intersect SysComps # {}
      /\ \A x \in alive : x # e => Has(w', x) = Has(w, x)
  BY RemoveEffect
<1>2. doomed = << >> /\ doomed' = doomed
  BY DEF Remove, Quiet
<1>3. m = DOMAIN h \intersect (Comps \ cs)
  BY <1>1, Seen
<1>4. d = MovedData(h, m) /\ DOMAIN d = m /\ (m = {} => d = Nothing)
  BY <1>3, CutDown
<1>5. alive \in SUBSET Entities
  BY DEF StorageInv
<1>6. Components[e] = h
  BY <1>1 DEF Shows
<1>7. Awaited = {} /\ Awaited' = Awaited
  BY <1>2, QuietWorld DEF Awaited
<1> HIDE DEF d, m, h
<1>8. Components' = [Components EXCEPT ![e] = d]
  <2>1. /\ alive' = alive \/ alive' = alive \ {e} \/ alive' = alive \union {e}
        /\ e \in alive' => Has(w', e) = d
        /\ e \notin alive' => d = Nothing
        /\ \A x \in alive : x # e => Has(w', x) = Has(w, x)
    BY <1>1, <1>4
  <2> QED BY <1>5, <2>1, OneChanges
<1>9. Components'[e] = d
  BY <1>8 DEF Shows
<1>10. alive' = IF DOMAIN Components'[e] = {} /\ DOMAIN Components[e] \intersect SysComps # {}
                THEN alive \ {e} ELSE alive
  BY <1>1, <1>4, <1>6, <1>9
<1>11. Components' = [Components EXCEPT ![e] = World!Masked(Components[e], Comps \ cs)]
  BY <1>6, <1>8 DEF d
<1> QED BY <1>7, <1>10, <1>11 DEF World!Remove

(* A turn of destroy kills one entity. *)
LEMMA WorldKill ==
  ASSUME StorageInv, Shows, Shows', NEW e \in alive, NEW rest \in Seq(Entities),
         CanDestroy(e), DestroyOne(e, rest),
         {rest[i] : i \in DOMAIN rest} = Awaited \ {e}
  PROVE  World!Kill(e)
<1> DEFINE h == Has(w, e)
           m == DOMAIN h \intersect SysComps
           d == World!Masked(h, SysComps)
<1>1. /\ DOMAIN h # {}
      /\ m = DOMAIN h => UNCHANGED <<w, alive>> /\ doomed' = rest
      /\ m # DOMAIN h =>
           /\ m # {} => alive' = alive /\ Has(w', e) = MovedData(h, m)
           /\ m = {} => alive' = alive \ {e}
           /\ \A x \in alive : x # e => Has(w', x) = Has(w, x)
           /\ \E children \in [1 .. Cardinality(Kids(h)) -> Kids(h)] :
                 /\ \A c \in Kids(h) : \E j \in DOMAIN children : children[j] = c
                 /\ doomed' = children \o rest
  BY DestroyEffect
<1>2. alive \in SUBSET Entities /\ e \in Entities
  BY DEF StorageInv
<1>3. Components[e] = h
  BY <1>2 DEF Shows
<1>4. d = MovedData(h, m) /\ DOMAIN d = m /\ (m = {} => d = Nothing)
  BY CutDown
<1>5. Kids(h) \subseteq Entities
  BY Seen
<1>6. m = DOMAIN h => d = h
  <2>1. DOMAIN Has(w, e) = Mask(e) /\ Has(w, e) \in Fits(Mask(e))
    BY Seen
  <2>2. h = [c \in DOMAIN h |-> h[c]]
    BY <2>1 DEF Fits
  <2> QED BY <1>4, <2>2 DEF MovedData
<1> HIDE DEF d, m, h
<1>7. Components' = [Components EXCEPT ![e] = d]
  <2>1. /\ alive' = alive \/ alive' = alive \ {e} \/ alive' = alive \union {e}
        /\ e \in alive' => Has(w', e) = d
        /\ e \notin alive' => d = Nothing
        /\ \A x \in alive : x # e => Has(w', x) = Has(w, x)
    <3>1. CASE m = DOMAIN h
      BY <1>1, <1>6, <3>1 DEF h
    <3>2. CASE m # DOMAIN h
      BY <1>1, <1>4, <3>2
    <3> QED BY <3>1, <3>2
  <2> QED BY <1>2, <2>1, OneChanges
<1>8. Components'[e] = d
  BY <1>2, <1>7 DEF Shows
<1>9. alive' = IF DOMAIN Components'[e] = {} THEN alive \ {e} ELSE alive
  BY <1>1, <1>4, <1>8
<1>10. Components' = [Components EXCEPT ![e] = World!Masked(Components[e], SysComps)]
  BY <1>3, <1>7 DEF d
<1>11. World!ChildrenIn(h) = Kids(h)
  BY DEF World!ChildrenIn, Kids
<1>12. Awaited' = (Awaited \ {e}) \union (IF Components'[e] = Components[e] THEN {} ELSE World!ChildrenIn(Components[e]))
  <2>1. CASE m = DOMAIN h
    <3>1. Awaited' = Awaited \ {e}
      BY <1>1, <2>1 DEF Awaited
    <3> QED BY <1>3, <1>6, <1>8, <2>1, <3>1
  <2>2. CASE m # DOMAIN h
    <3>1. Components'[e] # Components[e]
      BY <1>3, <1>4, <1>8, <2>2
    <3>2. PICK f \in [1 .. Cardinality(Kids(h)) -> Kids(h)] :
                 /\ \A c \in Kids(h) : \E j \in DOMAIN f : f[j] = c
                 /\ doomed' = f \o rest
      BY <1>1, <2>2
    <3>3. /\ f \in Seq(Kids(h)) /\ DOMAIN f = 1 .. Len(f) /\ Len(f) \in Nat
      <4>1. IsFiniteSet(Kids(h))
        BY <1>5, EntityAssumption, FS_Subset
      <4> QED BY <3>2, <4>1, NamedOnce
    <3>4. f \in Seq(Entities)
      BY <1>5, <3>3, SeqMonotonic
    <3> DEFINE q == f \o rest
               n == Len(f)
    <3>5. /\ DOMAIN q = 1 .. n + Len(rest) /\ DOMAIN rest = 1 .. Len(rest) /\ Len(rest) \in Nat
          /\ \A i \in 1 .. n + Len(rest) : q[i] = IF i <= n THEN f[i] ELSE rest[i - n]
      <4>1. /\ q \in Seq(Entities) /\ Len(q) = n + Len(rest)
            /\ \A i \in 1 .. n + Len(rest) : q[i] = IF i <= n THEN f[i] ELSE rest[i - n]
        BY <3>4, ConcatProperties
      <4>2. DOMAIN q = 1 .. Len(q) /\ DOMAIN rest = 1 .. Len(rest) /\ Len(rest) \in Nat
        BY <4>1, LenProperties
      <4> QED BY <4>1, <4>2
    <3> HIDE DEF q
    <3>6. {q[i] : i \in DOMAIN q} = {rest[i] : i \in DOMAIN rest} \union Kids(h)
      <4>1. ASSUME NEW i \in DOMAIN q
            PROVE  q[i] \in {rest[j] : j \in DOMAIN rest} \/ q[i] \in Kids(h)
        <5>1. i \in 1 .. n + Len(rest) /\ q[i] = IF i <= n THEN f[i] ELSE rest[i - n]
          BY <3>5
        <5>2. CASE i <= n
          <6>1. i \in DOMAIN f
            BY <3>3, <3>5, <5>1, <5>2
          <6> QED BY <3>2, <5>1, <5>2, <6>1
        <5>3. CASE ~ (i <= n)
          <6>1. i - n \in DOMAIN rest
            BY <3>3, <3>5, <5>1, <5>3
          <6> QED BY <5>1, <5>3, <6>1
        <5> QED BY <5>2, <5>3
      <4>2. ASSUME NEW j \in DOMAIN rest PROVE rest[j] \in {q[i] : i \in DOMAIN q}
        <5>1. j + n \in 1 .. n + Len(rest) /\ ~ (j + n <= n) /\ (j + n) - n = j
          BY <3>3, <3>5
        <5>2. q[j + n] = rest[j] /\ j + n \in DOMAIN q
          BY <3>5, <5>1
        <5> QED BY <5>2
      <4>3. ASSUME NEW c \in Kids(h) PROVE c \in {q[i] : i \in DOMAIN q}
        <5>1. PICK j \in DOMAIN f : f[j] = c
          BY <3>2
        <5>2. j \in 1 .. n + Len(rest) /\ j <= n
          BY <3>3, <3>5
        <5>3. q[j] = c /\ j \in DOMAIN q
          BY <3>5, <5>1, <5>2
        <5> QED BY <5>3
      <4> QED BY <4>1, <4>2, <4>3
    <3>7. Awaited' = {q[i] : i \in DOMAIN q}
      BY <3>2 DEF Awaited, q
    <3> QED BY <1>3, <1>11, <3>1, <3>6, <3>7
  <2> QED BY <2>1, <2>2
<1> QED BY <1>9, <1>10, <1>12 DEF World!Kill

(* The storage implements the map from entities to components, for any      *)
(* entities, components, data, chunks and capacity: an operation changes    *)
(* what its entity has and nothing else, values survive moves between       *)
(* archetypes, and destroy takes the children of what it destroys, for      *)
(* clients that do not lead it to another entity's (LastOrAlike).           *)
THEOREM Refinement == Spec => ImplementsWorld
<1>1. StorageInv /\ Shows /\ Shows' /\ [Next]_vars => [World!Next]_(World!worldVars)
  <2> SUFFICES ASSUME StorageInv, Shows, Shows', [Next]_vars
               PROVE  World!Next \/ UNCHANGED <<alive, Components, Awaited>>
    BY DEF World!worldVars
  <2>1. ASSUME NEW e \in Entities, Create(e) PROVE World!Next
    BY <2>1, WorldCreate DEF World!Next
  <2>2. ASSUME NEW e \in Entities, NEW cs \in SUBSET Comps, NEW set \in SUBSET cs,
               NEW given \in Given(set), CanAdd(e, cs), Add(e, cs, given)
        PROVE  World!Next
    <3>1. World!Add(e, cs, given)
      BY <2>2, WorldAdd
    <3>2. given \in World!Given(set)
      BY DEF Given, World!Given
    <3> QED BY <3>1, <3>2 DEF World!Next
  <2>3. ASSUME NEW e \in Entities, e \in Stored, Store(e) PROVE World!Next
    BY <2>3, WorldStore
  <2>4. ASSUME NEW e \in Entities, NEW cs \in SUBSET Comps, CanRemove(e, cs), Remove(e, cs) PROVE World!Next
    BY <2>4, WorldRemove DEF World!Next
  <2>5. ASSUME NEW e \in Entities, CanDestroy(e), Destroy(e) PROVE World!Next
    <3>1. /\ doomed = << >> /\ e \in alive /\ CanDestroy(e) /\ DestroyOne(e, << >>)
      BY <2>5 DEF Destroy, Quiet
    <3>2. Awaited = {}
      BY <3>1, QuietWorld
    <3>3. << >> \in Seq(Entities) /\ {<< >>[i] : i \in DOMAIN << >>} = Awaited \ {e}
      BY <3>1, <3>2, EmptySeq DEF Awaited
    <3>4. World!Kill(e)
      BY <3>1, <3>3, WorldKill
    <3> QED BY <3>1, <3>2, <3>4 DEF World!Next, World!Destroy
  <2>6. ASSUME CanDestroy(Head(doomed)), DestroyChild PROVE World!Next
    <3>1. doomed # << >> /\ CanDestroy(Head(doomed)) /\ DestroyOne(Head(doomed), Tail(doomed))
      BY <2>6 DEF DestroyChild
    <3>2. /\ Head(doomed) \in alive /\ Head(doomed) \in Awaited /\ Tail(doomed) \in Seq(Entities)
          /\ {Tail(doomed)[i] : i \in DOMAIN Tail(doomed)} = Awaited \ {Head(doomed)}
      BY <3>1, NextAwaited
    <3>3. Head(doomed) \in Entities
      BY <3>2 DEF StorageInv
    <3>4. World!Kill(Head(doomed))
      BY <3>1, <3>2, WorldKill
    <3> QED BY <3>2, <3>3, <3>4 DEF World!Next, World!DestroyChild
  <2>7. ASSUME UNCHANGED vars PROVE UNCHANGED <<alive, Components, Awaited>>
    BY <2>7 DEF vars, Shows, Awaited
  <2> QED BY <2>1, <2>2, <2>3, <2>4, <2>5, <2>6, <2>7 DEF Next
<1>2. StorageInv => Shows
  BY ComponentsShown DEF Shows
<1> QED BY <1>1, <1>2, WorldInit, StorageInvariant, PTL DEF Spec, ImplementsWorld, World!Spec
=============================================================================
