-------------------------- MODULE EcsTransformProof ------------------------
(***************************************************************************)
(* That no change is lost to only_changed, for any entities, positions and *)
(* number of versions.  What chunk_changed says of a version depends on    *)
(* how long ago the version was taken, so the proof carries how far the    *)
(* global version is past that of the last run of the transform system,    *)
(* and that whoever is stale was marked since.                             *)
(*                                                                         *)
(* Then that a world matrix is right after a frame for each level above    *)
(* the entity: the order of the second pass is one that TaskGraphProof is  *)
(* about.                                                                  *)
(***************************************************************************)
EXTENDS EcsTransform, SequenceTheorems, FiniteSetTheorems, TLAPS

(* The graph of EcsTransform, with what is proved of it. *)
G == INSTANCE TaskGraphProof WITH Names <- Entities

Version == 0 .. Versions - 1

(* The types, of all but the world matrices. *)
Types ==
    /\ chunk \in [Archetypes -> Seq(Entities)]
    /\ pos \in [Entities -> Positions]
    /\ version \in [Archetypes -> Version]
    /\ global \in Version /\ last \in Version
    /\ phase \in {"render", "game", "transform"}

(* The entities of a list, and that each is there once. *)
Listed(s) == {s[i] : i \in DOMAIN s}
Once(s) == \A i, j \in DOMAIN s : s[i] = s[j] => i = j

(* An entity has one place. *)
OnePlace ==
    /\ \A a \in Archetypes : Once(chunk[a])
    /\ Members("root") \intersect Members("child") = {}

Stale(a) ==
    IF a = "root" THEN \E e \in Members("root") : ltw[e] # <<pos[e]>>
                  ELSE \E e \in Members("child") : ltp[e] # pos[e]

(* The ticks since the transform system ran last. *)
Since ==
    /\ phase = "transform" => last # 0 /\ global = last
    /\ phase = "render" /\ last # 0 => global = Tick(last)
    /\ phase = "game" /\ last # 0 => global = Tick(Tick(last))

MarkedSince ==
    \A a \in Archetypes : Stale(a) =>
        /\ phase # "transform"
        /\ last # 0 => version[a] \in {Tick(last), Tick(Tick(last))}

MarkInv == Types /\ OnePlace /\ Since /\ MarkedSince

---------------------------------------------------------------------------
(* The remainder of a number less than once around. *)
LEMMA Remainder ==
  ASSUME NEW n \in Int, - Versions < n, n < Versions
  PROVE  n % Versions = IF n < 0 THEN n + Versions ELSE n
<1> DEFINE N == Versions
           q == n \div N
           r == n % N
<1>1. N \in Int /\ N > 0
  BY HalfAssumption DEF Versions
<1>2. q \in Int /\ r \in 0 .. N - 1 /\ n = N * q + r
  BY <1>1
<1> HIDE DEF N, q, r
<1>3. CASE q >= 1
  <2>1. N * q >= N
    BY <1>1, <1>2, <1>3
  <2> QED BY <1>1, <1>2, <2>1 DEF N
<1>4. CASE q <= -2
  <2>1. N * q <= - 2 * N
    BY <1>1, <1>2, <1>4
  <2> QED BY <1>1, <1>2, <2>1 DEF N
<1>5. CASE q = 0
  BY <1>1, <1>2, <1>5 DEF N, r
<1>6. CASE q = -1
  BY <1>1, <1>2, <1>6 DEF N, r
<1> QED BY <1>2, <1>3, <1>4, <1>5, <1>6

(* The next version is one further, or 1 where it wraps around. *)
LEMMA TickIs ==
  ASSUME NEW v \in Version
  PROVE  Tick(v) = IF v = Versions - 1 THEN 1 ELSE v + 1
<1>1. v \in Int /\ 0 <= v /\ v < Versions /\ Versions \in Int /\ Versions >= 8
  BY HalfAssumption DEF Version, Versions
<1>2. CASE v = Versions - 1
  <2>1. (v + 1) % Versions = 0
    BY <1>1, <1>2
  <2> QED BY <1>2, <2>1 DEF Tick
<1>3. CASE v # Versions - 1
  <2>1. (v + 1) % Versions = v + 1
    BY <1>1, <1>3, Remainder
  <2> QED BY <1>1, <1>3, <2>1 DEF Tick
<1> QED BY <1>2, <1>3

(* A tick of global_system_version is a version and never 0. *)
LEMMA TickType == ASSUME NEW v \in Version PROVE Tick(v) \in Version \ {0}
  BY TickIs, HalfAssumption DEF Version, Versions

(* Versions of the next two ticks count as changed, wherever they wrap.     *)
LEMMA RecentIsChanged ==
  ASSUME NEW rq \in Version \ {0}, NEW v \in {Tick(rq), Tick(Tick(rq))}
  PROVE  ChunkChanged(v, rq)
<1>1. Versions \in Nat /\ Versions = 2 * Half /\ Half \in Nat /\ Half >= 4
  BY HalfAssumption DEF Versions
<1>2. v \in Version /\ v - rq \in {1, 2, 2 - Versions, 3 - Versions}
  BY <1>1, TickIs, TickType DEF Version
<1>3. (v - rq) % Versions = IF v - rq < 0 THEN v - rq + Versions ELSE v - rq
  <2>1. v - rq \in Int /\ - Versions < v - rq /\ v - rq < Versions
    BY <1>1, <1>2
  <2> QED BY <2>1, Remainder
<1> QED BY <1>1, <1>2, <1>3 DEF ChunkChanged, Version

(* Whoever is stale is in a chunk that the transform system takes. *)
LEMMA StaleNeedsProcess ==
  ASSUME MarkInv, NEW a \in Archetypes, Stale(a)
  PROVE  NeedProcess(a)
<1>1. Members(a) # {}
  BY DEF Stale, Archetypes
<1>2. chunk[a] # << >>
  BY <1>1 DEF Members
<1>3. ChunkChanged(version[a], last)
  BY RecentIsChanged DEF MarkInv, Types, MarkedSince, ChunkChanged
<1> QED BY <1>2, <1>3 DEF NeedProcess

---------------------------------------------------------------------------
(* Where the entities are. *)

(* A place is filled with the last one: the others stay, and once each.     *)
LEMMA WithoutKeeps ==
  ASSUME NEW s \in Seq(Entities), NEW e \in Entities,
         Once(s), e \in Listed(s)
  PROVE  /\ Without(s, e) \in Seq(Entities)
         /\ Once(Without(s, e))
         /\ Listed(Without(s, e)) = Listed(s) \ {e}
<1> DEFINE n == Len(s)
           i == CHOOSE j \in DOMAIN s : s[j] = e
           r == ReplaceAt(s, i, Last(s))
           t == Without(s, e)
<1>1. n \in Nat /\ DOMAIN s = 1 .. n /\ i \in 1 .. n /\ s[i] = e
  BY LenProperties DEF Listed
<1> HIDE DEF i
<1>2. /\ r \in Seq(Entities) /\ Len(r) = n
      /\ \A j \in 1 .. n : r[j] = IF j = i THEN s[n] ELSE s[j]
  <2>1. s[n] \in Entities
    BY <1>1, ElementOfSeq
  <2> QED BY <1>1, <2>1, ExceptSeq DEF ReplaceAt, Last
<1>3. t = SubSeq(r, 1, n - 1)
  BY <1>2 DEF Without, Front, i
<1> HIDE DEF r, t
<1>4. \A j \in 1 .. n - 1 : r[j] \in Entities
  BY <1>1, <1>2, ElementOfSeq
<1>5. /\ t \in Seq(Entities) /\ Len(t) = n - 1
      /\ \A j \in 1 .. n - 1 : t[j] = r[j]
  BY <1>1, <1>3, <1>4, SubSeqProperties
<1>6. DOMAIN t = 1 .. n - 1 /\ \A j \in 1 .. n - 1 : t[j] = IF j = i THEN s[n] ELSE s[j]
  BY <1>1, <1>2, <1>5, LenProperties
<1>7. Once(t)
  BY <1>1, <1>6 DEF Once
<1>8. Listed(t) = Listed(s) \ {e}
  <2> USE DEF Listed
  <2>1. ASSUME NEW j \in DOMAIN t PROVE t[j] \in {s[k] : k \in DOMAIN s} \ {e}
    BY <1>1, <1>6 DEF Once
  <2>2. ASSUME NEW j \in DOMAIN s, s[j] # e PROVE s[j] \in {t[k] : k \in DOMAIN t}
    <3>1. CASE j = n
      <4>1. i \in DOMAIN t /\ t[i] = s[j]
        BY <1>1, <1>6, <2>2, <3>1
      <4> QED BY <4>1
    <3>2. CASE j # n
      <4>1. j \in DOMAIN t /\ t[j] = s[j]
        BY <1>1, <1>6, <2>2, <3>2
      <4> QED BY <4>1
    <3> QED BY <3>1, <3>2
  <2> QED BY <2>1, <2>2
<1> QED BY <1>5, <1>7, <1>8 DEF t

(* Another entity takes the place after the last one. *)
LEMMA AppendKeeps ==
  ASSUME NEW s \in Seq(Entities), NEW e \in Entities,
         Once(s), e \notin Listed(s)
  PROVE  /\ Append(s, e) \in Seq(Entities)
         /\ Once(Append(s, e))
         /\ Listed(Append(s, e)) = Listed(s) \union {e}
<1> DEFINE n == Len(s)
           t == Append(s, e)
<1>1. n \in Nat /\ DOMAIN s = 1 .. n
  BY LenProperties
<1>2. /\ t \in Seq(Entities) /\ Len(t) = n + 1
      /\ \A j \in 1 .. n : t[j] = s[j]
      /\ t[n + 1] = e
  BY AppendProperties
<1>3. DOMAIN t = 1 .. n + 1
  BY <1>2, LenProperties
<1> HIDE DEF t
<1>4. Once(t)
  BY <1>1, <1>2, <1>3 DEF Once, Listed
<1>5. Listed(t) = Listed(s) \union {e}
  <2>1. n + 1 \in DOMAIN t /\ \A j \in DOMAIN s : j \in DOMAIN t /\ t[j] = s[j]
    BY <1>1, <1>2, <1>3
  <2>2. \A j \in DOMAIN t : t[j] = e \/ (j \in DOMAIN s /\ t[j] = s[j])
    BY <1>1, <1>2, <1>3
  <2> QED BY <1>2, <2>1, <2>2 DEF Listed
<1> QED BY <1>2, <1>4, <1>5 DEF t

(* Before the first frame: nothing is stored and nothing was processed. *)
LEMMA PlacesInit == Init => Types /\ OnePlace /\ Since /\ MarkedSince
<1> SUFFICES ASSUME Init PROVE Types /\ OnePlace /\ Since /\ MarkedSince
  OBVIOUS
<1>1. \A a \in Archetypes : chunk[a] = << >> /\ Once(chunk[a]) /\ Members(a) = {}
  BY DEF Init, Members, Once, Archetypes
<1>2. << >> \in Seq(Entities) /\ 0 \in Version
  BY HalfAssumption DEF Version, Versions
<1> QED BY <1>1, <1>2, PositionAssumption
        DEF Init, Types, OnePlace, Since, MarkedSince, Stale, Archetypes

---------------------------------------------------------------------------
(* What clients do. *)

(* The entities of an archetype are those its chunk lists. *)
LEMMA MembersListed == \A a : Members(a) = Listed(chunk[a])
  BY DEF Members, Listed

(* And after a step. *)
LEMMA MembersListedNext == \A a : Members(a)' = Listed(chunk'[a])
  BY DEF Members, Listed

(* A step that moves no entity changes no archetype. *)
LEMMA MembersSame == chunk' = chunk => \A a : Members(a)' = Members(a)
  BY DEF Members

(* An edit leaves nobody stale in an archetype it does not mark.            *)
LEMMA EditMarks ==
  ASSUME MarkInv, Edit, NEW as \in SUBSET Archetypes,
         version' = Marked(as),
         \A a \in Archetypes \ as : Stale(a)' => Stale(a)
  PROVE  version' \in [Archetypes -> Version] /\ Since' /\ MarkedSince'
<1> USE DEF MarkInv, Types
<1>1. version' \in [Archetypes -> Version]
  BY DEF Marked
<1>2. Since'
  BY DEF Edit, Since
<1>3. ASSUME NEW a \in Archetypes, Stale(a)'
      PROVE  phase' # "transform" /\ (last' # 0 => version'[a] \in {Tick(last), Tick(Tick(last))})
  <2>1. CASE a \in as
    <3>1. version'[a] = global
      BY <2>1 DEF Marked
    <3> QED BY <3>1 DEF Edit, Since
  <2>2. CASE a \notin as
    <3>1. version'[a] = version[a] /\ Stale(a)
      BY <1>3, <2>2 DEF Marked
    <3> QED BY <3>1 DEF Edit, MarkedSince
  <2> QED BY <2>1, <2>2
<1> QED BY <1>1, <1>2, <1>3 DEF MarkedSince, Edit

(* A spawned entity marks the root archetype, which it makes stale. *)
LEMMA SpawnKeeps == ASSUME MarkInv, NEW e \in Entities, Spawn(e) PROVE MarkInv'
<1> USE DEF MarkInv, Types
<1>1. /\ chunk["root"] \in Seq(Entities) /\ chunk["child"] \in Seq(Entities)
      /\ chunk' = [chunk EXCEPT !["root"] = Append(chunk["root"], e)]
      /\ chunk'["root"] = Append(chunk["root"], e) /\ chunk'["child"] = chunk["child"]
  BY DEF Spawn, Archetypes
<1>2. /\ chunk'["root"] \in Seq(Entities)
      /\ Once(chunk'["root"])
      /\ Members("root")' = Members("root") \union {e}
      /\ Members("child")' = Members("child")
  BY <1>1, AppendKeeps, MembersListed, MembersListedNext DEF Spawn, OnePlace, Archetypes
<1>3. Types' /\ OnePlace'
  <2>1. chunk' \in [Archetypes -> Seq(Entities)]
    BY <1>1, <1>2
  <2>2. pos' \in [Entities -> Positions]
    BY DEF Spawn
  <2>3. version' \in [Archetypes -> Version]
    BY DEF Spawn, Marked
  <2>4. OnePlace'
    BY <1>1, <1>2 DEF Spawn, OnePlace, Archetypes
  <2> QED BY <2>1, <2>2, <2>3, <2>4 DEF Spawn, Edit
<1>4. Stale("child")' => Stale("child")
  BY <1>2 DEF Spawn, Stale, OnePlace
<1>5. Since' /\ MarkedSince'
  <2>1. Edit /\ version' = Marked({"root"})
    BY DEF Spawn
  <2> QED BY <1>4, <2>1, EditMarks DEF Archetypes
<1> QED BY <1>3, <1>5

(* A position written through get_one marks the chunk it is in. *)
LEMMA MoveKeeps == ASSUME MarkInv, NEW e \in Entities, Move(e) PROVE MarkInv'
<1> USE DEF MarkInv, Types
<1> DEFINE as == {a \in Archetypes : e \in Members(a)}
<1>1. Types' /\ OnePlace'
  <2>1. pos' \in [Entities -> Positions]
    BY DEF Move
  <2>2. version' \in [Archetypes -> Version]
    BY DEF Move, Marked
  <2>3. OnePlace'
    BY MembersSame DEF Move, OnePlace
  <2> QED BY <2>1, <2>2, <2>3 DEF Move, Edit
<1>2. \A a \in Archetypes \ as : Stale(a)' => Stale(a)
  <2>1. \A a \in Archetypes : Members(a)' = Members(a)
    BY MembersSame DEF Move
  <2>2. \A x \in Entities : x # e => pos'[x] = pos[x]
    BY DEF Move
  <2>3. \A a \in Archetypes : Members(a) \subseteq Entities
    BY ElementOfSeq, LenProperties DEF Members
  <2> QED BY <2>1, <2>2, <2>3 DEF Move, Stale, Archetypes
<1>3. Since' /\ MarkedSince'
  BY <1>2, EditMarks DEF Move
<1> QED BY <1>1, <1>3

(* A new parent marks nothing and makes no local matrix stale. *)
LEMMA ReparentKeeps ==
  ASSUME MarkInv, NEW e \in Entities, NEW p \in Entities, Reparent(e, p) PROVE MarkInv'
<1>1. Types' /\ OnePlace' /\ Since'
  BY MembersSame DEF MarkInv, Types, OnePlace, Since, Reparent, Edit
<1>2. \A a \in Archetypes : Stale(a)' = Stale(a)
  BY MembersSame DEF Reparent, Stale
<1> QED BY <1>1, <1>2 DEF MarkInv, MarkedSince, Reparent, Edit

(* An entity that changes its archetype: the one it enters is marked, and   *)
(* the one it leaves need not be, since those that stay do not change.      *)
LEMMA MoveTo ==
  ASSUME MarkInv, NEW from \in Archetypes, NEW to \in Archetypes \ {from}, NEW e \in Entities,
         e \in Members(from), Edit,
         chunk' = [chunk EXCEPT ![from] = Without(@, e), ![to] = Append(@, e)],
         NEW as \in SUBSET Archetypes, to \in as, version' = Marked(as),
         pos' = pos, ltw' = ltw, from = "child" => ltp' = ltp
  PROVE  MarkInv'
<1> USE DEF MarkInv, Types
<1>1. /\ chunk[from] \in Seq(Entities) /\ chunk[to] \in Seq(Entities)
      /\ chunk'[from] = Without(chunk[from], e) /\ chunk'[to] = Append(chunk[to], e)
      /\ Archetypes = {from, to}
  BY DEF Archetypes
<1>2. e \notin Members(to)
  BY DEF OnePlace, Archetypes
<1>3. /\ chunk'[from] \in Seq(Entities)
      /\ Once(chunk'[from])
      /\ Members(from)' = Members(from) \ {e}
  BY <1>1, WithoutKeeps, MembersListed, MembersListedNext DEF OnePlace
<1>4. /\ chunk'[to] \in Seq(Entities)
      /\ Once(chunk'[to])
      /\ Members(to)' = Members(to) \union {e}
  BY <1>1, <1>2, AppendKeeps, MembersListed, MembersListedNext DEF OnePlace
<1>5. Members(from) \intersect Members(to) = {}
  BY DEF OnePlace, Archetypes
<1>6. Members(from)' \intersect Members(to)' = {}
  BY <1>3, <1>4, <1>5
<1>7. OnePlace'
  BY <1>1, <1>3, <1>4, <1>6 DEF OnePlace, Archetypes
<1>8. chunk' \in [Archetypes -> Seq(Entities)]
  BY <1>1, <1>3, <1>4
<1>9. Stale(from)' => Stale(from)
  BY <1>3 DEF Stale, Archetypes
<1>10. version' \in [Archetypes -> Version] /\ Since' /\ MarkedSince'
  <2>1. \A a \in Archetypes \ as : Stale(a)' => Stale(a)
    BY <1>1, <1>9
  <2> QED BY <2>1, EditMarks
<1> QED BY <1>7, <1>8, <1>10 DEF Edit

(* An entity that gets a parent changes its archetype. *)
LEMMA AttachKeeps ==
  ASSUME MarkInv, NEW e \in Entities, NEW p \in Entities, Attach(e, p) PROVE MarkInv'
<1>1. {"child"} \union Closed("root", e) \in SUBSET Archetypes
  BY DEF Closed, Archetypes
<1> QED BY <1>1, MoveTo DEF Attach, Archetypes

(* So does one that loses it. *)
LEMMA DetachKeeps == ASSUME MarkInv, NEW e \in Entities, Detach(e) PROVE MarkInv'
<1>1. {"root"} \union Closed("child", e) \in SUBSET Archetypes
  BY DEF Closed, Archetypes
<1> QED BY <1>1, MoveTo DEF Detach, Archetypes

---------------------------------------------------------------------------
(* The systems. *)

(* A system that is not the transform system advances the version only. *)
LEMMA OtherKeeps ==
  ASSUME MarkInv, NEW before \in {"render", "transform"},
         NEW name, name = (IF before = "render" THEN "game" ELSE "render"),
         OtherSystem(before, name)
  PROVE  MarkInv'
<1> USE DEF MarkInv, Types
<1>1. Tick(global) \in Version
  BY TickType
<1>2. Types' /\ OnePlace'
  BY <1>1, MembersSame DEF OtherSystem, data, OnePlace
<1>3. \A a \in Archetypes : Stale(a)' = Stale(a)
  BY MembersSame DEF OtherSystem, data, Stale
<1>4. Since'
  BY DEF OtherSystem, Since
<1>5. MarkedSince'
  BY <1>3 DEF OtherSystem, MarkedSince
<1> QED BY <1>2, <1>4, <1>5

(* The transform system leaves nobody stale: it takes every chunk where     *)
(* somebody is.                                                             *)
LEMMA TransformKeeps == ASSUME MarkInv, TransformSystem PROVE MarkInv'
<1> USE DEF MarkInv, Types
<1>1. Tick(global) \in Version \ {0}
  BY TickType
<1>2. \A a \in Archetypes : Members(a)' = Members(a) /\ Members(a) \subseteq Entities
  BY ElementOfSeq, LenProperties DEF TransformSystem, Members
<1>3. Types' /\ OnePlace'
  BY <1>1, <1>2 DEF TransformSystem, OnePlace, Archetypes
<1>4. Since'
  BY <1>1 DEF TransformSystem, Since
<1>5. ~ Stale("root")'
  <2> SUFFICES ASSUME NEW e \in Members("root") PROVE ltw'[e] = <<pos[e]>>
    BY <1>2 DEF Stale, TransformSystem, Archetypes
  <2>1. e \in Entities /\ e \notin Members("child")
    BY <1>2 DEF OnePlace, Archetypes
  <2>2. ltw'[e] = IF NeedProcess("root") THEN <<pos[e]>> ELSE ltw[e]
    BY <2>1 DEF TransformSystem
  <2>3. ltw[e] # <<pos[e]>> => NeedProcess("root")
    BY StaleNeedsProcess DEF Stale, Archetypes
  <2> QED BY <2>2, <2>3
<1>6. ~ Stale("child")'
  <2> SUFFICES ASSUME NEW e \in Members("child") PROVE ltp'[e] = pos[e]
    BY <1>2 DEF Stale, TransformSystem, Archetypes
  <2>1. ltp'[e] = IF NeedProcess("child") THEN pos[e] ELSE ltp[e]
    BY <1>2 DEF TransformSystem, Archetypes
  <2>2. ltp[e] # pos[e] => NeedProcess("child")
    BY StaleNeedsProcess DEF Stale, Archetypes
  <2> QED BY <2>1, <2>2
<1>7. MarkedSince'
  BY <1>5, <1>6 DEF MarkedSince, Archetypes
<1> QED BY <1>3, <1>4, <1>7

(* Every step keeps the marks. *)
LEMMA MarkNext == MarkInv /\ [Next]_vars => MarkInv'
<1> SUFFICES ASSUME MarkInv, [Next]_vars PROVE MarkInv'
  OBVIOUS
<1>1. ASSUME NEW e \in Entities, Spawn(e) \/ Detach(e) \/ Move(e) PROVE MarkInv'
  BY <1>1, SpawnKeeps, DetachKeeps, MoveKeeps
<1>2. ASSUME NEW e \in Entities, NEW p \in Entities, Attach(e, p) \/ Reparent(e, p)
      PROVE  MarkInv'
  BY <1>2, AttachKeeps, ReparentKeeps
<1>3. CASE OtherSystem("render", "game") \/ OtherSystem("transform", "render")
  BY <1>3, OtherKeeps
<1>4. CASE TransformSystem
  BY <1>4, TransformKeeps
<1>5. CASE UNCHANGED vars
  <2>1. Types' /\ OnePlace' /\ Since'
    BY <1>5, MembersSame DEF vars, MarkInv, Types, OnePlace, Since
  <2>2. \A a \in Archetypes : Stale(a)' = Stale(a)
    BY <1>5, MembersSame DEF vars, Stale
  <2> QED BY <1>5, <2>1, <2>2 DEF vars, MarkInv, MarkedSince
<1> QED BY <1>1, <1>2, <1>3, <1>4, <1>5 DEF Next

(* The versions tell who was marked since the transform system ran last,    *)
(* through every wrap-around (ecs.c:1377, process_query and chunk_changed). *)
THEOREM MarksAreRecent == Spec => []MarkInv
<1>1. Init => MarkInv
  BY PlacesInit DEF MarkInv
<1> QED BY <1>1, MarkNext, PTL DEF Spec

(* No change is lost to only_changed (ecs.c:1087), for any number of        *)
(* entities, any positions and any number of versions from eight on.        *)
THEOREM NoChangeLost == Spec => []StaleIsMarked
<1>1. MarkInv => StaleIsMarked
  <2> SUFFICES ASSUME MarkInv PROVE StaleIsMarked
    OBVIOUS
  <2>1. (\E e \in Members("root") : ltw[e] # <<pos[e]>>) => NeedProcess("root")
    BY StaleNeedsProcess DEF Stale, Archetypes
  <2>2. (\E e \in Members("child") : ltp[e] # pos[e]) => NeedProcess("child")
    BY StaleNeedsProcess DEF Stale, Archetypes
  <2> QED BY <2>1, <2>2 DEF StaleIsMarked
<1> QED BY <1>1, MarksAreRecent, PTL

---------------------------------------------------------------------------
(* Up the parents. *)

(* Going up from an entity of C the rank falls, so there is an end.         *)
Climbs(C, up, n, rank) ==
    /\ C \subseteq Entities /\ up \in [Entities -> Entities]
    /\ n \in Nat /\ rank \in [Entities -> 0 .. n]
    /\ \A x \in C : rank[up[x]] < rank[x]

IsUpStep(step, V) == step \in [Entities \X V -> V]
Carries(f, C, up, V, base, step) ==
    /\ f \in [Entities -> V]
    /\ \A x \in Entities : f[x] = IF x \in C THEN step[<<x, f[up[x]]>>] ELSE base[x]

(* A function defined by recursion up the parents exists. *)
LEMMA Climb ==
  ASSUME NEW C, NEW up, NEW n, NEW rank, Climbs(C, up, n, rank),
         NEW V, NEW base \in [Entities -> V], NEW step, IsUpStep(step, V)
  PROVE  \E f : Carries(f, C, up, V, base, step)
<1> DEFINE W == [Entities -> V]
           next(h) == [x \in Entities |-> IF x \in C THEN step[<<x, h[up[x]]>>] ELSE base[x]]
           level == [p \in (1 .. n + 1) \X W |-> next(p[2])]
<1>1. /\ n \in Nat /\ n + 1 \in Nat /\ up \in [Entities -> Entities] /\ rank \in [Entities -> 0 .. n]
      /\ \A x \in C : rank[up[x]] < rank[x]
  BY DEF Climbs
<1>2. \A h \in W : next(h) \in W
  BY <1>1 DEF IsUpStep
<1>3. G!IsStep(level, n + 1, W)
  <2> HIDE DEF next, W
  <2> QED BY <1>2 DEF G!IsStep
<1>4. \A i \in 1 .. n + 1 : \A h \in W : level[<<i, h>>] = next(h)
  OBVIOUS
<1> HIDE DEF level
<1>5. PICK h : G!Follows(h, n + 1, W, base, level)
  <2>1. base \in W
    OBVIOUS
  <2> HIDE DEF W
  <2> QED BY <1>1, <1>3, <2>1, G!Recursion
<1>6. h \in [0 .. n + 1 -> W] /\ \A i \in 1 .. n + 1 : h[i] = next(h[i - 1])
  <2>1. h \in [0 .. n + 1 -> W] /\ \A i \in 1 .. n + 1 : h[i] = level[<<i, h[i - 1]>>]
    BY <1>5 DEF G!Follows
  <2>2. \A i \in 1 .. n + 1 : h[i - 1] \in W
    BY <1>1, <2>1
  <2> HIDE DEF next, W
  <2> QED BY <1>4, <2>1, <2>2
<1>7. \A i \in 0 .. n : \A x \in Entities :
        h[i + 1][x] = IF x \in C THEN step[<<x, h[i][up[x]]>>] ELSE base[x]
  <2> SUFFICES ASSUME NEW i \in 0 .. n
               PROVE  \A x \in Entities : h[i + 1][x] = IF x \in C THEN step[<<x, h[i][up[x]]>>] ELSE base[x]
    OBVIOUS
  <2>1. i + 1 \in 1 .. n + 1 /\ (i + 1) - 1 = i
    BY <1>1
  <2>2. h[i + 1] = next(h[i])
    <3> HIDE DEF next
    <3> QED BY <1>6, <2>1
  <2> QED BY <2>2
<1> HIDE DEF next, W
<1> DEFINE S == {i \in 0 .. n : \A x \in Entities : rank[x] < i => h[i + 1][x] = h[i][x]}
<1>8. 0 \in S
  BY <1>1
<1>9. ASSUME NEW i \in 0 .. n - 1, i \in S PROVE i + 1 \in S
  <2>1. i \in 0 .. n /\ i + 1 \in 0 .. n
    BY <1>1
  <2>2. ASSUME NEW x \in Entities, rank[x] < i + 1 PROVE h[(i + 1) + 1][x] = h[i + 1][x]
    <3>1. /\ h[(i + 1) + 1][x] = IF x \in C THEN step[<<x, h[i + 1][up[x]]>>] ELSE base[x]
          /\ h[i + 1][x] = IF x \in C THEN step[<<x, h[i][up[x]]>>] ELSE base[x]
      BY <1>7, <2>1
    <3>2. ASSUME x \in C PROVE h[i + 1][up[x]] = h[i][up[x]]
      <4>1. up[x] \in Entities /\ rank[up[x]] < rank[x] /\ rank[up[x]] \in Nat /\ rank[x] \in Nat
        BY <1>1, <3>2
      <4>2. rank[up[x]] < i
        BY <2>1, <2>2, <4>1
      <4> QED BY <1>9, <4>1, <4>2
    <3> QED BY <3>1, <3>2
  <2> QED BY <2>1, <2>2
<1>10. \A i \in 0 .. n : i \in S
  <2> HIDE DEF S
  <2> QED BY <1>1, <1>8, <1>9, G!Induct
<1>11. \A x \in Entities : rank[x] < n => h[n + 1][x] = h[n][x]
  BY <1>1, <1>10
<1> HIDE DEF S
<1>12. ASSUME NEW x \in Entities
       PROVE  h[n + 1][x] = IF x \in C THEN step[<<x, h[n + 1][up[x]]>>] ELSE base[x]
  <2>1. h[n + 1][x] = IF x \in C THEN step[<<x, h[n][up[x]]>>] ELSE base[x]
    BY <1>1, <1>7
  <2>2. ASSUME x \in C PROVE h[n + 1][up[x]] = h[n][up[x]]
    <3>1. up[x] \in Entities /\ rank[up[x]] < rank[x] /\ rank[up[x]] \in Nat /\ rank[x] \in 0 .. n
      BY <1>1, <2>2
    <3>2. rank[up[x]] < n
      BY <1>1, <3>1
    <3> QED BY <1>11, <3>1, <3>2
  <2> QED BY <2>1, <2>2
<1>13. h[n + 1] \in [Entities -> V]
  BY <1>1, <1>6 DEF W
<1> QED BY <1>12, <1>13 DEF Carries

(* Above, and Composed, as functions of who has which parent. *)
Ups(C, up) == CHOOSE f : f = [x \in Entities |-> IF x \in C THEN {up[x]} \union f[up[x]] ELSE {}]
Comp(C, up, p) ==
    CHOOSE f : f = [x \in Entities |-> <<p[x]>> \o IF x \in C THEN f[up[x]] ELSE << >>]

(* The operators of EcsTransform are these. *)
LEMMA AboveIs == \A e : Above(e) = Ups(Members("child"), parent)[e]
  BY DEF Above, Ups

(* And the product of the matrices. *)
LEMMA ComposedIs == \A e : Composed(e) = Comp(Members("child"), parent, pos)[e]
  BY DEF Composed, Comp

(* Who is above an entity. *)
LEMMA UpsFacts ==
  ASSUME NEW C, NEW up, NEW n, NEW rank, Climbs(C, up, n, rank)
  PROVE  /\ \A x \in C : Ups(C, up)[x] = {up[x]} \union Ups(C, up)[up[x]]
         /\ \A x \in Entities \ C : Ups(C, up)[x] = {}
         /\ \A x \in Entities : \A y \in Ups(C, up)[x] : y \in Entities /\ rank[y] < rank[x]
<1> DEFINE u == Ups(C, up)
           Is(f) == f = [x \in Entities |-> IF x \in C THEN {up[x]} \union f[up[x]] ELSE {}]
           V == SUBSET Entities
           base == [x \in Entities |-> {}]
           step == [p \in Entities \X V |-> {up[p[1]]} \union p[2]]
<1>1. /\ n \in Nat /\ up \in [Entities -> Entities] /\ rank \in [Entities -> 0 .. n] /\ C \subseteq Entities
      /\ \A x \in C : rank[up[x]] < rank[x]
  BY DEF Climbs
<1>2. \E f : Is(f)
  <2>1. IsUpStep(step, V)
    BY <1>1 DEF IsUpStep
  <2>2. base \in [Entities -> V]
    OBVIOUS
  <2>3. \A x \in Entities : \A A \in V : step[<<x, A>>] = {up[x]} \union A
    OBVIOUS
  <2>4. \A x \in Entities : base[x] = {}
    OBVIOUS
  <2> HIDE DEF step, base
  <2>5. PICK f : Carries(f, C, up, V, base, step)
    <3> HIDE DEF V
    <3> QED BY <2>1, <2>2, Climb
  <2>6. f \in [Entities -> V] /\ \A x \in Entities : f[x] = IF x \in C THEN step[<<x, f[up[x]]>>] ELSE base[x]
    BY <2>5 DEF Carries
  <2>7. \A x \in Entities : f[x] = IF x \in C THEN {up[x]} \union f[up[x]] ELSE {}
    <3> SUFFICES ASSUME NEW x \in Entities PROVE f[x] = IF x \in C THEN {up[x]} \union f[up[x]] ELSE {}
      OBVIOUS
    <3>1. up[x] \in Entities /\ f[up[x]] \in V
      BY <1>1, <2>6
    <3> QED BY <2>3, <2>4, <2>6, <3>1
  <2>8. Is(f)
    BY <2>6, <2>7
  <2> HIDE DEF Is
  <2> QED BY <2>8
<1>3. Is(u)
  <2> HIDE DEF Is
  <2>1. u = CHOOSE f : Is(f)
    BY DEF Ups, Is
  <2> HIDE DEF u
  <2> QED BY <1>2, <2>1
<1> HIDE DEF u
<1>4. \A x \in Entities : u[x] = IF x \in C THEN {up[x]} \union u[up[x]] ELSE {}
  BY <1>3
<1> DEFINE S == {i \in 0 .. n : \A x \in Entities : rank[x] <= i =>
                    \A y \in u[x] : y \in Entities /\ rank[y] < rank[x]}
<1>5. 0 \in S
  <2> SUFFICES ASSUME NEW x \in Entities, rank[x] <= 0 PROVE u[x] = {}
    BY <1>1
  <2>1. x \notin C
    <3>1. ASSUME x \in C PROVE rank[up[x]] < rank[x] /\ rank[up[x]] \in Nat /\ rank[x] \in Nat
      BY <1>1, <3>1
    <3> QED BY <3>1
  <2> QED BY <1>4, <2>1
<1>6. ASSUME NEW i \in 0 .. n - 1, i \in S PROVE i + 1 \in S
  <2> SUFFICES ASSUME NEW x \in Entities, rank[x] <= i + 1, NEW y \in u[x]
               PROVE  y \in Entities /\ rank[y] < rank[x]
    BY <1>1
  <2>1. x \in C /\ (y = up[x] \/ y \in u[up[x]])
    BY <1>4
  <2>2. up[x] \in Entities /\ rank[up[x]] < rank[x] /\ rank[up[x]] \in Nat /\ rank[x] \in Nat
    BY <1>1, <2>1
  <2>3. rank[up[x]] <= i
    BY <1>1, <2>2
  <2>4. y \in u[up[x]] => y \in Entities /\ rank[y] < rank[up[x]]
    BY <1>6, <2>2, <2>3
  <2>5. \A z \in Entities : rank[z] \in Nat
    BY <1>1
  <2> QED BY <2>1, <2>2, <2>4, <2>5
<1>7. \A i \in 0 .. n : i \in S
  <2> HIDE DEF S
  <2> QED BY <1>1, <1>5, <1>6, G!Induct
<1>8. n \in S
  BY <1>1, <1>7
<1>9. \A x \in Entities : \A y \in u[x] : y \in Entities /\ rank[y] < rank[x]
  <2>1. \A x \in Entities : rank[x] <= n
    BY <1>1
  <2> QED BY <1>8, <2>1
<1> HIDE DEF S
<1> QED BY <1>1, <1>4, <1>9 DEF u

(* How many are above an entity. *)
LEMMA DepthFacts ==
  ASSUME NEW C, NEW up, NEW n, NEW rank, Climbs(C, up, n, rank)
  PROVE  /\ \A x \in Entities : Cardinality(Ups(C, up)[x]) \in Nat
         /\ \A x \in Entities \ C : Cardinality(Ups(C, up)[x]) = 0
         /\ \A x \in C : Cardinality(Ups(C, up)[x]) = Cardinality(Ups(C, up)[up[x]]) + 1
<1> DEFINE u == Ups(C, up)
<1>1. /\ \A x \in C : u[x] = {up[x]} \union u[up[x]]
      /\ \A x \in Entities \ C : u[x] = {}
      /\ \A x \in Entities : \A y \in u[x] : y \in Entities /\ rank[y] < rank[x]
  BY UpsFacts
<1> HIDE DEF u
<1>2. /\ up \in [Entities -> Entities] /\ rank \in [Entities -> 0 .. n] /\ C \subseteq Entities
  BY DEF Climbs
<1>3. \A x \in Entities : IsFiniteSet(u[x])
  <2> SUFFICES ASSUME NEW x \in Entities PROVE IsFiniteSet(u[x])
    OBVIOUS
  <2>1. u[x] \subseteq Entities
    BY <1>1
  <2> QED BY <2>1, EntityAssumption, FS_Subset
<1>4. \A x \in Entities : Cardinality(u[x]) \in Nat
  BY <1>3, FS_CardinalityType
<1>5. ASSUME NEW x \in C PROVE Cardinality(u[x]) = Cardinality(u[up[x]]) + 1
  <2>1. up[x] \in Entities /\ x \in Entities
    BY <1>2
  <2>2. up[x] \notin u[up[x]]
    <3>1. ASSUME up[x] \in u[up[x]] PROVE rank[up[x]] < rank[up[x]] /\ rank[up[x]] \in 0 .. n
      BY <1>1, <1>2, <2>1, <3>1
    <3> QED BY <3>1
  <2>3. u[x] = u[up[x]] \union {up[x]}
    BY <1>1
  <2>4. IsFiniteSet(u[up[x]])
    BY <1>3, <2>1
  <2> QED BY <2>2, <2>3, <2>4, FS_AddElement
<1>6. \A x \in Entities \ C : Cardinality(u[x]) = 0
  BY <1>1, FS_EmptySet
<1> QED BY <1>4, <1>5, <1>6 DEF u

(* The product of the matrices from an entity up. *)
LEMMA CompFacts ==
  ASSUME NEW C, NEW up, NEW n, NEW rank, Climbs(C, up, n, rank), NEW p \in [Entities -> Positions]
  PROVE  /\ \A x \in C : Comp(C, up, p)[x] = <<p[x]>> \o Comp(C, up, p)[up[x]]
         /\ \A x \in Entities \ C : Comp(C, up, p)[x] = <<p[x]>>
<1> DEFINE c == Comp(C, up, p)
           Is(f) == f = [x \in Entities |-> <<p[x]>> \o IF x \in C THEN f[up[x]] ELSE << >>]
           V == Seq(Positions)
           base == [x \in Entities |-> <<p[x]>> \o << >>]
           step == [q \in Entities \X V |-> <<p[q[1]]>> \o q[2]]
<1>1. up \in [Entities -> Entities] /\ C \subseteq Entities
  BY DEF Climbs
<1>2. \E f : Is(f)
  <2>1. IsUpStep(step, V)
    BY DEF IsUpStep
  <2>2. base \in [Entities -> V]
    OBVIOUS
  <2>3. \A x \in Entities : \A A \in V : step[<<x, A>>] = <<p[x]>> \o A
    OBVIOUS
  <2>4. \A x \in Entities : base[x] = <<p[x]>> \o << >>
    OBVIOUS
  <2> HIDE DEF step, base
  <2>5. PICK f : Carries(f, C, up, V, base, step)
    <3> HIDE DEF V
    <3> QED BY <2>1, <2>2, Climb
  <2>6. f \in [Entities -> V] /\ \A x \in Entities : f[x] = IF x \in C THEN step[<<x, f[up[x]]>>] ELSE base[x]
    BY <2>5 DEF Carries
  <2>7. \A x \in Entities : f[x] = <<p[x]>> \o IF x \in C THEN f[up[x]] ELSE << >>
    <3> SUFFICES ASSUME NEW x \in Entities PROVE f[x] = <<p[x]>> \o IF x \in C THEN f[up[x]] ELSE << >>
      OBVIOUS
    <3>1. up[x] \in Entities /\ f[up[x]] \in V
      BY <1>1, <2>6
    <3> HIDE DEF V
    <3> QED BY <2>3, <2>4, <2>6, <3>1
  <2>8. Is(f)
    BY <2>6, <2>7
  <2> HIDE DEF Is
  <2> QED BY <2>8
<1>3. Is(c)
  <2> HIDE DEF Is
  <2>1. c = CHOOSE f : Is(f)
    BY DEF Comp, Is
  <2> HIDE DEF c
  <2> QED BY <1>2, <2>1
<1> HIDE DEF c
<1>4. \A x \in Entities : c[x] = <<p[x]>> \o IF x \in C THEN c[up[x]] ELSE << >>
  BY <1>3
<1>5. \A x \in Entities : <<p[x]>> \o << >> = <<p[x]>>
  <2> SUFFICES ASSUME NEW x \in Entities PROVE <<p[x]>> \o << >> = <<p[x]>>
    OBVIOUS
  <2>1. <<p[x]>> \in Seq(Positions)
    OBVIOUS
  <2> QED BY <2>1, ConcatEmptySeq
<1> QED BY <1>1, <1>4, <1>5 DEF c

---------------------------------------------------------------------------
(* The second pass. *)

(* The graph of EcsTransform is the one that TaskGraphProof is about. *)
LEMMA SameGraph == \A s, b, a : Graph!BagOrder(s, b, a) = G!BagOrder(s, b, a)
<1>1. Graph!BagEmpty = G!BagEmpty
  BY DEF Graph!BagEmpty, G!BagEmpty
<1>2. ASSUME NEW g, NEW x, NEW b, NEW a PROVE Graph!BagAdd(g, x, b, a) = G!BagAdd(g, x, b, a)
  BY DEF Graph!BagAdd, G!BagAdd, Graph!GetOrCreate, G!GetOrCreate, Graph!Precede, G!Precede,
         Graph!Contains, G!Contains
<1>3. ASSUME NEW g PROVE Graph!BagOutput(g) = G!BagOutput(g)
  BY DEF Graph!BagOutput, G!BagOutput, Graph!BagBuild, G!BagBuild, Graph!Free, G!Free,
         Graph!PopInput, G!PopInput, Graph!Release, G!Release, Graph!RemoveFirst, G!RemoveFirst,
         Graph!RemoveAt, G!RemoveAt, Graph!SelectInSeq, G!SelectInSeq, Graph!Min, G!Min,
         Graph!Last, G!Last, Graph!Front, G!Front
<1>4. ASSUME NEW s, NEW b, NEW a PROVE Graph!BagOrder(s, b, a) = G!BagOrder(s, b, a)
  BY <1>1, <1>2, <1>3 DEF Graph!BagOrder, G!BagOrder
<1> QED BY <1>4

Children == Members("child")

(* Every child is in the order once, and before its parent. *)
ChildrenFirst(order, C, up) ==
    /\ order \in Seq(Entities) /\ G!Once(order)
    /\ C \subseteq G!Listed(order)
    /\ \A i, j \in 1 .. Len(order) : order[i] \in C /\ order[j] = up[order[i]] => i < j

(* So it is in the order of the second pass, when parents make no circle.   *)
LEMMA ChildOrderFacts ==
  ASSUME MarkInv, parent \in [Entities -> Entities],
         NEW n, NEW rank, Climbs(Children, parent, n, rank)
  PROVE  ChildrenFirst(ChildOrder, Children, parent)
<1> DEFINE s == chunk["child"]
           before == [e \in Entities |-> <<parent[e]>>]
           after == [e \in Entities |-> << >>]
           C == Children
           o == ChildOrder
<1>1. s \in Seq(Entities) /\ before \in [Entities -> Seq(Entities)] /\ after \in [Entities -> Seq(Entities)]
  BY DEF MarkInv, Types, Archetypes
<1>2. G!Listed(s) = C /\ C \subseteq Entities
  <2>1. DOMAIN s = 1 .. Len(s)
    BY <1>1, LenProperties
  <2>2. G!Listed(s) = C
    BY <2>1 DEF Children, Members, G!Listed
  <2> QED BY <2>2 DEF Climbs
<1>3. \A y \in Entities : G!Listed(before[y]) = {parent[y]} /\ G!Listed(after[y]) = {}
  <2> SUFFICES ASSUME NEW y \in Entities
               PROVE  G!Listed(before[y]) = {parent[y]} /\ G!Listed(after[y]) = {}
    OBVIOUS
  <2>1. Len(<<parent[y]>>) = 1 /\ <<parent[y]>>[1] = parent[y]
    OBVIOUS
  <2>2. G!Listed(<<parent[y]>>) = {parent[y]}
    BY <2>1 DEF G!Listed
  <2>3. G!Listed(<< >>) = {}
    BY DEF G!Listed
  <2> QED BY <2>2, <2>3
<1>4. o = G!BagOrder(s, before, after)
  BY SameGraph DEF ChildOrder
<1> HIDE DEF s, before, after, C, o
<1>5. \A x, y \in Entities : G!Comes(s, before, after, x, y) <=> x \in C /\ y = parent[x]
  BY <1>2, <1>3 DEF G!Comes
<1>6. G!NoCircle(s, before, after)
  <2>1. rank \in [Entities -> Nat] /\ \A x \in C : rank[parent[x]] < rank[x]
    BY DEF Climbs, C
  <2> QED BY <1>5, <2>1 DEF G!NoCircle
<1>7. G!Orders(o, s, before, after)
  BY <1>1, <1>4, G!OrderFollowsLists
<1>8. o \in Seq(Entities) /\ G!Once(o) /\ C \subseteq G!Listed(o)
  BY <1>2, <1>6, <1>7 DEF G!Orders, G!Named
<1>9. ASSUME NEW i \in 1 .. Len(o), NEW j \in 1 .. Len(o), o[i] \in C, o[j] = parent[o[i]]
      PROVE  i < j
  <2>1. o[i] \in Entities /\ o[j] \in Entities
    BY <1>8
  <2>2. G!Comes(s, before, after, o[i], o[j])
    BY <1>5, <1>9, <2>1
  <2> QED BY <1>7, <2>2 DEF G!Orders
<1> QED BY <1>8, <1>9 DEF ChildrenFirst, C, o

(* A local matrix, where one is set. *)
Local == Positions \union {Unset}

(* A child's matrix is multiplied with the one its parent had before the    *)
(* pass: the parent's own turn comes later.                                 *)
LEMMA PassFacts ==
  ASSUME MarkInv, parent \in [Entities -> Entities],
         NEW n, NEW rank, Climbs(Children, parent, n, rank),
         NEW local \in [Entities -> Local], NEW start \in [Entities -> Seq(Local)]
  PROVE  /\ SecondPass(local, start) \in [Entities -> Seq(Local)]
         /\ \A x \in Children : SecondPass(local, start)[x] = <<local[x]>> \o start[parent[x]]
<1> DEFINE order == ChildOrder
           C == Children
           M == [Entities -> Seq(Local)]
           L == Len(order)
           next(i, m) == IF order[i] \notin C THEN m
                         ELSE [m EXCEPT ![order[i]] = <<local[order[i]]>> \o m[parent[order[i]]]]
           Is(f) == f = [i \in 0 .. L |-> IF i = 0 THEN start ELSE next(i, f[i - 1])]
           worlds == CHOOSE f : Is(f)
<1>1. SecondPass(local, start) = worlds[L]
  BY DEF SecondPass, Children
<1>2. ChildrenFirst(order, C, parent) /\ C \subseteq Entities
  BY ChildOrderFacts DEF Climbs
<1>3. L \in Nat /\ order \in Seq(Entities) /\ \A i \in 1 .. L : order[i] \in Entities
  BY <1>2 DEF ChildrenFirst
<1> HIDE DEF order, C
<1>4. \A i \in 1 .. L : \A m \in M : next(i, m) \in M
  <2> SUFFICES ASSUME NEW i \in 1 .. L, NEW m \in M PROVE next(i, m) \in M
    OBVIOUS
  <2>1. order[i] \in Entities /\ parent[order[i]] \in Entities
    BY <1>3
  <2>2. <<local[order[i]]>> \in Seq(Local) /\ m[parent[order[i]]] \in Seq(Local)
    BY <2>1
  <2>3. <<local[order[i]]>> \o m[parent[order[i]]] \in Seq(Local)
    BY <2>2, ConcatProperties
  <2> QED BY <2>1, <2>3
<1>5. start \in M
  OBVIOUS
<1> HIDE DEF next, M, L
<1>6. Is(worlds)
  <2> DEFINE step == [p \in (1 .. L) \X M |-> next(p[1], p[2])]
  <2>1. G!IsStep(step, L, M)
    BY <1>4 DEF G!IsStep
  <2>2. \A i \in 1 .. L : \A m \in M : step[<<i, m>>] = next(i, m)
    OBVIOUS
  <2> HIDE DEF step
  <2>3. PICK f : G!Follows(f, L, M, start, step)
    BY <1>3, <1>5, <2>1, G!Recursion
  <2>4. f \in [0 .. L -> M] /\ f[0] = start /\ \A i \in 1 .. L : f[i] = step[<<i, f[i - 1]>>]
    BY <2>3 DEF G!Follows
  <2>5. ASSUME NEW i \in 1 .. L PROVE f[i] = next(i, f[i - 1])
    <3> HIDE DEF Is
    <3>1. i - 1 \in 0 .. L
      BY <1>3
    <3>2. f[i - 1] \in M
      BY <2>4, <3>1
    <3> QED BY <2>2, <2>4, <3>2
  <2>6. \A i \in 0 .. L : f[i] = IF i = 0 THEN start ELSE next(i, f[i - 1])
    BY <1>3, <2>4, <2>5
  <2>7. Is(f)
    BY <2>4, <2>6
  <2> HIDE DEF Is
  <2> QED BY <2>7 DEF worlds
<1> HIDE DEF worlds
<1>7. worlds[0] = start /\ \A i \in 0 .. L - 1 : worlds[i + 1] = next(i + 1, worlds[i])
  BY <1>3, <1>6
<1> DEFINE K(i) == {order[k] : k \in 1 .. i}
           Good(m, i) ==
             /\ m \in M
             /\ \A x \in Entities : m[x] = IF x \in C /\ x \in K(i) THEN <<local[x]>> \o start[parent[x]]
                                           ELSE start[x]
           S == {i \in 0 .. L : Good(worlds[i], i)}
<1>8. 0 \in S
  <2>1. K(0) = {}
    OBVIOUS
  <2> HIDE DEF K
  <2>2. Good(worlds[0], 0)
    BY <1>5, <1>7, <2>1
  <2> HIDE DEF Good
  <2> QED BY <1>3, <2>2
<1>9. ASSUME NEW i \in 0 .. L - 1, i \in S PROVE i + 1 \in S
  <2> DEFINE e == order[i + 1]
             m == worlds[i]
             w == worlds[i + 1]
  <2>1. i + 1 \in 0 .. L /\ i + 1 \in 1 .. L /\ i \in 0 .. L /\ Good(m, i)
    BY <1>3, <1>9
  <2>2. e \in Entities /\ w = next(i + 1, m) /\ w \in M
    BY <1>3, <1>4, <1>7, <2>1
  <2>3. K(i + 1) = K(i) \union {e}
    BY <2>1, 1 .. i + 1 = (1 .. i) \union {i + 1}
  <2>4. ASSUME e \in C PROVE parent[e] \in Entities /\ parent[e] \notin K(i)
    <3>1. ASSUME NEW k \in 1 .. i, parent[e] = order[k] PROVE FALSE
      <4>1. k \in 1 .. L /\ k < i + 1
        BY <1>3, <2>1
      <4>2. i + 1 < k
        BY <1>2, <2>1, <2>4, <3>1, <4>1 DEF ChildrenFirst, L
      <4> QED BY <4>1, <4>2
    <3> QED BY <2>2, <3>1
  <2>5. w = IF e \notin C THEN m ELSE [m EXCEPT ![e] = <<local[e]>> \o m[parent[e]]]
    BY <2>2 DEF next
  <2>6. m \in [Entities -> Seq(Local)]
    BY <2>1 DEF M
  <2> HIDE DEF K, e, m, w
  <2>7. ASSUME NEW x \in Entities
        PROVE  w[x] = IF x \in C /\ x \in K(i + 1) THEN <<local[x]>> \o start[parent[x]] ELSE start[x]
    <3>1. m[x] = IF x \in C /\ x \in K(i) THEN <<local[x]>> \o start[parent[x]] ELSE start[x]
      BY <2>1
    <3>2. CASE e \notin C
      BY <2>3, <2>5, <3>1, <3>2
    <3>3. CASE e \in C /\ x # e
      BY <2>2, <2>3, <2>5, <2>6, <3>1, <3>3
    <3>4. CASE e \in C /\ x = e
      <4>1. w[e] = <<local[e]>> \o m[parent[e]]
        BY <2>2, <2>5, <2>6, <3>4
      <4>2. m[parent[e]] = start[parent[e]]
        BY <2>1, <2>4, <3>4
      <4> QED BY <2>3, <3>4, <4>1, <4>2
    <3> QED BY <3>2, <3>3, <3>4
  <2>8. Good(w, i + 1)
    BY <2>2, <2>7
  <2> HIDE DEF Good
  <2> QED BY <2>1, <2>8 DEF w
<1>10. \A i \in 0 .. L : i \in S
  <2> HIDE DEF S
  <2> QED BY <1>3, <1>8, <1>9, G!Induct
<1>11. Good(worlds[L], L)
  BY <1>3, <1>10
<1>12. C \subseteq K(L)
  BY <1>2 DEF ChildrenFirst, G!Listed, L
<1>13. worlds[L] \in [Entities -> Seq(Local)]
  BY <1>11 DEF M
<1>14. \A x \in C : worlds[L][x] = <<local[x]>> \o start[parent[x]]
  BY <1>2, <1>11, <1>12
<1> QED BY <1>1, <1>13, <1>14 DEF C

---------------------------------------------------------------------------
(* The matrices of the entities. *)

Live == Members("root") \union Members("child")

Matrices ==
    /\ parent \in [Entities -> Entities]
    /\ ltp \in [Entities -> Local] /\ ltw \in [Entities -> Seq(Local)]
    /\ quiet \in Nat

(* The parents end somewhere, at an entity that is there. *)
Rooted == \E n \in Nat : \E rank \in [Entities -> 0 .. n] : Climbs(Children, parent, n, rank)
Alive == \A x \in Children : parent[x] \in Live

(* How many are above an entity, and its matrix as it should be. *)
Depth(e) == Cardinality(Ups(Children, parent)[e])
Right(e) == Comp(Children, parent, pos)[e]

(* As many levels are right as there were frames without an edit.           *)
Settled == quiet >= 1 => \A e \in Live : Depth(e) <= quiet => ltw[e] = Right(e)

LagInv == MarkInv /\ Matrices /\ Rooted /\ Alive /\ Settled

(* What is in a chunk is an entity, and a parent or a root. *)
LEMMA LiveType == ASSUME MarkInv PROVE Live \subseteq Entities /\ Children \subseteq Live
  BY ElementOfSeq, LenProperties DEF MarkInv, Types, Archetypes, Members, Live, Children

(* An entity that gets the parent p does not make a circle, when it is not  *)
(* above p.                                                                 *)
LEMMA RankAfter ==
  ASSUME NEW C, NEW up, NEW n \in Nat, NEW rank \in [Entities -> 0 .. n], Climbs(C, up, n, rank),
         NEW e \in Entities, NEW p \in Entities, p # e, e \notin Ups(C, up)[p]
  PROVE  \E m \in Nat : \E lifted \in [Entities -> 0 .. m] :
            Climbs(C \union {e}, [up EXCEPT ![e] = p], m, lifted)
<1> DEFINE u == Ups(C, up)
           D == C \union {e}
           to == [up EXCEPT ![e] = p]
           m == n + n + 1
           Under(x) == x = e \/ e \in u[x]
           lifted == [x \in Entities |-> IF Under(x) THEN rank[x] + n + 1 ELSE rank[x]]
<1>1. /\ C \subseteq Entities /\ up \in [Entities -> Entities]
      /\ \A x \in C : rank[up[x]] < rank[x]
      /\ \A x \in C : u[x] = {up[x]} \union u[up[x]]
  BY UpsFacts DEF Climbs
<1>2. m \in Nat /\ lifted \in [Entities -> 0 .. m]
  <2>1. \A x \in Entities : rank[x] \in 0 .. n
    OBVIOUS
  <2> HIDE DEF u
  <2> QED BY <2>1
<1>3. D \subseteq Entities /\ to \in [Entities -> Entities]
  BY <1>1
<1>4. ~ Under(p)
  OBVIOUS
<1> HIDE DEF u
<1>5. ASSUME NEW x \in D PROVE lifted[to[x]] < lifted[x]
  <2>1. x \in Entities /\ to[x] \in Entities /\ rank[x] \in 0 .. n /\ rank[to[x]] \in 0 .. n
    BY <1>1, <1>3
  <2>2. /\ lifted[x] = IF Under(x) THEN rank[x] + n + 1 ELSE rank[x]
        /\ lifted[to[x]] = IF Under(to[x]) THEN rank[to[x]] + n + 1 ELSE rank[to[x]]
    BY <2>1
  <2>3. CASE x = e
    <3>1. to[x] = p
      BY <1>1, <2>3
    <3> HIDE DEF lifted, to
    <3> QED BY <1>4, <2>1, <2>2, <2>3, <3>1
  <2>4. CASE x # e
    <3>1. x \in C /\ to[x] = up[x]
      BY <1>1, <2>4
    <3>2. Under(x) <=> Under(up[x])
      BY <1>1, <2>4, <3>1
    <3>3. rank[up[x]] < rank[x]
      BY <1>1, <3>1
    <3> HIDE DEF lifted, to, Under
    <3> QED BY <2>1, <2>2, <3>1, <3>2, <3>3
  <2> QED BY <2>3, <2>4
<1>6. Climbs(D, to, m, lifted)
  <2> HIDE DEF D, to, m, lifted
  <2> QED BY <1>2, <1>3, <1>5 DEF Climbs
<1> HIDE DEF m, lifted
<1> QED BY <1>2, <1>6

(* Nothing is wrong before the first frame. *)
LEMMA LagInit == Init => LagInv
<1> SUFFICES ASSUME Init PROVE LagInv
  OBVIOUS
<1>1. MarkInv
  BY PlacesInit DEF MarkInv
<1>2. Children = {}
  BY DEF Init, Children, Members, Archetypes
<1>3. Matrices
  BY DEF Init, Matrices, Local
<1>4. Rooted
  <2> DEFINE rank == [e \in Entities |-> 0]
  <2>1. rank \in [Entities -> 0 .. 0] /\ Climbs(Children, parent, 0, rank)
    BY <1>2, <1>3 DEF Climbs, Matrices
  <2> HIDE DEF rank
  <2> QED BY <2>1 DEF Rooted
<1>5. Alive /\ Settled
  BY <1>2 DEF Init, Alive, Settled
<1> QED BY <1>1, <1>3, <1>4, <1>5 DEF LagInv

(* An edit has to leave the parents right, and no more: it starts the count *)
(* of quiet frames again.                                                   *)
LEMMA EditUnsettles ==
  ASSUME LagInv, Edit, MarkInv', Rooted', Alive',
         parent' \in [Entities -> Entities], ltp' \in [Entities -> Local], ltw' = ltw
  PROVE  LagInv'
<1>1. quiet' = 0
  BY DEF Edit
<1>2. Matrices'
  BY <1>1 DEF LagInv, Matrices
<1>3. Settled'
  BY <1>1 DEF Settled
<1> QED BY <1>2, <1>3 DEF LagInv

(* An entity that changes its archetype is in one of them before and after. *)
LEMMA MembersMove ==
  ASSUME MarkInv, NEW from \in Archetypes, NEW to \in Archetypes \ {from}, NEW e \in Entities,
         e \in Members(from),
         chunk' = [chunk EXCEPT ![from] = Without(@, e), ![to] = Append(@, e)]
  PROVE  Members(from)' = Members(from) \ {e} /\ Members(to)' = Members(to) \union {e}
<1>1. /\ chunk[from] \in Seq(Entities) /\ chunk[to] \in Seq(Entities)
      /\ chunk'[from] = Without(chunk[from], e) /\ chunk'[to] = Append(chunk[to], e)
      /\ Once(chunk[from]) /\ Once(chunk[to])
  BY DEF Archetypes, MarkInv, Types, OnePlace
<1>2. e \notin Members(to)
  BY DEF MarkInv, OnePlace, Archetypes
<1>3. Members(from)' = Members(from) \ {e}
  BY <1>1, WithoutKeeps, MembersListed, MembersListedNext
<1>4. Members(to)' = Members(to) \union {e}
  BY <1>1, <1>2, AppendKeeps, MembersListed, MembersListedNext
<1> QED BY <1>3, <1>4

(* A spawned entity has no parent and is nobody's. *)
LEMMA LagSpawn == ASSUME LagInv, NEW e \in Entities, Spawn(e) PROVE LagInv'
<1>1. MarkInv'
  BY SpawnKeeps DEF LagInv
<1>2. Members("child")' = Members("child") /\ Members("root")' = Members("root") \union {e}
  <2>1. /\ chunk["root"] \in Seq(Entities) /\ Once(chunk["root"])
        /\ chunk'["root"] = Append(chunk["root"], e) /\ chunk'["child"] = chunk["child"]
    BY DEF LagInv, MarkInv, Types, OnePlace, Spawn, Archetypes
  <2>2. e \notin Listed(chunk["root"])
    BY MembersListed DEF Spawn
  <2> QED BY <2>1, <2>2, AppendKeeps, MembersListed, MembersListedNext
<1>3. Children' = Children /\ Live \subseteq Live' /\ parent' = parent
  BY <1>2 DEF Children, Live, Spawn
<1>4. Rooted' /\ Alive'
  BY <1>3 DEF LagInv, Rooted, Alive
<1> QED BY <1>1, <1>3, <1>4, EditUnsettles DEF Spawn, LagInv, Matrices

(* A position is no matter of the parents. *)
LEMMA LagMove == ASSUME LagInv, NEW e \in Entities, Move(e) PROVE LagInv'
<1>1. MarkInv'
  BY MoveKeeps DEF LagInv
<1>2. Children' = Children /\ Live' = Live /\ parent' = parent
  BY MembersSame DEF Children, Live, Move
<1>3. Rooted' /\ Alive'
  BY <1>2 DEF LagInv, Rooted, Alive
<1> QED BY <1>1, <1>2, <1>3, EditUnsettles DEF Move, LagInv, Matrices

(* A new parent that e is not above. *)
LEMMA LagParent ==
  ASSUME LagInv, NEW e \in Entities, NEW p \in Live, p # e, e \notin Above(p),
         parent' = [parent EXCEPT ![e] = p], Children' = Children \union {e}, Live' = Live
  PROVE  parent' \in [Entities -> Entities] /\ Rooted' /\ Alive'
<1>1. p \in Entities /\ parent \in [Entities -> Entities] /\ Children \subseteq Entities
  BY LiveType DEF LagInv, Matrices
<1>2. parent' \in [Entities -> Entities]
  BY <1>1
<1>3. Rooted'
  <2>1. PICK n \in Nat : \E rank \in [Entities -> 0 .. n] : Climbs(Children, parent, n, rank)
    BY DEF LagInv, Rooted
  <2>2. e \notin Ups(Children, parent)[p]
    BY AboveIs DEF Children
  <2>3. \E m \in Nat : \E lifted \in [Entities -> 0 .. m] :
          Climbs(Children \union {e}, [parent EXCEPT ![e] = p], m, lifted)
    BY <1>1, <2>1, <2>2, RankAfter
  <2> QED BY <2>3 DEF Rooted
<1>4. Alive'
  BY <1>1 DEF LagInv, Alive
<1> QED BY <1>2, <1>3, <1>4

(* An entity that gets a parent. *)
LEMMA LagAttach ==
  ASSUME LagInv, NEW e \in Entities, NEW p \in Entities, Attach(e, p) PROVE LagInv'
<1>1. MarkInv'
  BY AttachKeeps DEF LagInv
<1>2. Members("root")' = Members("root") \ {e} /\ Members("child")' = Members("child") \union {e}
  BY MembersMove DEF LagInv, Attach, Archetypes
<1>3. Children' = Children \union {e} /\ Live' = Live
  BY <1>2 DEF Children, Live, Attach
<1>4. parent' \in [Entities -> Entities] /\ Rooted' /\ Alive'
  BY <1>3, LagParent DEF Attach, Live
<1>5. ltp' \in [Entities -> Local]
  BY DEF LagInv, Matrices, Attach, Local
<1> QED BY <1>1, <1>4, <1>5, EditUnsettles DEF Attach

(* One that gets another. *)
LEMMA LagReparent ==
  ASSUME LagInv, NEW e \in Entities, NEW p \in Entities, Reparent(e, p) PROVE LagInv'
<1>1. MarkInv'
  BY ReparentKeeps DEF LagInv
<1>2. Members("root")' = Members("root") /\ Members("child")' = Members("child")
  BY MembersSame DEF Reparent
<1>3. Children' = Children \union {e} /\ Live' = Live
  BY <1>2 DEF Children, Live, Reparent
<1>4. parent' \in [Entities -> Entities] /\ Rooted' /\ Alive'
  BY <1>3, LagParent DEF Reparent, Live
<1> QED BY <1>1, <1>4, EditUnsettles DEF Reparent, LagInv, Matrices

(* One that loses it. *)
LEMMA LagDetach == ASSUME LagInv, NEW e \in Entities, Detach(e) PROVE LagInv'
<1>1. MarkInv'
  BY DetachKeeps DEF LagInv
<1>2. Members("child")' = Members("child") \ {e} /\ Members("root")' = Members("root") \union {e}
  BY MembersMove DEF LagInv, Detach, Archetypes
<1>3. Children' = Children \ {e} /\ Live' = Live /\ parent' = parent
  BY <1>2 DEF Children, Live, Detach
<1>4. Rooted'
  <2>1. PICK n \in Nat : \E rank \in [Entities -> 0 .. n] : Climbs(Children, parent, n, rank)
    BY DEF LagInv, Rooted
  <2>2. PICK rank \in [Entities -> 0 .. n] : Climbs(Children, parent, n, rank)
    BY <2>1
  <2>3. Climbs(Children', parent', n, rank)
    BY <1>3, <2>2 DEF Climbs
  <2> QED BY <2>3 DEF Rooted
<1>5. Alive'
  BY <1>3 DEF LagInv, Alive
<1> QED BY <1>1, <1>3, <1>4, <1>5, EditUnsettles DEF Detach, LagInv, Matrices

(* One more level is right after the transform system. *)
LEMMA LagTransform == ASSUME LagInv, TransformSystem PROVE LagInv'
<1> DEFINE C == Children
           roots == [e \in Entities |-> IF e \in (IF NeedProcess("root") THEN Members("root") ELSE {})
                                        THEN <<pos[e]>> ELSE ltw[e]]
           worlds == SecondPass(ltp', roots)
<1>1. MarkInv /\ MarkInv' /\ Matrices
  BY TransformKeeps DEF LagInv
<1>2. /\ Children' = Children /\ Live' = Live /\ parent' = parent /\ pos' = pos
      /\ Members("root")' = Members("root") /\ Members("child")' = Members("child")
  BY MembersSame DEF Children, Live, TransformSystem
<1>3. Rooted' /\ Alive'
  BY <1>2 DEF LagInv, Rooted, Alive
<1>4. PICK n \in Nat : \E rank \in [Entities -> 0 .. n] : Climbs(C, parent, n, rank)
  BY DEF LagInv, Rooted
<1>5. pos \in [Entities -> Positions] /\ C \subseteq Entities /\ Live \subseteq Entities
      /\ Members("root") \intersect C = {} /\ Live = Members("root") \union C
  BY <1>1, LiveType DEF MarkInv, Types, OnePlace, Live, Children
<1>6. ltp' \in [Entities -> Local]
  BY <1>1, <1>5 DEF TransformSystem, Matrices, Local
<1>7. roots \in [Entities -> Seq(Local)]
  <2>1. \A e \in Entities : <<pos[e]>> \in Seq(Local) /\ ltw[e] \in Seq(Local)
    BY <1>1, <1>5 DEF Matrices, Local
  <2> QED BY <2>1
<1>8. /\ worlds \in [Entities -> Seq(Local)]
      /\ \A x \in C : worlds[x] = <<ltp'[x]>> \o roots[parent[x]]
  BY <1>1, <1>4, <1>6, <1>7, PassFacts DEF Matrices
<1>9. ltw' = [e \in Entities |-> IF e \in C THEN worlds[e] ELSE roots[e]]
  BY DEF TransformSystem, Children
<1>10. quiet' \in Nat /\ (quiet' = quiet + 1 \/ quiet' = quiet)
  BY <1>1 DEF TransformSystem, Matrices
<1> HIDE DEF worlds
<1>11. Matrices'
  BY <1>1, <1>2, <1>6, <1>7, <1>8, <1>9, <1>10 DEF Matrices
<1>12. /\ \A e \in Members("root") : ltw'[e] = <<pos[e]>>
       /\ \A e \in C : ltp'[e] = pos[e]
  <2>1. phase' = "transform"
    BY DEF TransformSystem
  <2>2. ~ Stale("root")' /\ ~ Stale("child")'
    BY <1>1, <2>1 DEF MarkInv, MarkedSince, Archetypes
  <2> QED BY <1>2, <2>2 DEF Stale, Children
<1>13. /\ \A x \in C : Right(x) = <<pos[x]>> \o Right(parent[x])
       /\ \A x \in Entities \ C : Right(x) = <<pos[x]>>
  BY <1>4, <1>5, CompFacts DEF Right
<1>14. /\ \A x \in Entities : Depth(x) \in Nat
       /\ \A x \in C : Depth(x) = Depth(parent[x]) + 1
  BY <1>4, DepthFacts DEF Depth
<1>15. ASSUME NEW e \in Live, quiet' >= 1, Depth(e) <= quiet' PROVE ltw'[e] = Right(e)
  <2>1. CASE e \in Members("root")
    BY <1>5, <1>12, <1>13, <2>1
  <2>2. CASE e \in C
    <3>1. parent[e] \in Live /\ parent[e] \in Entities
      BY <1>5, <2>2 DEF LagInv, Alive
    <3>2. roots[parent[e]] = Right(parent[e])
      <4>1. CASE parent[e] \in Members("root")
        <5>1. parent[e] \notin C
          BY <1>5, <4>1
        <5>2. roots[parent[e]] = ltw'[parent[e]]
          BY <1>9, <3>1, <5>1
        <5> QED BY <1>12, <1>13, <3>1, <4>1, <5>1, <5>2
      <4>2. CASE parent[e] \in C
        <5>1. roots[parent[e]] = ltw[parent[e]]
          BY <1>5, <3>1, <4>2
        <5>2. /\ Depth(e) = Depth(parent[e]) + 1
              /\ Depth(parent[e]) = Depth(parent[parent[e]]) + 1
              /\ Depth(parent[parent[e]]) \in Nat
          BY <1>1, <1>14, <2>2, <3>1, <4>2 DEF Matrices
        <5>3. quiet >= 1 /\ Depth(parent[e]) <= quiet
          BY <1>1, <1>10, <1>15, <5>2 DEF Matrices
        <5> QED BY <3>1, <5>1, <5>3 DEF LagInv, Settled
      <4> QED BY <1>5, <3>1, <4>1, <4>2
    <3>3. ltw'[e] = <<pos[e]>> \o roots[parent[e]]
      BY <1>5, <1>8, <1>9, <1>12, <2>2
    <3> QED BY <1>13, <2>2, <3>2, <3>3
  <2> QED BY <1>5, <2>1, <2>2
<1>16. Settled'
  <2>1. \A e : Depth(e)' = Depth(e) /\ Right(e)' = Right(e)
    BY <1>2 DEF Depth, Right
  <2> QED BY <1>2, <1>15, <2>1 DEF Settled
<1> QED BY <1>1, <1>3, <1>11, <1>16 DEF LagInv

(* Nothing of this changes with the versions. *)
LEMMA LagSame ==
  ASSUME LagInv, MarkInv', UNCHANGED <<chunk, data, quiet>>
  PROVE  LagInv'
<1>1. Children' = Children /\ Live' = Live /\ parent' = parent /\ pos' = pos
  BY MembersSame DEF Children, Live, data
<1>2. \A e : Depth(e)' = Depth(e) /\ Right(e)' = Right(e)
  BY <1>1 DEF Depth, Right
<1>3. Matrices' /\ Rooted' /\ Alive' /\ Settled'
  BY <1>1, <1>2 DEF LagInv, Matrices, Rooted, Alive, Settled, data
<1> QED BY <1>3 DEF LagInv

(* Every step keeps the levels that are right, or starts the count again.   *)
LEMMA LagNext == LagInv /\ [Next]_vars => LagInv'
<1> SUFFICES ASSUME LagInv, [Next]_vars PROVE LagInv'
  OBVIOUS
<1>1. MarkInv'
  BY MarkNext DEF LagInv
<1>2. ASSUME NEW e \in Entities, Spawn(e) \/ Detach(e) \/ Move(e) PROVE LagInv'
  BY <1>2, LagSpawn, LagDetach, LagMove
<1>3. ASSUME NEW e \in Entities, NEW p \in Entities, Attach(e, p) \/ Reparent(e, p)
      PROVE  LagInv'
  BY <1>3, LagAttach, LagReparent
<1>4. CASE OtherSystem("render", "game") \/ OtherSystem("transform", "render")
  BY <1>1, <1>4, LagSame DEF OtherSystem
<1>5. CASE TransformSystem
  BY <1>5, LagTransform
<1>6. CASE UNCHANGED vars
  BY <1>1, <1>6, LagSame DEF vars, data
<1> QED BY <1>2, <1>3, <1>4, <1>5, <1>6 DEF Next

(* A world matrix is right after as many frames without an edit as the      *)
(* entity is deep (transform.c:311), for any finite number of entities.     *)
THEOREM LagIsDepth == Spec => []LagBounded
<1>1. LagInv => LagBounded
  <2> SUFFICES ASSUME LagInv, NEW e \in Live,
                      quiet >= (IF Cardinality(Above(e)) = 0 THEN 1 ELSE Cardinality(Above(e)))
               PROVE  ltw[e] = Composed(e)
    BY DEF LagBounded, Live
  <2>1. Cardinality(Above(e)) = Depth(e) /\ Composed(e) = Right(e)
    BY AboveIs, ComposedIs DEF Depth, Right, Children
  <2>2. PICK n \in Nat : \E rank \in [Entities -> 0 .. n] : Climbs(Children, parent, n, rank)
    BY DEF LagInv, Rooted
  <2>3. e \in Entities /\ Depth(e) \in Nat /\ quiet \in Nat
    BY <2>2, LiveType, DepthFacts DEF Depth, LagInv, Matrices
  <2>4. quiet >= 1 /\ Depth(e) <= quiet
    BY <2>1, <2>3
  <2> QED BY <2>1, <2>4 DEF LagInv, Settled
<1> QED BY <1>1, LagInit, LagNext, PTL DEF Spec

=============================================================================
