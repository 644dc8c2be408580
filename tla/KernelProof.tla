---------------------------- MODULE KernelProof ----------------------------
(***************************************************************************)
(* Kernel for any modules, tasks and lists: what is listed is what loaded   *)
(* images added, so every frame calls loaded code, in the order of the      *)
(* lists, and every task once when the lists do not go round in a circle.   *)
(***************************************************************************)
EXTENDS Kernel, SequenceTheorems, FiniteSetTheorems, TLAPS

(* The graph of Kernel, with what is proved of it. *)
G == INSTANCE TaskGraphProof WITH Names <- Tasks

Images == [module : Modules \union {"kernel"}, reloads : Nat]
Entries == [task : Tasks, image : Images]
ModuleImages == [module : Modules, reloads : Nat]
InputEntry == [task |-> InputTask, image |-> KernelImage]

---------------------------------------------------------------------------
(* The list of implementations. *)

(* An entry that is removed leaves once; the last one takes its place. *)
LEMMA RemoveImplFacts ==
  ASSUME NEW S, NEW s \in Seq(S), NEW e
  PROVE  /\ RemoveImpl(s, e) \in Seq(S)
         /\ e \in G!Listed(s) =>
               \A a : G!Count(RemoveImpl(s, e), a) = IF a = e THEN G!Count(s, a) - 1 ELSE G!Count(s, a)
<1>1. Contains(s, e) <=> e \in G!Listed(s)
  BY DEF Contains, G!Listed
<1>2. CASE e \notin G!Listed(s)
  BY <1>1, <1>2 DEF RemoveImpl
<1>3. CASE e \in G!Listed(s)
  <2> DEFINE I == {i \in 1 .. Len(s) : s[i] = e}
             m == Min(I)
             r == RemoveImpl(s, e)
  <2>1. I \in SUBSET Nat /\ I # {}
    BY <1>3 DEF G!Listed
  <2>2. m \in I
    <3> HIDE DEF I
    <3>1. \E i \in I : \A j \in I : i <= j
      BY <2>1, G!Least
    <3> QED BY <3>1 DEF Min
  <2>3. r = G!Front([s EXCEPT ![m] = s[Len(s)]])
    <3>1. SelectInSeq(s, LAMBDA v : v = e) = m
      BY <2>1 DEF SelectInSeq
    <3> HIDE DEF m
    <3> QED BY <1>1, <1>3, <3>1 DEF RemoveImpl, ReplaceAt, Last, Front, G!Front
  <2> HIDE DEF m, r
  <2>4. m \in 1 .. Len(s) /\ s[m] = e
    BY <2>2
  <2>5. G!Lacks(r, s, e, S)
    BY <2>3, <2>4, G!GapFacts
  <2> QED BY <2>5 DEF r, G!Lacks
<1> QED BY <1>2, <1>3

(* An entry is its task and its image. *)
LEMMA SameEntry ==
  \A d, e \in Entries : d = e <=> d.task = e.task /\ d.image = e.image
BY DEF Entries

(* What a load adds. *)
LEMMA LoadFacts ==
  ASSUME NEW list \in Seq(Entries), NEW image \in ModuleImages
  PROVE  /\ Load(list, image) \in Seq(Entries)
         /\ \A e \in Entries : G!Count(Load(list, image), e) =
               G!Count(list, e) + IF e.image = image THEN G!Count(Provides[image.module], e.task) ELSE 0
<1> DEFINE tasks == Provides[image.module]
           q == [i \in 1 .. Len(tasks) |-> [task |-> tasks[i], image |-> image]]
<1>1. tasks \in Seq(Tasks) /\ image \in Images
  BY ModuleAssumption DEF ModuleImages, Images
<1>2. Load(list, image) = list \o q
  BY DEF Load
<1> HIDE DEF tasks
<1>3. q \in Seq(Entries) /\ Len(q) = Len(tasks)
      /\ \A i \in 1 .. Len(tasks) : q[i] = [task |-> tasks[i], image |-> image]
  BY <1>1 DEF Entries
<1> HIDE DEF q
<1>4. ASSUME NEW e \in Entries
      PROVE  G!Count(q, e) = IF e.image = image THEN G!Count(tasks, e.task) ELSE 0
  <2>1. \A i \in 1 .. Len(tasks) : q[i] = e <=> tasks[i] = e.task /\ image = e.image
    <3>0. q \in Seq(Entries) /\ Len(q) = Len(tasks)
      BY <1>3
    <3>1. \A i \in 1 .. Len(tasks) : q[i] \in Entries
      BY <3>0
    <3>2. ASSUME NEW i \in 1 .. Len(tasks) PROVE q[i].task = tasks[i] /\ q[i].image = image
      <4>1. q[i] = [task |-> tasks[i], image |-> image]
        BY <1>3
      <4> QED BY <4>1
    <3> QED BY <3>1, <3>2, SameEntry
  <2>2. CASE e.image = image
    <3>1. \A i \in 1 .. Len(tasks) : q[i] = e <=> tasks[i] = e.task
      BY <2>1, <2>2
    <3>2. G!Spots(q, e) = G!Spots(tasks, e.task)
      BY <1>3, <3>1 DEF G!Spots
    <3> QED BY <2>2, <3>2 DEF G!Count
  <2>3. CASE e.image # image
    <3>2. \A i \in 1 .. Len(tasks) : q[i] # e
      BY <2>1, <2>3
    <3>1. e \notin G!Listed(q)
      BY <1>3, <3>2 DEF G!Listed
    <3> QED BY <1>3, <2>3, <3>1, G!CountType
  <2> QED BY <2>2, <2>3
<1>5. \A e : list \o q \in Seq(Entries) /\ G!Count(list \o q, e) = G!Count(list, e) + G!Count(q, e)
  BY <1>3, G!ConcatFacts
<1> QED BY <1>2, <1>4, <1>5 DEF tasks

(* What an unload leaves. *)
LEMMA UnloadFacts ==
  ASSUME NEW list \in Seq(Entries), NEW image \in ModuleImages,
         \A t \in Tasks : G!Count(list, [task |-> t, image |-> image]) = G!Count(Provides[image.module], t)
  PROVE  /\ Unload(list, image) \in Seq(Entries)
         /\ \A e \in Entries : G!Count(Unload(list, image), e) =
               IF e.image = image THEN 0 ELSE G!Count(list, e)
<1> DEFINE tasks == Provides[image.module]
           n == Len(tasks)
           entry(i) == [task |-> tasks[i], image |-> image]
           Steps(f) == f = [i \in 0 .. n |-> IF i = 0 THEN list ELSE RemoveImpl(f[i - 1], entry(i))]
           rest == CHOOSE f : Steps(f)
<1>1. tasks \in Seq(Tasks) /\ image \in Images /\ n \in Nat
  BY ModuleAssumption DEF ModuleImages, Images
<1>2. Unload(list, image) = rest[n]
  BY DEF Unload
<1>3. \A i \in 1 .. n : tasks[i] \in Tasks /\ entry(i) \in Entries
  BY <1>1 DEF Entries
<1> HIDE DEF n, tasks
<1>4. Steps(rest)
  <2> DEFINE step == [p \in (1 .. n) \X Seq(Entries) |-> RemoveImpl(p[2], entry(p[1]))]
  <2>1. G!IsStep(step, n, Seq(Entries))
    BY <1>3, RemoveImplFacts DEF G!IsStep
  <2>2. \A i \in 1 .. n : \A l \in Seq(Entries) : step[<<i, l>>] = RemoveImpl(l, entry(i))
    OBVIOUS
  <2> HIDE DEF step
  <2>3. PICK f : G!Follows(f, n, Seq(Entries), list, step)
    BY <1>1, <2>1, G!Recursion
  <2>4. f \in [0 .. n -> Seq(Entries)] /\ f[0] = list /\ \A i \in 1 .. n : f[i] = step[<<i, f[i - 1]>>]
    BY <2>3 DEF G!Follows
  <2>5. ASSUME NEW i \in 1 .. n PROVE f[i] = RemoveImpl(f[i - 1], entry(i))
    <3>1. f[i - 1] \in Seq(Entries)
      BY <1>1, <2>4
    <3> QED BY <2>2, <2>4, <3>1
  <2>6. \A i \in 0 .. n : f[i] = IF i = 0 THEN list ELSE RemoveImpl(f[i - 1], entry(i))
    BY <1>1, <2>4, <2>5
  <2>7. Steps(f)
    BY <2>4, <2>6
  <2> HIDE DEF Steps
  <2> QED BY <2>7 DEF rest
<1> HIDE DEF rest
<1> DEFINE Good(l, i) ==
             /\ l \in Seq(Entries)
             /\ \A e \in Entries : G!Count(l, e) =
                   IF e.image = image THEN G!Rest(tasks, i, e.task) ELSE G!Count(list, e)
           S == {i \in 0 .. n : Good(rest[i], i)}
<1>5. rest[0] = list /\ \A i \in 0 .. n - 1 : rest[i + 1] = RemoveImpl(rest[i], entry(i + 1))
  BY <1>1, <1>4
<1>6. 0 \in S
  <2>1. ASSUME NEW e \in Entries, e.image = image PROVE G!Count(list, e) = G!Rest(tasks, 0, e.task)
    <3>1. e = [task |-> e.task, image |-> image] /\ e.task \in Tasks
      BY <2>1 DEF Entries
    <3>2. G!Count(list, e) = G!Count(tasks, e.task)
      BY <3>1 DEF tasks
    <3>3. G!Rest(tasks, 0, e.task) = G!Count(tasks, e.task)
      BY <1>1, G!RestFacts
    <3> QED BY <3>2, <3>3
  <2>2. Good(rest[0], 0)
    BY <1>5, <2>1
  <2> HIDE DEF Good
  <2> QED BY <1>1, <2>2
<1>7. ASSUME NEW i \in 0 .. n - 1, i \in S PROVE i + 1 \in S
  <2> DEFINE l == rest[i]
             t == tasks[i + 1]
             r == RemoveImpl(l, entry(i + 1))
  <2>1. /\ l \in Seq(Entries) /\ i + 1 \in 0 .. n /\ i + 1 \in 1 .. n /\ t \in Tasks /\ entry(i + 1) \in Entries
        /\ \A e \in Entries : G!Count(l, e) =
                   IF e.image = image THEN G!Rest(tasks, i, e.task) ELSE G!Count(list, e)
    BY <1>1, <1>3, <1>7
  <2>2. \A a : /\ G!Rest(tasks, i, a) \in Nat /\ G!Rest(tasks, i + 1, a) \in Nat
               /\ G!Rest(tasks, i + 1, a) = IF t = a THEN G!Rest(tasks, i, a) - 1 ELSE G!Rest(tasks, i, a)
    <3> SUFFICES ASSUME NEW a
                 PROVE  /\ G!Rest(tasks, i, a) \in Nat /\ G!Rest(tasks, i + 1, a) \in Nat
                        /\ G!Rest(tasks, i + 1, a) = IF t = a THEN G!Rest(tasks, i, a) - 1 ELSE G!Rest(tasks, i, a)
      OBVIOUS
    <3>1. /\ \A k \in 0 .. Len(tasks) : G!Rest(tasks, k, a) \in Nat
          /\ \A k \in 0 .. Len(tasks) - 1 : G!Rest(tasks, k + 1, a) =
               IF tasks[k + 1] = a THEN G!Rest(tasks, k, a) - 1 ELSE G!Rest(tasks, k, a)
      BY <1>1, G!RestFacts
    <3>2. i \in 0 .. Len(tasks) /\ i + 1 \in 0 .. Len(tasks) /\ i \in 0 .. Len(tasks) - 1
      BY <1>1, <2>1 DEF n
    <3> QED BY <3>1, <3>2
  <2> HIDE DEF l
  <2>3. entry(i + 1) = [task |-> t, image |-> image]
    OBVIOUS
  <2> DEFINE d == entry(i + 1)
  <2> HIDE DEF t, entry
  <2>4. d \in Entries /\ d.task = t /\ d.image = image
    BY <2>1, <2>3
  <2> HIDE DEF d
  <2>5. d \in G!Listed(l)
    <3>1. G!Count(l, d) # 0
      BY <2>1, <2>2, <2>4
    <3> QED BY <2>1, <3>1, G!CountType
  <2>6. r \in Seq(Entries) /\ \A a : G!Count(r, a) = IF a = d THEN G!Count(l, a) - 1 ELSE G!Count(l, a)
    BY <2>1, <2>5, RemoveImplFacts DEF d
  <2>7. ASSUME NEW e \in Entries
        PROVE  G!Count(r, e) = IF e.image = image THEN G!Rest(tasks, i + 1, e.task) ELSE G!Count(list, e)
    <3>1. e = d <=> e.image = image /\ e.task = t
      BY <2>4 DEF Entries
    <3> QED BY <2>1, <2>2, <2>6, <3>1
  <2> HIDE DEF r
  <2>8. Good(r, i + 1)
    BY <2>6, <2>7
  <2> QED BY <1>5, <2>1, <2>8 DEF r, l
<1>8. \A i \in 0 .. n : i \in S
  <2> HIDE DEF S
  <2> QED BY <1>1, <1>6, <1>7, G!Induct
<1>9. Good(rest[n], n)
  <2> HIDE DEF Good
  <2> QED BY <1>1, <1>8
<1>10. \A a : G!Rest(tasks, n, a) = 0
  BY <1>1, G!RestFacts DEF n
<1> QED BY <1>2, <1>9, <1>10

---------------------------------------------------------------------------
(* Loaded images and what they list. *)

(* One image of a module at a time. *)
Distinct(mods) ==
    /\ mods \in Seq(ModuleImages)
    /\ \A i, j \in 1 .. Len(mods) : mods[i].module = mods[j].module => i = j

(* The list is what the loaded images added, with the task of the kernel    *)
(* as often as own says.                                                    *)
Installed(list, mods, own) ==
    /\ list \in Seq(Entries)
    /\ \A e \in Entries : G!Count(list, e) =
           IF e.image \in G!Listed(mods) THEN G!Count(Provides[e.image.module], e.task)
           ELSE IF e = InputEntry THEN own ELSE 0

(* The kernel is no module. *)
LEMMA InputFacts ==
  /\ InputEntry \in Entries /\ KernelImage \in Images /\ KernelImage \notin ModuleImages
  /\ InputTask \in Tasks /\ ModuleImages \subseteq Images
<1>1. InputTask \in Tasks /\ "kernel" \notin Modules
  BY ModuleAssumption
<1> QED BY <1>1 DEF InputEntry, Entries, KernelImage, Images, ModuleImages

(* Where an entry of the list comes from. *)
LEMMA ListedFacts ==
  ASSUME NEW list, NEW mods \in Seq(ModuleImages), NEW own \in Nat, Installed(list, mods, own)
  PROVE  /\ \A i \in 1 .. Len(list) : list[i].image \in G!Listed(mods) \union {KernelImage}
         /\ \A i \in 1 .. Len(list) : list[i] \in Entries
<1> SUFFICES ASSUME NEW i \in 1 .. Len(list)
             PROVE  list[i] \in Entries /\ list[i].image \in G!Listed(mods) \union {KernelImage}
  OBVIOUS
<1> DEFINE e == list[i]
<1>1. list \in Seq(Entries)
  BY DEF Installed
<1>2. e \in Entries /\ e \in G!Listed(list)
  BY <1>1 DEF G!Listed
<1> HIDE DEF e
<1>3. G!Count(list, e) # 0
  BY <1>1, <1>2, G!CountType
<1>4. e.image \in G!Listed(mods) \/ e = InputEntry
  BY <1>2, <1>3 DEF Installed
<1>5. InputEntry.image = KernelImage
  BY DEF InputEntry
<1> QED BY <1>2, <1>4, <1>5 DEF e

(* A module that is loaded. *)
LEMMA AddedFacts ==
  ASSUME NEW list, NEW mods, NEW own \in Nat, Distinct(mods), Installed(list, mods, own),
         NEW m \in Modules, \A i \in 1 .. Len(mods) : mods[i].module # m
  PROVE  /\ Distinct(Append(mods, Image(m, 0)))
         /\ Installed(Load(list, Image(m, 0)), Append(mods, Image(m, 0)), own)
<1> DEFINE new == Image(m, 0)
           r == Append(mods, new)
<1>1. new \in ModuleImages /\ new.module = m
  BY DEF Image, ModuleImages
<1> HIDE DEF new
<1>2. /\ mods \in Seq(ModuleImages) /\ Len(mods) \in Nat /\ r \in Seq(ModuleImages)
      /\ Len(r) = Len(mods) + 1 /\ r[Len(mods) + 1] = new
      /\ \A i \in 1 .. Len(mods) : r[i] = mods[i]
  BY <1>1 DEF Distinct
<1>3. G!Listed(r) = G!Listed(mods) \union {new} /\ new \notin G!Listed(mods)
  <2>1. new \notin G!Listed(mods)
    BY <1>1 DEF G!Listed
  <2>2. G!Listed(r) = G!Listed(mods) \union {new}
    BY <1>1, <1>2, G!AppendFacts
  <2> QED BY <2>1, <2>2
<1> HIDE DEF r
<1>4. Distinct(r)
  <2> SUFFICES ASSUME NEW i \in 1 .. Len(r), NEW j \in 1 .. Len(r), r[i].module = r[j].module PROVE i = j
    BY <1>2 DEF Distinct
  <2>1. CASE i \in 1 .. Len(mods) /\ j \in 1 .. Len(mods)
    BY <1>2, <2>1 DEF Distinct
  <2>2. CASE i \notin 1 .. Len(mods) \/ j \notin 1 .. Len(mods)
    BY <1>1, <1>2, <2>2
  <2> QED BY <2>1, <2>2
<1>5. /\ list \in Seq(Entries) /\ Load(list, new) \in Seq(Entries)
      /\ \A e \in Entries : G!Count(Load(list, new), e) =
            G!Count(list, e) + IF e.image = new THEN G!Count(Provides[new.module], e.task) ELSE 0
  <2>1. list \in Seq(Entries)
    BY DEF Installed
  <2> QED BY <1>1, <2>1, LoadFacts
<1>6. ASSUME NEW e \in Entries
      PROVE  G!Count(Load(list, new), e) =
               IF e.image \in G!Listed(r) THEN G!Count(Provides[e.image.module], e.task)
               ELSE IF e = InputEntry THEN own ELSE 0
  <2>1. G!Count(list, e) = IF e.image \in G!Listed(mods) THEN G!Count(Provides[e.image.module], e.task)
                           ELSE IF e = InputEntry THEN own ELSE 0
    BY DEF Installed
  <2>2. CASE e.image = new
    <3>1. e # InputEntry
      BY <1>1, <2>2, InputFacts DEF InputEntry
    <3>2. G!Count(Provides[new.module], e.task) \in Nat
      <4>1. Provides[new.module] \in Seq(Tasks)
        BY <1>1, ModuleAssumption
      <4> QED BY <4>1, G!CountType
    <3> QED BY <1>3, <1>5, <2>1, <2>2, <3>1, <3>2
  <2>3. CASE e.image # new
    <3>1. G!Count(list, e) \in Nat
      BY <1>5, G!CountType
    <3> QED BY <1>3, <1>5, <2>1, <2>3, <3>1
  <2> QED BY <2>2, <2>3
<1>7. Installed(Load(list, new), r, own)
  BY <1>5, <1>6 DEF Installed
<1> QED BY <1>4, <1>7 DEF r, new

(* A module that is reloaded. *)
LEMMA ReloadedFacts ==
  ASSUME NEW s, NEW own \in Nat, Distinct(s.modules), Installed(s.impls, s.modules, own),
         NEW i \in 1 .. Len(s.modules)
  PROVE  /\ Distinct(Reloaded(s, i).modules)
         /\ Installed(Reloaded(s, i).impls, Reloaded(s, i).modules, own)
         /\ Len(Reloaded(s, i).modules) = Len(s.modules)
         /\ \A j \in 1 .. Len(s.modules) : Reloaded(s, i).modules[j].module = s.modules[j].module
<1> DEFINE mods == s.modules
           list == s.impls
           old == mods[i]
           new == Image(old.module, old.reloads + 1)
           loaded == Load(list, new)
           left == Unload(loaded, old)
           r == [mods EXCEPT ![i] = new]
<1>1. Reloaded(s, i).modules = r /\ Reloaded(s, i).impls = left
  BY DEF Reloaded
<1>2. mods \in Seq(ModuleImages) /\ old \in ModuleImages /\ list \in Seq(Entries)
  BY DEF Distinct, Installed
<1>3. new \in ModuleImages /\ new.module = old.module /\ new # old
  BY <1>2 DEF Image, ModuleImages
<1>4. /\ r \in Seq(ModuleImages) /\ Len(r) = Len(mods) /\ Len(mods) \in Nat
      /\ \A j \in 1 .. Len(mods) : r[j] = IF j = i THEN new ELSE mods[j]
  BY <1>2, <1>3
<1>5. \A j, k \in 1 .. Len(mods) : mods[j].module = mods[k].module => j = k
  BY DEF Distinct
<1>6. old \in G!Listed(mods)
  BY DEF G!Listed
<1> HIDE DEF mods, list, old, new, r
<1>7. old = mods[i] /\ i \in 1 .. Len(mods)
  BY DEF old, mods
<1>8. Distinct(r) /\ \A j \in 1 .. Len(mods) : r[j].module = mods[j].module
  BY <1>3, <1>4, <1>5, <1>7 DEF Distinct
<1>9. new \notin G!Listed(mods)
  BY <1>3, <1>5, <1>7 DEF G!Listed
<1>10. \A x : x \in G!Listed(r) <=> (x \in G!Listed(mods) /\ x # old) \/ x = new
  <2>1. ASSUME NEW x \in G!Listed(r) PROVE (x \in G!Listed(mods) /\ x # old) \/ x = new
    BY <1>4, <1>5, <1>7, <2>1 DEF G!Listed
  <2>2. ASSUME NEW x \in G!Listed(mods), x # old PROVE x \in G!Listed(r)
    BY <1>4, <1>7, <2>2 DEF G!Listed
  <2>3. new \in G!Listed(r)
    BY <1>4, <1>7 DEF G!Listed
  <2> QED BY <2>1, <2>2, <2>3
<1> DEFINE Has(e) == G!Count(Provides[e.image.module], e.task)
<1>11. /\ loaded \in Seq(Entries)
       /\ \A e \in Entries : G!Count(loaded, e) =
             G!Count(list, e) + IF e.image = new THEN G!Count(Provides[new.module], e.task) ELSE 0
  BY <1>2, <1>3, LoadFacts
<1>12. \A e \in Entries : G!Count(list, e) \in Nat /\ Has(e) = Has(e) /\ G!Count(list, e) =
           IF e.image \in G!Listed(mods) THEN Has(e) ELSE IF e = InputEntry THEN own ELSE 0
  <2>1. \A e : G!Count(list, e) \in Nat
    BY <1>2, G!CountType
  <2> QED BY <2>1 DEF Installed, list, mods
<1> HIDE DEF loaded
<1>13. ASSUME NEW t \in Tasks
       PROVE  G!Count(loaded, [task |-> t, image |-> old]) = G!Count(Provides[old.module], t)
  <2> DEFINE e == [task |-> t, image |-> old]
  <2>1. e \in Entries /\ e.task = t /\ e.image = old
    BY <1>2, InputFacts DEF Entries
  <2> HIDE DEF e
  <2>2. G!Count(loaded, e) = G!Count(list, e)
    BY <1>3, <1>11, <1>12, <2>1
  <2>3. G!Count(list, e) = G!Count(Provides[old.module], t)
    BY <1>6, <1>12, <2>1
  <2> QED BY <2>2, <2>3 DEF e
<1>14. /\ left \in Seq(Entries)
       /\ \A e \in Entries : G!Count(left, e) = IF e.image = old THEN 0 ELSE G!Count(loaded, e)
  BY <1>2, <1>11, <1>13, UnloadFacts
<1> HIDE DEF left
<1>15. ASSUME NEW e \in Entries
       PROVE  G!Count(left, e) = IF e.image \in G!Listed(r) THEN Has(e)
                                 ELSE IF e = InputEntry THEN own ELSE 0
  <2>0. InputEntry.image \notin ModuleImages
    BY InputFacts DEF InputEntry
  <2>1. CASE e.image = old
    BY <1>2, <1>3, <1>10, <1>14, <2>0, <2>1
  <2>2. CASE e.image = new
    <3>1. e # InputEntry /\ e.image # old /\ e.image \notin G!Listed(mods) /\ e.image \in G!Listed(r)
      BY <1>3, <1>9, <1>10, <2>0, <2>2
    <3>2. G!Count(loaded, e) = 0 + Has(e)
      BY <1>11, <1>12, <2>2, <3>1
    <3>3. Has(e) \in Nat
      <4>1. Provides[e.image.module] \in Seq(Tasks)
        BY <1>3, <2>2, ModuleAssumption DEF ModuleImages
      <4> QED BY <4>1, G!CountType
    <3> QED BY <1>14, <3>1, <3>2, <3>3
  <2>3. CASE e.image # old /\ e.image # new
    BY <1>10, <1>11, <1>12, <1>14, <2>3
  <2> QED BY <2>1, <2>2, <2>3
<1>16. Installed(left, r, own)
  BY <1>14, <1>15 DEF Installed
<1> QED BY <1>1, <1>4, <1>8, <1>16 DEF mods

(* All the modules whose file changed. *)
LEMMA ReloadEachFacts ==
  ASSUME NEW own \in Nat, Distinct(modules), Installed(impls, modules, own), NEW changed
  PROVE  /\ Distinct(ReloadEach(changed).modules)
         /\ Installed(ReloadEach(changed).impls, ReloadEach(changed).modules, own)
         /\ Len(ReloadEach(changed).modules) = Len(modules)
         /\ \A j \in 1 .. Len(modules) : ReloadEach(changed).modules[j].module = modules[j].module
<1> DEFINE n == Len(modules)
           start == [modules |-> modules, impls |-> impls]
           Steps(f) == f = [i \in 0 .. n |-> IF i = 0 THEN start
                              ELSE IF i \in changed THEN Reloaded(f[i - 1], i) ELSE f[i - 1]]
           s == CHOOSE f : Steps(f)
           Type == [modules : Seq(ModuleImages), impls : Seq(Entries)]
           Good(t) == /\ t \in Type /\ Distinct(t.modules) /\ Installed(t.impls, t.modules, own)
                      /\ Len(t.modules) = n
                      /\ \A j \in 1 .. n : t.modules[j].module = modules[j].module
           W == {t \in Type : Good(t)}
<1>1. ReloadEach(changed) = s[n]
  BY DEF ReloadEach
<1>2. n \in Nat
  BY DEF Distinct
<1>3. start \in W
  BY DEF Distinct, Installed
<1>4. ASSUME NEW i \in 1 .. n, NEW t \in W PROVE Reloaded(t, i) \in W
  <2> DEFINE u == Reloaded(t, i)
  <2>0. Distinct(t.modules) /\ Installed(t.impls, t.modules, own) /\ i \in 1 .. Len(t.modules)
    OBVIOUS
  <2>1. /\ Distinct(u.modules) /\ Installed(u.impls, u.modules, own)
        /\ Len(u.modules) = Len(t.modules)
        /\ \A j \in 1 .. Len(t.modules) : u.modules[j].module = t.modules[j].module
    <3> HIDE DEF W
    <3> QED BY <2>0, ReloadedFacts
  <2>2. u = [modules |-> u.modules, impls |-> u.impls]
    BY DEF Reloaded
  <2> HIDE DEF u
  <2>3. u \in Type
    BY <2>1, <2>2 DEF Distinct, Installed
  <2> QED BY <2>1, <2>3 DEF u
<1> HIDE DEF n, start, W
<1>5. Steps(s)
  <2> DEFINE step == [p \in (1 .. n) \X W |-> IF p[1] \in changed THEN Reloaded(p[2], p[1]) ELSE p[2]]
  <2>1. G!IsStep(step, n, W)
    BY <1>4 DEF G!IsStep
  <2>2. \A i \in 1 .. n : \A t \in W : step[<<i, t>>] = IF i \in changed THEN Reloaded(t, i) ELSE t
    OBVIOUS
  <2> HIDE DEF step
  <2>3. PICK f : G!Follows(f, n, W, start, step)
    BY <1>2, <1>3, <2>1, G!Recursion
  <2>4. f \in [0 .. n -> W] /\ f[0] = start /\ \A i \in 1 .. n : f[i] = step[<<i, f[i - 1]>>]
    BY <2>3 DEF G!Follows
  <2>5. ASSUME NEW i \in 1 .. n
        PROVE  f[i] = IF i \in changed THEN Reloaded(f[i - 1], i) ELSE f[i - 1]
    <3>1. f[i - 1] \in W
      BY <1>2, <2>4
    <3> QED BY <2>2, <2>4, <3>1
  <2>6. \A i \in 0 .. n : f[i] = IF i = 0 THEN start
                              ELSE IF i \in changed THEN Reloaded(f[i - 1], i) ELSE f[i - 1]
    BY <1>2, <2>4, <2>5
  <2>7. Steps(f)
    BY <2>4, <2>6
  <2> HIDE DEF Steps
  <2> QED BY <2>7 DEF s
<1> HIDE DEF s
<1> DEFINE S == {i \in 0 .. n : s[i] \in W}
<1>6. s[0] = start /\ \A i \in 0 .. n - 1 :
        s[i + 1] = IF i + 1 \in changed THEN Reloaded(s[i], i + 1) ELSE s[i]
  BY <1>2, <1>5
<1>7. 0 \in S
  BY <1>2, <1>3, <1>6
<1>8. ASSUME NEW i \in 0 .. n - 1, i \in S PROVE i + 1 \in S
  <2>1. i + 1 \in 1 .. n /\ i + 1 \in 0 .. n /\ s[i] \in W
    BY <1>2, <1>8
  <2>2. s[i + 1] \in W
    BY <1>4, <1>6, <2>1
  <2> QED BY <2>1, <2>2
<1>9. \A i \in 0 .. n : i \in S
  <2> HIDE DEF S
  <2> QED BY <1>2, <1>7, <1>8, G!Induct
<1>10. s[n] \in W
  BY <1>2, <1>9
<1> QED BY <1>1, <1>10 DEF W, n

(* Every module is loaded when as many images are as there are modules. *)
Full(mods) == \A m \in Modules : \E i \in 1 .. Len(mods) : mods[i].module = m

(* As many images of distinct modules as there are modules are one of each. *)
LEMMA FullFacts ==
  ASSUME NEW mods, Distinct(mods), Len(mods) = Cardinality(Modules)
  PROVE  Full(mods)
<1> DEFINE n == Len(mods)
           f == [i \in 1 .. n |-> mods[i].module]
<1>1. n \in Nat /\ \A i \in 1 .. n : mods[i] \in ModuleImages
  BY DEF Distinct
<1>2. f \in Injection(1 .. n, Modules)
  BY <1>1 DEF Distinct, ModuleImages, Injection, IsInjective
<1>3. Cardinality(1 .. n) = Cardinality(Modules)
  BY <1>1, FS_Interval
<1>4. IsFiniteSet(Modules)
  BY ModuleAssumption
<1>5. f \in Surjection(1 .. n, Modules)
  <2> HIDE DEF f, n
  <2> QED BY <1>2, <1>3, <1>4, FS_Injection
<1>6. \A m \in Modules : \E i \in 1 .. n : f[i] = m
  BY <1>5 DEF Surjection
<1> QED BY <1>6 DEF Full

(* The task of the kernel is listed after those of the modules. *)
LEMMA StartedFacts ==
  ASSUME NEW list, NEW mods, Distinct(mods), Installed(list, mods, 0)
  PROVE  Installed(Append(list, InputEntry), mods, 1)
<1> DEFINE r == Append(list, InputEntry)
<1>1. list \in Seq(Entries) /\ mods \in Seq(ModuleImages) /\ InputEntry \in Entries
  BY InputFacts DEF Distinct, Installed
<1>2. r \in Seq(Entries) /\ \A a : G!Count(r, a) = IF a = InputEntry THEN G!Count(list, a) + 1 ELSE G!Count(list, a)
  BY <1>1, G!AppendFacts
<1> HIDE DEF r
<1>3. InputEntry.image \notin G!Listed(mods)
  <2>1. InputEntry.image = KernelImage
    BY DEF InputEntry
  <2>2. \A x \in G!Listed(mods) : x \in ModuleImages
    BY <1>1 DEF G!Listed
  <2> QED BY <2>1, <2>2, InputFacts
<1>4. \A e \in Entries : G!Count(list, e) =
           IF e.image \in G!Listed(mods) THEN G!Count(Provides[e.image.module], e.task) ELSE 0
  BY DEF Installed
<1>5. \A e \in Entries : G!Count(r, e) =
           IF e.image \in G!Listed(mods) THEN G!Count(Provides[e.image.module], e.task)
           ELSE IF e = InputEntry THEN 1 ELSE 0
  <2> SUFFICES ASSUME NEW e \in Entries
               PROVE  G!Count(r, e) = IF e.image \in G!Listed(mods) THEN G!Count(Provides[e.image.module], e.task)
                                      ELSE IF e = InputEntry THEN 1 ELSE 0
    OBVIOUS
  <2>1. CASE e = InputEntry
    BY <1>2, <1>3, <1>4, <2>1
  <2>2. CASE e # InputEntry
    BY <1>2, <1>4, <2>2
  <2> QED BY <2>1, <2>2
<1> QED BY <1>2, <1>5 DEF Installed, r

TasksOf(list) == {list[i].task : i \in 1 .. Len(list)}

(* With every module loaded every task is listed. *)
LEMMA CoverFacts ==
  ASSUME NEW list, NEW mods, Distinct(mods), Full(mods), Installed(list, mods, 1)
  PROVE  TasksOf(list) = Tasks
<1>1. list \in Seq(Entries) /\ mods \in Seq(ModuleImages)
  BY DEF Distinct, Installed
<1>2. TasksOf(list) \subseteq Tasks
  <2>1. \A e \in Entries : e.task \in Tasks
    BY DEF Entries
  <2> QED BY <1>1, <2>1 DEF TasksOf
<1>3. ASSUME NEW e \in Entries, G!Count(list, e) # 0 PROVE e.task \in TasksOf(list)
  <2>1. e \in G!Listed(list)
    BY <1>1, <1>3, G!CountType
  <2> QED BY <2>1 DEF G!Listed, TasksOf
<1>4. InputTask \in TasksOf(list)
  <2>1. InputEntry.task = InputTask /\ InputEntry \in Entries /\ InputEntry.image = KernelImage
    BY InputFacts DEF InputEntry
  <2>2. KernelImage \notin G!Listed(mods)
    BY <1>1, InputFacts DEF G!Listed
  <2>3. G!Count(list, InputEntry) = 1
    BY <2>1, <2>2 DEF Installed
  <2> QED BY <1>3, <2>1, <2>3
<1>5. ASSUME NEW m \in Modules, NEW t \in Provided(m) PROVE t \in TasksOf(list)
  <2>1. PICK i \in 1 .. Len(mods) : mods[i].module = m
    BY DEF Full
  <2> DEFINE e == [task |-> t, image |-> mods[i]]
  <2>2. mods[i] \in ModuleImages /\ mods[i] \in G!Listed(mods)
    BY <1>1 DEF G!Listed
  <2>3. Provides[m] \in Seq(Tasks)
    BY ModuleAssumption
  <2>4. t \in Tasks /\ t \in G!Listed(Provides[m])
    BY <2>3 DEF Provided, G!Listed
  <2>5. e \in Entries /\ e.task = t /\ e.image = mods[i]
    BY <2>2, <2>4, InputFacts DEF Entries
  <2> HIDE DEF e
  <2>6. G!Count(Provides[m], t) # 0
    BY <2>3, <2>4, G!CountType
  <2>7. G!Count(list, e) = G!Count(Provides[m], t)
    BY <2>1, <2>2, <2>5 DEF Installed
  <2> QED BY <1>3, <2>5, <2>6, <2>7
<1>6. Tasks = {InputTask} \union UNION {Provided(m) : m \in Modules}
  BY ModuleAssumption
<1> QED BY <1>2, <1>4, <1>5, <1>6

---------------------------------------------------------------------------
(* The order of a graph built from a list. *)

(* a is listed to come before b. *)
Precedes(before, after, a, b) == Contains(before[a], b) \/ Contains(after[b], a)

(* The lists of the tasks in D do not go round in a circle: along them a    *)
(* rank falls.                                                              *)
NoCircle(D, before, after) ==
    \E rank \in [Tasks -> Nat] : \A a, b \in D : Precedes(before, after, a, b) => rank[b] < rank[a]

(* Tasks of D, each once, in the order of the lists, and all of them when   *)
(* there is no circle.                                                      *)
GoodOrder(o, D, before, after) ==
    /\ o \in Seq(D) /\ G!Once(o)
    /\ \A i, j \in 1 .. Len(o) : Precedes(before, after, o[i], o[j]) => i < j
    /\ NoCircle(D, before, after) => Len(o) = Cardinality(D) /\ G!Listed(o) = D

(* The graph of Kernel is the one that TaskGraphProof is about. *)
LEMMA SameGraph ==
  /\ Graph!BagEmpty = G!BagEmpty
  /\ \A g, x, b, a : Graph!BagAdd(g, x, b, a) = G!BagAdd(g, x, b, a)
  /\ \A g : Graph!BagOutput(g) = G!BagOutput(g)
  /\ \A s, b, a : Graph!BagOrder(s, b, a) = G!BagOrder(s, b, a)
<1>1. Graph!BagEmpty = G!BagEmpty
  BY DEF Graph!BagEmpty, G!BagEmpty
<1>2. ASSUME NEW g, NEW x, NEW b, NEW a PROVE Graph!BagAdd(g, x, b, a) = G!BagAdd(g, x, b, a)
  BY DEF Graph!BagAdd, G!BagAdd, Graph!GetOrCreate, G!GetOrCreate, Graph!Precede, G!Precede,
         Graph!Contains, G!Contains
<1>3. ASSUME NEW g PROVE Graph!BagOutput(g) = G!BagOutput(g)
  BY DEF Graph!BagOutput, G!BagOutput, Graph!BagBuild, G!BagBuild, Graph!Free, G!Free,
         Graph!PopInput, G!PopInput, Graph!Release, G!Release, Graph!RemoveFirst, G!RemoveFirst,
         Graph!RemoveAt, G!RemoveAt, Graph!SelectInSeq, G!SelectInSeq, Graph!Min, G!Min,
         Graph!Last, G!Last, Graph!Front, G!Front
<1>4. ASSUME NEW s, NEW b, NEW a PROVE Graph!BagOrder(s, b, a) = G!BagOrder(s, b, a)
  BY <1>1, <1>2, <1>3 DEF Graph!BagOrder, G!BagOrder
<1> QED BY <1>1, <1>2, <1>3, <1>4

(* A list that repeats nothing has as many names as it is long. *)
LEMMA OnceCounts ==
  ASSUME NEW S, NEW s \in Seq(S), G!Once(s)
  PROVE  Cardinality(G!Listed(s)) = Len(s)
<1> DEFINE f == [i \in 1 .. Len(s) |-> s[i]]
<1>1. Len(s) \in Nat
  OBVIOUS
<1>2. f \in Bijection(1 .. Len(s), G!Listed(s))
  <2>1. f \in [1 .. Len(s) -> G!Listed(s)]
    BY DEF G!Listed
  <2>2. \A i, j \in 1 .. Len(s) : f[i] = f[j] => i = j
    BY DEF G!Once
  <2>3. \A a \in G!Listed(s) : \E i \in 1 .. Len(s) : f[i] = a
    BY DEF G!Listed
  <2> QED BY <2>1, <2>2, <2>3 DEF Bijection, Injection, Surjection, IsInjective
<1> HIDE DEF f
<1>3. IsFiniteSet(1 .. Len(s)) /\ Cardinality(1 .. Len(s)) = Len(s)
  BY <1>1, FS_Interval
<1> QED BY <1>2, <1>3, FS_Bijection DEF ExistsBijection

(* The order that a list of implementations gets. *)
LEMMA OrderedFacts ==
  ASSUME NEW list \in Seq(Entries), NEW D \in SUBSET Tasks, TasksOf(list) = D,
         NEW before \in [Tasks -> Seq(D)], NEW after \in [Tasks -> Seq(D)]
  PROVE  GoodOrder(Ordered(list, before, after), D, before, after)
<1> DEFINE s == [i \in 1 .. Len(list) |-> list[i].task]
           o == Ordered(list, before, after)
           C(x, y) == G!Comes(s, before, after, x, y)
           N == G!Named(s, before, after)
<1>1. s \in Seq(Tasks) /\ G!Listed(s) = D
  <2>1. Len(list) \in Nat /\ \A i \in 1 .. Len(list) : list[i].task \in Tasks
    <3>1. Len(list) \in Nat /\ \A i \in 1 .. Len(list) : list[i] \in Entries
      OBVIOUS
    <3>2. \A e \in Entries : e.task \in Tasks
      BY DEF Entries
    <3> HIDE DEF s, o, C, N
    <3> QED BY <3>1, <3>2
  <2>2. s \in Seq(Tasks) /\ Len(s) = Len(list)
    BY <2>1
  <2>3. G!Listed(s) = TasksOf(list)
    BY <2>2 DEF G!Listed, TasksOf
  <2> QED BY <2>2, <2>3
<1>2. o = G!BagOrder(s, before, after)
  BY SameGraph DEF Ordered
<1> HIDE DEF s
<1>3. \A l \in Seq(D) : l \in Seq(Tasks) /\ G!Listed(l) \subseteq D
  BY DEF G!Listed
<1>4. /\ before \in [Tasks -> Seq(Tasks)] /\ after \in [Tasks -> Seq(Tasks)]
      /\ \A t \in Tasks : G!Listed(before[t]) \subseteq D /\ G!Listed(after[t]) \subseteq D
  BY <1>3
<1>5. ASSUME NEW a \in Tasks, NEW b \in Tasks
      PROVE  /\ Contains(before[a], b) <=> b \in G!Listed(before[a])
             /\ Contains(after[b], a) <=> a \in G!Listed(after[b])
  BY DEF Contains, G!Listed
<1>6. \A a, b \in Tasks : C(a, b) <=> a \in D /\ b \in D /\ Precedes(before, after, a, b)
  BY <1>1, <1>4, <1>5 DEF G!Comes, Precedes
<1> HIDE DEF C
<1>7. N = D
  BY <1>1, <1>6 DEF G!Named, C
<1> HIDE DEF N, o
<1>8. /\ o \in Seq(Tasks) /\ G!Once(o) /\ G!Listed(o) \subseteq D
      /\ \A i, j \in 1 .. Len(o) : C(o[i], o[j]) => i < j
      /\ G!NoCircle(s, before, after) => G!Listed(o) = D
  <2>1. G!Orders(o, s, before, after)
    BY <1>1, <1>2, <1>4, G!OrderFollowsLists
  <2> QED BY <1>7, <2>1 DEF G!Orders, C, N
<1>9. o \in Seq(D) /\ \A i \in 1 .. Len(o) : o[i] \in D
  <2>1. \A i \in 1 .. Len(o) : o[i] \in D
    BY <1>8 DEF G!Listed
  <2>2. o \in Seq(D)
    <3> DEFINE k == Len(o)
    <3>1. k \in Nat /\ o = [i \in 1 .. k |-> o[i]]
      BY <1>8
    <3> HIDE DEF k
    <3>2. [i \in 1 .. k |-> o[i]] \in Seq(D)
      BY <2>1, <3>1 DEF k
    <3> QED BY <3>1, <3>2
  <2> QED BY <2>1, <2>2
<1>10. \A i, j \in 1 .. Len(o) : Precedes(before, after, o[i], o[j]) => i < j
  BY <1>6, <1>8, <1>9
<1>11. ASSUME NoCircle(D, before, after) PROVE Len(o) = Cardinality(D) /\ G!Listed(o) = D
  <2>1. G!NoCircle(s, before, after)
    BY <1>6, <1>11 DEF NoCircle, G!NoCircle, C
  <2> QED BY <1>8, <2>1, OnceCounts
<1>12. GoodOrder(o, D, before, after)
  BY <1>8, <1>9, <1>10, <1>11 DEF GoodOrder
<1> QED BY <1>12 DEF o

---------------------------------------------------------------------------
(* What is called. *)

(* The tasks that have an init. *)
LEMMA WithInitFacts ==
  ASSUME NEW list \in Seq(Entries)
  PROVE  WithInit(list) \in Seq(Entries) /\ TasksOf(WithInit(list)) = TasksOf(list) \intersect InitTasks
<1> DEFINE n == Len(list)
           Step(i, l) == IF list[i].task \in InitTasks THEN Append(l, list[i]) ELSE l
           Steps(f) == f = [i \in 0 .. n |-> IF i = 0 THEN << >> ELSE Step(i, f[i - 1])]
           inits == CHOOSE f : Steps(f)
<1>1. n \in Nat /\ \A i \in 1 .. n : list[i] \in Entries
  OBVIOUS
<1>2. WithInit(list) = inits[n]
  BY DEF WithInit
<1> HIDE DEF n
<1>3. Steps(inits)
  <2> DEFINE step == [p \in (1 .. n) \X Seq(Entries) |-> Step(p[1], p[2])]
  <2>1. G!IsStep(step, n, Seq(Entries))
    BY <1>1 DEF G!IsStep
  <2>2. \A i \in 1 .. n : \A l \in Seq(Entries) : step[<<i, l>>] = Step(i, l)
    OBVIOUS
  <2>3. << >> \in Seq(Entries)
    OBVIOUS
  <2> HIDE DEF step
  <2>4. PICK f : G!Follows(f, n, Seq(Entries), << >>, step)
    BY <1>1, <2>1, <2>3, G!Recursion
  <2>5. f \in [0 .. n -> Seq(Entries)] /\ f[0] = << >> /\ \A i \in 1 .. n : f[i] = step[<<i, f[i - 1]>>]
    BY <2>4 DEF G!Follows
  <2>6. ASSUME NEW i \in 1 .. n PROVE f[i] = Step(i, f[i - 1])
    <3>1. f[i - 1] \in Seq(Entries)
      BY <1>1, <2>5
    <3> HIDE DEF Step
    <3> QED BY <2>2, <2>5, <3>1
  <2> HIDE DEF Step
  <2>7. \A i \in 0 .. n : f[i] = IF i = 0 THEN << >> ELSE Step(i, f[i - 1])
    BY <1>1, <2>5, <2>6
  <2>8. Steps(f)
    BY <2>5, <2>7
  <2> HIDE DEF Steps
  <2> QED BY <2>8 DEF inits
<1> HIDE DEF inits
<1> DEFINE Good(l, i) ==
             /\ l \in Seq(Entries)
             /\ \A t : t \in TasksOf(l) <=> t \in InitTasks /\ \E k \in 1 .. i : list[k].task = t
           S == {i \in 0 .. n : Good(inits[i], i)}
<1>4. inits[0] = << >> /\ \A i \in 0 .. n - 1 : inits[i + 1] = Step(i + 1, inits[i])
  <2> HIDE DEF Step
  <2> QED BY <1>1, <1>3
<1>5. 0 \in S
  <2>1. Good(<< >>, 0)
    BY DEF TasksOf
  <2> HIDE DEF Good
  <2> QED BY <1>1, <1>4, <2>1
<1>6. ASSUME NEW i \in 0 .. n - 1, i \in S PROVE i + 1 \in S
  <2> DEFINE l == inits[i]
             e == list[i + 1]
             r == inits[i + 1]
  <2>1. /\ i \in Nat /\ i + 1 \in 0 .. n /\ i + 1 \in 1 .. n /\ e \in Entries
        /\ l \in Seq(Entries)
        /\ \A t : t \in TasksOf(l) <=> t \in InitTasks /\ \E k \in 1 .. i : list[k].task = t
    BY <1>1, <1>6
  <2>2. r = IF e.task \in InitTasks THEN Append(l, e) ELSE l
    BY <1>4
  <2>3. \A k : k \in 1 .. i + 1 <=> k \in 1 .. i \/ k = i + 1
    BY <2>1
  <2>4. \A t : (\E k \in 1 .. i + 1 : list[k].task = t) <=> e.task = t \/ \E k \in 1 .. i : list[k].task = t
    BY <2>3
  <2> HIDE DEF l, e, r
  <2>5. CASE e.task \in InitTasks
    <3>1. /\ r \in Seq(Entries) /\ Len(l) \in Nat /\ Len(r) = Len(l) + 1 /\ r[Len(l) + 1] = e
          /\ \A k \in 1 .. Len(l) : r[k] = l[k]
      BY <2>1, <2>2, <2>5
    <3>2. \A t : t \in TasksOf(r) <=> t \in TasksOf(l) \/ t = e.task
      <4>1. \A k : k \in 1 .. Len(l) + 1 <=> k \in 1 .. Len(l) \/ k = Len(l) + 1
        BY <3>1
      <4> QED BY <3>1, <4>1 DEF TasksOf
    <3>3. Good(r, i + 1)
      BY <2>1, <2>4, <2>5, <3>1, <3>2
    <3> HIDE DEF Good
    <3> QED BY <2>1, <3>3 DEF r
  <2>6. CASE e.task \notin InitTasks
    <3>1. Good(r, i + 1)
      BY <2>1, <2>2, <2>4, <2>6
    <3> HIDE DEF Good
    <3> QED BY <2>1, <3>1 DEF r
  <2> QED BY <2>5, <2>6
<1>7. \A i \in 0 .. n : i \in S
  <2> HIDE DEF S
  <2> QED BY <1>1, <1>5, <1>6, G!Induct
<1>8. Good(inits[n], n)
  <2> HIDE DEF Good
  <2> QED BY <1>1, <1>7
<1>9. \A t : t \in TasksOf(inits[n]) <=> t \in InitTasks /\ t \in TasksOf(list)
  BY <1>8 DEF TasksOf, n
<1> QED BY <1>2, <1>8, <1>9

(* The image of a task is that of an entry of the list. *)
LEMMA MappedFacts ==
  ASSUME NEW list \in Seq(Entries), NEW t \in TasksOf(list)
  PROVE  \E i \in 1 .. Len(list) : Mapped(list)[t] = list[i].image
<1> DEFINE n == Len(list)
           I == {i \in 1 .. n : list[i].task = t}
           m == Max(I)
<1>1. n \in Nat /\ I \subseteq 1 .. n /\ I # {}
  BY DEF TasksOf
<1>2. SelectLastInSeq(list, LAMBDA e : e.task = t) = m
  BY <1>1 DEF SelectLastInSeq
<1>3. m \in 1 .. n
  <2> HIDE DEF I, n
  <2> DEFINE J == {n - i : i \in I}
  <2>1. J \in SUBSET Nat /\ J # {}
    BY <1>1
  <2>2. PICK j \in J : \A k \in J : j <= k
    <3> HIDE DEF J
    <3> QED BY <2>1, G!Least
  <2>3. PICK i \in I : j = n - i
    BY <2>2
  <2>4. \A k \in I : i >= k
    <3> SUFFICES ASSUME NEW k \in I PROVE i >= k
      OBVIOUS
    <3>1. n - k \in J
      OBVIOUS
    <3>2. j <= n - k
      BY <2>2, <3>1
    <3>3. i \in Int /\ k \in Int /\ n \in Int
      BY <1>1
    <3> HIDE DEF J
    <3> QED BY <2>3, <3>2, <3>3
  <2>5. m \in I
    BY <2>4 DEF Max
  <2> QED BY <1>1, <2>5
<1> HIDE DEF m
<1>4. Mapped(list)[t] = list[m].image
  <2>1. t \in {list[i].task : i \in DOMAIN list}
    BY DEF TasksOf
  <2> HIDE DEF n, I
  <2> QED BY <1>2, <2>1 DEF Mapped
<1> QED BY <1>3, <1>4

---------------------------------------------------------------------------
(* The inductive invariant. *)

(* While the kernel runs, the list is what the loaded images added, and the *)
(* order and the map are those of that list.                                *)
Loading == phase = "load" => Distinct(modules) /\ Installed(impls, modules, 0)
Running == phase \in {"init", "frame", "update"} =>
             Distinct(modules) /\ Full(modules) /\ Installed(impls, modules, 1)
Calling == phase \in {"init", "update"} => called \in 0 .. Len(order)
Starting == phase = "init" => GoodOrder(order, InitTasks, InitBefore, InitAfter)
Updating ==
    phase = "update" =>
        /\ GoodOrder(order, Tasks, UpdateBefore, UpdateAfter)
        /\ \A t \in Tasks : map[t] \in G!Listed(modules) \union {KernelImage}

IInv == Loading /\ Running /\ Calling /\ Starting /\ Updating

(* Nothing is loaded and nothing listed. *)
LEMMA InitInv == Init => IInv
<1> SUFFICES ASSUME Init PROVE IInv
  OBVIOUS
<1>1. << >> \in Seq(ModuleImages) /\ << >> \in Seq(Entries) /\ Len(<< >>) = 0
  OBVIOUS
<1>2. \A e : G!Count(<< >>, e) = 0
  <2>1. \A e : e \notin G!Listed(<< >>)
    BY DEF G!Listed
  <2> QED BY <1>1, <2>1, G!CountType
<1>3. \A x : x \notin G!Listed(<< >>)
  BY DEF G!Listed
<1>4. Installed(<< >>, << >>, 0)
  BY <1>1, <1>2, <1>3 DEF Installed
<1>5. Distinct(<< >>)
  BY <1>1 DEF Distinct
<1> QED BY <1>4, <1>5 DEF Init, IInv, Loading, Running, Calling, Starting, Updating

(* The init graph. *)
LEMMA StartInv == IInv /\ Start => IInv'
<1> SUFFICES ASSUME IInv, Start PROVE IInv'
  OBVIOUS
<1>1. /\ phase = "load" /\ Len(modules) = Cardinality(Modules) /\ modules' = modules
      /\ impls' = Append(impls, InputEntry)
      /\ (phase' = "unload" \/ (phase' = "init" /\ BuildInitGraph(impls')))
  BY DEF Start, AddImpl, InputEntry
<1>2. Distinct(modules) /\ Installed(impls, modules, 0)
  BY <1>1 DEF IInv, Loading
<1>3. CASE phase' = "unload"
  BY <1>3 DEF IInv, Loading, Running, Calling, Starting, Updating
<1>4. CASE phase' = "init" /\ BuildInitGraph(impls')
  <2> DEFINE list == impls'
  <2>1. Distinct(modules') /\ Full(modules') /\ Installed(list, modules', 1)
    BY <1>1, <1>2, FullFacts, StartedFacts
  <2> HIDE DEF list
  <2>2. list \in Seq(Entries) /\ TasksOf(list) = Tasks
    BY <2>1, CoverFacts DEF Installed
  <2>3. WithInit(list) \in Seq(Entries) /\ TasksOf(WithInit(list)) = InitTasks
    BY <2>2, WithInitFacts, ConstraintAssumption
  <2>4. GoodOrder(Ordered(WithInit(list), InitBefore, InitAfter), InitTasks, InitBefore, InitAfter)
    BY <2>3, OrderedFacts, ConstraintAssumption
  <2>5. order' = Ordered(WithInit(list), InitBefore, InitAfter) /\ called' = 0
    BY <1>4 DEF BuildInitGraph, list
  <2>6. GoodOrder(order', InitTasks, InitBefore, InitAfter) /\ called' \in 0 .. Len(order')
    <3>1. GoodOrder(order', InitTasks, InitBefore, InitAfter)
      BY <2>4, <2>5
    <3>2. order' \in Seq(InitTasks)
      BY <3>1 DEF GoodOrder
    <3> QED BY <2>5, <3>1, <3>2
  <2> QED BY <1>4, <2>1, <2>6 DEF IInv, Loading, Running, Calling, Starting, Updating, list
<1> QED BY <1>1, <1>3, <1>4

(* The graph of a frame. *)
LEMMA FrameBeginInv == IInv /\ FrameBegin => IInv'
<1> SUFFICES ASSUME IInv, FrameBegin PROVE IInv'
  OBVIOUS
<1> DEFINE list == impls'
<1>1. phase = "frame" /\ phase' = "update" /\ DoReload /\ BuildUpdateGraph(impls')
  BY DEF FrameBegin
<1>2. Distinct(modules) /\ Full(modules) /\ Installed(impls, modules, 1)
  BY <1>1 DEF IInv, Running
<1>3. PICK changed : modules' = ReloadEach(changed).modules /\ impls' = ReloadEach(changed).impls
  BY <1>1 DEF DoReload
<1>4. /\ Distinct(modules') /\ Installed(list, modules', 1) /\ Len(modules') = Len(modules)
      /\ \A j \in 1 .. Len(modules) : modules'[j].module = modules[j].module
  BY <1>2, <1>3, ReloadEachFacts
<1>5. Full(modules')
  BY <1>2, <1>4 DEF Full
<1> HIDE DEF list
<1>6. list \in Seq(Entries) /\ TasksOf(list) = Tasks
  BY <1>4, <1>5, CoverFacts DEF Installed
<1>7. GoodOrder(Ordered(list, UpdateBefore, UpdateAfter), Tasks, UpdateBefore, UpdateAfter)
  BY <1>6, OrderedFacts, ConstraintAssumption
<1>8. order' = Ordered(list, UpdateBefore, UpdateAfter) /\ called' = 0 /\ map' = Mapped(list)
  BY <1>1 DEF BuildUpdateGraph, list
<1>9. GoodOrder(order', Tasks, UpdateBefore, UpdateAfter) /\ called' \in 0 .. Len(order')
  <2>1. GoodOrder(order', Tasks, UpdateBefore, UpdateAfter)
    BY <1>7, <1>8
  <2>2. order' \in Seq(Tasks)
    BY <2>1 DEF GoodOrder
  <2> QED BY <1>8, <2>1, <2>2
<1>10. ASSUME NEW t \in Tasks PROVE map'[t] \in G!Listed(modules') \union {KernelImage}
  <2>1. PICK i \in 1 .. Len(list) : Mapped(list)[t] = list[i].image
    BY <1>6, MappedFacts
  <2>2. modules' \in Seq(ModuleImages)
    BY <1>4 DEF Distinct
  <2>3. list[i].image \in G!Listed(modules') \union {KernelImage}
    BY <1>4, <2>2, ListedFacts
  <2> QED BY <1>8, <2>1, <2>3
<1> QED BY <1>1, <1>4, <1>5, <1>9, <1>10 DEF IInv, Loading, Running, Calling, Starting, Updating, list

(* Every step keeps the invariant. *)
LEMMA NextInv == IInv /\ [Next]_vars => IInv'
<1> SUFFICES ASSUME IInv, [Next]_vars PROVE IInv'
  OBVIOUS
<1>1. ASSUME NEW m \in Modules, LoadModule(m) PROVE IInv'
  <2>1. /\ phase = "load" /\ phase' = "load" /\ \A i \in 1 .. Len(modules) : modules[i].module # m
        /\ modules' = Append(modules, Image(m, 0)) /\ impls' = Load(impls, Image(m, 0))
    <3>1. Distinct(modules)
      BY <1>1 DEF LoadModule, IInv, Loading
    <3> QED BY <1>1, <3>1 DEF LoadModule, Distinct
  <2>2. Distinct(modules) /\ Installed(impls, modules, 0)
    BY <2>1 DEF IInv, Loading
  <2>3. Distinct(modules') /\ Installed(impls', modules', 0)
    BY <2>1, <2>2, AddedFacts
  <2> QED BY <2>1, <2>3 DEF IInv, Loading, Running, Calling, Starting, Updating
<1>2. ASSUME CallInit PROVE IInv'
  <2>1. called' \in 0 .. Len(order)
    <3>1. called \in 0 .. Len(order) /\ called < Len(order) /\ order \in Seq(InitTasks)
      BY <1>2 DEF CallInit, IInv, Calling, Starting, GoodOrder
    <3> QED BY <1>2, <3>1 DEF CallInit
  <2> QED BY <1>2, <2>1 DEF CallInit, IInv, Loading, Running, Calling, Starting, Updating
<1>3. ASSUME CallUpdate PROVE IInv'
  <2>1. called' \in 0 .. Len(order)
    <3>1. called \in 0 .. Len(order) /\ called < Len(order) /\ order \in Seq(Tasks)
      BY <1>3 DEF CallUpdate, IInv, Calling, Updating, GoodOrder
    <3> QED BY <1>3, <3>1 DEF CallUpdate
  <2> QED BY <1>3, <2>1 DEF CallUpdate, IInv, Loading, Running, Calling, Starting, Updating
<1>4. ASSUME InitDone PROVE IInv'
  BY <1>4 DEF InitDone, IInv, Loading, Running, Calling, Starting, Updating
<1>5. ASSUME FrameEnd PROVE IInv'
  BY <1>5 DEF FrameEnd, IInv, Loading, Running, Calling, Starting, Updating
<1>6. ASSUME LoopEnd PROVE IInv'
  BY <1>6 DEF LoopEnd, IInv, Loading, Running, Calling, Starting, Updating
<1>7. ASSUME UnloadModule PROVE IInv'
  BY <1>7 DEF UnloadModule, IInv, Loading, Running, Calling, Starting, Updating
<1>8. ASSUME End PROVE IInv'
  BY <1>8 DEF End, IInv, Loading, Running, Calling, Starting, Updating
<1>9. ASSUME UNCHANGED vars PROVE IInv'
  BY <1>9 DEF vars, IInv, Loading, Running, Calling, Starting, Updating
<1> QED BY <1>1, <1>2, <1>3, <1>4, <1>5, <1>6, <1>7, <1>8, <1>9, StartInv, FrameBeginInv DEF Next

---------------------------------------------------------------------------
(* What the runs check. *)

(* The list is what the loaded images added, the order and the map those of *)
(* the list.                                                                *)
THEOREM Invariant == Spec => []IInv
<1> QED BY InitInv, NextInv, PTL DEF Spec

(* A reload leaves no pointer into the image that it unloads (OrderKept's   *)
(* and the list's code: kernel.c:161, celib_module.c:196-241).              *)
THEOREM LoadedCodeCalled == Spec => []CallsLoadedCode
<1>1. IInv => CallsLoadedCode
  <2> SUFFICES ASSUME IInv PROVE CallsLoadedCode
    OBVIOUS
  <2> DEFINE loaded == {KernelImage} \union {modules[i] : i \in DOMAIN modules}
  <2>1. ASSUME phase \in {"frame", "update"}
        PROVE  /\ G!Listed(modules) \union {KernelImage} = loaded
               /\ Installed(impls, modules, 1) /\ modules \in Seq(ModuleImages) /\ impls \in Seq(Entries)
    <3>1. Installed(impls, modules, 1) /\ Distinct(modules)
      BY <2>1 DEF IInv, Running
    <3>2. modules \in Seq(ModuleImages) /\ impls \in Seq(Entries)
      BY <3>1 DEF Distinct, Installed
    <3>3. G!Listed(modules) \union {KernelImage} = loaded
      BY <3>2 DEF G!Listed
    <3> QED BY <3>1, <3>2, <3>3
  <2>2. ASSUME phase = "update", NEW i \in called + 1 .. Len(order)
        PROVE  map[order[i]] \in loaded
    <3>1. order \in Seq(Tasks) /\ called \in 0 .. Len(order)
      BY <2>2 DEF IInv, Calling, Updating, GoodOrder
    <3>2. order[i] \in Tasks
      BY <3>1
    <3>3. map[order[i]] \in G!Listed(modules) \union {KernelImage}
      BY <2>2, <3>2 DEF IInv, Updating
    <3> HIDE DEF loaded
    <3> QED BY <2>1, <2>2, <3>3
  <2>3. ASSUME phase \in {"frame", "update"}, NEW i \in DOMAIN impls PROVE impls[i].image \in loaded
    <3>1. i \in 1 .. Len(impls)
      BY <2>1, <2>3
    <3>2. impls[i].image \in G!Listed(modules) \union {KernelImage}
      BY <2>1, <2>3, <3>1, ListedFacts
    <3> HIDE DEF loaded
    <3> QED BY <2>1, <2>3, <3>2
  <2> QED BY <2>2, <2>3 DEF CallsLoadedCode
<1> QED BY <1>1, Invariant, PTL

(* Tasks are called in the order of the lists, whatever the order in which  *)
(* the modules added them.                                                  *)
THEOREM ListsObeyed == Spec => []OrderKept
<1>1. ASSUME NEW o, NEW D, NEW before, NEW after, GoodOrder(o, D, before, after), NEW k \in 0 .. Len(o)
      PROVE  \A i \in 1 .. k : \A j \in 1 .. i :
                ~ Contains(before[o[i]], o[j]) /\ ~ Contains(after[o[j]], o[i])
  <2> SUFFICES ASSUME NEW i \in 1 .. k, NEW j \in 1 .. i
               PROVE  ~ Contains(before[o[i]], o[j]) /\ ~ Contains(after[o[j]], o[i])
    OBVIOUS
  <2>1. o \in Seq(D) /\ \A p, q \in 1 .. Len(o) : Precedes(before, after, o[p], o[q]) => p < q
    BY <1>1 DEF GoodOrder
  <2>2. i \in 1 .. Len(o) /\ j \in 1 .. Len(o) /\ ~ i < j
    BY <2>1
  <2>3. ~ Precedes(before, after, o[i], o[j])
    BY <2>1, <2>2
  <2> QED BY <2>3 DEF Precedes
<1>2. IInv => OrderKept
  <2>1. ASSUME IInv, phase = "init" PROVE OrderKept
    BY <1>1, <2>1 DEF IInv, Calling, Starting, OrderKept
  <2>2. ASSUME IInv, phase = "update" PROVE OrderKept
    BY <1>1, <2>2 DEF IInv, Calling, Updating, OrderKept
  <2> QED BY <2>1, <2>2 DEF OrderKept
<1> QED BY <1>2, Invariant, PTL

(* When the lists do not go round in a circle, every task is called once in *)
(* a frame and every init once before the first.                            *)
THEOREM NothingDropped ==
  ASSUME NoCircle(InitTasks, InitBefore, InitAfter), NoCircle(Tasks, UpdateBefore, UpdateAfter)
  PROVE  Spec => []EveryTaskOnce
<1>1. IInv => EveryTaskOnce
  <2> SUFFICES ASSUME IInv PROVE EveryTaskOnce
    OBVIOUS
  <2>1. ASSUME NEW D, NEW before, NEW after, GoodOrder(order, D, before, after), NoCircle(D, before, after)
        PROVE  Len(order) = Cardinality(D) /\ D = {order[i] : i \in DOMAIN order}
    <3>1. Len(order) = Cardinality(D) /\ G!Listed(order) = D /\ order \in Seq(D)
      BY <2>1 DEF GoodOrder
    <3> QED BY <3>1 DEF G!Listed
  <2>2. CASE phase = "init"
    BY <2>1, <2>2 DEF IInv, Starting, EveryTaskOnce
  <2>3. CASE phase = "update"
    BY <2>1, <2>3 DEF IInv, Updating, EveryTaskOnce
  <2> QED BY <2>2, <2>3 DEF EveryTaskOnce
<1> QED BY <1>1, Invariant, PTL

============================================================================
