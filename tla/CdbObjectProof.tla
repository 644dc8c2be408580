------------------------------ MODULE CdbObjectProof -------------------------
(***************************************************************************)
(* Who owns the typed values of a database in which no object is set as a  *)
(* subobject, and what instances inherit: any number of objects, prefabs,  *)
(* values, places in the pool and open writers, with dispatch to instances *)
(* and destruction of them at any depth.  What the calls on the stack      *)
(* still have to do is part of the invariant, so a step is seen with all   *)
(* that encloses it.                                                       *)
(*                                                                         *)
(* o is the objects, q the calls, wr the uids with a client's writer, tf   *)
(* those to destroy at gc, d all with a writer, g all whose typed value    *)
(* was given up.                                                           *)
(***************************************************************************)
EXTENDS CdbObject, FiniteSetTheorems, TLAPS

---------------------------------------------------------------------------
(* The invariant. *)

(* No object has a subobject, and clients keep to what the code needs.      *)
Scalar == SubUids = {} /\ Composites = {} /\ Careful

Changes == [prop : {"val"}, old : Values, new : Values]
           \union [prop : {"sub"}, old : {0}, new : {0}]
Records == [slot : Slots \union {0}, wslot : Slots \union {0}, from : Uids \union {0},
            instances : SUBSET Uids, changed : Seq(Changes)]
TypedValues == [val : Values, sub : {0}]

CreateFrames == [op : {"create_from"}, from : Uids, uid : Uids]
                \union [op : {"copy_sub", "from_end"}, uid : Uids]
DestroyFrames == [op : {"destroy"}, uid : Uids]
                 \union [op : {"destroy_instances"}, uid : Uids, todo : SUBSET Uids]
CommitFrames == [op : {"commit"}, uid : Uids, todo : SUBSET Uids]
                \union [op : {"follow"}, uid : Uids, changes : Seq(Changes)]
                \union [op : {"follow_set"}, uid : Uids, changes : Seq(Changes) \ {<< >>}]
(* Clearing a subobject, and what creates one from none. *)
ClearFrames == [op : {"set_sub", "assign"}, obj : {"writer"} \X Uids, sub : {0}]
NoneFrames == [op : {"create_from"}, from : {0}, uid : Uids]
Frames == CreateFrames \union DestroyFrames \union CommitFrames \union ClearFrames \union NoneFrames

Types ==
    /\ objects \in [Objects -> Records]
    /\ pool \in [Slots -> TypedValues]
    /\ freeIdx \in [Slots -> Nat] /\ toFreeIdx \in [Slots -> Nat]
    /\ fresh \subseteq Slots /\ toFreeUids \subseteq Uids
    /\ calls \in Seq(Frames) /\ ret = 0
    /\ writers \subseteq Roots

Cu(o, u) == o[Cur(u)]
Dr(o, u) == o[Draft(u)]
In(o) == {u \in Uids : Cu(o, u) # NoObject}

(* Prefab and instance know one another, and no object is among the prefabs *)
(* it comes from.                                                           *)
Listed(o) ==
    /\ \A u \in In(o) : Cu(o, u).slot \in Slots /\ Cu(o, u).wslot \in {0, Cu(o, u).slot}
    /\ \A u \in Uids : Cu(o, u).changed = << >>
    /\ \A u \in In(o) : Cu(o, u).from # 0 =>
          Cu(o, u).from \in In(o) /\ u \in Cu(o, Cu(o, u).from).instances
    /\ \A p \in In(o) : \A i \in Cu(o, p).instances : i \in In(o) /\ Cu(o, i).from = p
Acyclic(o) == \A T \in SUBSET In(o) : T # {} => \E t \in T : Cu(o, t).from \notin T

(* A stack with a call more and without its innermost one. *)
Push(f, r) == <<f>> \o r
Rest(q) == Tail(q)
UidsAt(q, ops) == {q[k].uid : k \in {j \in DOMAIN q : q[j].op \in ops}}
CommitOps == {"commit", "follow", "follow_set"}
DestroyOps == {"destroy_instances"}

(* A writer is a copy of its object, with a typed value of its own. *)
Drafted(o, d, tf) ==
    /\ \A u \in Uids \ d : Dr(o, u) = NoObject
    /\ \A u \in d :
          /\ u \in In(o) /\ u \notin tf
          /\ Dr(o, u).slot = Cu(o, u).slot /\ Dr(o, u).wslot \in Slots
          /\ Dr(o, u).from = Cu(o, u).from /\ Dr(o, u).instances = Cu(o, u).instances

(* A typed value is fresh, free, to be freed or owned, and has one owner. *)
Owned(s, o, d, g) == \/ \E u \in In(o) \ g : Cu(o, u).slot = s
                     \/ \E u \in d : Dr(o, u).wslot = s
OwnedOnce(o, d, g) ==
    /\ \A u, v \in In(o) \ g : Cu(o, u).slot = Cu(o, v).slot => u = v
    /\ \A u, v \in d : Dr(o, u).wslot = Dr(o, v).wslot => u = v
    /\ \A u \in In(o) \ g : \A v \in d : Cu(o, u).slot # Dr(o, v).wslot
InOnePlace(o, d, g, fr, fi, ti) ==
    \A s \in Slots :
        \/ s \in fr /\ fi[s] = 0 /\ ti[s] = 0 /\ ~ Owned(s, o, d, g)
        \/ s \notin fr /\ fi[s] = 1 /\ ti[s] = 0 /\ ~ Owned(s, o, d, g)
        \/ s \notin fr /\ fi[s] = 0 /\ ti[s] = 1 /\ ~ Owned(s, o, d, g)
        \/ s \notin fr /\ fi[s] = 0 /\ ti[s] = 0 /\ Owned(s, o, d, g)
GivenUp(o, g, ti) == g \subseteq In(o) /\ \A u \in g : ti[Cu(o, u).slot] = 1
Owners(o, d, g, fr, fi, ti) ==
    OwnedOnce(o, d, g) /\ InOnePlace(o, d, g, fr, fi, ti) /\ GivenUp(o, g, ti)

Clean(fr, fi, values) == \A s \in Slots : fi[s] > 0 \/ s \in fr => values[s] = Zero
Swept(o, tf) == \A p \in tf : Cu(o, p).instances \subseteq tf

(* The calls in progress.  W is what a call may reach: it is closed, and    *)
(* was untouched when the client made the call.                             *)
Creates(f, o, wr, tf) ==
    IF f.op = "create_from"
    THEN f.uid \notin In(o) /\ f.from \in In(o) /\ f.from \notin wr \union tf
    ELSE f.uid \in In(o) /\ Cu(o, f.uid).from \in In(o)

Closed(W, o) == \A p \in W : p \in In(o) => Cu(o, p).instances \subseteq W
Chained(q, o) == \A j, k \in DOMAIN q : k = j + 1 =>
    /\ q[k].uid \in In(o) /\ q[j].uid \in Cu(o, q[k].uid).instances
    /\ q[j].uid \notin q[k].todo
Apart(q) == \A j, k \in DOMAIN q : q[j].uid = q[k].uid => j = k
Bottom(q) == q[Len(q)].uid
Above(q, k) == IF k = 1 THEN {} ELSE {q[k - 1].uid}

Sweeps(q, o, tf) ==
    \A k \in DOMAIN q :
        IF q[k].op = "destroy" THEN k = 1 /\ q[k].uid \notin tf \union UidsAt(q, DestroyOps)
        ELSE /\ q[k].uid \in In(o) /\ q[k].uid \notin tf
             /\ q[k].todo \subseteq Cu(o, q[k].uid).instances
             /\ q[k].todo \intersect (tf \union UidsAt(q, DestroyOps)) = {}
             /\ Cu(o, q[k].uid).instances \subseteq q[k].todo \union tf \union Above(q, k)
Dooms(W, q, o, wr, tf) ==
    /\ Closed(W, o) /\ W \intersect wr = {}
    /\ \A k \in DOMAIN q : q[k].uid \in W
    /\ \A p \in W : p \in In(o) => Bottom(q) \notin Cu(o, p).instances
    /\ \A i \in W : i \in tf \union UidsAt(q, DestroyOps) =>
          i = Bottom(q) \/ Cu(o, i).from \in tf \union UidsAt(q, DestroyOps)
Destroys(q, o, wr, tf) ==
    /\ q # << >> /\ Chained(q, o) /\ Apart(q) /\ Sweeps(q, o, tf)
    /\ \E W \in SUBSET Uids : Dooms(W, q, o, wr, tf)

Tells(q, o) ==
    \A k \in DOMAIN q :
        IF q[k].op = "commit" THEN q[k].todo \subseteq Cu(o, q[k].uid).instances ELSE k = 1
Reaches(W, q, o, wr, tf) ==
    /\ Closed(W, o) /\ W \intersect (wr \union tf) = {}
    /\ \A k \in DOMAIN q : q[k].op = "commit" => q[k].todo \subseteq W
    /\ q[1].op # "commit" => Cu(o, q[1].uid).instances \subseteq W
Commits(q, o, wr, tf) ==
    /\ q # << >> /\ Chained(q, o) /\ Apart(q) /\ Tells(q, o)
    /\ \E W \in SUBSET Uids : Reaches(W, q, o, wr, tf)

Helps(f, g) ==
    \/ f \in NoneFrames /\ g.op = "follow_set"
    \/ f \in ClearFrames /\ f.obj = Draft(g.uid) /\ g.op = "follow"
InCalls(q, o, wr, tf) ==
    \/ q = << >>
    \/ Len(q) = 1 /\ q[1] \in CreateFrames /\ Creates(q[1], o, wr, tf)
    \/ q \in Seq(DestroyFrames) /\ Destroys(q, o, wr, tf)
    \/ q \in Seq(CommitFrames) /\ Commits(q, o, wr, tf)
    \/ Len(q) = 1 /\ q[1] \in ClearFrames /\ q[1].obj[2] \in wr
    \/ /\ Len(q) > 1 /\ Rest(q) \in Seq(CommitFrames) /\ Commits(Rest(q), o, wr, tf)
       /\ Helps(q[1], q[2])

Committing == UidsAt(calls, CommitOps)
Drafting == writers \union Committing
Gone == toFreeUids \union UidsAt(calls, DestroyOps)
ScalarInv ==
    /\ Types /\ Listed(objects) /\ Acyclic(objects)
    /\ Drafted(objects, Drafting, toFreeUids) /\ writers \intersect Committing = {}
    /\ Owners(objects, Drafting, Gone, fresh, freeIdx, toFreeIdx)
    /\ Clean(fresh, freeIdx, pool) /\ Swept(objects, toFreeUids)
    /\ InCalls(calls, objects, writers, toFreeUids)

---------------------------------------------------------------------------
(* The values of instances, while changes of prefabs are followed.          *)

(* The value of an object, and that of its writer. *)
Val(o, a, u) == a[Cu(o, u).slot].val
New(o, a, u) == a[Dr(o, u).wslot].val

(* Changes that lead from one value to another, each from where the one     *)
(* before it ends.                                                          *)
Leads(q, h) ==
    \A k \in 1 .. Len(q) :
        IF q[k].prop = "val" THEN q[k].old = h[k - 1] /\ q[k].new = h[k] ELSE h[k] = h[k - 1]
Led(q, x, y) == \E h \in [0 .. Len(q) -> Values] : h[0] = x /\ h[Len(q)] = y /\ Leads(q, h)

(* Instances whose value no client has set. *)
Heirs(o, ow) == {i \in In(o) : Cu(o, i).from # 0 /\ <<i, "val">> \notin ow}

(* A commit of p has already had its instance i follow. *)
TellsOf(f, p, i) == f.op = "commit" /\ f.uid = p /\ i \notin f.todo
Telling(q, p, i) == \E k \in DOMAIN q : TellsOf(q[k], p, i)
Told(q, c, p, i) == i \notin c /\ Telling(q, p, i)

(* The value an instance of p is to have when the calls return; c are the   *)
(* uids that are being committed.                                           *)
Goal(o, a, c, p) == IF p \in c THEN New(o, a, p) ELSE Val(o, a, p)

(* The changes a call has still to follow lead its object there. *)
Remaining(f) == IF f.op = "commit" THEN << >>
                ELSE IF f.op = "follow" THEN f.changes ELSE Tail(f.changes)
Fits(f, o, a, c, ow) ==
    f.op \in CommitOps /\ f.uid \in Heirs(o, ow) =>
        Led(Remaining(f), New(o, a, f.uid), Goal(o, a, c, Cu(o, f.uid).from))
Following(o, a, q, c, ow) == \A k \in DOMAIN q : Fits(q[k], o, a, c, ow)

(* The changes listed in a writer lead from the object's value to its own;  *)
(* an instance shows what it was told, or what its prefab shows; a client's *)
(* writer of an instance starts from what the prefab is to have.            *)
Recorded(o, a, d) == \A u \in d : Led(Dr(o, u).changed, Val(o, a, u), New(o, a, u))
Shows(i, p, o, a, q, c) ==
    Val(o, a, i) = IF Told(q, c, p, i) THEN New(o, a, p) ELSE Val(o, a, p)
Shown(o, a, q, c, ow) == \A i \in Heirs(o, ow) : Shows(i, Cu(o, i).from, o, a, q, c)
Drawn(o, a, c, wr, ow) ==
    \A i \in Heirs(o, ow) : i \in wr => New(o, a, i) = Goal(o, a, c, Cu(o, i).from)
FollowInv ==
    /\ Recorded(objects, pool, Drafting)
    /\ Shown(objects, pool, calls, Committing, own)
    /\ Drawn(objects, pool, Committing, writers, own)
    /\ Following(objects, pool, calls, Committing, own)

---------------------------------------------------------------------------
(* Stacks of calls. *)

(* The two records of a uid are apart from one another and from others'.    *)
LEMMA Names ==
  /\ \A u, v : Cur(u) # Draft(v)
  /\ \A u, v : Cur(u) = Cur(v) => u = v
  /\ \A u, v : Draft(u) = Draft(v) => u = v
  /\ \A u \in Uids : Cur(u) \in Objects /\ Draft(u) \in Objects
  BY DEF Cur, Draft, Objects

(* A stack is its innermost call on top of the rest.                        *)
LEMMA TopAndRest ==
  ASSUME NEW X, NEW q \in Seq(X), q # << >>
  PROVE  /\ Head(q) \in X /\ Rest(q) \in Seq(X) /\ q = Push(Head(q), Rest(q))
         /\ Head(q) = q[1] /\ Len(q) = Len(Rest(q)) + 1 /\ Len(Rest(q)) \in Nat
  BY DEF Push, Rest

(* Who is at which depth. *)
LEMMA OnTop ==
  ASSUME NEW X, NEW f, NEW r \in Seq(X)
  PROVE  /\ DOMAIN Push(f, r) = 1 .. Len(r) + 1 /\ DOMAIN r = 1 .. Len(r)
         /\ Len(r) \in Nat /\ Len(Push(f, r)) = Len(r) + 1
         /\ Push(f, r)[1] = f /\ Head(Push(f, r)) = f /\ Rest(Push(f, r)) = r
         /\ \A k \in 1 .. Len(r) : Push(f, r)[k + 1] = r[k]
         /\ \A k \in 2 .. Len(r) + 1 : Push(f, r)[k] = r[k - 1] /\ k - 1 \in DOMAIN r
         /\ Push(f, r) # << >>
         /\ f \in X => Push(f, r) \in Seq(X)
<1>1. <<f>> \in Seq(X \union {f}) /\ r \in Seq(X \union {f}) /\ Len(<<f>>) = 1
  OBVIOUS
<1>2. <<f>> \o r \in Seq(X \union {f}) /\ Len(<<f>> \o r) = Len(r) + 1
  BY <1>1
<1>3. \A k \in 1 .. Len(r) : (<<f>> \o r)[k + 1] = r[k]
  BY <1>1
<1>4. (<<f>> \o r)[1] = f /\ Head(<<f>> \o r) = f
  BY <1>1
<1>5. Tail(<<f>> \o r) = r
  BY <1>1
<1>6. \A k \in 2 .. Len(r) + 1 : (<<f>> \o r)[k] = r[k - 1] /\ k - 1 \in DOMAIN r
  BY <1>3
<1>7. f \in X => <<f>> \o r \in Seq(X)
  OBVIOUS
<1> QED BY <1>2, <1>3, <1>4, <1>5, <1>6, <1>7 DEF Push, Rest

(* The uids of the calls at some steps. *)
LEMMA UidsOnTop ==
  ASSUME NEW X, NEW f, NEW r \in Seq(X), NEW ops
  PROVE  /\ f.op \in ops => UidsAt(Push(f, r), ops) = {f.uid} \union UidsAt(r, ops)
         /\ f.op \notin ops => UidsAt(Push(f, r), ops) = UidsAt(r, ops)
<1> DEFINE q == Push(f, r)
<1>1. /\ DOMAIN q = 1 .. Len(r) + 1 /\ DOMAIN r = 1 .. Len(r) /\ Len(r) \in Nat
      /\ q[1] = f /\ \A k \in 1 .. Len(r) : q[k + 1] = r[k]
      /\ \A k \in 2 .. Len(r) + 1 : q[k] = r[k - 1] /\ k - 1 \in DOMAIN r
  BY OnTop
<1> HIDE DEF q
<1>2. ASSUME NEW x \in UidsAt(q, ops), x \notin UidsAt(r, ops)
      PROVE  f.op \in ops /\ x = f.uid
  <2>1. PICK k \in DOMAIN q : q[k].op \in ops /\ x = q[k].uid
    BY <1>2 DEF UidsAt
  <2>2. CASE k = 1
    BY <1>1, <2>1, <2>2
  <2>3. CASE k # 1
    <3>1. k - 1 \in DOMAIN r /\ r[k - 1].op \in ops /\ x = r[k - 1].uid
      BY <1>1, <2>1, <2>3
    <3> QED BY <1>2, <3>1 DEF UidsAt
  <2> QED BY <2>2, <2>3
<1>3. ASSUME NEW x \in UidsAt(r, ops) PROVE x \in UidsAt(q, ops)
  <2>1. PICK k \in DOMAIN r : r[k].op \in ops /\ x = r[k].uid
    BY <1>3 DEF UidsAt
  <2>2. k + 1 \in DOMAIN q /\ q[k + 1].op \in ops /\ x = q[k + 1].uid
    BY <1>1, <2>1
  <2> QED BY <2>2 DEF UidsAt
<1>4. f.op \in ops => f.uid \in UidsAt(q, ops)
  BY <1>1 DEF UidsAt
<1>5. /\ f.op \in ops => UidsAt(q, ops) = {f.uid} \union UidsAt(r, ops)
      /\ f.op \notin ops => UidsAt(q, ops) = UidsAt(r, ops)
  BY <1>2, <1>3, <1>4
<1> QED BY <1>5 DEF q

(* No call has no uids. *)
LEMMA UidsNone == \A ops : UidsAt(<< >>, ops) = {}
<1>1. DOMAIN << >> = {}
  OBVIOUS
<1> QED BY <1>1 DEF UidsAt

(* A stack of one call. *)
LEMMA OneCall ==
  ASSUME NEW X, NEW q \in Seq(X), Len(q) = 1
  PROVE  q = Push(q[1], << >>) /\ q[1] \in X /\ Rest(q) = << >> /\ q # << >>
<1>1. Len(<< >>) = 0 /\ \A t \in Seq(X) : Len(t) = 0 => t = << >>
  OBVIOUS
<1>2. q # << >>
  BY <1>1
<1>3. Head(q) \in X /\ Head(q) = q[1] /\ Rest(q) \in Seq(X) /\ q = Push(Head(q), Rest(q))
  BY <1>2, TopAndRest
<1>4. Len(q) = Len(Rest(q)) + 1 /\ Len(Rest(q)) \in Nat
  BY <1>2, TopAndRest
<1>5. \A m \in Nat : 1 = m + 1 => m = 0
  OBVIOUS
<1>6. Rest(q) = << >>
  BY <1>1, <1>3, <1>4, <1>5
<1> QED BY <1>2, <1>3, <1>6

---------------------------------------------------------------------------
(* Objects, their prefabs and their instances. *)

(* The same objects from the same prefabs. *)
SameTree(o, n) ==
    /\ In(n) = In(o)
    /\ \A v \in Uids : Cu(n, v).from = Cu(o, v).from /\ Cu(n, v).instances = Cu(o, v).instances

(* What holds of the tree holds of the same tree. *)
LEMMA TreeSame ==
  ASSUME NEW o, NEW n, SameTree(o, n)
  PROVE  /\ Acyclic(o) => Acyclic(n)
         /\ \A tf \in SUBSET Uids : Swept(o, tf) => Swept(n, tf)
<1>1. Acyclic(o) => Acyclic(n)
  <2> SUFFICES ASSUME Acyclic(o), NEW T \in SUBSET In(n), T # {}
               PROVE  \E t \in T : Cu(n, t).from \notin T
    BY DEF Acyclic
  <2>1. PICK t \in T : Cu(o, t).from \notin T
    BY DEF Acyclic, SameTree
  <2>2. t \in Uids
    BY DEF In
  <2> QED BY <2>1, <2>2 DEF SameTree
<1> QED BY <1>1 DEF Swept, SameTree

(* The same records of the objects: only writers differ. *)
LEMMA OnlyWriters ==
  ASSUME NEW o, NEW n, \A v \in Uids : Cu(n, v) = Cu(o, v)
  PROVE  SameTree(o, n) /\ (Listed(o) => Listed(n))
<1>1. In(n) = In(o)
  BY DEF In
<1>2. SameTree(o, n)
  BY <1>1 DEF SameTree
<1>3. \A v \in In(o) : v \in Uids
  BY DEF In
<1> QED BY <1>1, <1>2, <1>3 DEF Listed

(* The record of an object as it is made. *)
IsNew(a, s, p) == /\ a.slot = s /\ a.wslot = 0 /\ a.from = p
                  /\ a.instances = {} /\ a.changed = << >>

(* From one record of an object to another: u becomes an instance of p, or  *)
(* the instances in tf leave.                                               *)
SameBut(a, b) == /\ a.from = b.from /\ a.slot = b.slot /\ a.wslot = b.wslot
                 /\ a.changed = b.changed /\ (a = NoObject <=> b = NoObject)
Grown(o, n, u, p) == \A v \in Uids \ {u} :
    /\ SameBut(Cu(n, v), Cu(o, v))
    /\ Cu(n, v).instances = Cu(o, v).instances \union (IF v = p THEN {u} ELSE {})
Shrunk(o, n, tf) == \A v \in Uids \ tf :
    /\ SameBut(Cu(n, v), Cu(o, v))
    /\ Cu(n, v).instances = Cu(o, v).instances \
           {i \in Cu(o, v).instances : i \in tf /\ Cu(o, i).from = v}

(* A new object: no other comes from it, so there is no circle.             *)
LEMMA Born ==
  ASSUME NEW o, NEW n, Listed(o), Acyclic(o), UidAssumption, SlotAssumption,
         \A v \in Uids : Cu(o, v).from \in Uids \union {0},
         NEW u \in Uids \ In(o), NEW p \in In(o) \union {0}, NEW s \in Slots,
         IsNew(Cu(n, u), s, p),
         Grown(o, n, u, p)
  PROVE  In(n) = In(o) \union {u} /\ Listed(n) /\ Acyclic(n)
<1> USE DEF Grown, SameBut
<1>1. /\ Cu(n, u).slot = s /\ Cu(n, u).wslot = 0 /\ Cu(n, u).from = p
      /\ Cu(n, u).instances = {} /\ Cu(n, u).changed = << >>
      /\ Cu(n, u) # NoObject
  <2>1. s # 0 /\ NoObject.slot = 0
    BY DEF NoObject, SlotAssumption
  <2>2. Cu(n, u).slot = s
    BY DEF IsNew
  <2> QED BY <2>1, <2>2 DEF IsNew
<1>2. In(n) = In(o) \union {u}
  BY <1>1 DEF In
<1>3. \A v \in In(o) : v \in Uids /\ v # u
  BY DEF In
<1>4. p # u
  BY <1>3, UidAssumption
<1>5. \A v \in In(o) : Cu(o, v).from \in In(o) \union {0}
  BY DEF Listed
<1>6. Listed(n)
  <2>1. \A v \in In(n) : Cu(n, v).slot \in Slots /\ Cu(n, v).wslot \in {0, Cu(n, v).slot}
    BY <1>1, <1>2, <1>3 DEF Listed
  <2>2. \A v \in Uids : Cu(n, v).changed = << >>
    BY <1>1 DEF Listed
  <2>3. ASSUME NEW v \in In(n), Cu(n, v).from # 0
        PROVE  Cu(n, v).from \in In(n) /\ v \in Cu(n, Cu(n, v).from).instances
    <3>1. CASE v = u
      BY <1>1, <1>2, <1>3, <1>4, <2>3, <3>1
    <3>2. CASE v # u
      <4>1. v \in In(o) /\ Cu(n, v).from = Cu(o, v).from
        BY <1>2, <1>3, <3>2
      <4>2. Cu(o, v).from \in In(o) /\ v \in Cu(o, Cu(o, v).from).instances
        BY <2>3, <4>1 DEF Listed
      <4>3. v \in Cu(n, Cu(o, v).from).instances
        BY <1>3, <4>2
      <4> QED BY <1>2, <4>1, <4>2, <4>3
    <3> QED BY <3>1, <3>2
  <2>4. ASSUME NEW q \in In(n), NEW i \in Cu(n, q).instances
        PROVE  i \in In(n) /\ Cu(n, i).from = q
    <3>1. q \in In(o) /\ q # u
      BY <1>1, <1>2, <1>3, <2>4
    <3>2. CASE i \in Cu(o, q).instances
      BY <1>2, <1>3, <3>1, <3>2 DEF Listed
    <3>3. CASE i = u /\ q = p
      BY <1>1, <1>2, <3>3
    <3> QED BY <1>3, <2>4, <3>1, <3>2, <3>3
  <2> QED BY <2>1, <2>2, <2>3, <2>4 DEF Listed
<1>7. Acyclic(n)
  <2> SUFFICES ASSUME NEW T \in SUBSET In(n), T # {}
               PROVE  \E t \in T : Cu(n, t).from \notin T
    BY DEF Acyclic
  <2>1. CASE T \ {u} = {}
    <3>1. u \in T /\ T = {u}
      BY <2>1
    <3> QED BY <1>1, <1>4, <3>1
  <2>2. CASE T \ {u} # {}
    <3>1. T \ {u} \in SUBSET In(o)
      BY <1>2
    <3>2. PICK t \in T \ {u} : Cu(o, t).from \notin T \ {u}
      BY <2>2, <3>1 DEF Acyclic
    <3>3. t \in In(o) /\ Cu(n, t).from = Cu(o, t).from /\ Cu(o, t).from # u
      BY <1>3, <1>5, <3>1, <3>2, UidAssumption
    <3> QED BY <3>2, <3>3
  <2> QED BY <2>1, <2>2
<1> QED BY <1>2, <1>6, <1>7

(* The collection: who is not destroyed has a prefab and instances that are *)
(* not.                                                                     *)
LEMMA Collected ==
  ASSUME NEW o, NEW n, NEW tf \in SUBSET Uids, Listed(o), Acyclic(o), Swept(o, tf), UidAssumption,
         \A v \in Uids \intersect tf : Cu(n, v) = NoObject,
         Shrunk(o, n, tf)
  PROVE  In(n) = In(o) \ tf /\ Listed(n) /\ Acyclic(n)
<1> USE DEF Shrunk, SameBut
<1>1. In(n) = In(o) \ tf
  BY DEF In
<1>2. \A v \in In(o) : v \in Uids
  BY DEF In
<1>3. \A v \in In(n) : Cu(n, v).instances = Cu(o, v).instances \ tf
  BY <1>1, <1>2 DEF Listed
<1>4. Listed(n)
  <2>1. \A v \in In(n) : Cu(n, v).slot \in Slots /\ Cu(n, v).wslot \in {0, Cu(n, v).slot}
    BY <1>1, <1>2 DEF Listed
  <2>2. \A v \in Uids : Cu(n, v).changed = << >>
    BY DEF Listed, NoObject
  <2>3. ASSUME NEW v \in In(n), Cu(n, v).from # 0
        PROVE  Cu(n, v).from \in In(n) /\ v \in Cu(n, Cu(n, v).from).instances
    <3>1. v \in In(o) /\ v \notin tf /\ Cu(n, v).from = Cu(o, v).from
      BY <1>1, <1>2
    <3>2. Cu(o, v).from \in In(o) /\ v \in Cu(o, Cu(o, v).from).instances
      BY <2>3, <3>1 DEF Listed
    <3>3. Cu(o, v).from \notin tf
      BY <3>1, <3>2 DEF Swept
    <3>4. Cu(o, v).from \in In(n)
      BY <1>1, <3>2, <3>3
    <3> QED BY <1>3, <3>1, <3>2, <3>4
  <2>4. ASSUME NEW q \in In(n), NEW i \in Cu(n, q).instances
        PROVE  i \in In(n) /\ Cu(n, i).from = q
    <3>1. q \in In(o) /\ i \in Cu(o, q).instances /\ i \notin tf
      BY <1>1, <1>3, <2>4
    <3>2. i \in In(o) /\ Cu(o, i).from = q
      BY <3>1 DEF Listed
    <3> QED BY <1>1, <1>2, <3>1, <3>2
  <2> QED BY <2>1, <2>2, <2>3, <2>4 DEF Listed
<1>5. Acyclic(n)
  <2> SUFFICES ASSUME NEW T \in SUBSET In(n), T # {}
               PROVE  \E t \in T : Cu(n, t).from \notin T
    BY DEF Acyclic
  <2>1. T \in SUBSET In(o)
    BY <1>1
  <2>2. PICK t \in T : Cu(o, t).from \notin T
    BY <2>1 DEF Acyclic
  <2>3. t \in Uids \ tf
    BY <1>1, <1>2
  <2> QED BY <2>2, <2>3
<1> QED BY <1>1, <1>4, <1>5

(* No object is an instance of itself. *)
LEMMA NotOfItself ==
  ASSUME NEW o, Listed(o), Acyclic(o), NEW u \in In(o)
  PROVE  u \notin Cu(o, u).instances
<1>1. {u} \in SUBSET In(o) /\ {u} # {}
  OBVIOUS
<1>2. Cu(o, u).from # u
  BY <1>1 DEF Acyclic
<1> QED BY <1>2 DEF Listed

---------------------------------------------------------------------------
(* The owners of typed values. *)

(* A place taken from the pool: it is no longer fresh or free.              *)
Taken(s, fr, fi, fr2, fi2) ==
    fr2 = fr \ {s} /\ fi2[s] = 0 /\ \A r \in Slots \ {s} : fi2[r] = fi[r]

(* The place that _new_typed_object hands out had no owner and is zero.     *)
LEMMA PlaceTaken ==
  ASSUME Types, NEW d, NEW g, Owners(objects, d, g, fresh, freeIdx, toFreeIdx),
         Clean(fresh, freeIdx, pool), NEW s, TakeSlot(s)
  PROVE  /\ s \in Slots /\ ~ Owned(s, objects, d, g) /\ toFreeIdx[s] = 0 /\ pool[s] = Zero
         /\ Taken(s, fresh, freeIdx, fresh', freeIdx')
         /\ freeIdx' \in [Slots -> Nat] /\ fresh' \subseteq Slots
<1>1. s \in Slots /\ (s \in fresh \/ freeIdx[s] > 0)
  BY DEF TakeSlot, NewSlots, Types
<1>2. ~ Owned(s, objects, d, g) /\ toFreeIdx[s] = 0 /\ (s \in fresh => freeIdx[s] = 0)
      /\ (s \notin fresh => freeIdx[s] = 1)
  BY <1>1 DEF Owners, InOnePlace
<1>3. pool[s] = Zero
  BY <1>1 DEF Clean
<1>4. freeIdx' = IF s \in fresh THEN freeIdx ELSE [freeIdx EXCEPT ![s] = @ - 1]
  BY DEF TakeSlot
<1>5. freeIdx' \in [Slots -> Nat] /\ freeIdx'[s] = 0 /\ \A r \in Slots \ {s} : freeIdx'[r] = freeIdx[r]
  <2>1. CASE s \in fresh
    BY <1>2, <1>4, <2>1 DEF Types
  <2>2. CASE s \notin fresh
    BY <1>1, <1>2, <1>4, <2>2 DEF Types
  <2> QED BY <2>1, <2>2
<1> QED BY <1>1, <1>2, <1>3, <1>5 DEF Taken, TakeSlot, Types

(* A place that is taken and written, and no other, leaves the free clean.  *)
LEMMA CleanTaken ==
  ASSUME NEW s \in Slots, NEW fr, NEW fi, NEW fr2, NEW fi2, NEW a, NEW b,
         Clean(fr, fi, a), Taken(s, fr, fi, fr2, fi2), \A r \in Slots \ {s} : b[r] = a[r]
  PROVE  Clean(fr2, fi2, b)
<1> SUFFICES ASSUME NEW r \in Slots, fi2[r] > 0 \/ r \in fr2 PROVE b[r] = Zero
  BY DEF Clean
<1>1. r # s
  BY DEF Taken
<1> QED BY <1>1 DEF Clean, Taken

(* Nothing that owners depend on changes. *)
LEMMA OwnersSame ==
  ASSUME NEW o, NEW n, NEW d, NEW g, NEW fr, NEW fi, NEW ti, Owners(o, d, g, fr, fi, ti),
         In(n) = In(o), \A v \in In(o) : Cu(n, v).slot = Cu(o, v).slot,
         \A v \in d : Dr(n, v).wslot = Dr(o, v).wslot
  PROVE  Owners(n, d, g, fr, fi, ti)
<1>1. \A s \in Slots : Owned(s, n, d, g) <=> Owned(s, o, d, g)
  BY DEF Owned
<1>2. OwnedOnce(n, d, g)
  BY DEF Owners, OwnedOnce
<1>3. InOnePlace(n, d, g, fr, fi, ti)
  BY <1>1 DEF Owners, InOnePlace
<1>4. GivenUp(n, g, ti)
  BY DEF Owners, GivenUp
<1> QED BY <1>2, <1>3, <1>4 DEF Owners

(* A new object takes a place. *)
LEMMA OwnersBorn ==
  ASSUME NEW o, NEW n, NEW d, NEW g, NEW fr, NEW fi, NEW ti, Owners(o, d, g, fr, fi, ti),
         NEW fr2, NEW fi2, NEW s \in Slots, ~ Owned(s, o, d, g), ti[s] = 0, Taken(s, fr, fi, fr2, fi2),
         NEW u, u \notin In(o), In(n) = In(o) \union {u}, Cu(n, u).slot = s,
         \A v \in In(o) : Cu(n, v).slot = Cu(o, v).slot,
         \A v \in d : Dr(n, v).wslot = Dr(o, v).wslot
  PROVE  Owners(n, d, g, fr2, fi2, ti)
<1>1. u \notin g
  BY DEF Owners, GivenUp
<1>2. In(n) \ g = (In(o) \ g) \union {u}
  BY <1>1
<1>3. \A r \in Slots \ {s} : Owned(r, n, d, g) <=> Owned(r, o, d, g)
  BY <1>2 DEF Owned
<1>4. Owned(s, n, d, g)
  BY <1>2 DEF Owned
<1>5. /\ \A v \in In(o) \ g : Cu(o, v).slot # s
      /\ \A v \in d : Dr(o, v).wslot # s
  BY DEF Owned
<1>6. OwnedOnce(n, d, g)
  BY <1>2, <1>5 DEF Owners, OwnedOnce
<1>7. InOnePlace(n, d, g, fr2, fi2, ti)
  BY <1>3, <1>4 DEF Owners, InOnePlace, Taken
<1>8. GivenUp(n, g, ti)
  BY <1>1 DEF Owners, GivenUp
<1> QED BY <1>6, <1>7, <1>8 DEF Owners

(* A new writer takes a place. *)
LEMMA OwnersDraft ==
  ASSUME NEW o, NEW n, NEW d, NEW g, NEW fr, NEW fi, NEW ti, Owners(o, d, g, fr, fi, ti),
         NEW fr2, NEW fi2, NEW s \in Slots, ~ Owned(s, o, d, g), ti[s] = 0, Taken(s, fr, fi, fr2, fi2),
         NEW u, u \notin d, In(n) = In(o), Dr(n, u).wslot = s,
         \A v \in In(o) : Cu(n, v).slot = Cu(o, v).slot,
         \A v \in d : Dr(n, v).wslot = Dr(o, v).wslot
  PROVE  Owners(n, d \union {u}, g, fr2, fi2, ti)
<1> DEFINE d2 == d \union {u}
<1>1. \A r \in Slots \ {s} : Owned(r, n, d2, g) <=> Owned(r, o, d, g)
  BY DEF Owned
<1>2. Owned(s, n, d2, g)
  BY DEF Owned
<1>3. /\ \A v \in In(o) \ g : Cu(o, v).slot # s
      /\ \A v \in d : Dr(o, v).wslot # s
  BY DEF Owned
<1>4. OwnedOnce(n, d2, g)
  BY <1>3 DEF Owners, OwnedOnce
<1>5. InOnePlace(n, d2, g, fr2, fi2, ti)
  BY <1>1, <1>2 DEF Owners, InOnePlace, Taken
<1>6. GivenUp(n, g, ti)
  BY DEF Owners, GivenUp
<1> QED BY <1>4, <1>5, <1>6 DEF Owners

(* An object that is destroyed gives up its place. *)
LEMMA OwnersDestroy ==
  ASSUME NEW o, NEW d, NEW g, NEW fr, NEW fi, NEW ti \in [Slots -> Nat], Owners(o, d, g, fr, fi, ti),
         NEW u \in In(o) \ g, Cu(o, u).slot \in Slots
  PROVE  Owners(o, d, g \union {u}, fr, fi, [ti EXCEPT ![Cu(o, u).slot] = @ + 1])
<1> DEFINE s == Cu(o, u).slot
           g2 == g \union {u}
           ti2 == [ti EXCEPT ![s] = @ + 1]
<1>1. \A r \in Slots \ {s} : Owned(r, o, d, g2) <=> Owned(r, o, d, g)
  BY DEF Owned
<1>2. Owned(s, o, d, g)
  BY DEF Owned
<1>3. ~ Owned(s, o, d, g2)
  BY DEF Owned, Owners, OwnedOnce
<1>4. OwnedOnce(o, d, g2)
  BY DEF Owners, OwnedOnce
<1>5. ti[s] = 0 /\ fi[s] = 0 /\ s \notin fr
  BY <1>2 DEF Owners, InOnePlace
<1>6. ti2[s] = 1 /\ \A r \in Slots \ {s} : ti2[r] = ti[r]
  BY <1>5
<1> HIDE DEF ti2, s
<1>7. InOnePlace(o, d, g2, fr, fi, ti2)
  <2> SUFFICES ASSUME NEW r \in Slots
               PROVE  \/ r \in fr /\ fi[r] = 0 /\ ti2[r] = 0 /\ ~ Owned(r, o, d, g2)
                      \/ r \notin fr /\ fi[r] = 1 /\ ti2[r] = 0 /\ ~ Owned(r, o, d, g2)
                      \/ r \notin fr /\ fi[r] = 0 /\ ti2[r] = 1 /\ ~ Owned(r, o, d, g2)
                      \/ r \notin fr /\ fi[r] = 0 /\ ti2[r] = 0 /\ Owned(r, o, d, g2)
    BY DEF InOnePlace
  <2>1. CASE r = s
    BY <1>3, <1>5, <1>6, <2>1
  <2>2. CASE r # s
    BY <1>1, <1>6, <2>2 DEF Owners, InOnePlace
  <2> QED BY <2>1, <2>2
<1>8. GivenUp(o, g2, ti2)
  <2> SUFFICES ASSUME NEW v \in g2 PROVE v \in In(o) /\ ti2[Cu(o, v).slot] = 1
    BY DEF GivenUp
  <2>1. CASE v = u
    BY <1>6, <2>1 DEF s
  <2>2. CASE v # u
    <3>1. v \in g /\ v \in In(o) /\ ti[Cu(o, v).slot] = 1
      BY <2>2 DEF Owners, GivenUp
    <3>2. Cu(o, v).slot # s
      BY <1>5, <3>1
    <3>3. Cu(o, v).slot \in Slots => ti2[Cu(o, v).slot] = 1
      BY <1>6, <3>1, <3>2
    <3>4. ti2 = [ti EXCEPT ![s] = @ + 1]
      BY DEF ti2
    <3> QED BY <3>1, <3>2, <3>3, <3>4
  <2> QED BY <2>1, <2>2
<1> QED BY <1>4, <1>7, <1>8 DEF Owners, ti2, s

(* A commit gives up the old place and keeps the one of the writer.         *)
LEMMA OwnersCommit ==
  ASSUME NEW o, NEW n, NEW d, NEW g, NEW fr, NEW fi, NEW ti \in [Slots -> Nat],
         Owners(o, d, g, fr, fi, ti), NEW u \in (In(o) \ g) \intersect d,
         Cu(o, u).slot \in Slots, Dr(o, u).wslot \in Slots, In(n) = In(o),
         Cu(n, u).slot = Dr(o, u).wslot,
         \A v \in In(o) \ {u} : Cu(n, v).slot = Cu(o, v).slot,
         \A v \in d \ {u} : Dr(n, v).wslot = Dr(o, v).wslot
  PROVE  Owners(n, d \ {u}, g, fr, fi, [ti EXCEPT ![Cu(o, u).slot] = @ + 1])
<1> DEFINE s == Cu(o, u).slot
           t == Dr(o, u).wslot
           d2 == d \ {u}
           ti2 == [ti EXCEPT ![s] = @ + 1]
<1>1. s # t
  BY DEF Owners, OwnedOnce
<1>2. \A v \in (In(o) \ g) \ {u} : Cu(o, v).slot # s /\ Cu(o, v).slot # t
  BY DEF Owners, OwnedOnce
<1>3. \A v \in d \ {u} : Dr(o, v).wslot # s /\ Dr(o, v).wslot # t
  BY DEF Owners, OwnedOnce
<1>4. Owned(s, o, d, g) /\ Owned(t, o, d, g)
  BY DEF Owned
<1>5. Owned(t, n, d2, g) /\ ~ Owned(s, n, d2, g)
  <2>1. Owned(t, n, d2, g)
    BY DEF Owned
  <2>2. ASSUME NEW v \in In(n) \ g PROVE Cu(n, v).slot # s
    BY <1>1, <1>2
  <2>3. ASSUME NEW v \in d2 PROVE Dr(n, v).wslot # s
    BY <1>3
  <2> QED BY <2>1, <2>2, <2>3 DEF Owned
<1>6. \A r \in Slots \ {s, t} : Owned(r, n, d2, g) <=> Owned(r, o, d, g)
  BY DEF Owned
<1>7. OwnedOnce(n, d2, g)
  <2>1. \A v, x \in In(n) \ g : Cu(n, v).slot = Cu(n, x).slot => v = x
    BY <1>2 DEF Owners, OwnedOnce
  <2>2. \A v, x \in d2 : Dr(n, v).wslot = Dr(n, x).wslot => v = x
    BY DEF Owners, OwnedOnce
  <2>3. \A v \in In(n) \ g : \A x \in d2 : Cu(n, v).slot # Dr(n, x).wslot
    BY <1>3 DEF Owners, OwnedOnce
  <2> QED BY <2>1, <2>2, <2>3 DEF OwnedOnce
<1>8. /\ ti[s] = 0 /\ fi[s] = 0 /\ s \notin fr
      /\ ti[t] = 0 /\ fi[t] = 0 /\ t \notin fr
  BY <1>4 DEF Owners, InOnePlace
<1>9. ti2[s] = 1 /\ \A r \in Slots \ {s} : ti2[r] = ti[r]
  BY <1>8
<1>10. ti2 = [ti EXCEPT ![s] = @ + 1] /\ s \in Slots /\ t \in Slots
  OBVIOUS
<1>11. GivenUp(n, g, ti2)
  <2> SUFFICES ASSUME NEW v \in g PROVE v \in In(n) /\ ti2[Cu(n, v).slot] = 1
    BY DEF GivenUp
  <2>1. v \in In(o) /\ ti[Cu(o, v).slot] = 1 /\ v # u
    BY DEF Owners, GivenUp
  <2>2. Cu(n, v).slot = Cu(o, v).slot /\ Cu(o, v).slot # s
    BY <1>8, <2>1
  <2> QED BY <1>9, <2>1, <2>2
<1> HIDE DEF ti2, s, t
<1>12. InOnePlace(n, d2, g, fr, fi, ti2)
  <2> SUFFICES ASSUME NEW r \in Slots
               PROVE  \/ r \in fr /\ fi[r] = 0 /\ ti2[r] = 0 /\ ~ Owned(r, n, d2, g)
                      \/ r \notin fr /\ fi[r] = 1 /\ ti2[r] = 0 /\ ~ Owned(r, n, d2, g)
                      \/ r \notin fr /\ fi[r] = 0 /\ ti2[r] = 1 /\ ~ Owned(r, n, d2, g)
                      \/ r \notin fr /\ fi[r] = 0 /\ ti2[r] = 0 /\ Owned(r, n, d2, g)
    BY DEF InOnePlace
  <2>1. CASE r = s
    BY <1>5, <1>8, <1>9, <2>1
  <2>2. CASE r = t
    BY <1>1, <1>5, <1>8, <1>9, <2>2
  <2>3. CASE r # s /\ r # t
    BY <1>6, <1>9, <2>3 DEF Owners, InOnePlace
  <2> QED BY <2>1, <2>2, <2>3
<1> QED BY <1>7, <1>11, <1>12 DEF Owners, ti2, s, t

(* The collection frees what was given up. *)
LEMMA OwnersCollected ==
  ASSUME NEW o, NEW n, NEW g, NEW fr, NEW fi, NEW ti, Owners(o, {}, g, fr, fi, ti),
         NEW fi2, NEW ti2, In(n) = In(o) \ g,
         \A v \in In(o) \ g : Cu(n, v).slot = Cu(o, v).slot,
         \A r \in Slots : fi2[r] = fi[r] + ti[r] /\ ti2[r] = 0
  PROVE  Owners(n, {}, {}, fr, fi2, ti2)
<1>1. \A r \in Slots : Owned(r, n, {}, {}) <=> Owned(r, o, {}, g)
  BY DEF Owned
<1>2. OwnedOnce(n, {}, {})
  BY DEF Owners, OwnedOnce
<1>3. InOnePlace(n, {}, {}, fr, fi2, ti2)
  BY <1>1 DEF Owners, InOnePlace
<1> QED BY <1>2, <1>3 DEF Owners, GivenUp

---------------------------------------------------------------------------
(* How calls change the stack. *)

(* The innermost call goes on to g. *)
LEMMA Replaced ==
  ASSUME NEW X, NEW q \in Seq(X), q # << >>, NEW g, NEW n, n = Push(g, Rest(q))
  PROVE  /\ g \in X => n \in Seq(X)
         /\ n # << >> /\ Rest(n) = Rest(q)
         /\ Len(n) = Len(q) /\ Len(q) \in Nat \ {0}
         /\ DOMAIN q = 1 .. Len(q) /\ DOMAIN n = 1 .. Len(q)
         /\ n[1] = g /\ \A k \in 2 .. Len(q) : n[k] = q[k]
<1> DEFINE r == Rest(q)
<1>1. /\ r \in Seq(X) /\ Len(q) = Len(r) + 1 /\ Len(r) \in Nat /\ q = Push(Head(q), r)
      /\ n = Push(g, r)
  BY TopAndRest
<1> HIDE DEF r
<1>2. /\ DOMAIN n = 1 .. Len(r) + 1 /\ Len(n) = Len(r) + 1 /\ n[1] = g
      /\ Rest(n) = r /\ n # << >> /\ (g \in X => n \in Seq(X))
      /\ \A k \in 2 .. Len(r) + 1 : n[k] = r[k - 1]
  BY <1>1, OnTop
<1>3. \A f : /\ DOMAIN Push(f, r) = 1 .. Len(r) + 1
              /\ \A k \in 2 .. Len(r) + 1 : Push(f, r)[k] = r[k - 1]
  BY <1>1, OnTop
<1>4. /\ DOMAIN q = 1 .. Len(r) + 1
      /\ \A k \in 2 .. Len(r) + 1 : q[k] = r[k - 1]
  BY <1>1, <1>3
<1> QED BY <1>1, <1>2, <1>4 DEF r

(* It goes on to g and calls h. *)
Deeper(n, h, g, q) ==
    /\ n # << >> /\ Rest(n) = Push(g, Rest(q))
    /\ Len(n) = Len(q) + 1 /\ Len(q) \in Nat \ {0}
    /\ DOMAIN q = 1 .. Len(q) /\ DOMAIN n = 1 .. Len(q) + 1
    /\ n[1] = h /\ n[2] = g /\ \A k \in 3 .. Len(q) + 1 : n[k] = q[k - 1]

(* The stack then. *)
LEMMA Pushed ==
  ASSUME NEW X, NEW q \in Seq(X), q # << >>, NEW g \in X, NEW h,
         NEW n, n = Push(h, Push(g, Rest(q)))
  PROVE  /\ h \in X => n \in Seq(X)
         /\ Rest(n) \in Seq(X) /\ Deeper(n, h, g, q)
<1> DEFINE m == Push(g, Rest(q))
<1>1. /\ m \in Seq(X) /\ Len(m) = Len(q) /\ Len(q) \in Nat \ {0} /\ m[1] = g
      /\ DOMAIN q = 1 .. Len(q) /\ \A k \in 2 .. Len(q) : m[k] = q[k]
  BY Replaced
<1>2. n = Push(h, m)
  OBVIOUS
<1> HIDE DEF m
<1>3. /\ DOMAIN n = 1 .. Len(m) + 1 /\ Len(n) = Len(m) + 1 /\ n[1] = h
      /\ Rest(n) = m /\ n # << >> /\ (h \in X => n \in Seq(X))
      /\ \A k \in 2 .. Len(m) + 1 : n[k] = m[k - 1]
  BY <1>1, <1>2, OnTop
<1>4. n[2] = g
  BY <1>1, <1>3
<1>5. \A k \in 3 .. Len(q) + 1 : n[k] = q[k - 1]
  BY <1>1, <1>3
<1>6. Rest(n) = Push(g, Rest(q))
  BY <1>3 DEF m
<1> QED BY <1>1, <1>3, <1>4, <1>5, <1>6 DEF Deeper

(* It returns. *)
LEMMA Popped ==
  ASSUME NEW X, NEW q \in Seq(X), q # << >>
  PROVE  /\ Rest(q) \in Seq(X) /\ Len(q) = Len(Rest(q)) + 1 /\ Len(Rest(q)) \in Nat
         /\ DOMAIN q = 1 .. Len(q) /\ DOMAIN Rest(q) = 1 .. Len(Rest(q))
         /\ \A k \in 1 .. Len(Rest(q)) : Rest(q)[k] = q[k + 1]
         /\ q = Push(q[1], Rest(q)) /\ Head(q) = q[1] /\ q[1] \in X
<1> DEFINE r == Rest(q)
<1>1. /\ r \in Seq(X) /\ Len(q) = Len(r) + 1 /\ Len(r) \in Nat /\ q = Push(Head(q), r)
      /\ Head(q) = q[1] /\ Head(q) \in X
  BY TopAndRest
<1>2. /\ DOMAIN q = 1 .. Len(r) + 1 /\ DOMAIN r = 1 .. Len(r)
      /\ \A k \in 1 .. Len(r) : q[k + 1] = r[k]
  BY <1>1, OnTop
<1> QED BY <1>1, <1>2

(* The steps of the model, in these terms. *)
LEMMA Steps ==
  ASSUME NEW X, calls \in Seq(X), calls # << >>, NEW f, NEW g
  PROVE  /\ Become(f) <=> calls' = Push(f, Rest(calls))
         /\ Call(f, g) <=> calls' = Push(g, Push(f, Rest(calls)))
<1>1. Rest(calls) \in Seq(X \union {f, g})
  BY TopAndRest
<1> QED BY <1>1 DEF Become, Call, Push, Rest

(* What is in progress, told from the innermost call.                       *)
LEMMA WhichCall ==
  ASSUME NEW q \in Seq(Frames), q # << >>, NEW o, NEW wr, NEW tf, InCalls(q, o, wr, tf)
  PROVE  /\ q[1].op \in {"copy_sub", "from_end"} =>
               Len(q) = 1 /\ q[1] \in CreateFrames /\ Creates(q[1], o, wr, tf)
         /\ q[1].op = "create_from" =>
               \/ Len(q) = 1 /\ q[1] \in CreateFrames /\ Creates(q[1], o, wr, tf)
               \/ /\ q[1] \in NoneFrames /\ Rest(q) \in Seq(CommitFrames)
                  /\ Commits(Rest(q), o, wr, tf)
         /\ q[1].op \in {"set_sub", "assign"} =>
               \/ Len(q) = 1 /\ q[1] \in ClearFrames /\ q[1].obj[2] \in wr
               \/ /\ q[1] \in ClearFrames /\ Rest(q) \in Seq(CommitFrames)
                  /\ Commits(Rest(q), o, wr, tf)
                  /\ Len(q) > 1 /\ q[1].obj = Draft(q[2].uid) /\ q[2].op = "follow"
         /\ q[1].op \in {"destroy", "destroy_instances"} =>
               q \in Seq(DestroyFrames) /\ Destroys(q, o, wr, tf)
         /\ q[1].op \in CommitOps =>
               q \in Seq(CommitFrames) /\ Commits(q, o, wr, tf)
         /\ q[1].op \notin {"attach", "default_sub"}
<1>1. /\ \A f \in CreateFrames : f.op \in {"create_from", "copy_sub", "from_end"}
      /\ \A f \in DestroyFrames : f.op \in {"destroy", "destroy_instances"}
      /\ \A f \in CommitFrames : f.op \in {"commit", "follow", "follow_set"}
      /\ \A f \in ClearFrames : f.op \in {"set_sub", "assign"}
      /\ \A f \in NoneFrames : f.op = "create_from"
  BY DEF CreateFrames, DestroyFrames, CommitFrames, ClearFrames, NoneFrames
<1>2. \A X : q \in Seq(X) => q[1] \in X
  BY Popped
<1>3. CASE Len(q) = 1 /\ q[1] \in CreateFrames /\ Creates(q[1], o, wr, tf)
  BY <1>1, <1>3 DEF CommitOps
<1>4. CASE q \in Seq(DestroyFrames) /\ Destroys(q, o, wr, tf)
  BY <1>1, <1>2, <1>4 DEF CommitOps
<1>5. CASE q \in Seq(CommitFrames) /\ Commits(q, o, wr, tf)
  BY <1>1, <1>2, <1>5 DEF CommitOps
<1>6. CASE Len(q) = 1 /\ q[1] \in ClearFrames /\ q[1].obj[2] \in wr
  BY <1>1, <1>6 DEF CommitOps
<1>7. CASE /\ Len(q) > 1 /\ Rest(q) \in Seq(CommitFrames) /\ Commits(Rest(q), o, wr, tf)
           /\ Helps(q[1], q[2])
  BY <1>1, <1>7 DEF CommitOps, Helps
<1> QED BY <1>3, <1>4, <1>5, <1>6, <1>7 DEF InCalls

(* The uids when the innermost call returns or goes on.                     *)
LEMMA UidsOfTail ==
  ASSUME NEW X, NEW q \in Seq(X), q # << >>, NEW ops
  PROVE  /\ q[1].op \in ops => UidsAt(q, ops) = {q[1].uid} \union UidsAt(Rest(q), ops)
         /\ q[1].op \notin ops => UidsAt(q, ops) = UidsAt(Rest(q), ops)
<1> DEFINE f == q[1]
           r == Rest(q)
<1>1. q = Push(f, r) /\ r \in Seq(X)
  BY Popped
<1> HIDE DEF f, r
<1>2. /\ f.op \in ops => UidsAt(Push(f, r), ops) = {f.uid} \union UidsAt(r, ops)
      /\ f.op \notin ops => UidsAt(Push(f, r), ops) = UidsAt(r, ops)
  BY <1>1, UidsOnTop
<1> QED BY <1>1, <1>2 DEF f, r

(* And when it goes on to g. *)
LEMMA UidsReplaced ==
  ASSUME NEW X, NEW q \in Seq(X), q # << >>, NEW g, NEW ops
  PROVE  /\ g.op \in ops => UidsAt(Push(g, Rest(q)), ops) = {g.uid} \union UidsAt(Rest(q), ops)
         /\ g.op \notin ops => UidsAt(Push(g, Rest(q)), ops) = UidsAt(Rest(q), ops)
<1> DEFINE r == Rest(q)
<1>1. r \in Seq(X)
  BY Popped
<1> HIDE DEF r
<1>2. /\ g.op \in ops => UidsAt(Push(g, r), ops) = {g.uid} \union UidsAt(r, ops)
      /\ g.op \notin ops => UidsAt(Push(g, r), ops) = UidsAt(r, ops)
  BY <1>1, UidsOnTop
<1> QED BY <1>2 DEF r

---------------------------------------------------------------------------
(* The calls that destroy objects. *)

(* One of them: only the innermost may not have begun.                      *)
Destroying(q, k, o, tf) ==
    /\ q[k].uid \in Uids /\ q[k] \in DestroyFrames
    /\ \/ q[k].op = "destroy" /\ k = 1 /\ q[k].uid \notin tf \union UidsAt(q, DestroyOps)
       \/ /\ q[k].op = "destroy_instances" /\ q[k].todo \in SUBSET Uids
          /\ q[k].uid \in UidsAt(q, DestroyOps)
          /\ q[k].uid \in In(o) /\ q[k].uid \notin tf
          /\ q[k].todo \subseteq Cu(o, q[k].uid).instances
          /\ q[k].todo \intersect (tf \union UidsAt(q, DestroyOps)) = {}
          /\ Cu(o, q[k].uid).instances \subseteq q[k].todo \union tf \union Above(q, k)

(* Every call of such a stack is one. *)
LEMMA DestroyCalls ==
  ASSUME NEW q \in Seq(DestroyFrames), NEW o, NEW wr, NEW tf, Destroys(q, o, wr, tf)
  PROVE  /\ Len(q) \in Nat \ {0} /\ DOMAIN q = 1 .. Len(q) /\ q # << >>
         /\ \A k \in 1 .. Len(q) : Destroying(q, k, o, tf)
         /\ UidsAt(q, CommitOps) = {}
<1>1. Len(q) \in Nat \ {0} /\ DOMAIN q = 1 .. Len(q) /\ q # << >>
  BY Popped DEF Destroys
<1>2. \A k \in 1 .. Len(q) : q[k] \in DestroyFrames
  BY <1>1
<1>3. \A f \in DestroyFrames :
         /\ f.uid \in Uids /\ f.op \notin CommitOps
         /\ f.op = "destroy" \/ (f.op = "destroy_instances" /\ f.todo \in SUBSET Uids)
  <2> SUFFICES ASSUME NEW f \in DestroyFrames
               PROVE  /\ f.uid \in Uids /\ f.op \notin CommitOps
                      /\ f.op = "destroy" \/ (f.op = "destroy_instances" /\ f.todo \in SUBSET Uids)
    OBVIOUS
  <2>1. CASE f \in [op : {"destroy"}, uid : Uids]
    <3>1. f.uid \in Uids /\ f.op = "destroy"
      BY <2>1
    <3>2. f.op \notin CommitOps
      BY <3>1 DEF CommitOps
    <3> QED BY <3>1, <3>2, Zenon
  <2>2. CASE f \in [op : {"destroy_instances"}, uid : Uids, todo : SUBSET Uids]
    <3>1. f.uid \in Uids /\ f.op = "destroy_instances" /\ f.todo \in SUBSET Uids
      BY <2>2
    <3> QED BY <3>1 DEF CommitOps
  <2> QED BY <2>1, <2>2, Zenon DEF DestroyFrames
<1>4. \A k \in 1 .. Len(q) : q[k].op = "destroy_instances" => q[k].uid \in UidsAt(q, DestroyOps)
  BY <1>1 DEF UidsAt, DestroyOps
<1>5. UidsAt(q, CommitOps) = {}
  BY <1>1, <1>2, <1>3 DEF UidsAt
<1>6. Sweeps(q, o, tf)
  BY DEF Destroys
<1>7. ASSUME NEW k \in 1 .. Len(q) PROVE Destroying(q, k, o, tf)
  <2>1. IF q[k].op = "destroy" THEN k = 1 /\ q[k].uid \notin tf \union UidsAt(q, DestroyOps)
        ELSE /\ q[k].uid \in In(o) /\ q[k].uid \notin tf
             /\ q[k].todo \subseteq Cu(o, q[k].uid).instances
             /\ q[k].todo \intersect (tf \union UidsAt(q, DestroyOps)) = {}
             /\ Cu(o, q[k].uid).instances \subseteq q[k].todo \union tf \union Above(q, k)
    BY <1>1, <1>6 DEF Sweeps
  <2>2. CASE q[k].op = "destroy"
    BY <1>2, <1>3, <2>1, <2>2 DEF Destroying
  <2>3. CASE q[k].op # "destroy"
    BY <1>2, <1>3, <1>4, <2>1, <2>3 DEF Destroying
  <2> QED BY <2>2, <2>3
<1> QED BY <1>1, <1>5, <1>7

(* A uid without an object is one that a client gave.                       *)
LEMMA NotAliveFirst ==
  ASSUME NEW q \in Seq(DestroyFrames), NEW o, NEW wr, NEW tf, Destroys(q, o, wr, tf), Listed(o),
         q[1].uid \notin In(o)
  PROVE  Rest(q) = << >> /\ q[1].op = "destroy" /\ UidsAt(q, DestroyOps) = {}
<1>1. Len(q) \in Nat \ {0} /\ DOMAIN q = 1 .. Len(q) /\ q # << >>
  BY DestroyCalls
<1>2. q[1].op = "destroy"
  <2>1. Destroying(q, 1, o, tf)
    BY <1>1, DestroyCalls
  <2> QED BY <2>1 DEF Destroying
<1>3. CASE Len(q) = 1
  <2>1. Rest(q) = << >>
    BY <1>3, OneCall
  <2>2. q[1].op \notin DestroyOps
    BY <1>2 DEF DestroyOps
  <2>3. UidsAt(q, DestroyOps) = UidsAt(<< >>, DestroyOps)
    BY <1>1, <2>1, <2>2, UidsOfTail
  <2> QED BY <1>2, <2>1, <2>3, UidsNone
<1>4. CASE Len(q) # 1
  <2>1. 1 \in DOMAIN q /\ 2 \in DOMAIN q /\ 2 = 1 + 1
    BY <1>1, <1>4
  <2>2. q[2].uid \in In(o) /\ q[1].uid \in Cu(o, q[2].uid).instances
    BY <2>1 DEF Destroys, Chained
  <2> QED BY <2>2 DEF Listed
<1> QED BY <1>3, <1>4

(* The typed value of u is given up, and its instances are still to go.     *)
LEMMA DestroyStarts ==
  ASSUME NEW q \in Seq(DestroyFrames), NEW o, NEW wr, NEW tf, Destroys(q, o, wr, tf),
         Listed(o), Acyclic(o), q[1].op = "destroy", NEW u \in In(o), u = q[1].uid,
         NEW g \in DestroyFrames, g.op = "destroy_instances", g.uid = u, g.todo = Cu(o, u).instances,
         NEW n, n = Push(g, Rest(q))
  PROVE  /\ n \in Seq(DestroyFrames) /\ Destroys(n, o, wr, tf)
         /\ UidsAt(n, DestroyOps) = UidsAt(q, DestroyOps) \union {u}
         /\ u \notin tf \union UidsAt(q, DestroyOps)
<1> DEFINE gone == tf \union UidsAt(q, DestroyOps)
<1>1. g.op \in DestroyOps /\ q[1].op \notin DestroyOps
  BY DEF DestroyOps
<1>2. q # << >> /\ Chained(q, o) /\ Apart(q)
  BY DEF Destroys
<1>3. /\ n \in Seq(DestroyFrames) /\ n # << >> /\ Len(n) = Len(q) /\ Len(q) \in Nat \ {0}
      /\ DOMAIN q = 1 .. Len(q) /\ DOMAIN n = 1 .. Len(q) /\ n[1] = g
      /\ \A k \in 2 .. Len(q) : n[k] = q[k]
  BY <1>1, <1>2, Replaced
<1>4. \A k \in 1 .. Len(q) : Destroying(q, k, o, tf)
  BY DestroyCalls
<1>5. u \notin gone
  BY <1>3, <1>4 DEF Destroying
<1>6. UidsAt(n, DestroyOps) = UidsAt(q, DestroyOps) \union {u}
  <2>1. UidsAt(n, DestroyOps) = {u} \union UidsAt(Rest(q), DestroyOps)
    BY <1>1, <1>2, UidsReplaced
  <2>2. UidsAt(q, DestroyOps) = UidsAt(Rest(q), DestroyOps)
    BY <1>1, <1>2, UidsOfTail
  <2> QED BY <2>1, <2>2
<1>7. PICK W \in SUBSET Uids : Dooms(W, q, o, wr, tf)
  BY DEF Destroys
<1>8. \A k \in 1 .. Len(q) : n[k].uid = q[k].uid
  BY <1>3
<1>9. \A k \in 2 .. Len(q) : q[k].op = "destroy_instances" /\ q[k].uid \in UidsAt(q, DestroyOps)
  BY <1>3, <1>4 DEF Destroying
<1>10. Chained(n, o)
  <2> SUFFICES ASSUME NEW j \in DOMAIN n, NEW k \in DOMAIN n, k = j + 1
               PROVE  /\ n[k].uid \in In(o) /\ n[j].uid \in Cu(o, n[k].uid).instances
                      /\ n[j].uid \notin n[k].todo
    BY DEF Chained
  <2>1. n[k] = q[k] /\ n[j].uid = q[j].uid
    BY <1>3, <1>8
  <2> QED BY <1>2, <1>3, <2>1 DEF Chained
<1>11. Apart(n)
  BY <1>2, <1>3, <1>8 DEF Apart
<1>12. Cu(o, u).instances \intersect (gone \union {u}) = {}
  <2> SUFFICES ASSUME NEW i \in Cu(o, u).instances PROVE i \notin gone /\ i # u
    OBVIOUS
  <2>1. i # u
    BY NotOfItself
  <2>2. u \in W /\ i \in W /\ i # Bottom(q) /\ Cu(o, i).from = u
    <3>1. u \in W
      BY <1>3, <1>7 DEF Dooms
    <3>2. i \in W
      BY <1>7, <3>1 DEF Dooms, Closed
    <3> QED BY <1>7, <3>1, <3>2 DEF Dooms, Listed
  <2>3. i \notin gone
    BY <1>5, <1>7, <2>2 DEF Dooms
  <2> QED BY <2>1, <2>3
<1>13. ASSUME NEW k \in 2 .. Len(q) PROVE u \notin q[k].todo
  <2>1. CASE k = 2
    <3>1. 1 \in DOMAIN q /\ 2 \in DOMAIN q /\ 2 = 1 + 1
      BY <1>3, <2>1
    <3> QED BY <1>2, <2>1, <3>1 DEF Chained
  <2>2. CASE k > 2
    <3>1. 1 \in DOMAIN q /\ 2 \in DOMAIN q /\ k \in DOMAIN q /\ k # 2 /\ 2 = 1 + 1
      BY <1>3, <2>2
    <3>2. q[2].uid \in In(o) /\ u \in Cu(o, q[2].uid).instances
      BY <1>2, <3>1 DEF Chained
    <3>3. q[k].uid # q[2].uid
      BY <1>2, <3>1 DEF Apart
    <3>4. q[k].todo \subseteq Cu(o, q[k].uid).instances /\ q[k].uid \in In(o)
      BY <1>3, <1>4, <1>9, <3>1 DEF Destroying
    <3> QED BY <3>2, <3>3, <3>4 DEF Listed
  <2> QED BY <2>1, <2>2
<1>14. Sweeps(n, o, tf)
  <2> SUFFICES ASSUME NEW k \in DOMAIN n
               PROVE  /\ n[k].op = "destroy_instances"
                      /\ n[k].uid \in In(o) /\ n[k].uid \notin tf
                      /\ n[k].todo \subseteq Cu(o, n[k].uid).instances
                      /\ n[k].todo \intersect (tf \union UidsAt(n, DestroyOps)) = {}
                      /\ Cu(o, n[k].uid).instances \subseteq n[k].todo \union tf \union Above(n, k)
    BY DEF Sweeps
  <2>1. CASE k = 1
    BY <1>3, <1>5, <1>6, <1>12, <2>1
  <2>2. CASE k # 1
    <3>1. k \in 2 .. Len(q) /\ k \in 1 .. Len(q) /\ k - 1 \in 1 .. Len(q)
      BY <1>3, <2>2
    <3>2. n[k] = q[k] /\ Above(n, k) = Above(q, k)
      BY <1>3, <1>8, <3>1, <2>2 DEF Above
    <3>3. /\ q[k].op = "destroy_instances" /\ q[k].uid \in In(o) /\ q[k].uid \notin tf
          /\ q[k].todo \subseteq Cu(o, q[k].uid).instances
          /\ q[k].todo \intersect gone = {}
          /\ Cu(o, q[k].uid).instances \subseteq q[k].todo \union tf \union Above(q, k)
      BY <1>4, <1>9, <2>2, <3>1 DEF Destroying
    <3>4. u \notin q[k].todo
      BY <1>13, <3>1
    <3> QED BY <1>6, <3>2, <3>3, <3>4
  <2> QED BY <2>1, <2>2
<1>15. Dooms(W, n, o, wr, tf)
  <2>1. Bottom(n) = Bottom(q)
    BY <1>3, <1>8 DEF Bottom
  <2>2. ASSUME NEW i \in W, i \in tf \union UidsAt(n, DestroyOps)
        PROVE  i = Bottom(n) \/ Cu(o, i).from \in tf \union UidsAt(n, DestroyOps)
    <3>1. CASE i \in gone
      BY <1>6, <1>7, <2>1, <3>1 DEF Dooms
    <3>2. CASE i = u /\ Len(q) = 1
      BY <2>1, <3>2 DEF Bottom
    <3>3. CASE i = u /\ Len(q) # 1
      <4>1. 1 \in DOMAIN q /\ 2 \in DOMAIN q /\ 2 \in 2 .. Len(q) /\ 2 = 1 + 1
        BY <1>3, <3>3
      <4>2. q[2].uid \in In(o) /\ u \in Cu(o, q[2].uid).instances
        BY <1>2, <4>1 DEF Chained
      <4>3. q[2].uid \in UidsAt(q, DestroyOps)
        BY <1>9, <4>1
      <4> QED BY <1>6, <3>3, <4>2, <4>3 DEF Listed
    <3> QED BY <1>6, <2>2, <3>1, <3>2, <3>3
  <2>3. \A k \in DOMAIN n : n[k].uid \in W
    BY <1>3, <1>7, <1>8 DEF Dooms
  <2> QED BY <1>7, <2>1, <2>2, <2>3 DEF Dooms
<1> QED BY <1>3, <1>5, <1>6, <1>10, <1>11, <1>14, <1>15 DEF Destroys

(* One of the instances of u is next. *)
LEMMA DestroyNext ==
  ASSUME NEW q \in Seq(DestroyFrames), NEW o, NEW wr, NEW tf, Destroys(q, o, wr, tf),
         q[1].op = "destroy_instances", NEW i \in q[1].todo,
         NEW g \in DestroyFrames, g.op = "destroy_instances", g.uid = q[1].uid,
         g.todo = q[1].todo \ {i},
         NEW h \in DestroyFrames, h.op = "destroy", h.uid = i,
         NEW n, n = Push(h, Push(g, Rest(q)))
  PROVE  /\ n \in Seq(DestroyFrames) /\ Destroys(n, o, wr, tf)
         /\ UidsAt(n, DestroyOps) = UidsAt(q, DestroyOps)
<1> DEFINE gone == tf \union UidsAt(q, DestroyOps)
           u == q[1].uid
<1>1. g.op \in DestroyOps /\ h.op \notin DestroyOps /\ q[1].op \in DestroyOps
  BY DEF DestroyOps
<1>2. q # << >> /\ Chained(q, o) /\ Apart(q)
  BY DEF Destroys
<1>3. /\ n \in Seq(DestroyFrames) /\ n # << >> /\ Len(n) = Len(q) + 1 /\ Len(q) \in Nat \ {0}
      /\ DOMAIN q = 1 .. Len(q) /\ DOMAIN n = 1 .. Len(q) + 1 /\ n[1] = h /\ n[2] = g
      /\ \A k \in 3 .. Len(q) + 1 : n[k] = q[k - 1]
  <2>1. n \in Seq(DestroyFrames) /\ Deeper(n, h, g, q)
    BY <1>2, Pushed
  <2> QED BY <2>1 DEF Deeper
<1>4. \A k \in 1 .. Len(q) : Destroying(q, k, o, tf)
  BY DestroyCalls
<1>5. UidsAt(n, DestroyOps) = UidsAt(q, DestroyOps)
  <2>1. Push(g, Rest(q)) \in Seq(DestroyFrames)
    BY <1>2, Replaced
  <2>2. UidsAt(n, DestroyOps) = UidsAt(Push(g, Rest(q)), DestroyOps)
    BY <1>1, <2>1, UidsOnTop
  <2>3. UidsAt(Push(g, Rest(q)), DestroyOps) = {u} \union UidsAt(Rest(q), DestroyOps)
    BY <1>1, <1>2, UidsReplaced
  <2>4. UidsAt(q, DestroyOps) = {u} \union UidsAt(Rest(q), DestroyOps)
    BY <1>1, <1>2, UidsOfTail
  <2> QED BY <2>2, <2>3, <2>4
<1>6. PICK W \in SUBSET Uids : Dooms(W, q, o, wr, tf)
  BY DEF Destroys
<1>7. /\ u \in In(o) /\ u \in UidsAt(q, DestroyOps) /\ u \notin tf
      /\ i \in Cu(o, u).instances /\ i \notin gone
      /\ q[1].todo \subseteq Cu(o, u).instances /\ q[1].todo \intersect gone = {}
      /\ Cu(o, u).instances \subseteq q[1].todo \union tf
  BY <1>3, <1>4 DEF Destroying, Above
<1>8. \A k \in 2 .. Len(q) + 1 : n[k].uid = q[k - 1].uid /\ k - 1 \in 1 .. Len(q)
  BY <1>3
<1>9. \A k \in 1 .. Len(q) : q[k].op = "destroy_instances" /\ q[k].uid \in UidsAt(q, DestroyOps)
  BY <1>3, <1>4 DEF Destroying
<1>10. Chained(n, o)
  <2> SUFFICES ASSUME NEW j \in DOMAIN n, NEW k \in DOMAIN n, k = j + 1
               PROVE  /\ n[k].uid \in In(o) /\ n[j].uid \in Cu(o, n[k].uid).instances
                      /\ n[j].uid \notin n[k].todo
    BY DEF Chained
  <2>1. CASE j = 1
    <3>1. k = 2 /\ n[j] = h /\ n[k] = g
      BY <1>3, <2>1
    <3> QED BY <1>7, <3>1
  <2>2. CASE j = 2
    <3>1. /\ k = 3 /\ n[j] = g /\ n[k] = q[2] /\ 1 \in DOMAIN q /\ 2 \in DOMAIN q /\ 2 = 1 + 1
      BY <1>3, <2>2
    <3> QED BY <1>2, <3>1 DEF Chained
  <2>3. CASE j > 2
    <3>1. /\ n[j] = q[j - 1] /\ n[k] = q[k - 1] /\ j - 1 \in DOMAIN q /\ k - 1 \in DOMAIN q
          /\ k - 1 = (j - 1) + 1
      BY <1>3, <2>3
    <3> QED BY <1>2, <3>1 DEF Chained
  <2> QED BY <1>3, <2>1, <2>2, <2>3
<1>11. Apart(n)
  <2> SUFFICES ASSUME NEW j \in DOMAIN n, NEW k \in DOMAIN n, n[j].uid = n[k].uid PROVE j = k
    BY DEF Apart
  <2>1. \A m \in 2 .. Len(q) + 1 : n[m].uid # i
    BY <1>7, <1>8, <1>9
  <2>2. CASE j = 1 \/ k = 1
    BY <1>3, <2>1, <2>2
  <2>3. CASE j # 1 /\ k # 1
    <3>1. /\ q[j - 1].uid = q[k - 1].uid /\ j - 1 \in DOMAIN q /\ k - 1 \in DOMAIN q
      BY <1>3, <1>8, <2>3
    <3>2. j - 1 = k - 1
      BY <1>2, <3>1 DEF Apart
    <3> QED BY <1>3, <3>2
  <2> QED BY <2>2, <2>3
<1>12. Sweeps(n, o, tf)
  <2> SUFFICES ASSUME NEW k \in DOMAIN n
               PROVE  \/ n[k].op = "destroy" /\ k = 1 /\ n[k].uid \notin tf \union UidsAt(n, DestroyOps)
                      \/ /\ n[k].op = "destroy_instances"
                         /\ n[k].uid \in In(o) /\ n[k].uid \notin tf
                         /\ n[k].todo \subseteq Cu(o, n[k].uid).instances
                         /\ n[k].todo \intersect (tf \union UidsAt(n, DestroyOps)) = {}
                         /\ Cu(o, n[k].uid).instances \subseteq n[k].todo \union tf \union Above(n, k)
    BY DEF Sweeps
  <2>1. CASE k = 1
    BY <1>3, <1>5, <1>7, <2>1
  <2>2. CASE k = 2
    <3>1. n[k] = g /\ Above(n, k) = {i}
      BY <1>3, <2>2 DEF Above
    <3> QED BY <1>5, <1>7, <3>1
  <2>3. CASE k > 2
    <3>1. k - 1 \in 1 .. Len(q) /\ k - 1 # 1 /\ k - 2 \in 1 .. Len(q) /\ (k - 1) - 1 = k - 2
          /\ k - 1 \in 2 .. Len(q) + 1
      BY <1>3, <2>3
    <3>2. n[k] = q[k - 1] /\ n[k - 1].uid = q[k - 2].uid
      BY <1>3, <1>8, <2>3, <3>1
    <3>3. Above(n, k) = Above(q, k - 1)
      BY <2>3, <3>1, <3>2 DEF Above
    <3>4. Destroying(q, k - 1, o, tf) /\ q[k - 1].op = "destroy_instances"
      BY <1>4, <1>9, <3>1
    <3> QED BY <1>5, <3>1, <3>2, <3>3, <3>4 DEF Destroying
  <2> QED BY <1>3, <2>1, <2>2, <2>3
<1>13. Dooms(W, n, o, wr, tf)
  <2>1. Bottom(n) = Bottom(q)
    BY <1>3, <1>8 DEF Bottom
  <2>2. ASSUME NEW k \in DOMAIN n PROVE n[k].uid \in W
    <3>1. u \in W
      BY <1>3, <1>6 DEF Dooms
    <3>2. i \in W
      BY <1>6, <1>7, <3>1 DEF Dooms, Closed
    <3>3. CASE k = 1
      BY <1>3, <3>2, <3>3
    <3>4. CASE k # 1
      <4>1. k - 1 \in DOMAIN q /\ n[k].uid = q[k - 1].uid
        BY <1>3, <1>8, <3>4
      <4> QED BY <1>6, <4>1 DEF Dooms
    <3> QED BY <3>3, <3>4
  <2> QED BY <1>5, <1>6, <2>1, <2>2 DEF Dooms
<1> QED BY <1>3, <1>5, <1>10, <1>11, <1>12, <1>13 DEF Destroys

(* All instances of u are destroyed, and u is listed.                       *)
LEMMA DestroyEnds ==
  ASSUME NEW q \in Seq(DestroyFrames), NEW o, NEW wr, NEW tf \in SUBSET Uids,
         Destroys(q, o, wr, tf), Swept(o, tf),
         q[1].op = "destroy_instances", q[1].todo = {}, NEW u, u = q[1].uid,
         NEW tf2, tf2 = tf \union {u}
  PROVE  /\ u \in In(o) /\ u \notin wr /\ Swept(o, tf2)
         /\ tf2 \union UidsAt(Rest(q), DestroyOps) = tf \union UidsAt(q, DestroyOps)
         /\ \/ Rest(q) = << >>
            \/ Rest(q) \in Seq(DestroyFrames) /\ Destroys(Rest(q), o, wr, tf2)
<1> DEFINE r == Rest(q)
           gone == tf \union UidsAt(q, DestroyOps)
<1>1. q[1].op \in DestroyOps
  BY DEF DestroyOps
<1>2. q # << >> /\ Chained(q, o) /\ Apart(q)
  BY DEF Destroys
<1>3. /\ r \in Seq(DestroyFrames) /\ Len(q) = Len(r) + 1 /\ Len(r) \in Nat
      /\ DOMAIN q = 1 .. Len(q) /\ DOMAIN r = 1 .. Len(r)
      /\ \A k \in 1 .. Len(r) : r[k] = q[k + 1]
  BY <1>2, Popped
<1>4. \A k \in 1 .. Len(q) : Destroying(q, k, o, tf)
  BY DestroyCalls
<1>5. UidsAt(q, DestroyOps) = {u} \union UidsAt(r, DestroyOps)
  BY <1>1, <1>2, UidsOfTail
<1>6. tf2 \union UidsAt(r, DestroyOps) = gone
  BY <1>5
<1>7. PICK W \in SUBSET Uids : Dooms(W, q, o, wr, tf)
  BY DEF Destroys
<1>8. /\ u \in In(o) /\ u \in W /\ u \notin wr /\ Cu(o, u).instances \subseteq tf
  <2>1. 1 \in 1 .. Len(q)
    BY <1>3
  <2>2. u \in In(o) /\ Cu(o, u).instances \subseteq tf
    BY <1>4, <2>1 DEF Destroying, Above
  <2>3. u \in W /\ u \notin wr
    BY <1>3, <1>7, <2>1 DEF Dooms
  <2> QED BY <2>2, <2>3
<1>9. Swept(o, tf2)
  BY <1>8 DEF Swept
<1>10. CASE r # << >>
  <2> HIDE DEF r
  <2>1. Len(r) \in Nat \ {0}
    BY <1>3, <1>10
  <2>2. \A k \in 1 .. Len(r) : k + 1 \in 1 .. Len(q) /\ k + 1 # 1
    BY <1>3
  <2>3. Chained(r, o)
    <3> SUFFICES ASSUME NEW j \in DOMAIN r, NEW k \in DOMAIN r, k = j + 1
                 PROVE  /\ r[k].uid \in In(o) /\ r[j].uid \in Cu(o, r[k].uid).instances
                        /\ r[j].uid \notin r[k].todo
      BY DEF Chained
    <3>1. /\ r[j] = q[j + 1] /\ r[k] = q[k + 1] /\ j + 1 \in DOMAIN q /\ k + 1 \in DOMAIN q
          /\ k + 1 = (j + 1) + 1
      BY <1>3, <2>2
    <3> QED BY <1>2, <3>1 DEF Chained
  <2>4. Apart(r)
    <3> SUFFICES ASSUME NEW j \in DOMAIN r, NEW k \in DOMAIN r, r[j].uid = r[k].uid PROVE j = k
      BY DEF Apart
    <3>1. /\ r[j] = q[j + 1] /\ r[k] = q[k + 1] /\ j + 1 \in DOMAIN q /\ k + 1 \in DOMAIN q
      BY <1>3, <2>2
    <3>2. j + 1 = k + 1
      BY <1>2, <3>1 DEF Apart
    <3> QED BY <1>3, <3>2
  <2>5. Sweeps(r, o, tf2)
    <3> SUFFICES ASSUME NEW k \in DOMAIN r
                 PROVE  /\ r[k].op = "destroy_instances"
                        /\ r[k].uid \in In(o) /\ r[k].uid \notin tf2
                        /\ r[k].todo \subseteq Cu(o, r[k].uid).instances
                        /\ r[k].todo \intersect (tf2 \union UidsAt(r, DestroyOps)) = {}
                        /\ Cu(o, r[k].uid).instances \subseteq r[k].todo \union tf2 \union Above(r, k)
      BY DEF Sweeps
    <3>1. /\ r[k] = q[k + 1] /\ k + 1 \in 1 .. Len(q) /\ k + 1 \in DOMAIN q /\ 1 \in DOMAIN q
          /\ k + 1 # 1
      BY <1>3, <2>2
    <3>2. /\ r[k].op = "destroy_instances"
          /\ r[k].uid \in In(o) /\ r[k].uid \notin tf
          /\ r[k].todo \subseteq Cu(o, r[k].uid).instances
          /\ r[k].todo \intersect gone = {}
          /\ Cu(o, r[k].uid).instances \subseteq r[k].todo \union tf \union Above(q, k + 1)
      BY <1>4, <3>1 DEF Destroying
    <3>3. r[k].uid # u
      BY <1>2, <3>1 DEF Apart
    <3>4. Above(q, k + 1) \subseteq {u} \union Above(r, k)
      <4>1. CASE k = 1
        BY <4>1 DEF Above
      <4>2. CASE k # 1
        <5>1. k - 1 \in 1 .. Len(r) /\ (k - 1) + 1 = k /\ (k + 1) - 1 = k
          BY <1>3, <4>2
        <5>2. r[k - 1] = q[k]
          BY <1>3, <5>1
        <5> QED BY <3>1, <4>2, <5>1, <5>2 DEF Above
      <4> QED BY <4>1, <4>2
    <3> QED BY <1>6, <3>2, <3>3, <3>4
  <2>6. Dooms(W, r, o, wr, tf2)
    <3>1. Bottom(r) = Bottom(q)
      <4>1. Len(r) \in 1 .. Len(r) /\ Len(q) = Len(r) + 1
        BY <1>3, <2>1
      <4>2. r[Len(r)] = q[Len(q)]
        BY <1>3, <4>1
      <4> QED BY <4>2 DEF Bottom
    <3>2. ASSUME NEW k \in DOMAIN r PROVE r[k].uid \in W
      <4>1. k + 1 \in DOMAIN q /\ r[k] = q[k + 1]
        BY <1>3, <2>2
      <4> QED BY <1>7, <4>1 DEF Dooms
    <3> QED BY <1>6, <1>7, <3>1, <3>2 DEF Dooms
  <2>7. Destroys(r, o, wr, tf2)
    BY <1>10, <2>3, <2>4, <2>5, <2>6 DEF Destroys
  <2> QED BY <1>3, <1>6, <1>8, <1>9, <2>7 DEF r
<1>11. CASE r = << >>
  BY <1>6, <1>8, <1>9, <1>11
<1> QED BY <1>10, <1>11

(* What is reached along edges from S is, from there, reached too.          *)
LEMMA ClosureClosed ==
  ASSUME NEW edges, NEW S
  PROVE  /\ Closure(edges, S) \subseteq Uids
         /\ S \intersect Uids \subseteq Closure(edges, S)
         /\ \A e \in edges : e[1] \in Closure(edges, S) /\ e[2] \in Uids => e[2] \in Closure(edges, S)
  BY DEF Closure

---------------------------------------------------------------------------
(* The model's own words for all this. *)

(* The objects in memory. *)
LEMMA InMemory ==
  ASSUME UidAssumption
  PROVE  /\ Here = In(objects) /\ \A u : Live(u) <=> u \in In(objects)
         /\ \A u : Current(u) = Cu(objects, u) /\ objects[Draft(u)] = Dr(objects, u)
         /\ \A u : objects[Cur(u)] = Cu(objects, u)
         /\ 0 \notin In(objects) /\ In(objects) \subseteq Uids
  BY DEF Here, In, Live, Current, Cu, Dr, UidAssumption

(* The types of an object's fields. *)
LEMMA Fields ==
  ASSUME Types, NEW u \in Uids
  PROVE  /\ Cu(objects, u) \in Records /\ Dr(objects, u) \in Records
         /\ Cu(objects, u).from \in Uids \union {0} /\ Cu(objects, u).instances \in SUBSET Uids
         /\ Dr(objects, u).from \in Uids \union {0} /\ Dr(objects, u).instances \in SUBSET Uids
         /\ Dr(objects, u).changed \in Seq(Changes)
<1>1. Cu(objects, u) \in Records /\ Dr(objects, u) \in Records
  BY Names DEF Types, Cu, Dr
<1> QED BY <1>1 DEF Records

(* Where values are: in objects and in their writers.                       *)
LEMMA Places ==
  ASSUME Types, Listed(objects), SlotAssumption, UidAssumption
  PROVE  /\ \A u \in In(objects) : /\ SlotOf(Cur(u)) = Cu(objects, u).slot
                                   /\ Cu(objects, u).slot \in Slots
                                   /\ Value(Cur(u)) = pool[Cu(objects, u).slot]
                                   /\ Value(Cur(u)).sub = 0
         /\ \A u \in Uids : Dr(objects, u).wslot \in Slots =>
               /\ SlotOf(Draft(u)) = Dr(objects, u).wslot
               /\ Value(Draft(u)) = pool[Dr(objects, u).wslot]
               /\ Value(Draft(u)).sub = 0 /\ Value(Draft(u)).val \in Values
         /\ SubEdges = {}
<1>1. \A s \in Slots : pool[s].sub = 0 /\ pool[s].val \in Values /\ s # 0
  BY DEF Types, TypedValues, SlotAssumption
<1>2. ASSUME NEW u \in In(objects)
      PROVE  /\ SlotOf(Cur(u)) = Cu(objects, u).slot
             /\ Cu(objects, u).slot \in Slots
             /\ Value(Cur(u)) = pool[Cu(objects, u).slot]
             /\ Value(Cur(u)).sub = 0
  BY <1>1 DEF Listed, SlotOf, Value, Cu
<1>3. ASSUME NEW u \in Uids, Dr(objects, u).wslot \in Slots
      PROVE  /\ SlotOf(Draft(u)) = Dr(objects, u).wslot
             /\ Value(Draft(u)) = pool[Dr(objects, u).wslot]
             /\ Value(Draft(u)).sub = 0 /\ Value(Draft(u)).val \in Values
  BY <1>1, <1>3 DEF SlotOf, Value, Dr
<1>4. SubEdges = {}
  <2> SUFFICES ASSUME NEW e \in Here \X Here, Value(Cur(e[1])).sub = e[2] PROVE FALSE
    BY DEF SubEdges
  <2>1. e[1] \in In(objects) /\ e[2] \in In(objects)
    BY InMemory
  <2> QED BY <1>2, <2>1, InMemory
<1> QED BY <1>2, <1>3, <1>4

(* What a client may destroy: no instance is reached twice, and nothing     *)
(* that is written or destroyed already.                                    *)
LEMMA DestroyCalled ==
  ASSUME ScalarInv, Scalar, UidAssumption, SlotAssumption, NEW u \in Uids, DestroyObject(u)
  PROVE  /\ calls' \in Seq(DestroyFrames) /\ Destroys(calls', objects, writers, toFreeUids)
         /\ UidsAt(calls', DestroyOps) = {} /\ UidsAt(calls', CommitOps) = {}
<1> DEFINE f == [op |-> "destroy", uid |-> u]
           q == <<f>>
           o == objects
<1>1. calls' = q /\ u \notin toFreeUids
  BY DEF DestroyObject
<1>2. q \in Seq(DestroyFrames) /\ Len(q) = 1 /\ q # << >> /\ DOMAIN q = {1} /\ q[1] = f
  BY DEF DestroyFrames
<1>3. f.op = "destroy" /\ f.uid = u
  OBVIOUS
<1> HIDE DEF f, q
<1>4. UidsAt(q, DestroyOps) = {} /\ UidsAt(q, CommitOps) = {}
  BY <1>2, <1>3 DEF UidsAt, DestroyOps, CommitOps
<1>5. Chained(q, o) /\ Apart(q) /\ Sweeps(q, o, toFreeUids) /\ Bottom(q) = u
  BY <1>1, <1>2, <1>3, <1>4 DEF Chained, Apart, Sweeps, Bottom
<1>6. \E W \in SUBSET Uids : Dooms(W, q, o, writers, toFreeUids)
  <2>1. \A v \in writers : v \in In(o)
    BY DEF ScalarInv, Drafted, Drafting
  <2>2. CASE u \notin In(o)
    <3>1. Dooms({u}, q, o, writers, toFreeUids)
      BY <1>1, <1>2, <1>3, <1>4, <1>5, <2>1, <2>2 DEF Dooms, Closed
    <3> QED BY <3>1
  <2>3. CASE u \in In(o)
    <3> DEFINE edges == SubEdges \union InstanceEdges
               W == Closure(edges, {u})
    <3>1. W \subseteq Uids /\ u \in W /\ \A e \in edges : e[1] \in W /\ e[2] \in Uids => e[2] \in W
      BY ClosureClosed
    <3>2. Sound(u, {}) /\ Untouched(W, writers)
      BY <2>3, InMemory DEF DestroyObject, Scalar
    <3>3. W \intersect toFreeUids = {} /\ W \intersect writers = {}
      BY <3>2 DEF Untouched
    <3> HIDE DEF W
    <3>4. Closed(W, o)
      <4> SUFFICES ASSUME NEW p \in W, p \in In(o), NEW i \in Cu(o, p).instances PROVE i \in W
        BY DEF Closed
      <4>1. i \in In(o) /\ i \in Uids
        BY InMemory DEF ScalarInv, Listed
      <4>2. <<p, i>> \in InstanceEdges
        BY <4>1, InMemory DEF InstanceEdges
      <4> QED BY <3>1, <4>1, <4>2
    <3>5. ASSUME NEW p \in W, p \in In(o), u \in Cu(o, p).instances PROVE FALSE
      <4> DEFINE subs == {e \in SubEdges : e[2] = u /\ e[1] \notin {}}
                 instances == {e \in InstanceEdges : e[2] = u /\ e[1] \in W}
      <4>1. Cardinality(subs) + Cardinality(instances) = 0
        BY <3>1, <3>2 DEF Sound, W
      <4>2. subs = {}
        BY Places DEF ScalarInv
      <4>3. <<p, u>> \in instances
        BY <2>3, <3>5, InMemory DEF InstanceEdges
      <4>4. ASSUME NEW e \in instances PROVE e = <<p, u>>
        <5>1. e \in Here \X Here /\ e[2] = u /\ e[2] \in Cu(o, e[1]).instances
          BY InMemory DEF InstanceEdges
        <5>2. e[1] \in In(o) /\ e = <<e[1], e[2]>>
          BY <5>1, InMemory
        <5>3. Cu(o, u).from = e[1] /\ Cu(o, u).from = p
          BY <3>5, <5>1, <5>2 DEF ScalarInv, Listed
        <5> QED BY <5>1, <5>2, <5>3
      <4>5. instances = {<<p, u>>}
        BY <4>3, <4>4
      <4>6. Cardinality(instances) = 1
        BY <4>5, FS_Singleton
      <4>7. Cardinality(subs) = 0
        BY <4>2, FS_EmptySet
      <4> QED BY <4>1, <4>6, <4>7
    <3>6. Dooms(W, q, o, writers, toFreeUids)
      <4>1. \A i \in W : i \notin toFreeUids \union UidsAt(q, DestroyOps)
        BY <1>4, <3>3
      <4>2. \A k \in DOMAIN q : q[k].uid \in W
        BY <1>2, <1>3, <3>1
      <4> QED BY <1>5, <3>3, <3>4, <3>5, <4>1, <4>2 DEF Dooms
    <3> QED BY <3>1, <3>6
  <2> QED BY <2>2, <2>3
<1> QED BY <1>1, <1>2, <1>4, <1>5, <1>6 DEF Destroys

---------------------------------------------------------------------------
(* The calls that commit writers. *)

(* One of them: only the innermost may follow its prefab.                   *)
Writing(q, k, o) ==
    /\ q[k].uid \in Uids /\ q[k] \in CommitFrames
    /\ q[k].op \in CommitOps /\ q[k].op \notin DestroyOps
    /\ q[k].uid \in UidsAt(q, CommitOps)
    /\ \/ /\ q[k].op = "commit" /\ q[k].todo \in SUBSET Uids
          /\ q[k].todo \subseteq Cu(o, q[k].uid).instances
       \/ q[k].op \in {"follow", "follow_set"} /\ q[k].changes \in Seq(Changes) /\ k = 1

(* Every call of such a stack is one. *)
LEMMA CommitCalls ==
  ASSUME NEW q \in Seq(CommitFrames), NEW o, NEW wr, NEW tf, Commits(q, o, wr, tf)
  PROVE  /\ Len(q) \in Nat \ {0} /\ DOMAIN q = 1 .. Len(q) /\ q # << >>
         /\ \A k \in 1 .. Len(q) : Writing(q, k, o)
         /\ UidsAt(q, DestroyOps) = {} /\ q[1].uid \in UidsAt(q, CommitOps)
<1>1. Len(q) \in Nat \ {0} /\ DOMAIN q = 1 .. Len(q) /\ q # << >>
  BY Popped DEF Commits
<1>2. \A k \in 1 .. Len(q) : q[k] \in CommitFrames
  BY <1>1
<1>3. \A f \in CommitFrames :
         /\ f.uid \in Uids /\ f.op \in CommitOps /\ f.op \notin DestroyOps
         /\ \/ f.op = "commit" /\ f.todo \in SUBSET Uids
            \/ f.op \in {"follow", "follow_set"} /\ f.changes \in Seq(Changes)
  <2> SUFFICES ASSUME NEW f \in CommitFrames
               PROVE  /\ f.uid \in Uids /\ f.op \in CommitOps /\ f.op \notin DestroyOps
                      /\ \/ f.op = "commit" /\ f.todo \in SUBSET Uids
                         \/ f.op \in {"follow", "follow_set"} /\ f.changes \in Seq(Changes)
    OBVIOUS
  <2>1. CASE f \in [op : {"commit"}, uid : Uids, todo : SUBSET Uids]
    <3>1. f.uid \in Uids /\ f.op = "commit" /\ f.todo \in SUBSET Uids
      BY <2>1
    <3>2. f.op \in CommitOps /\ f.op \notin DestroyOps
      BY <3>1 DEF CommitOps, DestroyOps
    <3> QED BY <3>1, <3>2
  <2>2. CASE f \in [op : {"follow", "follow_set"}, uid : Uids, changes : Seq(Changes)]
    <3>1. f.uid \in Uids /\ f.op \in {"follow", "follow_set"} /\ f.changes \in Seq(Changes)
      BY <2>2
    <3>2. f.op \in CommitOps /\ f.op \notin DestroyOps
      BY <3>1 DEF CommitOps, DestroyOps
    <3> QED BY <3>1, <3>2
  <2> QED BY <2>1, <2>2, Zenon DEF CommitFrames
<1>4. \A k \in 1 .. Len(q) : q[k].uid \in UidsAt(q, CommitOps)
  BY <1>1, <1>2, <1>3 DEF UidsAt
<1>5. UidsAt(q, DestroyOps) = {}
  BY <1>1, <1>2, <1>3 DEF UidsAt
<1>6. \A k \in 1 .. Len(q) :
         IF q[k].op = "commit" THEN q[k].todo \subseteq Cu(o, q[k].uid).instances ELSE k = 1
  BY <1>1 DEF Commits, Tells
<1>7. ASSUME NEW k \in 1 .. Len(q) PROVE Writing(q, k, o)
  <2>1. CASE q[k].op = "commit"
    BY <1>2, <1>3, <1>4, <1>6, <2>1 DEF Writing
  <2>2. CASE q[k].op # "commit"
    BY <1>2, <1>3, <1>4, <1>6, <2>2 DEF Writing
  <2> QED BY <2>1, <2>2
<1> QED BY <1>1, <1>4, <1>5, <1>7

(* They are about the tree of prefabs and instances alone.                  *)
LEMMA CommitsSame ==
  ASSUME NEW q \in Seq(CommitFrames), NEW o, NEW n, NEW wr, NEW tf, Commits(q, o, wr, tf),
         SameTree(o, n)
  PROVE  Commits(q, n, wr, tf)
<1>1. /\ Len(q) \in Nat \ {0} /\ DOMAIN q = 1 .. Len(q) /\ q # << >>
      /\ \A k \in 1 .. Len(q) : q[k].uid \in Uids
  BY CommitCalls DEF Writing
<1>2. Chained(q, n)
  BY <1>1 DEF Commits, Chained, SameTree
<1>3. Tells(q, n)
  BY <1>1 DEF Commits, Tells, SameTree
<1>4. PICK W \in SUBSET Uids : Reaches(W, q, o, wr, tf)
  BY DEF Commits
<1>5. Closed(W, n)
  BY <1>4 DEF Reaches, Closed, SameTree
<1>6. Reaches(W, q, n, wr, tf)
  <2>1. q[1].uid \in Uids
    BY <1>1
  <2> QED BY <1>4, <1>5, <2>1 DEF Reaches, SameTree
<1> QED BY <1>2, <1>3, <1>4, <1>6 DEF Commits

(* The instance that follows goes on, in the end to its own commit.         *)
LEMMA CommitGoesOn ==
  ASSUME NEW q \in Seq(CommitFrames), NEW o, NEW wr, NEW tf, Commits(q, o, wr, tf),
         q[1].op # "commit", NEW g \in CommitFrames, g.uid = q[1].uid, g.op \in CommitOps,
         g.op = "commit" => g.todo \subseteq Cu(o, g.uid).instances,
         NEW n, n = Push(g, Rest(q))
  PROVE  /\ n \in Seq(CommitFrames) /\ Commits(n, o, wr, tf)
         /\ UidsAt(n, CommitOps) = UidsAt(q, CommitOps)
<1>1. q # << >> /\ Chained(q, o) /\ Apart(q) /\ Tells(q, o)
  BY DEF Commits
<1>2. /\ n \in Seq(CommitFrames) /\ n # << >> /\ Len(n) = Len(q) /\ Len(q) \in Nat \ {0}
      /\ DOMAIN q = 1 .. Len(q) /\ DOMAIN n = 1 .. Len(q) /\ n[1] = g
      /\ \A k \in 2 .. Len(q) : n[k] = q[k]
  BY <1>1, Replaced
<1>3. UidsAt(n, CommitOps) = UidsAt(q, CommitOps)
  <2>1. UidsAt(n, CommitOps) = {g.uid} \union UidsAt(Rest(q), CommitOps)
    BY <1>1, UidsReplaced
  <2>2. 1 \in 1 .. Len(q)
    BY <1>2
  <2>3. q[1].op \in CommitOps
    BY <2>2, CommitCalls DEF Writing
  <2>4. UidsAt(q, CommitOps) = {q[1].uid} \union UidsAt(Rest(q), CommitOps)
    BY <1>1, <2>3, UidsOfTail
  <2> QED BY <2>1, <2>4
<1>4. \A k \in 1 .. Len(q) : n[k].uid = q[k].uid
  BY <1>2
<1>5. Chained(n, o)
  <2> SUFFICES ASSUME NEW j \in DOMAIN n, NEW k \in DOMAIN n, k = j + 1
               PROVE  /\ n[k].uid \in In(o) /\ n[j].uid \in Cu(o, n[k].uid).instances
                      /\ n[j].uid \notin n[k].todo
    BY DEF Chained
  <2>1. n[k] = q[k] /\ n[j].uid = q[j].uid
    BY <1>2, <1>4
  <2> QED BY <1>1, <1>2, <2>1 DEF Chained
<1>6. Apart(n)
  BY <1>1, <1>2, <1>4 DEF Apart
<1>7. Tells(n, o)
  <2> SUFFICES ASSUME NEW k \in DOMAIN n
               PROVE  IF n[k].op = "commit" THEN n[k].todo \subseteq Cu(o, n[k].uid).instances ELSE k = 1
    BY DEF Tells
  <2>1. CASE k = 1
    BY <1>2, <2>1
  <2>2. CASE k # 1
    <3>1. n[k] = q[k] /\ k \in DOMAIN q
      BY <1>2, <2>2
    <3> QED BY <1>1, <3>1 DEF Tells
  <2> QED BY <2>1, <2>2
<1>8. PICK W \in SUBSET Uids : Reaches(W, q, o, wr, tf)
  BY DEF Commits
<1>9. Reaches(W, n, o, wr, tf)
  <2>1. Cu(o, n[1].uid).instances \subseteq W
    BY <1>2, <1>8 DEF Reaches
  <2>2. ASSUME NEW k \in DOMAIN n, n[k].op = "commit" PROVE n[k].todo \subseteq W
    <3>1. CASE k = 1
      BY <1>2, <2>1, <2>2, <3>1
    <3>2. CASE k # 1
      <4>1. n[k] = q[k] /\ k \in DOMAIN q
        BY <1>2, <3>2
      <4> QED BY <1>8, <2>2, <4>1 DEF Reaches
    <3> QED BY <3>1, <3>2
  <2> QED BY <1>8, <2>1, <2>2 DEF Reaches
<1> QED BY <1>2, <1>3, <1>5, <1>6, <1>7, <1>8, <1>9 DEF Commits

(* No instance of an object that is committed is committed already: it would*)
(* be among the prefabs of its own.                                         *)
LEMMA NotOnStack ==
  ASSUME NEW q \in Seq(CommitFrames), NEW o, NEW wr, NEW tf, Commits(q, o, wr, tf),
         Listed(o), Acyclic(o), q[1].uid \in In(o), NEW i \in Cu(o, q[1].uid).instances,
         NEW k \in 1 .. Len(q)
  PROVE  q[k].uid # i
<1> SUFFICES ASSUME q[k].uid = i PROVE FALSE
  OBVIOUS
<1>1. Len(q) \in Nat \ {0} /\ DOMAIN q = 1 .. Len(q) /\ Chained(q, o)
  BY CommitCalls DEF Commits
<1>2. i \in In(o) /\ Cu(o, i).from = q[1].uid
  BY DEF Listed
<1>3. \A j \in 1 .. Len(q) : j + 1 \in 1 .. Len(q) =>
         Cu(o, q[j].uid).from = q[j + 1].uid /\ q[j + 1].uid \in In(o)
  <2> SUFFICES ASSUME NEW j \in 1 .. Len(q), j + 1 \in 1 .. Len(q)
               PROVE  Cu(o, q[j].uid).from = q[j + 1].uid /\ q[j + 1].uid \in In(o)
    OBVIOUS
  <2>1. q[j + 1].uid \in In(o) /\ q[j].uid \in Cu(o, q[j + 1].uid).instances
    BY <1>1 DEF Chained
  <2> QED BY <2>1 DEF Listed
<1> DEFINE T == {q[j].uid : j \in 1 .. k}
<1>4. T \in SUBSET In(o) /\ T # {}
  <2>1. ASSUME NEW j \in 1 .. k PROVE q[j].uid \in In(o)
    <3>1. CASE j = 1
      BY <3>1
    <3>2. CASE j # 1
      <4>1. j - 1 \in 1 .. Len(q) /\ (j - 1) + 1 = j /\ j \in 1 .. Len(q)
        BY <1>1, <3>2
      <4> QED BY <1>3, <4>1
    <3> QED BY <3>1, <3>2
  <2>2. k \in 1 .. k
    BY <1>1
  <2> QED BY <2>1, <2>2
<1>5. PICK t \in T : Cu(o, t).from \notin T
  BY <1>4 DEF Acyclic
<1>6. PICK j \in 1 .. k : t = q[j].uid
  OBVIOUS
<1>7. CASE j = k
  <2>1. q[1].uid \in T
    <3>1. 1 \in 1 .. k
      BY <1>1
    <3> QED BY <3>1
  <2> QED BY <1>2, <1>5, <1>6, <1>7, <2>1
<1>8. CASE j # k
  <2>1. j \in 1 .. Len(q) /\ j + 1 \in 1 .. Len(q) /\ j + 1 \in 1 .. k
    BY <1>1, <1>8
  <2>2. Cu(o, t).from = q[j + 1].uid /\ q[j + 1].uid \in T
    BY <1>3, <1>6, <2>1
  <2> QED BY <1>5, <2>2
<1> QED BY <1>7, <1>8

(* The next instance begins to follow. *)
LEMMA CommitNext ==
  ASSUME NEW q \in Seq(CommitFrames), NEW o, NEW wr, NEW tf, Commits(q, o, wr, tf),
         Listed(o), Acyclic(o), q[1].op = "commit", q[1].uid \in In(o), NEW i \in q[1].todo,
         NEW g \in CommitFrames, g.op = "commit", g.uid = q[1].uid, g.todo = q[1].todo \ {i},
         NEW h \in CommitFrames, h.op = "follow", h.uid = i,
         NEW n, n = Push(h, Push(g, Rest(q)))
  PROVE  /\ n \in Seq(CommitFrames) /\ Commits(n, o, wr, tf)
         /\ UidsAt(n, CommitOps) = UidsAt(q, CommitOps) \union {i}
         /\ i \in In(o) /\ i \notin UidsAt(q, CommitOps) /\ i \notin wr \union tf
<1> DEFINE u == q[1].uid
<1>1. q # << >> /\ Chained(q, o) /\ Apart(q) /\ Tells(q, o)
  BY DEF Commits
<1>2. /\ n \in Seq(CommitFrames) /\ n # << >> /\ Len(n) = Len(q) + 1 /\ Len(q) \in Nat \ {0}
      /\ DOMAIN q = 1 .. Len(q) /\ DOMAIN n = 1 .. Len(q) + 1 /\ n[1] = h /\ n[2] = g
      /\ \A k \in 3 .. Len(q) + 1 : n[k] = q[k - 1]
  <2>1. n \in Seq(CommitFrames) /\ Deeper(n, h, g, q)
    BY <1>1, Pushed
  <2> QED BY <2>1 DEF Deeper
<1>3. PICK W \in SUBSET Uids : Reaches(W, q, o, wr, tf)
  BY DEF Commits
<1>4. i \in Cu(o, u).instances /\ q[1].todo \subseteq Cu(o, u).instances
  <2>1. 1 \in DOMAIN q
    BY <1>2
  <2> QED BY <1>1, <2>1 DEF Tells
<1>5. /\ i \in W /\ i \in In(o) /\ i \notin wr \union tf
      /\ Cu(o, i).instances \subseteq W /\ q[1].todo \subseteq W
  <2>1. 1 \in DOMAIN q
    BY <1>2
  <2>2. q[1].todo \subseteq W /\ i \in W /\ i \notin wr \union tf
    BY <1>3, <2>1 DEF Reaches
  <2>3. i \in In(o)
    BY <1>4 DEF Listed
  <2> QED BY <1>3, <2>2, <2>3 DEF Reaches, Closed
<1>6. \A k \in 1 .. Len(q) : q[k].uid # i
  BY <1>4, NotOnStack
<1>7. i \notin UidsAt(q, CommitOps)
  BY <1>2, <1>6 DEF UidsAt
<1>8. UidsAt(n, CommitOps) = UidsAt(q, CommitOps) \union {i}
  <2> DEFINE m == Push(g, Rest(q))
  <2>1. g.op \in CommitOps /\ h.op \in CommitOps /\ q[1].op \in CommitOps
    BY DEF CommitOps
  <2>2. m \in Seq(CommitFrames) /\ n = Push(h, m)
    BY <1>1, Replaced
  <2>3. UidsAt(m, CommitOps) = {u} \union UidsAt(Rest(q), CommitOps)
    BY <1>1, <2>1, UidsReplaced
  <2>4. UidsAt(q, CommitOps) = {u} \union UidsAt(Rest(q), CommitOps)
    BY <1>1, <2>1, UidsOfTail
  <2> HIDE DEF m
  <2>5. UidsAt(n, CommitOps) = {i} \union UidsAt(m, CommitOps)
    BY <2>1, <2>2, UidsOnTop
  <2> QED BY <2>3, <2>4, <2>5
<1>9. \A k \in 2 .. Len(q) + 1 : n[k].uid = q[k - 1].uid /\ k - 1 \in 1 .. Len(q)
  BY <1>2
<1>10. Chained(n, o)
  <2> SUFFICES ASSUME NEW j \in DOMAIN n, NEW k \in DOMAIN n, k = j + 1
               PROVE  /\ n[k].uid \in In(o) /\ n[j].uid \in Cu(o, n[k].uid).instances
                      /\ n[j].uid \notin n[k].todo
    BY DEF Chained
  <2>1. CASE j = 1
    <3>1. k = 2 /\ n[j] = h /\ n[k] = g
      BY <1>2, <2>1
    <3> QED BY <1>4, <3>1
  <2>2. CASE j = 2
    <3>1. /\ k = 3 /\ n[j] = g /\ n[k] = q[2] /\ 1 \in DOMAIN q /\ 2 \in DOMAIN q /\ 2 = 1 + 1
      BY <1>2, <2>2
    <3> QED BY <1>1, <3>1 DEF Chained
  <2>3. CASE j > 2
    <3>1. /\ n[j] = q[j - 1] /\ n[k] = q[k - 1] /\ j - 1 \in DOMAIN q /\ k - 1 \in DOMAIN q
          /\ k - 1 = (j - 1) + 1
      BY <1>2, <2>3
    <3> QED BY <1>1, <3>1 DEF Chained
  <2> QED BY <1>2, <2>1, <2>2, <2>3
<1>11. Apart(n)
  <2> SUFFICES ASSUME NEW j \in DOMAIN n, NEW k \in DOMAIN n, n[j].uid = n[k].uid PROVE j = k
    BY DEF Apart
  <2>1. \A m \in 2 .. Len(q) + 1 : n[m].uid # i
    BY <1>6, <1>9
  <2>2. CASE j = 1 \/ k = 1
    BY <1>2, <2>1, <2>2
  <2>3. CASE j # 1 /\ k # 1
    <3>1. /\ q[j - 1].uid = q[k - 1].uid /\ j - 1 \in DOMAIN q /\ k - 1 \in DOMAIN q
      BY <1>2, <1>9, <2>3
    <3>2. j - 1 = k - 1
      BY <1>1, <3>1 DEF Apart
    <3> QED BY <1>2, <3>2
  <2> QED BY <2>2, <2>3
<1>12. ASSUME NEW k \in DOMAIN n
       PROVE  \/ k = 1 /\ n[k] = h
              \/ k = 2 /\ n[k] = g
              \/ k > 2 /\ k - 1 \in DOMAIN q /\ k - 1 # 1 /\ n[k] = q[k - 1]
  BY <1>2
<1>13. Tells(n, o)
  <2> SUFFICES ASSUME NEW k \in DOMAIN n
               PROVE  IF n[k].op = "commit" THEN n[k].todo \subseteq Cu(o, n[k].uid).instances ELSE k = 1
    BY DEF Tells
  <2>1. CASE k = 1
    BY <1>2, <2>1
  <2>2. CASE k = 2
    BY <1>2, <1>4, <2>2
  <2>3. CASE k > 2 /\ k - 1 \in DOMAIN q /\ k - 1 # 1 /\ n[k] = q[k - 1]
    BY <1>1, <2>3 DEF Tells
  <2> QED BY <1>12, <2>1, <2>2, <2>3
<1>14. Reaches(W, n, o, wr, tf)
  <2>1. ASSUME NEW k \in DOMAIN n, n[k].op = "commit" PROVE n[k].todo \subseteq W
    <3>1. CASE k = 1
      BY <1>2, <2>1, <3>1
    <3>2. CASE k = 2
      BY <1>2, <1>5, <3>2
    <3>3. CASE k > 2 /\ k - 1 \in DOMAIN q /\ k - 1 # 1 /\ n[k] = q[k - 1]
      BY <1>3, <2>1, <3>3 DEF Reaches
    <3> QED BY <1>12, <3>1, <3>2, <3>3
  <2>2. Cu(o, n[1].uid).instances \subseteq W
    BY <1>2, <1>5
  <2> QED BY <1>3, <2>1, <2>2 DEF Reaches
<1> QED BY <1>2, <1>3, <1>5, <1>7, <1>8, <1>10, <1>11, <1>13, <1>14 DEF Commits

(* All instances have followed. *)
LEMMA CommitEnds ==
  ASSUME NEW q \in Seq(CommitFrames), NEW o, NEW wr, NEW tf, Commits(q, o, wr, tf),
         q[1].op = "commit"
  PROVE  /\ UidsAt(Rest(q), CommitOps) = UidsAt(q, CommitOps) \ {q[1].uid}
         /\ \/ Rest(q) = << >>
            \/ Rest(q) \in Seq(CommitFrames) /\ Commits(Rest(q), o, wr, tf)
<1> DEFINE r == Rest(q)
<1>1. q # << >> /\ Chained(q, o) /\ Apart(q) /\ Tells(q, o)
  BY DEF Commits
<1>2. /\ r \in Seq(CommitFrames) /\ Len(q) = Len(r) + 1 /\ Len(r) \in Nat
      /\ DOMAIN q = 1 .. Len(q) /\ DOMAIN r = 1 .. Len(r)
      /\ \A k \in 1 .. Len(r) : r[k] = q[k + 1]
  BY <1>1, Popped
<1>3. \A k \in 1 .. Len(r) : r[k] = q[k + 1] /\ k + 1 \in DOMAIN q /\ k + 1 # 1 /\ 1 \in DOMAIN q
  BY <1>2
<1>4. UidsAt(q, CommitOps) = {q[1].uid} \union UidsAt(r, CommitOps)
  <2>1. q[1].op \in CommitOps
    BY DEF CommitOps
  <2> QED BY <1>1, <2>1, UidsOfTail
<1>5. q[1].uid \notin UidsAt(r, CommitOps)
  <2>1. \A k \in DOMAIN r : r[k].uid # q[1].uid
    BY <1>1, <1>2, <1>3 DEF Apart
  <2> QED BY <2>1 DEF UidsAt
<1>6. CASE r # << >>
  <2> HIDE DEF r
  <2>1. Chained(r, o)
    <3> SUFFICES ASSUME NEW j \in DOMAIN r, NEW k \in DOMAIN r, k = j + 1
                 PROVE  /\ r[k].uid \in In(o) /\ r[j].uid \in Cu(o, r[k].uid).instances
                        /\ r[j].uid \notin r[k].todo
      BY DEF Chained
    <3>1. /\ r[j] = q[j + 1] /\ r[k] = q[k + 1] /\ j + 1 \in DOMAIN q /\ k + 1 \in DOMAIN q
          /\ k + 1 = (j + 1) + 1
      BY <1>2, <1>3
    <3> QED BY <1>1, <3>1 DEF Chained
  <2>2. Apart(r)
    <3> SUFFICES ASSUME NEW j \in DOMAIN r, NEW k \in DOMAIN r, r[j].uid = r[k].uid PROVE j = k
      BY DEF Apart
    <3>1. /\ r[j] = q[j + 1] /\ r[k] = q[k + 1] /\ j + 1 \in DOMAIN q /\ k + 1 \in DOMAIN q
      BY <1>2, <1>3
    <3>2. j + 1 = k + 1
      BY <1>1, <3>1 DEF Apart
    <3> QED BY <1>2, <3>2
  <2>3. \A k \in DOMAIN r : r[k].op = "commit" /\ r[k].todo \subseteq Cu(o, r[k].uid).instances
    BY <1>1, <1>2, <1>3 DEF Tells
  <2>4. Tells(r, o)
    BY <2>3 DEF Tells
  <2>5. PICK W \in SUBSET Uids : Reaches(W, q, o, wr, tf)
    BY DEF Commits
  <2>6. Reaches(W, r, o, wr, tf)
    <3>1. \A k \in DOMAIN r : r[k].todo \subseteq W
      BY <1>2, <1>3, <2>3, <2>5 DEF Reaches
    <3>2. 1 \in DOMAIN r
      BY <1>2, <1>6
    <3> QED BY <2>3, <2>5, <3>1, <3>2 DEF Reaches
  <2>7. Commits(r, o, wr, tf)
    BY <1>6, <2>1, <2>2, <2>4, <2>5, <2>6 DEF Commits
  <2> QED BY <1>2, <1>4, <1>5, <2>7 DEF r
<1>7. CASE r = << >>
  BY <1>4, <1>5, <1>7
<1> QED BY <1>6, <1>7

(* What a client may commit: no instance at any depth is written or         *)
(* destroyed.                                                               *)
LEMMA CommitCalled ==
  ASSUME ScalarInv, Scalar, UidAssumption, SlotAssumption, NEW u \in writers, WriteCommit(u)
  PROVE  /\ calls' \in Seq(CommitFrames) /\ Commits(calls', objects, writers', toFreeUids)
         /\ UidsAt(calls', CommitOps) = {u} /\ UidsAt(calls', DestroyOps) = {}
<1> DEFINE w == Dr(objects, u)
           f == Commit(u)
           q == <<f>>
           o == objects
<1>1. calls' = q /\ writers' = writers \ {u}
  BY DEF WriteCommit
<1>2. u \in Uids /\ u \in In(o) /\ w.instances = Cu(o, u).instances /\ w.instances \in SUBSET Uids
  <2>1. u \in In(o) /\ w.instances = Cu(o, u).instances
    BY DEF ScalarInv, Drafted, Drafting
  <2> QED BY <2>1, InMemory, Fields DEF ScalarInv
<1>3. /\ f.op = "commit" /\ f.uid = u /\ f.todo = IF w.changed = << >> THEN {} ELSE w.instances
      /\ f \in CommitFrames
  BY <1>2 DEF Commit, Dr, CommitFrames
<1> HIDE DEF f
<1>4. q \in Seq(CommitFrames) /\ Len(q) = 1 /\ q # << >> /\ DOMAIN q = {1} /\ q[1] = f
  BY <1>3
<1> HIDE DEF q
<1>5. UidsAt(q, CommitOps) = {u} /\ UidsAt(q, DestroyOps) = {}
  BY <1>3, <1>4 DEF UidsAt, DestroyOps, CommitOps
<1>6. Chained(q, o) /\ Apart(q) /\ Tells(q, o)
  BY <1>2, <1>3, <1>4 DEF Chained, Apart, Tells
<1>7. \E W \in SUBSET Uids : Reaches(W, q, o, writers', toFreeUids)
  <2>1. CASE w.changed = << >>
    <3>1. Reaches({}, q, o, writers', toFreeUids)
      BY <1>3, <1>4, <2>1 DEF Reaches, Closed
    <3> QED BY <3>1
  <2>2. CASE w.changed # << >>
    <3> DEFINE W == Closure(InstanceEdges, w.instances)
               new == {w.changed[k].new : k \in {j \in DOMAIN w.changed : w.changed[j].prop = "sub"}}
    <3>1. /\ W \subseteq Uids /\ w.instances \subseteq W
          /\ \A e \in InstanceEdges : e[1] \in W /\ e[2] \in Uids => e[2] \in W
      BY <1>2, ClosureClosed
    <3>2. Untouched(W \union Closure(SubEdges, new \ {0}), writers \ {u})
      BY <2>2 DEF WriteCommit, Scalar, Dr
    <3>3. W \intersect toFreeUids = {} /\ W \intersect (writers \ {u}) = {}
      BY <3>2 DEF Untouched
    <3> HIDE DEF W
    <3>4. Closed(W, o)
      <4> SUFFICES ASSUME NEW p \in W, p \in In(o), NEW i \in Cu(o, p).instances PROVE i \in W
        BY DEF Closed
      <4>1. i \in In(o) /\ i \in Uids
        BY InMemory DEF ScalarInv, Listed
      <4>2. <<p, i>> \in InstanceEdges
        BY <4>1, InMemory DEF InstanceEdges
      <4> QED BY <3>1, <4>1, <4>2
    <3>5. Reaches(W, q, o, writers', toFreeUids)
      BY <1>1, <1>3, <1>4, <2>2, <3>1, <3>3, <3>4 DEF Reaches
    <3> QED BY <3>1, <3>5
  <2> QED BY <2>1, <2>2
<1> QED BY <1>1, <1>4, <1>5, <1>6, <1>7 DEF Commits

---------------------------------------------------------------------------
(* Steps that change the calls only. *)

(* Nobody else's state changes. *)
LEMMA CallsOnly ==
  ASSUME ScalarInv, objects' = objects, pool' = pool, slotVars' = slotVars,
         toFreeIdx' = toFreeIdx, toFreeUids' = toFreeUids, ret' = 0,
         calls' \in Seq(Frames), writers' \subseteq Roots,
         writers' \union UidsAt(calls', CommitOps) = Drafting,
         writers' \intersect UidsAt(calls', CommitOps) = {},
         UidsAt(calls', DestroyOps) = UidsAt(calls, DestroyOps),
         InCalls(calls', objects, writers', toFreeUids)
  PROVE  ScalarInv'
<1>1. fresh' = fresh /\ freeIdx' = freeIdx
  BY DEF slotVars
<1>2. Types'
  BY <1>1 DEF ScalarInv, Types
<1>3. Drafting' = Drafting /\ Gone' = Gone /\ Committing' = UidsAt(calls', CommitOps)
  BY DEF Drafting, Committing, Gone
<1>4. Listed(objects') /\ Acyclic(objects')
  BY DEF ScalarInv
<1>5. Drafted(objects', Drafting', toFreeUids') /\ writers' \intersect Committing' = {}
  BY <1>3 DEF ScalarInv
<1>6. Owners(objects', Drafting', Gone', fresh', freeIdx', toFreeIdx')
  BY <1>1, <1>3 DEF ScalarInv
<1>7. Clean(fresh', freeIdx', pool') /\ Swept(objects', toFreeUids')
  BY <1>1 DEF ScalarInv
<1>8. InCalls(calls', objects', writers', toFreeUids')
  OBVIOUS
<1> QED BY <1>2, <1>4, <1>5, <1>6, <1>7, <1>8 DEF ScalarInv

(* A single call that neither commits nor destroys. *)
LEMMA Alone ==
  ASSUME NEW X, NEW q \in Seq(X), Len(q) = 1, NEW ops, q[1].op \notin ops
  PROVE  UidsAt(q, ops) = {} /\ Rest(q) = << >>
  BY OneCall, UidsOfTail, UidsNone

(* A client's call. *)
LEMMA Called ==
  ASSUME NEW X, NEW f \in X
  PROVE  <<f>> \in Seq(X) /\ Len(<<f>>) = 1 /\ <<f>>[1] = f /\ <<f>> # << >>
  OBVIOUS

(* The innermost call, in the model's words. *)
LEMMA Innermost ==
  ASSUME Types, NEW op, Top(op)
  PROVE  /\ calls \in Seq(Frames) /\ calls # << >> /\ calls[1].op = op /\ Head(calls) = calls[1]
         /\ calls[1] \in Frames
<1>1. calls \in Seq(Frames) /\ calls # << >>
  BY DEF Types, Top
<1>2. Head(calls) = calls[1] /\ calls[1] \in Frames
  BY <1>1, Popped
<1> QED BY <1>1, <1>2 DEF Top

(* The frames of create_from that clients cause. *)
LEMMA CreateFrame ==
  ASSUME NEW f \in CreateFrames
  PROVE  /\ f.uid \in Uids /\ f.op \notin CommitOps /\ f.op \notin DestroyOps
         /\ f.op = "create_from" => f.from \in Uids
<1>1. CASE f \in [op : {"create_from"}, from : Uids, uid : Uids]
  <2>1. f.op = "create_from" /\ f.uid \in Uids /\ f.from \in Uids
    BY <1>1
  <2> QED BY <2>1 DEF CommitOps, DestroyOps
<1>2. CASE f \in [op : {"copy_sub", "from_end"}, uid : Uids]
  <2>1. f.op \in {"copy_sub", "from_end"} /\ f.uid \in Uids
    BY <1>2
  <2> QED BY <2>1 DEF CommitOps, DestroyOps
<1> QED BY <1>1, <1>2, Zenon DEF CreateFrames

(* create_from is called by a client. *)
LEMMA CreateFromKeeps ==
  ASSUME ScalarInv, Scalar, UidAssumption, SlotAssumption, NEW u \in Uids, NEW p \in Roots,
         CreateFrom(u, p)
  PROVE  ScalarInv'
<1> DEFINE f == [op |-> "create_from", from |-> p, uid |-> u]
<1>1. p \in Uids /\ u \notin In(objects) /\ p \in In(objects)
  BY InMemory DEF CreateFrom, UidAssumption
<1>2. f \in CreateFrames /\ f \in Frames /\ f.op = "create_from" /\ f.uid = u /\ f.from = p
  BY <1>1 DEF CreateFrames, Frames
<1>3. calls = << >> /\ calls' = <<f>>
  BY DEF CreateFrom
<1> HIDE DEF f
<1>4. calls' \in Seq(Frames) /\ Len(calls') = 1 /\ calls'[1] = f
  BY <1>2, <1>3, Called
<1>5. UidsAt(calls', CommitOps) = {} /\ UidsAt(calls', DestroyOps) = {}
      /\ UidsAt(calls, CommitOps) = {} /\ UidsAt(calls, DestroyOps) = {}
  BY <1>2, <1>3, <1>4, Alone, CreateFrame, UidsNone
<1>6. p \notin writers \union toFreeUids
  <2>1. Untouched(Closure(SubEdges, {p}), writers)
    BY DEF CreateFrom, Scalar
  <2>2. p \in Closure(SubEdges, {p})
    BY <1>1, ClosureClosed
  <2> QED BY <2>1, <2>2 DEF Untouched
<1>7. InCalls(calls', objects, writers, toFreeUids)
  BY <1>1, <1>2, <1>4, <1>6 DEF InCalls, Creates
<1>8. Drafting = writers
  BY <1>5 DEF Drafting, Committing
<1> QED BY <1>4, <1>5, <1>7, <1>8, CallsOnly DEF CreateFrom, ScalarInv, Types, clientVars

(* The prefab has no subobject. *)
LEMMA CopySubKeeps ==
  ASSUME ScalarInv, Scalar, UidAssumption, SlotAssumption, CopySub
  PROVE  ScalarInv'
<1> DEFINE f == calls[1]
           u == f.uid
           g == [op |-> "from_end", uid |-> u]
<1>1. /\ calls \in Seq(Frames) /\ calls # << >> /\ f.op = "copy_sub" /\ Head(calls) = f
  BY Innermost DEF CopySub, ScalarInv
<1>2. Len(calls) = 1 /\ f \in CreateFrames /\ u \in In(objects) /\ Cu(objects, u).from \in In(objects)
  BY <1>1, WhichCall DEF ScalarInv, Creates
<1>3. pool[Current(Current(u).from).slot].sub = 0
  BY <1>2, Places, InMemory DEF ScalarInv
<1>4. Become(g)
  BY <1>1, <1>3 DEF CopySub
<1>5. calls' = Push(g, Rest(calls))
  BY <1>1, <1>4, Steps
<1>6. g \in CreateFrames /\ g \in Frames /\ g.op = "from_end" /\ g.uid = u
  BY <1>2, CreateFrame DEF CreateFrames, Frames
<1> HIDE DEF g
<1>7. calls' \in Seq(Frames) /\ Len(calls') = 1 /\ calls'[1] = g
  BY <1>1, <1>2, <1>5, <1>6, Replaced
<1>8. UidsAt(calls', CommitOps) = {} /\ UidsAt(calls', DestroyOps) = {}
      /\ UidsAt(calls, CommitOps) = {} /\ UidsAt(calls, DestroyOps) = {}
  BY <1>1, <1>2, <1>6, <1>7, Alone, CreateFrame
<1>9. InCalls(calls', objects, writers, toFreeUids)
  BY <1>2, <1>6, <1>7 DEF InCalls, Creates
<1>10. Drafting = writers
  BY <1>8 DEF Drafting, Committing
<1> QED BY <1>7, <1>8, <1>9, <1>10, CallsOnly DEF CopySub, ScalarInv, Types, clientVars

(* create_from leaves no change listed in the object: none is.              *)
LEMMA FromEndSame ==
  ASSUME ScalarInv, FromEnd
  PROVE  objects' = objects
<1> DEFINE f == calls[1]
           u == f.uid
<1>1. /\ calls \in Seq(Frames) /\ calls # << >> /\ f.op = "from_end" /\ Head(calls) = f
  BY Innermost DEF FromEnd, ScalarInv
<1>2. f \in CreateFrames /\ u \in Uids
  BY <1>1, WhichCall, CreateFrame DEF ScalarInv
<1>3. objects' = [objects EXCEPT ![Cur(u)].changed = << >>]
  BY <1>1 DEF FromEnd
<1>4. Cu(objects, u).changed = << >> /\ Cur(u) \in Objects /\ Cu(objects, u) \in Records
  BY <1>2, Names, Fields DEF ScalarInv, Listed
<1>5. objects \in [Objects -> Records] /\ objects[Cur(u)] = Cu(objects, u)
  BY DEF ScalarInv, Types, Cu
<1>6. [objects[Cur(u)] EXCEPT !.changed = << >>] = objects[Cur(u)]
  BY <1>4, <1>5 DEF Records
<1> QED BY <1>3, <1>4, <1>5, <1>6

(* create_from returns to the client. *)
LEMMA FromEndKeeps ==
  ASSUME ScalarInv, Scalar, UidAssumption, SlotAssumption, FromEnd
  PROVE  ScalarInv'
<1> DEFINE f == calls[1]
           u == f.uid
<1>1. /\ calls \in Seq(Frames) /\ calls # << >> /\ f.op = "from_end" /\ Head(calls) = f
  BY Innermost DEF FromEnd, ScalarInv
<1>2. Len(calls) = 1 /\ f \in CreateFrames /\ u \in Uids
  BY <1>1, WhichCall, CreateFrame DEF ScalarInv
<1>3. objects' = objects
  BY FromEndSame
<1>4. UidsAt(calls, CommitOps) = {} /\ UidsAt(calls, DestroyOps) = {} /\ Rest(calls) = << >>
  BY <1>1, <1>2, Alone, CreateFrame
<1>5. calls' = << >> /\ ret' = 0
  BY <1>2, <1>4 DEF FromEnd, Leave, Rest
<1>6. UidsAt(calls', CommitOps) = {} /\ UidsAt(calls', DestroyOps) = {}
  BY <1>5, UidsNone
<1>7. InCalls(calls', objects, writers, toFreeUids) /\ calls' \in Seq(Frames)
  BY <1>5 DEF InCalls
<1>8. Drafting = writers
  BY <1>4 DEF Drafting, Committing
<1> QED BY <1>3, <1>4, <1>5, <1>6, <1>7, <1>8, CallsOnly DEF FromEnd, ScalarInv, Types, clientVars

(* What the instance gets for no subobject is none. *)
LEMMA NoPrefabKeeps ==
  ASSUME ScalarInv, Scalar, UidAssumption, SlotAssumption, NoPrefab
  PROVE  ScalarInv'
<1> DEFINE f == calls[1]
           r == Rest(calls)
<1>1. /\ calls \in Seq(Frames) /\ calls # << >> /\ f.op = "create_from" /\ Head(calls) = f
  BY Innermost DEF NoPrefab, ScalarInv
<1>2. f.from \notin In(objects)
  BY <1>1, InMemory DEF NoPrefab
<1>3. r \in Seq(CommitFrames) /\ Commits(r, objects, writers, toFreeUids)
  BY <1>1, <1>2, WhichCall DEF ScalarInv, Creates
<1>4. f.op \notin CommitOps /\ f.op \notin DestroyOps
  BY <1>1 DEF CommitOps, DestroyOps
<1>5. /\ UidsAt(calls, CommitOps) = UidsAt(r, CommitOps)
      /\ UidsAt(calls, DestroyOps) = UidsAt(r, DestroyOps)
  BY <1>1, <1>4, UidsOfTail
<1>6. calls' = r /\ ret' = 0
  BY DEF NoPrefab, Leave, Rest
<1>7. r \in Seq(Frames)
  BY <1>1, Popped
<1>8. InCalls(r, objects, writers, toFreeUids)
  BY <1>3 DEF InCalls
<1>9. writers \union UidsAt(r, CommitOps) = Drafting /\ writers \intersect UidsAt(r, CommitOps) = {}
  BY <1>5 DEF Drafting, Committing, ScalarInv
<1> QED BY <1>5, <1>6, <1>7, <1>8, <1>9, CallsOnly DEF NoPrefab, ScalarInv, Types, clientVars

(* A new object, from a prefab or not. *)
LEMMA NewObject ==
  ASSUME ScalarInv, UidAssumption, SlotAssumption,
         NEW u \in Uids \ In(objects), NEW p \in (In(objects) \ (writers \union toFreeUids)) \union {0},
         NEW s, TakeSlot(s), objects' \in [Objects -> Records], pool' \in [Slots -> TypedValues],
         IsNew(Cu(objects', u), s, p),
         \A v \in Uids \ {u} : Cu(objects', v) = IF v = p THEN [Cu(objects, v) EXCEPT !.instances = @ \union {u}]
                                                 ELSE Cu(objects, v),
         \A v \in Uids : Dr(objects', v) = Dr(objects, v),
         \A r \in Slots \ {s} : pool'[r] = pool[r],
         toFreeIdx' = toFreeIdx, toFreeUids' = toFreeUids, ret' = 0, writers' = writers,
         Drafting = writers, Gone = toFreeUids, calls' \in Seq(Frames),
         UidsAt(calls', CommitOps) = {}, UidsAt(calls', DestroyOps) = {},
         InCalls(calls', objects', writers', toFreeUids')
  PROVE  ScalarInv'
<1> DEFINE o == objects
           n == objects'
<1>1. /\ s \in Slots /\ ~ Owned(s, o, writers, toFreeUids) /\ toFreeIdx[s] = 0 /\ pool[s] = Zero
      /\ Taken(s, fresh, freeIdx, fresh', freeIdx')
      /\ freeIdx' \in [Slots -> Nat] /\ fresh' \subseteq Slots
  BY PlaceTaken DEF ScalarInv
<1>2. Types'
  BY <1>1 DEF ScalarInv, Types
<1>3. \A v \in Uids : Cu(o, v) \in Records
  BY Fields DEF ScalarInv
<1>4. Grown(o, n, u, p)
  <2> SUFFICES ASSUME NEW v \in Uids \ {u}
               PROVE  /\ Cu(n, v).from = Cu(o, v).from /\ Cu(n, v).slot = Cu(o, v).slot
                      /\ Cu(n, v).wslot = Cu(o, v).wslot /\ Cu(n, v).changed = Cu(o, v).changed
                      /\ Cu(n, v).instances = Cu(o, v).instances \union (IF v = p THEN {u} ELSE {})
                      /\ (Cu(n, v) = NoObject <=> Cu(o, v) = NoObject)
    BY DEF Grown, SameBut
  <2>1. CASE v # p
    <3>1. Cu(n, v) = Cu(o, v)
      BY <2>1
    <3> QED BY <2>1, <3>1
  <2>2. CASE v = p
    <3>1. Cu(n, v) = [Cu(o, v) EXCEPT !.instances = @ \union {u}] /\ Cu(o, v) \in Records
      BY <1>3, <2>2
    <3>2. /\ Cu(n, v).from = Cu(o, v).from /\ Cu(n, v).slot = Cu(o, v).slot
          /\ Cu(n, v).wslot = Cu(o, v).wslot /\ Cu(n, v).changed = Cu(o, v).changed
          /\ Cu(n, v).instances = Cu(o, v).instances \union {u}
      BY <3>1 DEF Records
    <3>3. Cu(n, v) # NoObject
      <4>1. u \in Cu(n, v).instances
        BY <3>2
      <4>2. NoObject.instances = {}
        BY DEF NoObject
      <4> QED BY <4>1, <4>2
    <3>4. Cu(o, v) # NoObject
      BY <2>2, InMemory DEF UidAssumption, In
    <3> QED BY <2>2, <3>2, <3>3, <3>4
  <2> QED BY <2>1, <2>2
<1>5. In(n) = In(o) \union {u} /\ Listed(n) /\ Acyclic(n)
  <2>1. \A v \in Uids : Cu(o, v).from \in Uids \union {0}
    BY Fields DEF ScalarInv
  <2>2. Listed(o) /\ Acyclic(o)
    BY DEF ScalarInv
  <2> HIDE DEF n, o
  <2>3. p \in In(o) \union {0}
    BY DEF o
  <2>4. IsNew(Cu(n, u), s, p) /\ u \in Uids \ In(o)
    BY DEF n, o
  <2> QED BY <1>1, <1>4, <2>1, <2>2, <2>3, <2>4, Born
<1>6. Drafting' = writers /\ Gone' = toFreeUids /\ Committing' = {}
  BY DEF Drafting, Committing, Gone
<1>7. Drafted(n, writers, toFreeUids)
  <2>1. Drafted(o, writers, toFreeUids)
    BY DEF ScalarInv
  <2>2. \A v \in writers : v \in In(o) /\ v # p /\ v # u /\ v \in Uids
    BY <2>1, InMemory DEF Drafted, UidAssumption
  <2>3. \A v \in writers : Cu(n, v) = Cu(o, v) /\ Dr(n, v) = Dr(o, v)
    BY <2>2
  <2> QED BY <1>5, <2>1, <2>2, <2>3 DEF Drafted
<1>8. Owners(n, writers, toFreeUids, fresh', freeIdx', toFreeIdx)
  <2>1. Owners(o, writers, toFreeUids, fresh, freeIdx, toFreeIdx)
    BY DEF ScalarInv
  <2>2. \A v \in In(o) : Cu(n, v).slot = Cu(o, v).slot
    BY <1>4, InMemory DEF Grown, SameBut
  <2>3. \A v \in writers : v \in Uids
    BY DEF ScalarInv, Types, UidAssumption
  <2>4. Cu(n, u).slot = s
    BY DEF IsNew
  <2>5. u \notin In(o) /\ \A v \in writers : Dr(n, v).wslot = Dr(o, v).wslot
    BY <2>3
  <2> HIDE DEF n, o
  <2> QED BY <1>1, <1>5, <2>1, <2>2, <2>4, <2>5, OwnersBorn
<1>9. Clean(fresh', freeIdx', pool')
  BY <1>1, CleanTaken DEF ScalarInv
<1>10. Swept(n, toFreeUids)
  <2>1. \A v \in toFreeUids : v \in In(o) /\ v # u /\ v # p /\ v \in Uids
    <3>1. \A v \in toFreeUids : v \in In(o)
      BY DEF ScalarInv, Owners, GivenUp
    <3> QED BY <3>1, InMemory DEF UidAssumption
  <2>2. \A v \in toFreeUids : Cu(n, v) = Cu(o, v)
    BY <2>1
  <2> QED BY <2>2 DEF Swept, ScalarInv
<1> QED BY <1>2, <1>5, <1>6, <1>7, <1>8, <1>9, <1>10 DEF ScalarInv

(* Records of objects that steps change. *)
LEMMA WithFields ==
  /\ \A r \in Records : \A s \in Slots \union {0} : [r EXCEPT !.slot = s] \in Records
  /\ \A r \in Records : \A s \in Slots \union {0} : \A p \in Uids \union {0} :
        [r EXCEPT !.slot = s, !.from = p] \in Records
  /\ \A r \in Records : \A i \in SUBSET Uids : [r EXCEPT !.instances = i] \in Records
  /\ \A r \in Records : \A c \in Seq(Changes) : [r EXCEPT !.changed = c] \in Records
  /\ \A r \in Records : \A s \in Slots \union {0} : \A c \in Seq(Changes) :
        [r EXCEPT !.slot = s, !.changed = c] \in Records
  /\ \A r \in Records : \A s, t \in Slots \union {0} : \A p \in Uids \union {0} : \A i \in SUBSET Uids :
        [r EXCEPT !.slot = s, !.wslot = t, !.from = p, !.instances = i] \in Records
<1> DEFINE R(S, F, I, C) == [slot : S, wslot : S, from : F, instances : I, changed : C]
<1>1. ASSUME NEW S, NEW F, NEW I, NEW C, NEW r \in R(S, F, I, C)
      PROVE  /\ \A s \in S : [r EXCEPT !.slot = s] \in R(S, F, I, C)
             /\ \A s \in S : \A p \in F : [r EXCEPT !.slot = s, !.from = p] \in R(S, F, I, C)
             /\ \A i \in I : [r EXCEPT !.instances = i] \in R(S, F, I, C)
             /\ \A c \in C : [r EXCEPT !.changed = c] \in R(S, F, I, C)
             /\ \A s \in S : \A c \in C : [r EXCEPT !.slot = s, !.changed = c] \in R(S, F, I, C)
             /\ \A s, t \in S : \A p \in F : \A i \in I :
                  [r EXCEPT !.slot = s, !.wslot = t, !.from = p, !.instances = i] \in R(S, F, I, C)
  OBVIOUS
<1> QED BY <1>1 DEF Records

(* Two records with the same fields are the same. *)
LEMMA SameRecord ==
  ASSUME NEW a \in Records, NEW b \in Records, a.from = b.from, a.slot = b.slot,
         a.wslot = b.wslot, a.changed = b.changed, a.instances = b.instances
  PROVE  a = b
<1>1. ASSUME NEW c \in Records
      PROVE  c = [slot |-> c.slot, wslot |-> c.wslot, from |-> c.from,
                  instances |-> c.instances, changed |-> c.changed]
  BY DEF Records
<1>2. /\ a = [slot |-> a.slot, wslot |-> a.wslot, from |-> a.from,
              instances |-> a.instances, changed |-> a.changed]
      /\ b = [slot |-> b.slot, wslot |-> b.wslot, from |-> b.from,
              instances |-> b.instances, changed |-> b.changed]
  BY <1>1, Zenon
<1> QED BY <1>2, Zenon

(* The place taken is one of the pool. *)
LEMMA SlotTaken ==
  ASSUME ScalarInv, SlotAssumption, NEW s, TakeSlot(s)
  PROVE  s \in Slots /\ s # 0
<1>1. Types /\ Owners(objects, Drafting, Gone, fresh, freeIdx, toFreeIdx) /\ Clean(fresh, freeIdx, pool)
  BY DEF ScalarInv
<1>2. s \in Slots
  BY <1>1, PlaceTaken
<1> QED BY <1>2 DEF SlotAssumption

(* The record of a new object, which p, if there is one, has for an instance. *)
Made(u, p, s, o, n) ==
    /\ IsNew(Cu(n, u), s, p)
    /\ \A v \in Uids \ {u} : Cu(n, v) = IF v = p THEN [Cu(o, v) EXCEPT !.instances = @ \union {u}]
                                         ELSE Cu(o, v)
    /\ \A v \in Uids : Dr(n, v) = Dr(o, v)

(* What the first half of create_from makes of a prefab. *)
LEMMA Copied ==
  ASSUME ScalarInv, UidAssumption, SlotAssumption, CopyPrefab
  PROVE  LET u == calls[1].uid
             p == calls[1].from
         IN  /\ Len(calls) = 1 /\ calls[1].op = "create_from" /\ calls[1] \in CreateFrames
             /\ u \in Uids \ In(objects) /\ p \in In(objects) /\ p \notin writers \union toFreeUids
             /\ objects' \in [Objects -> Records] /\ pool' \in [Slots -> TypedValues]
             /\ calls' = Push([op |-> "copy_sub", uid |-> u], Rest(calls))
             /\ \E s \in Slots :
                   /\ s # 0 /\ TakeSlot(s) /\ Made(u, p, s, objects, objects')
                   /\ pool'[s].val = Val(objects, pool, p)
                   /\ \A r \in Slots \ {s} : pool'[r] = pool[r]
<1> DEFINE f == calls[1]
           u == f.uid
           p == f.from
           o == objects
           n == objects'
<1>1. /\ calls \in Seq(Frames) /\ calls # << >> /\ f.op = "create_from" /\ Head(calls) = f
  BY Innermost DEF CopyPrefab, ScalarInv
<1>2. p \in In(o)
  BY <1>1, InMemory DEF CopyPrefab
<1>3. Len(calls) = 1 /\ f \in CreateFrames /\ Creates(f, o, writers, toFreeUids)
  <2>1. f \notin NoneFrames
    BY <1>2, InMemory DEF NoneFrames
  <2> QED BY <1>1, <2>1, WhichCall DEF ScalarInv
<1>4. u \in Uids \ In(o) /\ p \in Uids /\ p \notin writers \union toFreeUids /\ u # p
  BY <1>1, <1>2, <1>3, CreateFrame DEF Creates
<1>5. PICK s \in NewSlots :
         /\ TakeSlot(s)
         /\ n = [objects EXCEPT ![Cur(u)] = [@ EXCEPT !.slot = s, !.from = p],
                                ![Cur(p)].instances = @ \union {u}]
         /\ pool' = [pool EXCEPT ![s].val = Value(Cur(p)).val]
  BY <1>1 DEF CopyPrefab
<1>6. s \in Slots /\ s # 0
  BY <1>5, SlotTaken
<1>7. /\ o \in [Objects -> Records] /\ \A v \in Uids : Cur(v) \in Objects /\ Draft(v) \in Objects
      /\ \A v \in Uids : Cu(o, v) \in Records /\ Cu(o, v) = o[Cur(v)] /\ Dr(o, v) = o[Draft(v)]
      /\ \A v \in Uids : Cu(n, v) = n[Cur(v)] /\ Dr(n, v) = n[Draft(v)]
      /\ Cu(o, u) = NoObject /\ Cu(o, p) # NoObject
  BY <1>2, <1>4, Names, Fields DEF ScalarInv, Types, Cu, Dr, In
<1>8. /\ n[Cur(u)] = [o[Cur(u)] EXCEPT !.slot = s, !.from = p]
      /\ n[Cur(p)] = [o[Cur(p)] EXCEPT !.instances = @ \union {u}]
      /\ \A x \in Objects \ {Cur(u), Cur(p)} : n[x] = o[x]
      /\ DOMAIN n = Objects
  <2>1. Cur(u) # Cur(p)
    BY <1>4, Names
  <2> QED BY <1>4, <1>5, <1>7, <2>1
<1>9. n \in [Objects -> Records]
  <2>1. [o[Cur(u)] EXCEPT !.slot = s, !.from = p] \in Records
    BY <1>4, <1>6, <1>7, WithFields
  <2>2. [o[Cur(p)] EXCEPT !.instances = @ \union {u}] \in Records
    <3>1. o[Cur(p)].instances \union {u} \in SUBSET Uids
      BY <1>4, <1>7 DEF Records
    <3> QED BY <1>4, <1>7, <3>1, WithFields
  <2>3. Cur(u) # Cur(p) /\ Cur(u) \in Objects /\ Cur(p) \in Objects
    BY <1>4, <1>7, Names
  <2>4. n = [[o EXCEPT ![Cur(u)] = [o[Cur(u)] EXCEPT !.slot = s, !.from = p]]
                EXCEPT ![Cur(p)] = [o[Cur(p)] EXCEPT !.instances = @ \union {u}]]
    BY <1>5, <1>7, <2>3
  <2> QED BY <1>7, <2>1, <2>2, <2>4
<1>10. /\ pool' \in [Slots -> TypedValues] /\ \A r \in Slots \ {s} : pool'[r] = pool[r]
       /\ pool'[s].val = Val(o, pool, p)
  <2>1. Cu(o, p).slot \in Slots /\ Value(Cur(p)) = pool[Cu(o, p).slot]
    BY <1>2, Places DEF ScalarInv
  <2>2. pool \in [Slots -> TypedValues] /\ Value(Cur(p)).val \in Values
    BY <2>1 DEF ScalarInv, Types, TypedValues
  <2> QED BY <1>5, <1>6, <2>1, <2>2 DEF TypedValues, Val
<1>11. IsNew(Cu(n, u), s, p)
  <2>1. \A q : IsNew([NoObject EXCEPT !.slot = s, !.from = q], s, q)
    BY DEF NoObject, IsNew
  <2>2. Cu(n, u) = [NoObject EXCEPT !.slot = s, !.from = p]
    BY <1>4, <1>7, <1>8
  <2> QED BY <2>1, <2>2
<1>12. \A v \in Uids \ {u} : Cu(n, v) = IF v = p THEN [Cu(o, v) EXCEPT !.instances = @ \union {u}]
                                         ELSE Cu(o, v)
  BY <1>7, <1>8, Names
<1>13. \A v \in Uids : Dr(n, v) = Dr(o, v)
  BY <1>7, <1>8, Names
<1>14. calls' = Push([op |-> "copy_sub", uid |-> u], Rest(calls))
  BY <1>1, Steps DEF CopyPrefab
<1>15. TakeSlot(s) /\ Made(u, p, s, o, n)
  BY <1>5, <1>11, <1>12, <1>13 DEF Made
<1> HIDE DEF u, p
<1> QED BY <1>1, <1>2, <1>3, <1>4, <1>6, <1>9, <1>10, <1>14, <1>15 DEF u, p

(* The scalar values are copied from the prefab. *)
LEMMA CopyPrefabKeeps ==
  ASSUME ScalarInv, Scalar, UidAssumption, SlotAssumption, CopyPrefab
  PROVE  ScalarInv'
<1> DEFINE f == calls[1]
           u == f.uid
           p == f.from
           o == objects
           n == objects'
           g == [op |-> "copy_sub", uid |-> u]
<1>1. /\ calls \in Seq(Frames) /\ Len(calls) = 1 /\ f.op = "create_from" /\ f \in CreateFrames
      /\ u \in Uids \ In(o) /\ p \in In(o) /\ p \notin writers \union toFreeUids
      /\ n \in [Objects -> Records] /\ pool' \in [Slots -> TypedValues]
      /\ calls' = Push(g, Rest(calls))
  BY Copied DEF ScalarInv, Types
<1>2. PICK s \in Slots : /\ s # 0 /\ TakeSlot(s) /\ Made(u, p, s, o, n)
                         /\ \A r \in Slots \ {s} : pool'[r] = pool[r]
  BY Copied
<1>3. IsNew(Cu(n, u), s, p)
  BY <1>2 DEF Made
<1>4. /\ \A v \in Uids \ {u} : Cu(n, v) = IF v = p THEN [Cu(o, v) EXCEPT !.instances = @ \union {u}]
                                         ELSE Cu(o, v)
      /\ \A v \in Uids : Dr(n, v) = Dr(o, v)
  BY <1>2 DEF Made
<1>5. g \in CreateFrames /\ g \in Frames /\ g.op = "copy_sub" /\ g.uid = u
  BY <1>1 DEF CreateFrames, Frames
<1> HIDE DEF g
<1>6. calls' \in Seq(Frames) /\ Len(calls') = 1 /\ calls'[1] = g
  BY <1>1, <1>5, OneCall, Replaced
<1>7. UidsAt(calls', CommitOps) = {} /\ UidsAt(calls', DestroyOps) = {}
      /\ UidsAt(calls, CommitOps) = {} /\ UidsAt(calls, DestroyOps) = {}
  BY <1>1, <1>5, <1>6, Alone, CreateFrame
<1>8. Drafting = writers /\ Gone = toFreeUids
  BY <1>7 DEF Drafting, Committing, Gone
<1>9. InCalls(calls', n, writers, toFreeUids)
  <2>1. Cu(n, u).slot = s /\ Cu(n, u).from = p /\ NoObject.slot = 0
    BY <1>3 DEF NoObject, IsNew
  <2>2. Cu(n, p) # NoObject
    <3>1. p \in Uids \ {u} /\ Cu(o, p) \in Records
      BY <1>1, InMemory, Fields DEF ScalarInv
    <3>2. u \in Cu(n, p).instances
      BY <1>4, <3>1 DEF Records
    <3> QED BY <3>2 DEF NoObject
  <2>3. u \in In(n) /\ p \in In(n)
    BY <1>1, <1>2, <2>1, <2>2, InMemory DEF In
  <2> QED BY <1>5, <1>6, <2>1, <2>3 DEF InCalls, Creates
<1>10. /\ toFreeIdx' = toFreeIdx /\ toFreeUids' = toFreeUids /\ ret' = 0 /\ writers' = writers
       /\ p \in (In(o) \ (writers \union toFreeUids)) \union {0}
  BY <1>1 DEF CopyPrefab, ScalarInv, Types, clientVars
<1>11. InCalls(calls', n, writers', toFreeUids')
  BY <1>9, <1>10
<1> HIDE DEF u, p
<1> QED BY <1>1, <1>2, <1>3, <1>4, <1>6, <1>7, <1>8, <1>10, <1>11, NewObject

(* What create_object makes. *)
LEMMA Created ==
  ASSUME ScalarInv, UidAssumption, SlotAssumption, NEW u \in Roots, CreateObject(u)
  PROVE  /\ u \in Uids \ In(objects)
         /\ objects' \in [Objects -> Records] /\ pool' \in [Slots -> TypedValues]
         /\ \E s \in Slots :
               /\ s # 0 /\ TakeSlot(s) /\ Made(u, 0, s, objects, objects')
               /\ \A r \in Slots \ {s} : pool'[r] = pool[r]
<1> DEFINE o == objects
           n == objects'
<1>1. u \in Uids /\ u \notin In(o) /\ 0 \notin Uids
  BY InMemory DEF CreateObject, UidAssumption
<1>2. PICK s \in NewSlots : /\ TakeSlot(s) /\ n = [objects EXCEPT ![Cur(u)].slot = s]
                            /\ pool' = [pool EXCEPT ![s].val = 0]
  BY DEF CreateObject, MakeObject
<1>3. s \in Slots /\ s # 0
  BY <1>2, SlotTaken
<1>4. /\ o \in [Objects -> Records] /\ \A v \in Uids : Cur(v) \in Objects /\ Draft(v) \in Objects
      /\ \A v \in Uids : Cu(o, v) \in Records /\ Cu(o, v) = o[Cur(v)] /\ Dr(o, v) = o[Draft(v)]
      /\ \A v \in Uids : Cu(n, v) = n[Cur(v)] /\ Dr(n, v) = n[Draft(v)]
      /\ Cu(o, u) = NoObject
  BY <1>1, Names, Fields DEF ScalarInv, Types, Cu, Dr, In
<1>5. /\ n[Cur(u)] = [o[Cur(u)] EXCEPT !.slot = s]
      /\ \A x \in Objects \ {Cur(u)} : n[x] = o[x]
  BY <1>1, <1>2, <1>4
<1>6. n \in [Objects -> Records]
  <2>1. [o[Cur(u)] EXCEPT !.slot = s] \in Records
    BY <1>1, <1>3, <1>4, WithFields
  <2> QED BY <1>2, <1>4, <2>1
<1>7. pool' \in [Slots -> TypedValues] /\ \A r \in Slots \ {s} : pool'[r] = pool[r]
  BY <1>2, <1>3 DEF ScalarInv, Types, TypedValues, UidAssumption
<1>8. IsNew(Cu(n, u), s, 0)
  BY <1>1, <1>4, <1>5 DEF NoObject, IsNew
<1>9. \A v \in Uids \ {u} : Cu(n, v) = IF v = 0 THEN [Cu(o, v) EXCEPT !.instances = @ \union {u}]
                                        ELSE Cu(o, v)
  BY <1>1, <1>4, <1>5, Names
<1>10. \A v \in Uids : Dr(n, v) = Dr(o, v)
  BY <1>4, <1>5, Names
<1>11. TakeSlot(s) /\ Made(u, 0, s, o, n)
  BY <1>2, <1>8, <1>9, <1>10 DEF Made
<1> QED BY <1>1, <1>3, <1>6, <1>7, <1>11

(* create_object. *)
LEMMA CreateObjectKeeps ==
  ASSUME ScalarInv, Scalar, UidAssumption, SlotAssumption, NEW u \in Roots, CreateObject(u)
  PROVE  ScalarInv'
<1> DEFINE o == objects
           n == objects'
<1>1. u \in Uids \ In(o) /\ n \in [Objects -> Records] /\ pool' \in [Slots -> TypedValues]
  BY Created
<1>2. PICK s \in Slots : TakeSlot(s) /\ Made(u, 0, s, o, n) /\ \A r \in Slots \ {s} : pool'[r] = pool[r]
  BY Created
<1>3. /\ calls = << >> /\ calls' = calls /\ toFreeIdx' = toFreeIdx /\ toFreeUids' = toFreeUids
      /\ ret' = 0 /\ writers' = writers /\ calls' \in Seq(Frames)
  BY DEF CreateObject, ScalarInv, Types, clientVars
<1>4. UidsAt(calls', CommitOps) = {} /\ UidsAt(calls', DestroyOps) = {}
      /\ UidsAt(calls, CommitOps) = {} /\ UidsAt(calls, DestroyOps) = {}
  BY <1>3, UidsNone
<1>5. Drafting = writers /\ Gone = toFreeUids
  BY <1>4 DEF Drafting, Committing, Gone
<1>6. InCalls(calls', n, writers', toFreeUids')
  BY <1>3 DEF InCalls
<1>7. /\ IsNew(Cu(n, u), s, 0) /\ \A v \in Uids : Dr(n, v) = Dr(o, v)
      /\ \A v \in Uids \ {u} : Cu(n, v) = IF v = 0 THEN [Cu(o, v) EXCEPT !.instances = @ \union {u}]
                                         ELSE Cu(o, v)
  BY <1>2 DEF Made
<1> QED BY <1>1, <1>2, <1>3, <1>4, <1>5, <1>6, <1>7, NewObject

---------------------------------------------------------------------------
(* Steps that write to a writer. *)

(* What is drafted has a record and a typed value of its own.               *)
LEMMA HasDraft ==
  ASSUME ScalarInv, UidAssumption, SlotAssumption, NEW u \in Drafting
  PROVE  /\ u \in Uids /\ u \in In(objects) /\ u \notin toFreeUids
         /\ Dr(objects, u) \in Records /\ Dr(objects, u).wslot \in Slots
         /\ SlotOf(Draft(u)) = Dr(objects, u).wslot
         /\ Value(Draft(u)) = pool[Dr(objects, u).wslot]
         /\ Value(Draft(u)).sub = 0 /\ Value(Draft(u)).val \in Values
         /\ Dr(objects, u).slot = Cu(objects, u).slot /\ Dr(objects, u).from = Cu(objects, u).from
         /\ Dr(objects, u).instances = Cu(objects, u).instances
<1>1. Types /\ Listed(objects) /\ Drafted(objects, Drafting, toFreeUids)
  BY DEF ScalarInv
<1>2. u \in Uids
  BY <1>1, InMemory DEF Drafted
<1>3. Dr(objects, u) \in Records
  BY <1>1, <1>2, Fields
<1> QED BY <1>1, <1>2, <1>3, Places DEF Drafted

(* The record of a writer when a change is listed: all else stays.          *)
LEMMA Logged ==
  ASSUME ScalarInv, UidAssumption, SlotAssumption, NEW u \in Drafting, NEW c \in Changes,
         Changed(Draft(u), c)
  PROVE  /\ objects' \in [Objects -> Records]
         /\ \A v \in Uids : Cu(objects', v) = Cu(objects, v)
         /\ \A v \in Uids \ {u} : Dr(objects', v) = Dr(objects, v)
         /\ Dr(objects', u).slot = Dr(objects, u).slot
         /\ Dr(objects', u).wslot = Dr(objects, u).wslot
         /\ Dr(objects', u).from = Dr(objects, u).from
         /\ Dr(objects', u).instances = Dr(objects, u).instances
         /\ Dr(objects, u).changed \in Seq(Changes)
         /\ Dr(objects', u).changed = Append(Dr(objects, u).changed, c)
<1> DEFINE o == objects
           n == objects'
           w == Dr(o, u)
<1>1. /\ o \in [Objects -> Records] /\ \A v \in Uids : Cur(v) \in Objects /\ Draft(v) \in Objects
      /\ \A v \in Uids : Cu(o, v) = o[Cur(v)] /\ Dr(o, v) = o[Draft(v)]
      /\ \A v \in Uids : Cu(n, v) = n[Cur(v)] /\ Dr(n, v) = n[Draft(v)]
  BY Names DEF ScalarInv, Types, Cu, Dr
<1>2. u \in Uids /\ w \in Records /\ w.wslot \in Slots /\ u \in In(o)
  BY HasDraft
<1>3. /\ n = [o EXCEPT ![Draft(u)] = [o[Draft(u)] EXCEPT !.changed = Append(@, c)]]
      /\ n[Draft(u)] = [o[Draft(u)] EXCEPT !.changed = Append(@, c)]
      /\ \A x \in Objects \ {Draft(u)} : n[x] = o[x]
  BY <1>1, <1>2 DEF Changed
<1>4. w.changed \in Seq(Changes)
  BY <1>2 DEF Records
<1>5. n \in [Objects -> Records]
  <2>1. Append(w.changed, c) \in Seq(Changes)
    BY <1>4
  <2>2. [o[Draft(u)] EXCEPT !.changed = Append(@, c)] \in Records
    BY <1>1, <1>2, <2>1, WithFields
  <2> QED BY <1>1, <1>2, <1>3, <2>2
<1>6. /\ \A v \in Uids : Cu(n, v) = Cu(o, v)
      /\ \A v \in Uids \ {u} : Dr(n, v) = Dr(o, v)
  <2>1. \A v \in Uids : Cur(v) \in Objects \ {Draft(u)}
    BY <1>1, Names
  <2>2. \A v \in Uids \ {u} : Draft(v) \in Objects \ {Draft(u)}
    BY <1>1, <1>2, Names
  <2>3. \A x \in Objects \ {Draft(u)} : n[x] = o[x]
    BY <1>3
  <2> HIDE DEF n, o
  <2> QED BY <1>1, <2>1, <2>2, <2>3
<1>7. /\ Dr(n, u).slot = w.slot /\ Dr(n, u).wslot = w.wslot /\ Dr(n, u).from = w.from
      /\ Dr(n, u).instances = w.instances /\ Dr(n, u).changed = Append(w.changed, c)
  <2>1. Dr(n, u) = [w EXCEPT !.changed = Append(@, c)]
    BY <1>1, <1>2, <1>3
  <2> HIDE DEF n, w
  <2> QED BY <1>2, <2>1 DEF Records
<1> QED BY <1>4, <1>5, <1>6, <1>7

(* One value of a writer and its list of changes, nothing that readers see. *)
LEMMA Written ==
  ASSUME ScalarInv, UidAssumption, SlotAssumption, NEW u \in Drafting, NEW c \in Changes,
         Changed(Draft(u), c), pool' \in [Slots -> TypedValues],
         \A r \in Slots \ {Dr(objects, u).wslot} : pool'[r] = pool[r],
         slotVars' = slotVars, toFreeIdx' = toFreeIdx, toFreeUids' = toFreeUids, ret' = 0,
         writers' = writers, calls' \in Seq(Frames),
         UidsAt(calls', CommitOps) = UidsAt(calls, CommitOps),
         UidsAt(calls', DestroyOps) = UidsAt(calls, DestroyOps),
         SameTree(objects, objects') => InCalls(calls', objects', writers, toFreeUids)
  PROVE  ScalarInv'
<1> DEFINE o == objects
           n == objects'
           w == Dr(o, u)
<1>1. fresh' = fresh /\ freeIdx' = freeIdx
  BY DEF slotVars
<1>2. u \in Uids /\ w.wslot \in Slots
  BY HasDraft
<1>3. /\ n \in [Objects -> Records]
      /\ \A v \in Uids : Cu(n, v) = Cu(o, v)
      /\ \A v \in Uids \ {u} : Dr(n, v) = Dr(o, v)
      /\ Dr(n, u).slot = w.slot /\ Dr(n, u).wslot = w.wslot /\ Dr(n, u).from = w.from
      /\ Dr(n, u).instances = w.instances
  BY Logged
<1>4. SameTree(o, n) /\ Listed(n)
  BY <1>3, OnlyWriters DEF ScalarInv
<1>5. In(n) = In(o)
  BY <1>4 DEF SameTree
<1>6. Acyclic(n) /\ Swept(n, toFreeUids)
  BY <1>4, TreeSame DEF ScalarInv, Types
<1>7. Drafting' = Drafting /\ Gone' = Gone /\ Committing' = Committing
  BY DEF Drafting, Committing, Gone
<1>8. Drafted(n, Drafting, toFreeUids)
  <2>1. Drafted(o, Drafting, toFreeUids)
    BY DEF ScalarInv
  <2>2. \A v \in Drafting : v \in Uids
    BY HasDraft
  <2>3. ASSUME NEW v \in Drafting
        PROVE  /\ v \in In(n) /\ v \notin toFreeUids
               /\ Dr(n, v).slot = Cu(n, v).slot /\ Dr(n, v).wslot \in Slots
               /\ Dr(n, v).from = Cu(n, v).from /\ Dr(n, v).instances = Cu(n, v).instances
    <3>1. CASE v = u
      BY <1>3, <1>5, <2>1, <2>2, <3>1 DEF Drafted
    <3>2. CASE v # u
      BY <1>3, <1>5, <2>1, <2>2, <3>2 DEF Drafted
    <3> QED BY <3>1, <3>2
  <2> QED BY <1>3, <2>1, <2>3 DEF Drafted
<1>9. Owners(n, Drafting, Gone, fresh, freeIdx, toFreeIdx)
  <2>1. Owners(o, Drafting, Gone, fresh, freeIdx, toFreeIdx)
    BY DEF ScalarInv
  <2>2. \A v \in In(o) : Cu(n, v).slot = Cu(o, v).slot
    BY <1>3, InMemory
  <2>3. \A v \in Drafting : v \in Uids
    BY HasDraft
  <2>4. \A v \in Drafting : Dr(n, v).wslot = Dr(o, v).wslot
    BY <1>3, <2>3
  <2> QED BY <1>5, <2>1, <2>2, <2>4, OwnersSame
<1>10. Clean(fresh, freeIdx, pool')
  <2>1. Owned(w.wslot, o, Drafting, Gone)
    BY DEF Owned
  <2>2. w.wslot \notin fresh /\ freeIdx[w.wslot] = 0
    BY <1>2, <2>1 DEF ScalarInv, Owners, InOnePlace
  <2>3. ASSUME NEW r \in Slots, freeIdx[r] > 0 \/ r \in fresh PROVE pool'[r] = Zero
    <3>1. r # w.wslot
      BY <2>2, <2>3
    <3> QED BY <2>3, <3>1 DEF ScalarInv, Clean
  <2> QED BY <2>3 DEF Clean
<1>11. Types'
  BY <1>1, <1>3 DEF ScalarInv, Types
<1>12. writers' \intersect Committing' = {}
  BY <1>7 DEF ScalarInv
<1> QED BY <1>1, <1>4, <1>6, <1>7, <1>8, <1>9, <1>10, <1>11, <1>12 DEF ScalarInv

(* Values of the right type in a place of the pool.                         *)
LEMMA PoolWritten ==
  ASSUME pool \in [Slots -> TypedValues], NEW s \in Slots
  PROVE  /\ \A v \in Values : /\ [pool EXCEPT ![s].val = v] \in [Slots -> TypedValues]
                              /\ \A r \in Slots \ {s} : [pool EXCEPT ![s].val = v][r] = pool[r]
         /\ [pool EXCEPT ![s].sub = 0] \in [Slots -> TypedValues]
         /\ \A r \in Slots \ {s} : [pool EXCEPT ![s].sub = 0][r] = pool[r]
  BY DEF TypedValues

(* A client sets a value. *)
LEMMA SetValueKeeps ==
  ASSUME ScalarInv, Scalar, UidAssumption, SlotAssumption, NEW u \in writers, NEW v \in Values,
         SetValue(u, v)
  PROVE  ScalarInv'
<1> DEFINE w == Draft(u)
           s == Dr(objects, u).wslot
           c == [prop |-> "val", old |-> Value(w).val, new |-> v]
<1>1. u \in Drafting
  BY DEF Drafting
<1>2. SlotOf(w) = s /\ s \in Slots /\ Value(w).val \in Values
  BY <1>1, HasDraft
<1>3. c \in Changes
  BY <1>2 DEF Changes
<1>4. pool' = [pool EXCEPT ![s].val = v] /\ Changed(w, c)
  BY <1>2 DEF SetValue
<1>5. pool' \in [Slots -> TypedValues] /\ \A r \in Slots \ {s} : pool'[r] = pool[r]
  BY <1>2, <1>4, PoolWritten DEF ScalarInv, Types
<1>6. /\ slotVars' = slotVars /\ toFreeIdx' = toFreeIdx /\ toFreeUids' = toFreeUids /\ ret' = 0
      /\ writers' = writers /\ calls' = calls /\ calls = << >> /\ calls' \in Seq(Frames)
  BY DEF SetValue, ScalarInv, Types
<1>7. InCalls(calls', objects', writers, toFreeUids)
  BY <1>6 DEF InCalls
<1> HIDE DEF c
<1> QED BY <1>1, <1>3, <1>4, <1>5, <1>6, <1>7, Written

(* The frames of set_subobject. *)
LEMMA ClearFrame ==
  ASSUME NEW f \in ClearFrames
  PROVE  /\ f.op \notin CommitOps /\ f.op \notin DestroyOps /\ f.sub = 0
         /\ [f EXCEPT !.op = "assign"] \in ClearFrames
         /\ [f EXCEPT !.op = "assign"].op = "assign" /\ [f EXCEPT !.op = "assign"].obj = f.obj
         /\ ClearFrames \subseteq Frames /\ f \in Frames
<1>1. f.op \in {"set_sub", "assign"} /\ f.sub = 0
  BY DEF ClearFrames
<1>2. /\ [f EXCEPT !.op = "assign"] \in ClearFrames
      /\ [f EXCEPT !.op = "assign"].op = "assign" /\ [f EXCEPT !.op = "assign"].obj = f.obj
  BY DEF ClearFrames
<1>3. f.op \notin CommitOps /\ f.op \notin DestroyOps
  BY <1>1 DEF CommitOps, DestroyOps
<1>4. ClearFrames \subseteq Frames
  BY Zenon DEF Frames
<1> QED BY <1>1, <1>2, <1>3, <1>4

(* Who calls set_subobject: a client, or an instance that follows.          *)
LEMMA Clearing ==
  ASSUME ScalarInv, UidAssumption, SlotAssumption, calls # << >>, calls[1].op \in {"set_sub", "assign"}
  PROVE  /\ calls[1] \in ClearFrames /\ \E u \in Drafting : calls[1].obj = Draft(u)
         /\ UidsAt(calls, CommitOps) = UidsAt(Rest(calls), CommitOps)
         /\ UidsAt(calls, DestroyOps) = UidsAt(Rest(calls), DestroyOps)
         /\ Rest(calls) \in Seq(Frames)
         /\ \/ Len(calls) = 1 /\ calls[1].obj[2] \in writers /\ Rest(calls) = << >>
            \/ /\ Rest(calls) \in Seq(CommitFrames)
               /\ Commits(Rest(calls), objects, writers, toFreeUids)
               /\ Len(calls) > 1 /\ calls[1].obj = Draft(calls[2].uid) /\ calls[2].op = "follow"
<1> DEFINE f == calls[1]
           r == Rest(calls)
<1>1. calls \in Seq(Frames) /\ InCalls(calls, objects, writers, toFreeUids)
  BY DEF ScalarInv, Types
<1>2. f \in ClearFrames
  BY <1>1, WhichCall
<1>3. f.op \notin CommitOps /\ f.op \notin DestroyOps
  BY <1>2, ClearFrame
<1>4. /\ UidsAt(calls, CommitOps) = UidsAt(r, CommitOps)
      /\ UidsAt(calls, DestroyOps) = UidsAt(r, DestroyOps)
  BY <1>1, <1>3, UidsOfTail
<1>5. r \in Seq(Frames)
  BY <1>1, Popped
<1>6. CASE Len(calls) = 1 /\ f.obj[2] \in writers
  <2>1. r = << >>
    BY <1>1, <1>6, OneCall
  <2>2. f.obj = Draft(f.obj[2])
    <3>1. f.obj \in {"writer"} \X Uids
      BY <1>2 DEF ClearFrames
    <3> QED BY <3>1 DEF Draft
  <2> QED BY <1>2, <1>4, <1>5, <1>6, <2>1, <2>2 DEF Drafting
<1>7. CASE /\ r \in Seq(CommitFrames) /\ Commits(r, objects, writers, toFreeUids)
           /\ Len(calls) > 1 /\ f.obj = Draft(calls[2].uid) /\ calls[2].op = "follow"
  <2>1. Len(r) \in Nat \ {0} /\ r[1] = calls[2]
    <3>1. Len(calls) = Len(r) + 1 /\ Len(r) \in Nat /\ \A k \in 1 .. Len(r) : r[k] = calls[k + 1]
      BY <1>1, Popped
    <3>2. 1 \in 1 .. Len(r) /\ 1 + 1 = 2
      BY <1>7, <3>1
    <3>3. r[1] = calls[1 + 1]
      BY <3>1, <3>2
    <3> QED BY <3>1, <3>2, <3>3
  <2>2. r[1].uid \in UidsAt(r, CommitOps)
    BY <1>7, CommitCalls
  <2>3. calls[2].uid \in Drafting
    BY <1>4, <2>1, <2>2 DEF Drafting, Committing
  <2> QED BY <1>2, <1>4, <1>5, <1>7, <2>3
<1> QED BY <1>1, <1>6, <1>7, WhichCall

(* There is no old subobject to destroy. *)
LEMMA DropSubKeeps ==
  ASSUME ScalarInv, Scalar, UidAssumption, SlotAssumption, DropSub
  PROVE  ScalarInv'
<1> DEFINE f == calls[1]
           g == [f EXCEPT !.op = "assign"]
           r == Rest(calls)
<1>1. /\ calls \in Seq(Frames) /\ calls # << >> /\ f.op = "set_sub" /\ Head(calls) = f
  BY Innermost DEF DropSub, ScalarInv
<1>2. /\ f \in ClearFrames /\ \E u \in Drafting : f.obj = Draft(u)
      /\ UidsAt(calls, CommitOps) = UidsAt(r, CommitOps)
      /\ UidsAt(calls, DestroyOps) = UidsAt(r, DestroyOps)
      /\ \/ Len(calls) = 1 /\ f.obj[2] \in writers /\ r = << >>
         \/ /\ r \in Seq(CommitFrames) /\ Commits(r, objects, writers, toFreeUids)
            /\ Len(calls) > 1 /\ f.obj = Draft(calls[2].uid) /\ calls[2].op = "follow"
  BY <1>1, Clearing
<1>3. Value(f.obj).sub = 0
  BY <1>2, HasDraft
<1>4. calls' = Push(g, r)
  <2>1. Become(g)
    BY <1>1, <1>3 DEF DropSub
  <2> QED BY <1>1, <2>1, Steps
<1>5. g \in ClearFrames /\ g \in Frames /\ g.op = "assign" /\ g.obj = f.obj
      /\ g.op \notin CommitOps /\ g.op \notin DestroyOps
  BY <1>2, ClearFrame DEF CommitOps, DestroyOps
<1> HIDE DEF g, r
<1>6. /\ calls' \in Seq(Frames) /\ Len(calls') = Len(calls) /\ calls'[1] = g
      /\ Len(calls) > 1 => calls'[2] = calls[2]
      /\ Len(calls) \in Nat \ {0} /\ Rest(calls') = r
  <2>1. calls' = Push(g, Rest(calls)) /\ r = Rest(calls)
    BY <1>4 DEF r
  <2>2. /\ calls' \in Seq(Frames) /\ calls' # << >> /\ Rest(calls') = Rest(calls)
        /\ Len(calls') = Len(calls) /\ Len(calls) \in Nat \ {0} /\ calls'[1] = g
        /\ \A k \in 2 .. Len(calls) : calls'[k] = calls[k]
    BY <1>1, <1>5, <2>1, Replaced
  <2>3. Len(calls) > 1 => 2 \in 2 .. Len(calls)
    BY <2>2
  <2> QED BY <2>1, <2>2, <2>3
<1>7. /\ UidsAt(calls', CommitOps) = UidsAt(r, CommitOps)
      /\ UidsAt(calls', DestroyOps) = UidsAt(r, DestroyOps)
  BY <1>1, <1>4, <1>5, UidsReplaced DEF r
<1>8. InCalls(calls', objects, writers, toFreeUids)
  BY <1>2, <1>5, <1>6 DEF InCalls, Helps
<1>9. /\ writers \union UidsAt(calls', CommitOps) = Drafting
      /\ writers \intersect UidsAt(calls', CommitOps) = {}
  BY <1>2, <1>7 DEF Drafting, Committing, ScalarInv
<1> QED BY <1>2, <1>6, <1>7, <1>8, <1>9, CallsOnly DEF DropSub, ScalarInv, Types, clientVars

(* No subobject is set. *)
LEMMA AssignSubKeeps ==
  ASSUME ScalarInv, Scalar, UidAssumption, SlotAssumption, AssignSub
  PROVE  ScalarInv'
<1> DEFINE f == calls[1]
           r == Rest(calls)
<1>1. /\ calls \in Seq(Frames) /\ calls # << >> /\ f.op = "assign" /\ Head(calls) = f
  BY Innermost DEF AssignSub, ScalarInv
<1>2. /\ f \in ClearFrames /\ \E u \in Drafting : f.obj = Draft(u)
      /\ UidsAt(calls, CommitOps) = UidsAt(r, CommitOps)
      /\ UidsAt(calls, DestroyOps) = UidsAt(r, DestroyOps)
      /\ r \in Seq(Frames)
      /\ \/ r = << >>
         \/ r \in Seq(CommitFrames) /\ Commits(r, objects, writers, toFreeUids)
  BY <1>1, Clearing
<1>3. PICK u \in Drafting : f.obj = Draft(u)
  BY <1>2
<1> DEFINE s == Dr(objects, u).wslot
           c == [prop |-> "sub", old |-> f.sub, new |-> f.sub]
<1>4. SlotOf(f.obj) = s /\ s \in Slots /\ f.sub = 0
  BY <1>2, <1>3, HasDraft, ClearFrame
<1>5. c \in Changes
  BY <1>4 DEF Changes
<1>6. pool' = [pool EXCEPT ![s].sub = 0] /\ Changed(Draft(u), c) /\ calls' = r
  BY <1>1, <1>3, <1>4 DEF AssignSub, Leave, Rest
<1>7. pool' \in [Slots -> TypedValues] /\ \A x \in Slots \ {s} : pool'[x] = pool[x]
  BY <1>4, <1>6, PoolWritten DEF ScalarInv, Types
<1>8. /\ slotVars' = slotVars /\ toFreeIdx' = toFreeIdx /\ toFreeUids' = toFreeUids /\ ret' = 0
      /\ writers' = writers
  BY DEF AssignSub, ScalarInv, Types, clientVars
<1> HIDE DEF c, r
<1>9. SameTree(objects, objects') => InCalls(calls', objects', writers, toFreeUids)
  BY <1>2, <1>6, CommitsSame DEF InCalls
<1> QED BY <1>2, <1>3, <1>5, <1>6, <1>7, <1>8, <1>9, Written

(* A client sets no subobject. *)
LEMMA SetSubobjectKeeps ==
  ASSUME ScalarInv, Scalar, UidAssumption, SlotAssumption, NEW u \in writers,
         NEW x \in SubUids \union {0}, SetSubobject(u, x)
  PROVE  ScalarInv'
<1> DEFINE f == [op |-> "set_sub", obj |-> Draft(u), sub |-> x]
<1>1. x = 0 /\ u \in Uids
  BY HasDraft DEF Scalar, Drafting
<1>2. calls = << >> /\ calls' = <<f>>
  BY DEF SetSubobject
<1>3. f \in ClearFrames /\ f.obj[2] = u
  BY <1>1 DEF ClearFrames, Draft
<1> HIDE DEF f
<1>4. f \in Frames /\ f.op \notin CommitOps /\ f.op \notin DestroyOps
  BY <1>3, ClearFrame
<1>5. calls' \in Seq(Frames) /\ Len(calls') = 1 /\ calls'[1] = f
  BY <1>2, <1>4, Called
<1>6. UidsAt(calls', CommitOps) = {} /\ UidsAt(calls', DestroyOps) = {}
      /\ UidsAt(calls, CommitOps) = {} /\ UidsAt(calls, DestroyOps) = {}
  BY <1>2, <1>4, <1>5, Alone, UidsNone
<1>7. InCalls(calls', objects, writers, toFreeUids)
  BY <1>3, <1>5 DEF InCalls
<1>8. Drafting = writers
  BY <1>6 DEF Drafting, Committing
<1> QED BY <1>5, <1>6, <1>7, <1>8, CallsOnly DEF SetSubobject, ScalarInv, Types

---------------------------------------------------------------------------
(* destroy_object *)

(* It is called by a client. *)
LEMMA DestroyObjectKeeps ==
  ASSUME ScalarInv, Scalar, UidAssumption, SlotAssumption, NEW u \in Uids, DestroyObject(u)
  PROVE  ScalarInv'
<1>1. /\ calls' \in Seq(DestroyFrames) /\ Destroys(calls', objects, writers, toFreeUids)
      /\ UidsAt(calls', DestroyOps) = {} /\ UidsAt(calls', CommitOps) = {}
  BY DestroyCalled
<1>2. calls = << >>
  BY DEF DestroyObject
<1>3. UidsAt(calls, DestroyOps) = {} /\ UidsAt(calls, CommitOps) = {}
  BY <1>2, UidsNone
<1>4. calls' \in Seq(Frames)
  <2>1. DestroyFrames \subseteq Frames
    BY Zenon DEF Frames
  <2> QED BY <1>1, <2>1
<1>5. InCalls(calls', objects, writers, toFreeUids)
  BY <1>1 DEF InCalls
<1>6. Drafting = writers
  BY <1>3 DEF Drafting, Committing
<1> QED BY <1>1, <1>3, <1>4, <1>5, <1>6, CallsOnly DEF DestroyObject, ScalarInv, Types, clientVars

(* The stack while objects are destroyed. *)
LEMMA DestroyingNow ==
  ASSUME ScalarInv, calls # << >>, calls[1].op \in {"destroy", "destroy_instances"}
  PROVE  /\ calls \in Seq(DestroyFrames) /\ Destroys(calls, objects, writers, toFreeUids)
         /\ UidsAt(calls, CommitOps) = {} /\ Drafting = writers
         /\ calls[1] \in DestroyFrames /\ calls[1].uid \in Uids
         /\ DestroyFrames \subseteq Frames
<1>1. calls \in Seq(DestroyFrames) /\ Destroys(calls, objects, writers, toFreeUids)
  BY WhichCall DEF ScalarInv, Types
<1>2. UidsAt(calls, CommitOps) = {} /\ Destroying(calls, 1, objects, toFreeUids)
  BY <1>1, DestroyCalls
<1>3. DestroyFrames \subseteq Frames
  BY Zenon DEF Frames
<1> QED BY <1>1, <1>2, <1>3 DEF Destroying, Drafting, Committing

(* There is no such object. *)
LEMMA NotAliveKeeps ==
  ASSUME ScalarInv, Scalar, UidAssumption, SlotAssumption, NotAlive
  PROVE  ScalarInv'
<1>1. /\ calls \in Seq(Frames) /\ calls # << >> /\ calls[1].op = "destroy" /\ Head(calls) = calls[1]
  BY Innermost DEF NotAlive, ScalarInv
<1>2. /\ calls \in Seq(DestroyFrames) /\ Destroys(calls, objects, writers, toFreeUids)
      /\ UidsAt(calls, CommitOps) = {} /\ Drafting = writers
  BY <1>1, DestroyingNow
<1>3. calls[1].uid \notin In(objects)
  BY <1>1, InMemory DEF NotAlive
<1>4. Rest(calls) = << >> /\ UidsAt(calls, DestroyOps) = {}
  BY <1>2, <1>3, NotAliveFirst DEF ScalarInv
<1>5. calls' = << >>
  BY <1>4 DEF NotAlive, Leave, Rest
<1>6. UidsAt(calls', DestroyOps) = {} /\ UidsAt(calls', CommitOps) = {}
  BY <1>5, UidsNone
<1>7. InCalls(calls', objects, writers, toFreeUids) /\ calls' \in Seq(Frames)
  BY <1>5 DEF InCalls
<1> QED BY <1>2, <1>4, <1>6, <1>7, CallsOnly DEF NotAlive, ScalarInv, Types, clientVars

(* An object gives its typed value up and goes on with its instances.       *)
LEMMA DestroyStartKeeps ==
  ASSUME ScalarInv, Scalar, UidAssumption, SlotAssumption, DestroyStart
  PROVE  ScalarInv'
<1> DEFINE f == calls[1]
           u == f.uid
           o == objects
           g == [op |-> "destroy_instances", uid |-> u, todo |-> Cu(o, u).instances]
           s == Cu(o, u).slot
           ti2 == [toFreeIdx EXCEPT ![s] = @ + 1]
<1>1. /\ calls \in Seq(Frames) /\ calls # << >> /\ f.op = "destroy" /\ Head(calls) = f
  BY Innermost DEF DestroyStart, ScalarInv
<1>2. /\ calls \in Seq(DestroyFrames) /\ Destroys(calls, o, writers, toFreeUids)
      /\ UidsAt(calls, CommitOps) = {} /\ Drafting = writers /\ u \in Uids
      /\ DestroyFrames \subseteq Frames
  BY <1>1, DestroyingNow
<1>3. u \in In(o)
  BY <1>1, InMemory DEF DestroyStart
<1>4. s \in Slots /\ Value(Cur(u)).sub = 0
  BY <1>3, Places DEF ScalarInv
<1>5. toFreeIdx' = ti2
  BY <1>1, InMemory DEF DestroyStart, FreeSlot
<1>6. calls' = Push(g, Rest(calls))
  <2>1. Become(g)
    BY <1>1, <1>4, InMemory DEF DestroyStart
  <2> QED BY <1>1, <2>1, Steps
<1>7. /\ g \in DestroyFrames /\ g.op = "destroy_instances" /\ g.uid = u
      /\ g.todo = Cu(o, u).instances
  BY <1>2, Fields DEF DestroyFrames, ScalarInv
<1> HIDE DEF g
<1>8. /\ calls' \in Seq(DestroyFrames) /\ Destroys(calls', o, writers, toFreeUids)
      /\ UidsAt(calls', DestroyOps) = UidsAt(calls, DestroyOps) \union {u}
      /\ u \notin toFreeUids \union UidsAt(calls, DestroyOps)
  <2>1. Listed(o) /\ Acyclic(o)
    BY DEF ScalarInv
  <2> HIDE DEF u, o
  <2>2. u = calls[1].uid /\ calls[1].op = "destroy"
    BY <1>1 DEF u
  <2> QED BY <1>2, <1>3, <1>6, <1>7, <2>1, <2>2, DestroyStarts
<1>9. UidsAt(calls', CommitOps) = {}
  BY <1>8, DestroyCalls
<1>10. /\ fresh' = fresh /\ freeIdx' = freeIdx /\ objects' = o /\ pool' = pool /\ ret' = 0
       /\ toFreeUids' = toFreeUids /\ writers' = writers
  BY DEF DestroyStart, slotVars, clientVars, ScalarInv, Types
<1>11. Drafting' = Drafting /\ Gone' = Gone \union {u} /\ Committing' = {} /\ u \notin Gone
  BY <1>2, <1>8, <1>9, <1>10 DEF Drafting, Committing, Gone
<1>12. ti2 \in [Slots -> Nat]
  BY <1>4 DEF ScalarInv, Types
<1>13. Types'
  BY <1>2, <1>5, <1>8, <1>10, <1>12 DEF ScalarInv, Types
<1>14. Owners(o, Drafting, Gone \union {u}, fresh, freeIdx, ti2)
  <2>1. toFreeIdx \in [Slots -> Nat] /\ Owners(o, Drafting, Gone, fresh, freeIdx, toFreeIdx)
    BY DEF ScalarInv, Types
  <2>2. u \in In(o) \ Gone
    BY <1>3, <1>11
  <2> HIDE DEF o, u
  <2> QED BY <1>4, <2>1, <2>2, OwnersDestroy
<1>15. InCalls(calls', o, writers, toFreeUids)
  BY <1>8 DEF InCalls
<1> HIDE DEF ti2
<1>16. Owners(objects', Drafting', Gone', fresh', freeIdx', toFreeIdx')
  BY <1>5, <1>10, <1>11, <1>14
<1>17. /\ Listed(objects') /\ Acyclic(objects') /\ Drafted(objects', Drafting', toFreeUids')
       /\ writers' \intersect Committing' = {} /\ Clean(fresh', freeIdx', pool')
       /\ Swept(objects', toFreeUids')
  BY <1>10, <1>11 DEF ScalarInv
<1> QED BY <1>10, <1>13, <1>15, <1>16, <1>17 DEF ScalarInv

(* The next instance. *)
LEMMA DestroyInstanceKeeps ==
  ASSUME ScalarInv, Scalar, UidAssumption, SlotAssumption, DestroyInstance
  PROVE  ScalarInv'
<1> DEFINE f == calls[1]
<1>1. /\ calls \in Seq(Frames) /\ calls # << >> /\ f.op = "destroy_instances" /\ Head(calls) = f
  BY Innermost DEF DestroyInstance, ScalarInv
<1>2. /\ calls \in Seq(DestroyFrames) /\ Destroys(calls, objects, writers, toFreeUids)
      /\ UidsAt(calls, CommitOps) = {} /\ Drafting = writers /\ f.uid \in Uids /\ f \in DestroyFrames
      /\ DestroyFrames \subseteq Frames
  BY <1>1, DestroyingNow
<1>3. PICK i \in f.todo : Call([f EXCEPT !.todo = @ \ {i}], [op |-> "destroy", uid |-> i])
  BY <1>1 DEF DestroyInstance
<1> DEFINE g == [f EXCEPT !.todo = @ \ {i}]
           h == [op |-> "destroy", uid |-> i]
<1>4. calls' = Push(h, Push(g, Rest(calls)))
  BY <1>1, <1>3, Steps
<1>5. f \in [op : {"destroy_instances"}, uid : Uids, todo : SUBSET Uids]
  BY <1>1, <1>2 DEF DestroyFrames
<1>6. /\ g \in [op : {"destroy_instances"}, uid : Uids, todo : SUBSET Uids]
      /\ g.op = "destroy_instances" /\ g.uid = f.uid /\ g.todo = f.todo \ {i} /\ i \in Uids
  BY <1>3, <1>5
<1>7. g \in DestroyFrames /\ h \in DestroyFrames /\ h.op = "destroy" /\ h.uid = i
  BY <1>6 DEF DestroyFrames
<1> HIDE DEF g, h
<1>8. /\ calls' \in Seq(DestroyFrames) /\ Destroys(calls', objects, writers, toFreeUids)
      /\ UidsAt(calls', DestroyOps) = UidsAt(calls, DestroyOps)
  <2>1. /\ calls[1].op = "destroy_instances" /\ i \in calls[1].todo /\ g.op = "destroy_instances"
        /\ g.uid = calls[1].uid /\ g.todo = calls[1].todo \ {i}
    BY <1>1, <1>3, <1>6
  <2> HIDE DEF f
  <2> QED BY <1>2, <1>4, <1>7, <2>1, DestroyNext
<1>9. UidsAt(calls', CommitOps) = {}
  BY <1>8, DestroyCalls
<1>10. InCalls(calls', objects, writers, toFreeUids) /\ calls' \in Seq(Frames)
  BY <1>2, <1>8 DEF InCalls
<1> QED BY <1>2, <1>8, <1>9, <1>10, CallsOnly DEF DestroyInstance, ScalarInv, Types, clientVars

(* The object is listed for the collection, and its prefab's call goes on.  *)
LEMMA DestroyEndKeeps ==
  ASSUME ScalarInv, Scalar, UidAssumption, SlotAssumption, DestroyEnd
  PROVE  ScalarInv'
<1> DEFINE f == calls[1]
           u == f.uid
           r == Rest(calls)
           tf2 == toFreeUids \union {u}
<1>1. /\ calls \in Seq(Frames) /\ calls # << >> /\ f.op = "destroy_instances" /\ Head(calls) = f
  BY Innermost DEF DestroyEnd, ScalarInv
<1>2. /\ calls \in Seq(DestroyFrames) /\ Destroys(calls, objects, writers, toFreeUids)
      /\ UidsAt(calls, CommitOps) = {} /\ Drafting = writers /\ u \in Uids
      /\ DestroyFrames \subseteq Frames
  BY <1>1, DestroyingNow
<1>3. f.todo = {} /\ toFreeUids' = tf2 /\ calls' = r
  BY <1>1 DEF DestroyEnd, Leave, Rest
<1>4. /\ u \in In(objects) /\ u \notin writers /\ Swept(objects, tf2)
      /\ tf2 \union UidsAt(r, DestroyOps) = toFreeUids \union UidsAt(calls, DestroyOps)
      /\ \/ r = << >>
         \/ r \in Seq(DestroyFrames) /\ Destroys(r, objects, writers, tf2)
  <2>1. toFreeUids \in SUBSET Uids /\ Swept(objects, toFreeUids)
    BY DEF ScalarInv, Types
  <2> HIDE DEF u, tf2
  <2>2. u = calls[1].uid /\ tf2 = toFreeUids \union {u} /\ calls[1].op = "destroy_instances" /\ calls[1].todo = {}
    BY <1>1, <1>3 DEF u, tf2
  <2> QED BY <1>2, <2>1, <2>2, DestroyEnds
<1>5. InCalls(r, objects, writers, tf2) /\ r \in Seq(Frames)
  <2>1. r \in Seq(Frames)
    BY <1>1, Popped
  <2> HIDE DEF r, tf2
  <2> QED BY <1>4, <2>1 DEF InCalls
<1>6. UidsAt(r, CommitOps) = {}
  BY <1>4, DestroyCalls, UidsNone
<1>7. /\ fresh' = fresh /\ freeIdx' = freeIdx /\ objects' = objects /\ pool' = pool /\ ret' = 0
      /\ toFreeIdx' = toFreeIdx /\ writers' = writers
  BY DEF DestroyEnd, slotVars, clientVars, ScalarInv, Types
<1> HIDE DEF r, tf2
<1>8. Drafting' = Drafting /\ Gone' = Gone /\ Committing' = {}
  BY <1>2, <1>3, <1>4, <1>6, <1>7 DEF Drafting, Committing, Gone
<1>9. Types'
  BY <1>2, <1>3, <1>5, <1>7 DEF ScalarInv, Types, tf2
<1>10. Drafted(objects, writers, tf2)
  BY <1>2, <1>4 DEF ScalarInv, Drafted, tf2
<1> QED BY <1>2, <1>3, <1>4, <1>5, <1>7, <1>8, <1>9, <1>10 DEF ScalarInv

---------------------------------------------------------------------------
(* write_commit *)

(* It is called by a client. *)
LEMMA WriteCommitKeeps ==
  ASSUME ScalarInv, Scalar, UidAssumption, SlotAssumption, NEW u \in writers, WriteCommit(u)
  PROVE  ScalarInv'
<1>1. /\ calls' \in Seq(CommitFrames) /\ Commits(calls', objects, writers', toFreeUids)
      /\ UidsAt(calls', CommitOps) = {u} /\ UidsAt(calls', DestroyOps) = {}
  BY CommitCalled
<1>2. calls = << >> /\ writers' = writers \ {u}
  BY DEF WriteCommit
<1>3. UidsAt(calls, DestroyOps) = {} /\ UidsAt(calls, CommitOps) = {}
  BY <1>2, UidsNone
<1>4. calls' \in Seq(Frames)
  <2>1. CommitFrames \subseteq Frames
    BY Zenon DEF Frames
  <2> QED BY <1>1, <2>1
<1>5. InCalls(calls', objects, writers', toFreeUids)
  BY <1>1 DEF InCalls
<1>6. Drafting = writers
  BY <1>3 DEF Drafting, Committing
<1>7. /\ writers' \union UidsAt(calls', CommitOps) = Drafting
      /\ writers' \intersect UidsAt(calls', CommitOps) = {} /\ writers' \subseteq Roots
  BY <1>1, <1>2, <1>6 DEF ScalarInv, Types
<1> QED BY <1>1, <1>3, <1>4, <1>5, <1>7, CallsOnly DEF WriteCommit, ScalarInv, Types

(* The stack while writers are committed. *)
LEMMA CommittingNow ==
  ASSUME ScalarInv, UidAssumption, SlotAssumption, calls # << >>, calls[1].op \in CommitOps
  PROVE  /\ calls \in Seq(CommitFrames) /\ Commits(calls, objects, writers, toFreeUids)
         /\ UidsAt(calls, DestroyOps) = {} /\ Gone = toFreeUids
         /\ calls[1] \in CommitFrames /\ calls[1].uid \in Committing /\ calls[1].uid \in Drafting
         /\ calls[1].uid \in In(objects) /\ calls[1].uid \in Uids
         /\ Writing(calls, 1, objects)
         /\ CommitFrames \subseteq Frames
<1>1. calls \in Seq(CommitFrames) /\ Commits(calls, objects, writers, toFreeUids)
  BY WhichCall DEF ScalarInv, Types
<1>2. /\ UidsAt(calls, DestroyOps) = {} /\ Writing(calls, 1, objects)
      /\ calls[1].uid \in UidsAt(calls, CommitOps)
  BY <1>1, CommitCalls
<1>3. CommitFrames \subseteq Frames
  BY Zenon DEF Frames
<1>4. calls[1].uid \in Committing /\ calls[1].uid \in Drafting
  BY <1>2 DEF Committing, Drafting
<1>5. calls[1].uid \in In(objects)
  BY <1>4, HasDraft
<1> QED BY <1>1, <1>2, <1>3, <1>4, <1>5 DEF Writing, Gone

(* The frames of an instance that follows. *)
LEMMA FollowFrame ==
  ASSUME NEW f \in CommitFrames, f.op \in {"follow", "follow_set"}
  PROVE  /\ f.changes \in Seq(Changes) /\ f.uid \in Uids
         /\ f.changes # << >> => f.changes[1] \in Changes /\ Tail(f.changes) \in Seq(Changes)
         /\ f.op = "follow_set" => f.changes # << >>
<1>1. f.changes \in Seq(Changes) /\ f.uid \in Uids /\ (f.op = "follow_set" => f.changes # << >>)
  BY DEF CommitFrames
<1> DEFINE s == f.changes
<1>2. s \in Seq(Changes)
  BY <1>1
<1> HIDE DEF s
<1>3. s # << >> => s[1] \in Changes /\ Tail(s) \in Seq(Changes)
  BY <1>2
<1> QED BY <1>1, <1>3 DEF s

(* What comes next of one: the change is followed, or a subobject created.  *)
LEMMA FollowOn ==
  ASSUME NEW f \in CommitFrames, f.op \in {"follow", "follow_set"}, f.changes # << >>
  PROVE  /\ \A t : t = Tail(f.changes) =>
               /\ [f EXCEPT !.op = "follow", !.changes = t] \in CommitFrames
               /\ [f EXCEPT !.op = "follow", !.changes = t].uid = f.uid
               /\ [f EXCEPT !.op = "follow", !.changes = t].op = "follow"
         /\ [f EXCEPT !.op = "follow_set"] \in CommitFrames
         /\ [f EXCEPT !.op = "follow_set"].uid = f.uid
         /\ [f EXCEPT !.op = "follow_set"].op = "follow_set"
<1>1. /\ f \in [op : {"follow", "follow_set"}, uid : Uids, changes : Seq(Changes)]
      /\ Tail(f.changes) \in Seq(Changes)
  BY FollowFrame DEF CommitFrames
<1>2. ASSUME NEW t \in Seq(Changes)
      PROVE  /\ [f EXCEPT !.op = "follow", !.changes = t] \in [op : {"follow"}, uid : Uids, changes : Seq(Changes)]
             /\ [f EXCEPT !.op = "follow", !.changes = t].uid = f.uid
             /\ [f EXCEPT !.op = "follow", !.changes = t].op = "follow"
  BY <1>1
<1>3. /\ [f EXCEPT !.op = "follow_set"] \in
             [op : {"follow_set"}, uid : Uids, changes : Seq(Changes) \ {<< >>}]
      /\ [f EXCEPT !.op = "follow_set"].uid = f.uid
      /\ [f EXCEPT !.op = "follow_set"].op = "follow_set"
  BY <1>1
<1> QED BY <1>1, <1>2, <1>3 DEF CommitFrames

(* Only the innermost call goes on. *)
LEMMA GoesOn ==
  ASSUME ScalarInv, UidAssumption, SlotAssumption, calls # << >>, calls[1].op \in CommitOps,
         calls[1].op # "commit", NEW g \in CommitFrames, g.uid = calls[1].uid, g.op \in CommitOps,
         g.op = "commit" => g.todo \subseteq Cu(objects, g.uid).instances,
         calls' = Push(g, Rest(calls)),
         objects' = objects, pool' = pool, slotVars' = slotVars,
         toFreeIdx' = toFreeIdx, toFreeUids' = toFreeUids, ret' = 0, writers' = writers
  PROVE  ScalarInv'
<1>1. /\ calls \in Seq(CommitFrames) /\ Commits(calls, objects, writers, toFreeUids)
      /\ UidsAt(calls, DestroyOps) = {} /\ CommitFrames \subseteq Frames
  BY CommittingNow
<1>2. /\ calls' \in Seq(CommitFrames) /\ Commits(calls', objects, writers, toFreeUids)
      /\ UidsAt(calls', CommitOps) = UidsAt(calls, CommitOps)
  BY <1>1, CommitGoesOn
<1>3. UidsAt(calls', DestroyOps) = {}
  BY <1>2, CommitCalls
<1>4. InCalls(calls', objects, writers, toFreeUids) /\ calls' \in Seq(Frames)
  BY <1>1, <1>2 DEF InCalls
<1>5. /\ writers \union UidsAt(calls', CommitOps) = Drafting
      /\ writers \intersect UidsAt(calls', CommitOps) = {}
  BY <1>2 DEF Drafting, Committing, ScalarInv
<1> QED BY <1>1, <1>3, <1>4, <1>5, CallsOnly DEF ScalarInv, Types

(* All changes have been followed. *)
LEMMA FollowEndKeeps ==
  ASSUME ScalarInv, Scalar, UidAssumption, SlotAssumption, FollowEnd
  PROVE  ScalarInv'
<1> DEFINE f == calls[1]
           w == Dr(objects, f.uid)
           g == Commit(f.uid)
<1>1. /\ calls \in Seq(Frames) /\ calls # << >> /\ f.op = "follow" /\ Head(calls) = f
      /\ f.op \in CommitOps
  BY Innermost DEF FollowEnd, ScalarInv, CommitOps
<1>2. f.uid \in Drafting /\ f.uid \in Uids
  BY <1>1, CommittingNow
<1>3. w.instances = Cu(objects, f.uid).instances /\ w.instances \in SUBSET Uids
  BY <1>2, HasDraft, Fields DEF ScalarInv
<1>4. /\ g \in CommitFrames /\ g.op = "commit" /\ g.uid = f.uid /\ g.op \in CommitOps
      /\ g.todo \subseteq Cu(objects, g.uid).instances
  BY <1>2, <1>3 DEF Commit, Dr, CommitFrames, CommitOps
<1>5. calls' = Push(g, Rest(calls))
  <2>1. Become(g)
    BY <1>1 DEF FollowEnd
  <2> QED BY <1>1, <2>1, Steps
<1> HIDE DEF g
<1>6. /\ objects' = objects /\ pool' = pool /\ slotVars' = slotVars /\ toFreeIdx' = toFreeIdx
      /\ toFreeUids' = toFreeUids /\ ret' = 0 /\ writers' = writers
  BY DEF FollowEnd, ScalarInv, Types, clientVars
<1> QED BY <1>1, <1>4, <1>5, <1>6, GoesOn

(* The innermost call goes on once another has helped it.                   *)
LEMMA GetsHelp ==
  ASSUME ScalarInv, UidAssumption, SlotAssumption, calls # << >>, calls[1].op \in CommitOps,
         calls[1].op # "commit", NEW g \in CommitFrames, g.uid = calls[1].uid, g.op \in CommitOps,
         g.op # "commit", NEW h \in Frames, h.op \notin CommitOps, h.op \notin DestroyOps, Helps(h, g),
         calls' = Push(h, Push(g, Rest(calls))),
         objects' = objects, pool' = pool, slotVars' = slotVars,
         toFreeIdx' = toFreeIdx, toFreeUids' = toFreeUids, ret' = 0, writers' = writers
  PROVE  ScalarInv'
<1> DEFINE m == Push(g, Rest(calls))
<1>1. /\ calls \in Seq(CommitFrames) /\ Commits(calls, objects, writers, toFreeUids)
      /\ UidsAt(calls, DestroyOps) = {} /\ CommitFrames \subseteq Frames
  BY CommittingNow
<1>2. /\ m \in Seq(CommitFrames) /\ Commits(m, objects, writers, toFreeUids)
      /\ UidsAt(m, CommitOps) = UidsAt(calls, CommitOps)
  BY <1>1, CommitGoesOn
<1>3. UidsAt(m, DestroyOps) = {}
  BY <1>2, CommitCalls
<1>4. calls \in Seq(Frames) /\ g \in Frames
  BY <1>1
<1>5. calls' \in Seq(Frames) /\ Deeper(calls', h, g, calls)
  BY <1>4, Pushed
<1>6. /\ Rest(calls') = m /\ Len(calls') > 1 /\ calls'[1] = h /\ calls'[2] = g
  BY <1>5 DEF Deeper
<1> HIDE DEF m
<1>7. InCalls(calls', objects, writers, toFreeUids)
  BY <1>2, <1>6 DEF InCalls
<1>8. calls' = Push(h, m)
  BY DEF m
<1>9. UidsAt(calls', CommitOps) = UidsAt(calls, CommitOps) /\ UidsAt(calls', DestroyOps) = {}
  BY <1>2, <1>3, <1>8, UidsOnTop
<1>10. /\ writers \union UidsAt(calls', CommitOps) = Drafting
       /\ writers \intersect UidsAt(calls', CommitOps) = {}
  BY <1>9 DEF Drafting, Committing, ScalarInv
<1> QED BY <1>1, <1>5, <1>7, <1>9, <1>10, CallsOnly DEF ScalarInv, Types

(* The instance gets a subobject from none. *)
LEMMA FollowSubPreserves ==
  ASSUME ScalarInv, Scalar, UidAssumption, SlotAssumption, FollowSub
  PROVE  ScalarInv'
<1> DEFINE f == calls[1]
           c == f.changes[1]
           g == [f EXCEPT !.op = "follow_set"]
<1>1. /\ calls \in Seq(Frames) /\ calls # << >> /\ f.op = "follow" /\ Head(calls) = f
      /\ f.op \in CommitOps
  BY Innermost DEF FollowSub, ScalarInv, CommitOps
<1>2. f \in CommitFrames
  BY <1>1, CommittingNow
<1>3. f.changes # << >> /\ c.prop = "sub"
  BY <1>1 DEF FollowSub
<1>4. c.new = 0
  <2>1. c \in Changes
    BY <1>1, <1>2, <1>3, FollowFrame
  <2> QED BY <1>3, <2>1 DEF Changes
<1>5. PICK v \in Uids : Call(g, [op |-> "create_from", from |-> c.new, uid |-> v])
  BY <1>1 DEF FollowSub
<1> DEFINE h == [op |-> "create_from", from |-> 0, uid |-> v]
<1>6. calls' = Push(h, Push(g, Rest(calls)))
  BY <1>1, <1>4, <1>5, Steps
<1>7. g \in CommitFrames /\ g.op = "follow_set" /\ g.uid = f.uid /\ g.op \in CommitOps
  <2>1. g \in CommitFrames /\ g.op = "follow_set" /\ g.uid = f.uid
    BY <1>1, <1>2, <1>3, FollowOn
  <2> QED BY <2>1 DEF CommitOps
<1>8. h \in NoneFrames /\ h.op = "create_from"
  BY DEF NoneFrames
<1> HIDE DEF g, h
<1>9. /\ h \in Frames /\ h.op \notin CommitOps /\ h.op \notin DestroyOps /\ Helps(h, g)
  <2>1. NoneFrames \subseteq Frames
    BY Zenon DEF Frames
  <2> QED BY <1>7, <1>8, <2>1 DEF CommitOps, DestroyOps, Helps
<1>10. /\ objects' = objects /\ pool' = pool /\ slotVars' = slotVars /\ toFreeIdx' = toFreeIdx
       /\ toFreeUids' = toFreeUids /\ ret' = 0 /\ writers' = writers
  BY DEF FollowSub, ScalarInv, Types, clientVars
<1> QED BY <1>1, <1>6, <1>7, <1>9, <1>10, GetsHelp

(* And sets it: what create_from returned is none. *)
LEMMA FollowSetKeeps ==
  ASSUME ScalarInv, Scalar, UidAssumption, SlotAssumption, FollowSet
  PROVE  ScalarInv'
<1> DEFINE f == calls[1]
           g == [f EXCEPT !.op = "follow", !.changes = Tail(@)]
           h == [op |-> "set_sub", obj |-> Draft(f.uid), sub |-> 0]
<1>1. /\ calls \in Seq(Frames) /\ calls # << >> /\ f.op = "follow_set" /\ Head(calls) = f
      /\ f.op \in CommitOps
  BY Innermost DEF FollowSet, ScalarInv, CommitOps
<1>2. f \in CommitFrames /\ f.changes # << >> /\ f.uid \in Uids
  BY <1>1, CommittingNow, FollowFrame
<1>3. Call(g, h)
  BY <1>1 DEF FollowSet, ScalarInv, Types
<1>4. calls' = Push(h, Push(g, Rest(calls)))
  BY <1>1, <1>3, Steps
<1>5. g \in CommitFrames /\ g.op = "follow" /\ g.uid = f.uid /\ g.op \in CommitOps
  <2>1. g = [f EXCEPT !.op = "follow", !.changes = Tail(f.changes)]
    BY <1>1, <1>2 DEF CommitFrames
  <2>2. g \in CommitFrames /\ g.op = "follow" /\ g.uid = f.uid
    BY <1>1, <1>2, <2>1, FollowOn
  <2> QED BY <2>2 DEF CommitOps
<1>6. h \in ClearFrames /\ h.obj = Draft(f.uid)
  BY <1>2 DEF ClearFrames, Draft
<1> HIDE DEF g, h
<1>7. /\ h \in Frames /\ h.op \notin CommitOps /\ h.op \notin DestroyOps /\ Helps(h, g)
  BY <1>5, <1>6, ClearFrame DEF Helps
<1>8. /\ objects' = objects /\ pool' = pool /\ slotVars' = slotVars /\ toFreeIdx' = toFreeIdx
      /\ toFreeUids' = toFreeUids /\ ret' = 0 /\ writers' = writers
  BY DEF FollowSet, ScalarInv, Types, clientVars
<1> QED BY <1>1, <1>4, <1>5, <1>7, <1>8, GetsHelp

(* The value of an instance follows if it had that of the prefab.           *)
LEMMA FollowValuePreserves ==
  ASSUME ScalarInv, Scalar, UidAssumption, SlotAssumption, FollowValue
  PROVE  ScalarInv'
<1> DEFINE f == calls[1]
           u == f.uid
           w == Draft(u)
           s == Dr(objects, u).wslot
           c == f.changes[1]
           g == [f EXCEPT !.changes = Tail(@)]
<1>1. /\ calls \in Seq(Frames) /\ calls # << >> /\ f.op = "follow" /\ Head(calls) = f
      /\ f.op \in CommitOps
  BY Innermost DEF FollowValue, ScalarInv, CommitOps
<1>2. /\ f \in CommitFrames /\ u \in Drafting /\ UidsAt(calls, DestroyOps) = {}
      /\ calls \in Seq(CommitFrames) /\ Commits(calls, objects, writers, toFreeUids)
      /\ CommitFrames \subseteq Frames
  BY <1>1, CommittingNow
<1>3. f.changes # << >> /\ c.prop = "val"
  BY <1>1 DEF FollowValue
<1>4. c \in Changes /\ c.new \in Values
  <2>1. c \in Changes
    BY <1>1, <1>2, <1>3, FollowFrame
  <2> QED BY <1>3, <2>1 DEF Changes
<1>5. calls' = Push(g, Rest(calls))
  <2>1. Become(g)
    BY <1>1 DEF FollowValue
  <2> QED BY <1>1, <2>1, Steps
<1>6. g \in CommitFrames /\ g.op = "follow" /\ g.uid = u /\ g.op \in CommitOps
  <2>1. f \in [op : {"follow"}, uid : Uids, changes : Seq(Changes)]
    BY <1>1, <1>2 DEF CommitFrames
  <2>2. Tail(f.changes) \in Seq(Changes)
    BY <1>1, <1>2, <1>3, FollowFrame
  <2>3. g \in [op : {"follow"}, uid : Uids, changes : Seq(Changes)] /\ g.op = "follow" /\ g.uid = u
    BY <2>1, <2>2
  <2> QED BY <2>3 DEF CommitFrames, CommitOps
<1>7. /\ slotVars' = slotVars /\ toFreeIdx' = toFreeIdx
      /\ toFreeUids' = toFreeUids /\ ret' = 0 /\ writers' = writers
  BY DEF FollowValue, ScalarInv, Types, clientVars
<1> DEFINE e == [prop |-> "val", old |-> Value(w).val, new |-> c.new]
<1>8. IF Follows(Value(w).val, c.old)
      THEN pool' = [pool EXCEPT ![SlotOf(w)].val = c.new] /\ Changed(w, e)
      ELSE pool' = pool /\ objects' = objects
  BY <1>1 DEF FollowValue
<1> HIDE DEF g
<1>9. CASE ~ Follows(Value(w).val, c.old)
  <2>1. pool' = pool /\ objects' = objects /\ f.op # "commit" /\ g.op # "commit"
    BY <1>1, <1>6, <1>8, <1>9
  <2> QED BY <1>1, <1>5, <1>6, <1>7, <2>1, GoesOn
<1>10. CASE Follows(Value(w).val, c.old)
  <2>1. SlotOf(w) = s /\ s \in Slots
    BY <1>2, HasDraft
  <2> HIDE DEF e
  <2>2. pool' = [pool EXCEPT ![s].val = c.new] /\ Changed(w, e)
    BY <1>8, <1>10, <2>1
  <2>3. pool' \in [Slots -> TypedValues] /\ \A r \in Slots \ {s} : pool'[r] = pool[r]
    <3> DEFINE v == c.new
    <3>1. pool' = [pool EXCEPT ![s].val = v] /\ v \in Values /\ pool \in [Slots -> TypedValues]
      BY <1>4, <2>2 DEF ScalarInv, Types
    <3> HIDE DEF v, s
    <3> QED BY <2>1, <3>1, PoolWritten
  <2>4. /\ calls' \in Seq(CommitFrames) /\ Commits(calls', objects, writers, toFreeUids)
        /\ UidsAt(calls', CommitOps) = UidsAt(calls, CommitOps)
    <3>1. f.op # "commit" /\ g.op # "commit"
      BY <1>1, <1>6
    <3> QED BY <1>2, <1>5, <1>6, <3>1, CommitGoesOn
  <2>5. UidsAt(calls', DestroyOps) = UidsAt(calls, DestroyOps)
    BY <1>2, <2>4, CommitCalls
  <2>6. SameTree(objects, objects') => InCalls(calls', objects', writers, toFreeUids)
    BY <2>4, CommitsSame DEF InCalls
  <2>7. calls' \in Seq(Frames)
    BY <1>2, <2>4
  <2>8. e \in Changes
    <3>1. Value(w).val \in Values
      BY <1>2, HasDraft
    <3> QED BY <1>4, <3>1 DEF Changes, e
  <2> HIDE DEF c, u
  <2> QED BY <1>2, <1>7, <2>2, <2>3, <2>4, <2>5, <2>6, <2>7, <2>8, Written
<1> QED BY <1>9, <1>10

(* The clone of an object, in the record of its writer. *)
CloneOf(n, o, x, a, s) ==
    n = [o EXCEPT ![x] = [@ EXCEPT !.slot = a.slot, !.wslot = s, !.from = a.from,
                                   !.instances = o[x].instances \union a.instances]]

(* It has the object's prefab and instances. *)
LEMMA Cloned ==
  ASSUME NEW o \in [Objects -> Records], NEW x \in Objects, o[x].instances = {},
         NEW a \in Records, NEW s \in Slots, NEW n, CloneOf(n, o, x, a, s)
  PROVE  /\ n \in [Objects -> Records] /\ n[x] \in Records
         /\ n[x].slot = a.slot /\ n[x].wslot = s /\ n[x].from = a.from
         /\ n[x].instances = a.instances /\ n[x].changed = o[x].changed
         /\ \A y \in Objects \ {x} : n[y] = o[y]
<1> DEFINE b == [o[x] EXCEPT !.slot = a.slot, !.wslot = s, !.from = a.from,
                             !.instances = o[x].instances \union a.instances]
<1>1. n = [o EXCEPT ![x] = b]
  BY DEF CloneOf
<1>2. /\ b \in Records /\ b.slot = a.slot /\ b.wslot = s /\ b.from = a.from
      /\ b.instances = a.instances /\ b.changed = o[x].changed
  BY DEF Records
<1> HIDE DEF b
<1> QED BY <1>1, <1>2

(* The writer of u is a clone of it, with a clone of its values at s.       *)
WriterOf(u, s, o, n) ==
    /\ \A v \in Uids : Cu(n, v) = Cu(o, v)
    /\ \A v \in Uids \ {u} : Dr(n, v) = Dr(o, v)
    /\ Dr(n, u).slot = Cu(o, u).slot /\ Dr(n, u).wslot = s /\ Dr(n, u).from = Cu(o, u).from
    /\ Dr(n, u).instances = Cu(o, u).instances /\ Dr(n, u).changed = << >>

(* What write_begin makes. *)
LEMMA Begun ==
  ASSUME ScalarInv, UidAssumption, SlotAssumption, NEW u \in In(objects) \ (Drafting \union toFreeUids),
         BeginWrite(u)
  PROVE  \E s \in Slots :
            /\ TakeSlot(s) /\ WriterOf(u, s, objects, objects') /\ objects' \in [Objects -> Records]
            /\ pool' \in [Slots -> TypedValues] /\ pool'[s] = pool[Cu(objects, u).slot]
            /\ \A r \in Slots \ {s} : pool'[r] = pool[r]
<1> DEFINE o == objects
           n == objects'
           a == Cu(o, u)
           w == Dr(o, u)
           x == Draft(u)
<1>1. u \in Uids /\ u \in In(o) /\ u \notin Drafting
  BY InMemory
<1>2. PICK s \in NewSlots : /\ TakeSlot(s)
                            /\ n = [objects EXCEPT ![Draft(u)] =
                                 [@ EXCEPT !.slot = Current(u).slot, !.wslot = s, !.from = Current(u).from,
                                           !.instances = objects[Draft(u)].instances \union Current(u).instances]]
                            /\ pool' = [pool EXCEPT ![s] = pool[Current(u).slot]]
  BY Zenon DEF BeginWrite
<1>3. s \in Slots
  BY <1>2, SlotTaken
<1>4. /\ o \in [Objects -> Records] /\ \A v \in Uids : Cur(v) \in Objects /\ Draft(v) \in Objects
      /\ \A v \in Uids : Cu(o, v) = o[Cur(v)] /\ Dr(o, v) = o[Draft(v)]
      /\ \A v \in Uids : Cu(n, v) = n[Cur(v)] /\ Dr(n, v) = n[Draft(v)]
  BY Names DEF ScalarInv, Types, Cu, Dr
<1>5. w = NoObject
  BY <1>1 DEF ScalarInv, Drafted
<1>6. a \in Records /\ w.instances = {} /\ w.changed = << >> /\ a.slot \in Slots
  <2>1. a \in Records
    BY <1>1, Fields DEF ScalarInv
  <2>2. w.instances = {} /\ w.changed = << >>
    BY <1>5 DEF NoObject
  <2>3. a.slot \in Slots
    BY <1>1 DEF ScalarInv, Listed
  <2> QED BY <2>1, <2>2, <2>3
<1>7. pool' = [pool EXCEPT ![s] = pool[a.slot]]
  BY <1>2, InMemory
<1>8. CloneOf(n, objects, x, a, s)
  <2>1. Current(u) = a
    BY InMemory
  <2> HIDE DEF a, n
  <2> QED BY <1>2, <2>1 DEF CloneOf
<1>9. /\ n \in [Objects -> Records]
      /\ n[x].slot = a.slot /\ n[x].wslot = s /\ n[x].from = a.from
      /\ n[x].instances = a.instances /\ n[x].changed = << >>
      /\ \A y \in Objects \ {x} : n[y] = objects[y]
  <2>1. /\ x \in Objects /\ objects[x].instances = {} /\ objects[x].changed = << >>
        /\ objects \in [Objects -> Records]
    BY <1>1, <1>4, <1>6
  <2> HIDE DEF a, n, x
  <2> QED BY <1>3, <1>6, <1>8, <2>1, Cloned
<1>10. WriterOf(u, s, o, n)
  <2>1. \A v \in Uids : Cur(v) \in Objects \ {x}
    BY <1>4, Names
  <2>2. \A v \in Uids \ {u} : Draft(v) \in Objects \ {x}
    BY <1>1, <1>4, Names
  <2>3. Dr(n, u) = n[x]
    BY <1>1, <1>4
  <2>4. (\A v \in Uids : Cu(n, v) = Cu(o, v)) /\ \A v \in Uids \ {u} : Dr(n, v) = Dr(o, v)
    <3> HIDE DEF n, o
    <3> QED BY <1>4, <1>9, <2>1, <2>2 DEF o
  <2> HIDE DEF n, o, x
  <2> QED BY <1>9, <2>3, <2>4 DEF WriterOf
<1>11. /\ pool' \in [Slots -> TypedValues] /\ pool'[s] = pool[a.slot]
       /\ \A r \in Slots \ {s} : pool'[r] = pool[r]
  BY <1>3, <1>6, <1>7 DEF ScalarInv, Types
<1> QED BY <1>2, <1>3, <1>9, <1>10, <1>11

(* A writer is opened. *)
LEMMA Opened ==
  ASSUME ScalarInv, UidAssumption, SlotAssumption, NEW u \in In(objects) \ (Drafting \union toFreeUids),
         BeginWrite(u),
         toFreeIdx' = toFreeIdx, toFreeUids' = toFreeUids, ret' = 0,
         writers' \subseteq Roots, calls' \in Seq(Frames),
         writers' \union UidsAt(calls', CommitOps) = Drafting \union {u},
         writers' \intersect UidsAt(calls', CommitOps) = {},
         UidsAt(calls', DestroyOps) = UidsAt(calls, DestroyOps),
         SameTree(objects, objects') => InCalls(calls', objects', writers', toFreeUids)
  PROVE  ScalarInv'
<1> DEFINE o == objects
           n == objects'
<1>1. u \in Uids /\ u \in In(o) /\ u \notin Drafting /\ u \notin toFreeUids
  BY InMemory
<1>2. PICK s \in Slots :
         /\ TakeSlot(s) /\ WriterOf(u, s, o, n) /\ n \in [Objects -> Records]
         /\ pool' \in [Slots -> TypedValues] /\ \A r \in Slots \ {s} : pool'[r] = pool[r]
  BY Begun
<1>3. /\ s \in Slots /\ ~ Owned(s, o, Drafting, Gone) /\ toFreeIdx[s] = 0 /\ pool[s] = Zero
      /\ Taken(s, fresh, freeIdx, fresh', freeIdx')
      /\ freeIdx' \in [Slots -> Nat] /\ fresh' \subseteq Slots
  BY <1>2, PlaceTaken DEF ScalarInv
<1>4. (\A v \in Uids : Cu(n, v) = Cu(o, v)) /\ \A v \in Uids \ {u} : Dr(n, v) = Dr(o, v)
  BY <1>2 DEF WriterOf
<1>5. /\ Dr(n, u).slot = Cu(o, u).slot /\ Dr(n, u).wslot = s /\ Dr(n, u).from = Cu(o, u).from
      /\ Dr(n, u).instances = Cu(o, u).instances
  BY <1>2 DEF WriterOf
<1>6. SameTree(o, n) /\ Listed(n)
  BY <1>4, OnlyWriters DEF ScalarInv
<1>7. In(n) = In(o)
  BY <1>6 DEF SameTree
<1>8. Acyclic(n) /\ Swept(n, toFreeUids)
  BY <1>6, TreeSame DEF ScalarInv, Types
<1>9. Drafting' = Drafting \union {u} /\ Gone' = Gone /\ writers' \intersect Committing' = {}
  BY DEF Drafting, Committing, Gone
<1>10. Drafted(n, Drafting \union {u}, toFreeUids)
  <2>1. Drafted(o, Drafting, toFreeUids)
    BY DEF ScalarInv
  <2>2. \A v \in Drafting : v \in Uids /\ v # u
    BY <1>1, HasDraft
  <2>3. ASSUME NEW v \in Drafting \union {u}
        PROVE  /\ v \in In(n) /\ v \notin toFreeUids
               /\ Dr(n, v).slot = Cu(n, v).slot /\ Dr(n, v).wslot \in Slots
               /\ Dr(n, v).from = Cu(n, v).from /\ Dr(n, v).instances = Cu(n, v).instances
    <3>1. CASE v = u
      BY <1>1, <1>3, <1>4, <1>5, <1>7, <3>1
    <3>2. CASE v # u
      BY <1>4, <1>7, <2>1, <2>2, <2>3, <3>2 DEF Drafted
    <3> QED BY <3>1, <3>2
  <2>4. \A v \in Uids \ (Drafting \union {u}) : Dr(n, v) = NoObject
    BY <1>4, <2>1 DEF Drafted
  <2> QED BY <2>3, <2>4 DEF Drafted
<1>11. Owners(n, Drafting \union {u}, Gone, fresh', freeIdx', toFreeIdx)
  <2>1. Owners(o, Drafting, Gone, fresh, freeIdx, toFreeIdx)
    BY DEF ScalarInv
  <2>2. \A v \in In(o) : Cu(n, v).slot = Cu(o, v).slot
    BY <1>4, InMemory
  <2>3. \A v \in Drafting : Dr(n, v).wslot = Dr(o, v).wslot
    <3>1. \A v \in Drafting : v \in Uids \ {u}
      BY <1>1, HasDraft
    <3> QED BY <1>4, <3>1
  <2>4. u \notin Drafting /\ Dr(n, u).wslot = s
    BY <1>1, <1>5
  <2> HIDE DEF n, o
  <2> QED BY <1>3, <1>7, <2>1, <2>2, <2>3, <2>4, OwnersDraft
<1>12. Clean(fresh', freeIdx', pool')
  BY <1>2, <1>3, CleanTaken DEF ScalarInv
<1>13. Types'
  BY <1>2, <1>3 DEF ScalarInv, Types
<1> QED BY <1>6, <1>8, <1>9, <1>10, <1>11, <1>12, <1>13 DEF ScalarInv

(* write_begin is called by a client. *)
LEMMA WriteBeginKeeps ==
  ASSUME ScalarInv, Scalar, UidAssumption, SlotAssumption, NEW u \in Roots, WriteBegin(u)
  PROVE  ScalarInv'
<1>1. /\ calls = << >> /\ calls' = << >> /\ u \in In(objects) /\ u \notin writers /\ BeginWrite(u)
      /\ writers' = writers \union {u} /\ toFreeIdx' = toFreeIdx /\ toFreeUids' = toFreeUids
      /\ ret' = 0
  BY InMemory DEF WriteBegin, ScalarInv, Types
<1>2. u \notin toFreeUids
  BY DEF WriteBegin, Scalar, Untouched
<1>3. /\ UidsAt(calls, CommitOps) = {} /\ UidsAt(calls', CommitOps) = {}
      /\ UidsAt(calls, DestroyOps) = {} /\ UidsAt(calls', DestroyOps) = {}
  BY <1>1, UidsNone
<1>4. Drafting = writers
  BY <1>3 DEF Drafting, Committing
<1>5. InCalls(calls', objects', writers', toFreeUids) /\ calls' \in Seq(Frames)
  BY <1>1 DEF InCalls
<1>6. writers' \subseteq Roots
  BY <1>1 DEF ScalarInv, Types
<1> QED BY <1>1, <1>2, <1>3, <1>4, <1>5, <1>6, Opened

(* An instance begins to follow, in a writer of its own. *)
LEMMA DispatchBeginKeeps ==
  ASSUME ScalarInv, Scalar, UidAssumption, SlotAssumption, DispatchBegin
  PROVE  ScalarInv'
<1> DEFINE f == calls[1]
           c == objects[Draft(f.uid)].changed
<1>1. /\ calls \in Seq(Frames) /\ calls # << >> /\ f.op = "commit" /\ Head(calls) = f
      /\ f.op \in CommitOps
  BY Innermost DEF DispatchBegin, ScalarInv, CommitOps
<1>2. /\ f \in CommitFrames /\ f.uid \in Uids /\ f.uid \in In(objects)
      /\ UidsAt(calls, DestroyOps) = {} /\ Gone = toFreeUids
      /\ calls \in Seq(CommitFrames) /\ Commits(calls, objects, writers, toFreeUids)
      /\ CommitFrames \subseteq Frames
  BY <1>1, CommittingNow
<1>3. PICK i \in f.todo : /\ BeginWrite(i)
                          /\ Call([f EXCEPT !.todo = @ \ {i}], [op |-> "follow", uid |-> i, changes |-> c])
  BY <1>1 DEF DispatchBegin
<1> DEFINE g == [f EXCEPT !.todo = @ \ {i}]
           h == [op |-> "follow", uid |-> i, changes |-> c]
<1>4. calls' = Push(h, Push(g, Rest(calls)))
  BY <1>1, <1>3, Steps
<1>5. f \in [op : {"commit"}, uid : Uids, todo : SUBSET Uids]
  BY <1>1, <1>2 DEF CommitFrames
<1>6. /\ g \in [op : {"commit"}, uid : Uids, todo : SUBSET Uids]
      /\ g.op = "commit" /\ g.uid = f.uid /\ g.todo = f.todo \ {i} /\ i \in Uids
  BY <1>3, <1>5
<1>7. c \in Seq(Changes)
  BY <1>2, Fields DEF ScalarInv, Dr
<1>8. g \in CommitFrames /\ h \in CommitFrames /\ h.op = "follow" /\ h.uid = i
  BY <1>6, <1>7 DEF CommitFrames
<1> HIDE DEF g, h
<1>9. /\ calls' \in Seq(CommitFrames) /\ Commits(calls', objects, writers, toFreeUids)
      /\ UidsAt(calls', CommitOps) = UidsAt(calls, CommitOps) \union {i}
      /\ i \in In(objects) /\ i \notin UidsAt(calls, CommitOps) /\ i \notin writers \union toFreeUids
  <2>1. /\ calls[1].op = "commit" /\ i \in calls[1].todo /\ g.op = "commit"
        /\ g.uid = calls[1].uid /\ g.todo = calls[1].todo \ {i} /\ calls[1].uid \in In(objects)
        /\ Listed(objects) /\ Acyclic(objects)
    BY <1>1, <1>2, <1>3, <1>6 DEF ScalarInv
  <2> HIDE DEF f
  <2> QED BY <1>2, <1>4, <1>8, <2>1, CommitNext
<1>10. UidsAt(calls', DestroyOps) = {}
  BY <1>9, CommitCalls
<1>11. /\ toFreeIdx' = toFreeIdx /\ toFreeUids' = toFreeUids /\ ret' = 0 /\ writers' = writers
  BY DEF DispatchBegin, ScalarInv, Types, clientVars
<1>12. SameTree(objects, objects') => InCalls(calls', objects', writers', toFreeUids)
  BY <1>9, <1>11, CommitsSame DEF InCalls
<1>13. i \notin Drafting /\ writers' \union UidsAt(calls', CommitOps) = Drafting \union {i}
       /\ writers' \intersect UidsAt(calls', CommitOps) = {}
  BY <1>9, <1>11 DEF Drafting, Committing, ScalarInv
<1>14. calls' \in Seq(Frames) /\ writers' \subseteq Roots
  BY <1>2, <1>9, <1>11 DEF ScalarInv, Types
<1> QED BY <1>2, <1>3, <1>9, <1>10, <1>11, <1>12, <1>13, <1>14, Opened

(* The record of u is that of its writer, which is gone. *)
Replacing(u, o, n) ==
    /\ \A v \in Uids \ {u} : Cu(n, v) = Cu(o, v) /\ Dr(n, v) = Dr(o, v)
    /\ Dr(n, u) = NoObject
    /\ Cu(n, u).slot = Dr(o, u).wslot /\ Cu(n, u).wslot = Dr(o, u).wslot
    /\ Cu(n, u).from = Cu(o, u).from /\ Cu(n, u).instances = Cu(o, u).instances
    /\ Cu(n, u).changed = << >>

(* What the end of a commit leaves. *)
LEMMA Committed ==
  ASSUME ScalarInv, UidAssumption, SlotAssumption, CommitEnd
  PROVE  LET u == calls[1].uid
         IN  /\ calls \in Seq(Frames) /\ calls # << >> /\ calls[1].op = "commit" /\ calls[1].todo = {}
             /\ calls[1].op \in CommitOps /\ u \in Uids /\ u \in In(objects) /\ u \in Committing
             /\ objects' \in [Objects -> Records] /\ Replacing(u, objects, objects')
             /\ In(objects') = In(objects)
             /\ toFreeIdx' = [toFreeIdx EXCEPT ![Cu(objects, u).slot] = @ + 1]
             /\ calls' = Rest(calls) /\ pool' = pool /\ writers' = writers
             /\ UidsAt(calls', CommitOps) = Committing \ {u} /\ Drafting' = Drafting \ {u}
<1> DEFINE f == calls[1]
           u == f.uid
           o == objects
           n == objects'
           r == Rest(calls)
           w == Dr(o, u)
           b == [w EXCEPT !.slot = w.wslot, !.changed = << >>]
<1>1. /\ calls \in Seq(Frames) /\ calls # << >> /\ f.op = "commit" /\ Head(calls) = f
      /\ f.op \in CommitOps
  BY Innermost DEF CommitEnd, ScalarInv, CommitOps
<1>2. /\ u \in Uids /\ u \in In(o) /\ u \in Drafting /\ u \in Committing
      /\ UidsAt(calls, DestroyOps) = {} /\ Gone = toFreeUids
      /\ calls \in Seq(CommitFrames) /\ Commits(calls, o, writers, toFreeUids)
      /\ CommitFrames \subseteq Frames
  BY <1>1, CommittingNow
<1>3. /\ UidsAt(r, CommitOps) = UidsAt(calls, CommitOps) \ {u}
      /\ r = << >> \/ (r \in Seq(CommitFrames) /\ Commits(r, o, writers, toFreeUids))
  BY <1>1, <1>2, CommitEnds
<1>4. /\ w \in Records /\ w.wslot \in Slots /\ w.slot = Cu(o, u).slot /\ w.from = Cu(o, u).from
      /\ w.instances = Cu(o, u).instances /\ u \notin toFreeUids
  BY <1>2, HasDraft
<1>5. /\ b \in Records
      /\ b.slot = w.wslot /\ b.wslot = w.wslot /\ b.from = w.from /\ b.instances = w.instances
      /\ b.changed = << >>
  <2>1. << >> \in Seq(Changes)
    OBVIOUS
  <2>2. b \in Records
    BY <1>4, <2>1, WithFields
  <2> HIDE DEF w
  <2> QED BY <1>4, <2>2 DEF Records
<1>6. /\ n = [o EXCEPT ![Cur(u)] = b, ![Draft(u)] = NoObject]
      /\ toFreeIdx' = [toFreeIdx EXCEPT ![w.slot] = @ + 1] /\ calls' = r
  BY <1>1 DEF CommitEnd, FreeSlot, Leave, Rest, Dr
<1>7. /\ o \in [Objects -> Records] /\ \A v \in Uids : Cur(v) \in Objects /\ Draft(v) \in Objects
      /\ \A v \in Uids : Cu(o, v) = o[Cur(v)] /\ Dr(o, v) = o[Draft(v)]
      /\ \A v \in Uids : Cu(n, v) = n[Cur(v)] /\ Dr(n, v) = n[Draft(v)]
  BY Names DEF ScalarInv, Types, Cu, Dr
<1>8. NoObject \in Records
  BY DEF NoObject, Records
<1> HIDE DEF b
<1>9. /\ n \in [Objects -> Records] /\ n[Cur(u)] = b /\ n[Draft(u)] = NoObject
      /\ \A x \in Objects \ {Cur(u), Draft(u)} : n[x] = o[x]
  <2>1. Cur(u) # Draft(u) /\ Cur(u) \in Objects /\ Draft(u) \in Objects
    BY <1>2, <1>7, Names
  <2> HIDE DEF n, o
  <2> QED BY <1>5, <1>6, <1>7, <1>8, <2>1
<1>10. /\ \A v \in Uids \ {u} : Cu(n, v) = Cu(o, v) /\ Dr(n, v) = Dr(o, v)
       /\ Cu(n, u) = b /\ Dr(n, u) = NoObject
  <2>1. \A v \in Uids \ {u} : /\ Cur(v) \in Objects \ {Cur(u), Draft(u)}
                              /\ Draft(v) \in Objects \ {Cur(u), Draft(u)}
    BY <1>2, <1>7, Names
  <2> HIDE DEF n, o
  <2> QED BY <1>2, <1>7, <1>9, <2>1
<1> HIDE DEF n, w
<1>11. b # NoObject
  BY <1>4, <1>5 DEF NoObject, SlotAssumption
<1>12. In(n) = In(o)
  BY <1>2, <1>10, <1>11 DEF In
<1>13. Replacing(u, o, n)
  BY <1>4, <1>5, <1>10 DEF Replacing, w
<1>14. calls[1].todo = {} /\ pool' = pool /\ writers' = writers
  BY <1>1 DEF CommitEnd, clientVars
<1>15. UidsAt(calls', CommitOps) = Committing \ {u}
  BY <1>3, <1>6 DEF Committing
<1>16. Drafting' = Drafting \ {u}
  BY <1>2, <1>14, <1>15 DEF Drafting, Committing, ScalarInv
<1>17. toFreeIdx' = [toFreeIdx EXCEPT ![Cu(o, u).slot] = @ + 1]
  BY <1>4, <1>6
<1> HIDE DEF r, o, u
<1> QED BY <1>1, <1>2, <1>6, <1>9, <1>12, <1>13, <1>14, <1>15, <1>16, <1>17 DEF o, n, u, r

(* The writer takes the place of the object. *)
LEMMA CommitEndKeeps ==
  ASSUME ScalarInv, Scalar, UidAssumption, SlotAssumption, CommitEnd
  PROVE  ScalarInv'
<1> DEFINE f == calls[1]
           u == f.uid
           o == objects
           n == objects'
           r == Rest(calls)
           ti2 == [toFreeIdx EXCEPT ![Cu(o, u).slot] = @ + 1]
<1>1. /\ calls \in Seq(Frames) /\ calls # << >> /\ f.op = "commit" /\ f.op \in CommitOps
      /\ n \in [Objects -> Records] /\ Replacing(u, o, n) /\ In(n) = In(o) /\ calls' = r
      /\ toFreeIdx' = ti2 /\ UidsAt(calls', CommitOps) = Committing \ {u} /\ Drafting' = Drafting \ {u}
  BY Committed
<1>2. /\ u \in Uids /\ u \in In(o) /\ u \in Drafting /\ u \in Committing
      /\ UidsAt(calls, DestroyOps) = {} /\ Gone = toFreeUids
      /\ calls \in Seq(CommitFrames) /\ Commits(calls, o, writers, toFreeUids)
  BY <1>1, CommittingNow
<1>3. r = << >> \/ (r \in Seq(CommitFrames) /\ Commits(r, o, writers, toFreeUids))
  BY <1>1, <1>2, CommitEnds
<1>4. Dr(o, u).wslot \in Slots /\ u \notin toFreeUids
  BY <1>2, HasDraft
<1>5. /\ Cu(n, u).slot = Dr(o, u).wslot /\ Cu(n, u).wslot = Dr(o, u).wslot
      /\ Cu(n, u).from = Cu(o, u).from /\ Cu(n, u).instances = Cu(o, u).instances
      /\ Cu(n, u).changed = << >> /\ Dr(n, u) = NoObject
  BY <1>1 DEF Replacing
<1>6. \A v \in Uids \ {u} : Cu(n, v) = Cu(o, v) /\ Dr(n, v) = Dr(o, v)
  BY <1>1 DEF Replacing
<1> HIDE DEF n
<1>7. SameTree(o, n)
  BY <1>1, <1>5, <1>6 DEF SameTree
<1>8. Listed(n)
  <2>1. Listed(o) /\ \A v \in In(o) : v \in Uids
    BY InMemory DEF ScalarInv
  <2>2. \A v \in In(n) : Cu(n, v).slot \in Slots /\ Cu(n, v).wslot \in {0, Cu(n, v).slot}
    BY <1>1, <1>4, <1>5, <1>6, <2>1 DEF Listed
  <2>3. \A v \in Uids : Cu(n, v).changed = << >>
    BY <1>5, <1>6, <2>1 DEF Listed
  <2>4. \A v \in Uids : Cu(n, v).from = Cu(o, v).from /\ Cu(n, v).instances = Cu(o, v).instances
    BY <1>7 DEF SameTree
  <2> HIDE DEF o
  <2>5. \A v \in In(n) : Cu(n, v).from # 0 =>
          Cu(n, v).from \in In(n) /\ v \in Cu(n, Cu(n, v).from).instances
    BY <1>1, <2>1, <2>4 DEF Listed
  <2>6. \A p \in In(n) : \A i \in Cu(n, p).instances : i \in In(n) /\ Cu(n, i).from = p
    BY <1>1, <2>1, <2>4 DEF Listed
  <2> QED BY <2>2, <2>3, <2>5, <2>6 DEF Listed
<1>9. Acyclic(n) /\ Swept(n, toFreeUids)
  BY <1>7, TreeSame DEF ScalarInv, Types
<1>10. /\ fresh' = fresh /\ freeIdx' = freeIdx /\ pool' = pool /\ ret' = 0
       /\ toFreeUids' = toFreeUids /\ writers' = writers
  BY DEF CommitEnd, slotVars, clientVars, ScalarInv, Types
<1>11. UidsAt(r, DestroyOps) = {}
  <2>1. CASE r = << >>
    BY <2>1, UidsNone
  <2>2. CASE r # << >>
    BY <1>3, <2>2, CommitCalls
  <2> QED BY <2>1, <2>2
<1> HIDE DEF r, o
<1>12. Drafting' = Drafting \ {u} /\ Gone' = Gone /\ Committing' \subseteq Committing
  BY <1>1, <1>2, <1>10, <1>11 DEF Committing, Gone
<1>13. writers' \intersect Committing' = {}
  BY <1>10, <1>12 DEF ScalarInv
<1>14. Drafted(n, Drafting \ {u}, toFreeUids)
  <2>1. Drafted(o, Drafting, toFreeUids)
    BY DEF ScalarInv, o
  <2>2. \A v \in Drafting : v \in Uids
    BY HasDraft
  <2>3. \A v \in Uids \ (Drafting \ {u}) : Dr(n, v) = NoObject
    BY <1>5, <1>6, <2>1 DEF Drafted
  <2>4. ASSUME NEW v \in Drafting \ {u}
        PROVE  /\ v \in In(n) /\ v \notin toFreeUids
               /\ Dr(n, v).slot = Cu(n, v).slot /\ Dr(n, v).wslot \in Slots
               /\ Dr(n, v).from = Cu(n, v).from /\ Dr(n, v).instances = Cu(n, v).instances
    <3>1. Dr(n, v) = Dr(o, v) /\ Cu(n, v) = Cu(o, v)
      BY <1>6, <2>2
    <3> QED BY <1>1, <2>1, <3>1 DEF Drafted
  <2> QED BY <2>3, <2>4 DEF Drafted
<1>15. Cu(o, u).slot \in Slots
  BY <1>2 DEF ScalarInv, Listed, o
<1>16. Owners(n, Drafting \ {u}, Gone, fresh, freeIdx, ti2)
  <2>1. toFreeIdx \in [Slots -> Nat] /\ Owners(o, Drafting, Gone, fresh, freeIdx, toFreeIdx)
    BY DEF ScalarInv, Types, o
  <2>2. u \in (In(o) \ Gone) \intersect Drafting
    BY <1>2, <1>4
  <2>3. Cu(n, u).slot = Dr(o, u).wslot /\ Dr(o, u).wslot \in Slots
    BY <1>4, <1>5
  <2>4. /\ \A v \in In(o) \ {u} : Cu(n, v).slot = Cu(o, v).slot
        /\ \A v \in Drafting \ {u} : Dr(n, v).wslot = Dr(o, v).wslot
    <3>1. \A v \in In(o) : v \in Uids
      BY DEF In
    <3>2. \A v \in Drafting : v \in Uids
      BY HasDraft
    <3> QED BY <1>6, <3>1, <3>2
  <2> HIDE DEF u
  <2> QED BY <1>1, <1>15, <2>1, <2>2, <2>3, <2>4, OwnersCommit
<1>17. ti2 \in [Slots -> Nat]
  BY <1>15 DEF ScalarInv, Types
<1>18. InCalls(r, n, writers, toFreeUids) /\ r \in Seq(Frames)
  <2>1. r \in Seq(Frames)
    BY <1>1, Popped DEF r
  <2> QED BY <1>3, <1>7, <2>1, CommitsSame DEF InCalls
<1> HIDE DEF ti2
<1>19. Types'
  BY <1>1, <1>10, <1>17, <1>18 DEF ScalarInv, Types, n
<1>20. Clean(fresh', freeIdx', pool')
  BY <1>10 DEF ScalarInv
<1> QED BY <1>1, <1>8, <1>9, <1>10, <1>12, <1>13, <1>14, <1>16, <1>18, <1>19, <1>20
        DEF ScalarInv, n

---------------------------------------------------------------------------
(* The collection, and the specification. *)

(* What a collection leaves. *)
LEMMA AfterGc ==
  ASSUME ScalarInv, UidAssumption, SlotAssumption, Gc
  PROVE  LET o == objects
             n == objects'
             tf == toFreeUids
         IN  /\ calls = << >> /\ calls' = << >> /\ writers = {} /\ writers' = {}
             /\ toFreeUids' = {} /\ fresh' = fresh /\ ret' = 0
             /\ pool' = [s \in Slots |-> IF toFreeIdx[s] > 0 THEN Zero ELSE pool[s]]
             /\ freeIdx' = [s \in Slots |-> freeIdx[s] + toFreeIdx[s]]
             /\ toFreeIdx' = [s \in Slots |-> 0]
             /\ Drafting = {} /\ Gone = tf /\ Drafting' = {} /\ Gone' = {} /\ Committing' = {}
             /\ n \in [Objects -> Records] /\ In(n) = In(o) \ tf /\ Listed(n) /\ Acyclic(n)
             /\ \A v \in Uids : Dr(n, v) = NoObject
             /\ \A v \in Uids \ tf : Cu(n, v).from = Cu(o, v).from /\ Cu(n, v).slot = Cu(o, v).slot
<1> DEFINE o == objects
           n == objects'
           tf == toFreeUids
           left(v) == {i \in Cu(o, v).instances : i \in tf /\ Cu(o, i).from = v}
<1>1. /\ calls = << >> /\ calls' = << >> /\ writers = {} /\ writers' = {} /\ toFreeUids' = {}
      /\ fresh' = fresh /\ ret' = 0
      /\ pool' = [s \in Slots |-> IF toFreeIdx[s] > 0 THEN Zero ELSE pool[s]]
      /\ freeIdx' = [s \in Slots |-> freeIdx[s] + toFreeIdx[s]]
      /\ toFreeIdx' = [s \in Slots |-> 0]
  BY DEF Gc, ScalarInv, Types
<1>2. n = [x \in Objects |->
             IF x[1] = "writer" \/ x[2] \in tf THEN NoObject
             ELSE [objects[x] EXCEPT !.instances =
                    @ \ {i \in Current(x[2]).instances : i \in tf /\ Current(i).from = x[2]}]]
  BY DEF Gc
<1>3. /\ UidsAt(calls, CommitOps) = {} /\ UidsAt(calls', CommitOps) = {}
      /\ UidsAt(calls, DestroyOps) = {} /\ UidsAt(calls', DestroyOps) = {}
  BY <1>1, UidsNone
<1>4. Drafting = {} /\ Gone = tf /\ Drafting' = {} /\ Gone' = {} /\ Committing' = {}
  BY <1>1, <1>3 DEF Drafting, Committing, Gone
<1>5. /\ o \in [Objects -> Records] /\ \A v \in Uids : Cur(v) \in Objects /\ Draft(v) \in Objects
      /\ \A v \in Uids : Cu(o, v) \in Records /\ Cu(o, v) = o[Cur(v)] /\ Dr(o, v) = o[Draft(v)]
      /\ \A v \in Uids : Cu(n, v) = n[Cur(v)] /\ Dr(n, v) = n[Draft(v)]
      /\ NoObject \in Records
  <2>1. NoObject \in Records
    BY DEF NoObject, Records
  <2> QED BY <2>1, Names, Fields DEF ScalarInv, Types, Cu, Dr
<1>6. \A v \in Uids : /\ Dr(n, v) = NoObject
                      /\ v \in tf => Cu(n, v) = NoObject
                      /\ v \notin tf => Cu(n, v) = [Cu(o, v) EXCEPT !.instances = @ \ left(v)]
  <2> SUFFICES ASSUME NEW v \in Uids
               PROVE  /\ Dr(n, v) = NoObject
                      /\ v \in tf => Cu(n, v) = NoObject
                      /\ v \notin tf => Cu(n, v) = [Cu(o, v) EXCEPT !.instances = @ \ left(v)]
    OBVIOUS
  <2>1. /\ Cur(v)[1] = "current" /\ Cur(v)[2] = v /\ Draft(v)[1] = "writer"
        /\ Cur(v) \in Objects /\ Draft(v) \in Objects
    BY <1>5 DEF Cur, Draft
  <2>2. n[Draft(v)] = NoObject
    BY <1>2, <2>1
  <2>3. v \in tf => n[Cur(v)] = NoObject
    BY <1>2, <2>1
  <2>4. v \notin tf => n[Cur(v)] = [objects[Cur(v)] EXCEPT !.instances =
                   @ \ {i \in Current(v).instances : i \in tf /\ Current(i).from = v}]
    BY <1>2, <2>1
  <2>5. {i \in Current(v).instances : i \in tf /\ Current(i).from = v} = left(v)
    BY InMemory
  <2>6. v \notin tf => n[Cur(v)] = [objects[Cur(v)] EXCEPT !.instances = @ \ left(v)]
    BY <2>4, <2>5
  <2> QED BY <1>5, <2>2, <2>3, <2>6
<1>7. \A v \in Uids \ tf :
         /\ Cu(n, v) \in Records
         /\ Cu(n, v).from = Cu(o, v).from /\ Cu(n, v).slot = Cu(o, v).slot
         /\ Cu(n, v).wslot = Cu(o, v).wslot /\ Cu(n, v).changed = Cu(o, v).changed
         /\ Cu(n, v).instances = Cu(o, v).instances \ left(v)
  <2> SUFFICES ASSUME NEW v \in Uids \ tf, NEW X, X = left(v)
               PROVE  /\ Cu(n, v) \in Records
                      /\ Cu(n, v).from = Cu(o, v).from /\ Cu(n, v).slot = Cu(o, v).slot
                      /\ Cu(n, v).wslot = Cu(o, v).wslot /\ Cu(n, v).changed = Cu(o, v).changed
                      /\ Cu(n, v).instances = Cu(o, v).instances \ X
    OBVIOUS
  <2>1. Cu(n, v) = [Cu(o, v) EXCEPT !.instances = @ \ X] /\ Cu(o, v) \in Records
    BY <1>5, <1>6
  <2> HIDE DEF n, o, left
  <2> QED BY <2>1 DEF Records
<1> HIDE DEF n
<1>8. \A v \in Uids \ tf : Cu(n, v) = NoObject <=> Cu(o, v) = NoObject
  <2> SUFFICES ASSUME NEW v \in Uids \ tf PROVE Cu(n, v) = NoObject <=> Cu(o, v) = NoObject
    OBVIOUS
  <2>1. CASE Cu(o, v) = NoObject
    <3>1. Cu(o, v).instances = {} /\ NoObject.instances = {}
      BY <2>1 DEF NoObject
    <3>2. Cu(n, v).instances = {} /\ Cu(n, v) \in Records /\ Cu(o, v) \in Records
      BY <1>5, <1>7, <3>1
    <3>3. /\ Cu(n, v).from = Cu(o, v).from /\ Cu(n, v).slot = Cu(o, v).slot
          /\ Cu(n, v).wslot = Cu(o, v).wslot /\ Cu(n, v).changed = Cu(o, v).changed
          /\ Cu(n, v).instances = Cu(o, v).instances
      BY <1>7, <3>1, <3>2
    <3>5. Cu(n, v) = Cu(o, v)
      <4> HIDE DEF o
      <4> QED BY <3>2, <3>3, SameRecord
    <3> QED BY <2>1, <3>5
  <2>2. CASE Cu(o, v) # NoObject
    <3>1. Cu(o, v).slot \in Slots
      BY <2>2 DEF In, ScalarInv, Listed
    <3>2. Cu(n, v).slot # 0 /\ NoObject.slot = 0
      BY <1>7, <3>1 DEF NoObject, SlotAssumption
    <3> QED BY <2>2, <3>2
  <2> QED BY <2>1, <2>2
<1>9. In(n) = In(o) \ tf /\ Listed(n) /\ Acyclic(n)
  <2>1. Shrunk(o, n, tf)
    BY <1>7, <1>8 DEF Shrunk, SameBut
  <2>2. tf \in SUBSET Uids /\ Listed(o) /\ Acyclic(o) /\ Swept(o, tf)
    BY DEF ScalarInv, Types
  <2>3. \A v \in Uids \intersect tf : Cu(n, v) = NoObject
    BY <1>6
  <2> HIDE DEF o, tf
  <2> QED BY <2>1, <2>2, <2>3, Collected
<1>10. n \in [Objects -> Records]
  <2>1. DOMAIN n = Objects /\ n = [x \in Objects |-> n[x]]
    BY <1>2 DEF n
  <2>2. \A x \in Objects : n[x] \in Records
    <3> SUFFICES ASSUME NEW x \in Objects PROVE n[x] \in Records
      OBVIOUS
    <3>1. PICK v \in Uids : x = Cur(v) \/ x = Draft(v)
      BY DEF Objects, Cur, Draft
    <3>2. Cu(n, v) \in Records /\ Dr(n, v) \in Records
      BY <1>5, <1>6, <1>7
    <3> QED BY <3>1, <3>2 DEF Cu, Dr
  <2> QED BY <2>1, <2>2
<1> HIDE DEF left, o, tf
<1> QED BY <1>1, <1>4, <1>6, <1>7, <1>9, <1>10 DEF n, o, tf

(* The destroyed leave their prefabs and what was given up is free.         *)
LEMMA GcKeeps ==
  ASSUME ScalarInv, Scalar, UidAssumption, SlotAssumption, Gc
  PROVE  ScalarInv'
<1> DEFINE o == objects
           n == objects'
           tf == toFreeUids
<1>1. /\ calls = << >> /\ calls' = << >> /\ writers = {} /\ writers' = {}
      /\ toFreeUids' = {} /\ fresh' = fresh /\ ret' = 0
      /\ pool' = [s \in Slots |-> IF toFreeIdx[s] > 0 THEN Zero ELSE pool[s]]
      /\ freeIdx' = [s \in Slots |-> freeIdx[s] + toFreeIdx[s]]
      /\ toFreeIdx' = [s \in Slots |-> 0]
      /\ Drafting = {} /\ Gone = tf /\ Drafting' = {} /\ Gone' = {} /\ Committing' = {}
      /\ n \in [Objects -> Records] /\ In(n) = In(o) \ tf /\ Listed(n) /\ Acyclic(n)
      /\ \A v \in Uids : Dr(n, v) = NoObject
      /\ \A v \in Uids \ tf : Cu(n, v).from = Cu(o, v).from /\ Cu(n, v).slot = Cu(o, v).slot
  BY AfterGc
<1> HIDE DEF n
<1>2. Owners(n, {}, {}, fresh, freeIdx', toFreeIdx')
  <2>1. Owners(o, {}, tf, fresh, freeIdx, toFreeIdx)
    BY <1>1 DEF ScalarInv
  <2>2. \A v \in In(o) \ tf : Cu(n, v).slot = Cu(o, v).slot
    BY <1>1, InMemory
  <2>3. \A s \in Slots : freeIdx'[s] = freeIdx[s] + toFreeIdx[s] /\ toFreeIdx'[s] = 0
    BY <1>1
  <2> HIDE DEF o, tf
  <2> QED BY <1>1, <2>1, <2>2, <2>3, OwnersCollected
<1>3. Clean(fresh, freeIdx', pool')
  <2> SUFFICES ASSUME NEW s \in Slots, freeIdx'[s] > 0 \/ s \in fresh PROVE pool'[s] = Zero
    BY DEF Clean
  <2>1. freeIdx[s] \in Nat /\ toFreeIdx[s] \in Nat
    BY DEF ScalarInv, Types
  <2>2. toFreeIdx[s] > 0 \/ freeIdx[s] > 0 \/ s \in fresh
    BY <1>1, <2>1
  <2> QED BY <1>1, <2>1, <2>2 DEF ScalarInv, Clean
<1>4. Drafted(n, {}, {})
  BY <1>1 DEF Drafted
<1>5. Types'
  <2>1. freeIdx' \in [Slots -> Nat] /\ toFreeIdx' \in [Slots -> Nat]
    BY <1>1 DEF ScalarInv, Types
  <2>2. Zero \in TypedValues
    BY DEF Zero, TypedValues, UidAssumption
  <2>3. pool' \in [Slots -> TypedValues]
    BY <1>1, <2>2 DEF ScalarInv, Types
  <2>4. << >> \in Seq(Frames)
    OBVIOUS
  <2> QED BY <1>1, <2>1, <2>3, <2>4 DEF ScalarInv, Types, n
<1>6. InCalls(calls', n, writers', toFreeUids')
  BY <1>1 DEF InCalls
<1>7. Swept(n, {})
  BY DEF Swept
<1> QED BY <1>1, <1>2, <1>3, <1>4, <1>5, <1>6, <1>7 DEF ScalarInv, n

(* No object and no call at first. *)
LEMMA ScalarInit ==
  ASSUME UidAssumption, SlotAssumption, Init
  PROVE  ScalarInv
<1>1. NoObject \in Records /\ Zero \in TypedValues
  <2>1. << >> \in Seq(Changes)
    OBVIOUS
  <2> QED BY <2>1 DEF NoObject, Records, Zero, TypedValues, UidAssumption
<1>2. << >> \in Seq(Frames)
  OBVIOUS
<1>3. Types
  BY <1>1, <1>2 DEF Init, Types
<1>4. \A v \in Uids : Cu(objects, v) = NoObject /\ Dr(objects, v) = NoObject
  BY Names DEF Init, Cu, Dr
<1>5. In(objects) = {}
  BY <1>4 DEF In
<1>6. Listed(objects) /\ Acyclic(objects)
  BY <1>4, <1>5 DEF Listed, Acyclic, NoObject
<1>7. UidsAt(calls, CommitOps) = {} /\ UidsAt(calls, DestroyOps) = {}
  BY UidsNone DEF Init
<1>8. Drafting = {} /\ Gone = {} /\ Committing = {}
  BY <1>7 DEF Drafting, Committing, Gone, Init
<1>9. Drafted(objects, {}, {})
  BY <1>4 DEF Drafted
<1>10. Owners(objects, {}, {}, fresh, freeIdx, toFreeIdx)
  BY <1>5 DEF Init, Owners, OwnedOnce, InOnePlace, GivenUp, Owned
<1>11. Clean(fresh, freeIdx, pool) /\ Swept(objects, {}) /\ InCalls(calls, objects, writers, toFreeUids)
  BY DEF Init, Clean, Swept, InCalls
<1> QED BY <1>3, <1>6, <1>8, <1>9, <1>10, <1>11 DEF ScalarInv, Init

(* Nothing changes. *)
LEMMA ScalarStutters ==
  ASSUME ScalarInv, UNCHANGED vars
  PROVE  ScalarInv'
<1>1. /\ objects' = objects /\ pool' = pool /\ slotVars' = slotVars /\ toFreeIdx' = toFreeIdx
      /\ toFreeUids' = toFreeUids /\ ret' = 0 /\ writers' = writers /\ calls' = calls
  BY DEF vars, slotVars, ScalarInv, Types
<1> QED BY <1>1, CallsOnly DEF ScalarInv, Types, Drafting, Committing

(* No object is given a subobject while it is created. *)
LEMMA NoSubobjects ==
  ASSUME ScalarInv
  PROVE  ~ AttachSub /\ ~ DefaultSub
<1> SUFFICES ASSUME AttachSub \/ DefaultSub PROVE FALSE
  OBVIOUS
<1>1. calls \in Seq(Frames) /\ calls # << >> /\ calls[1].op \in {"attach", "default_sub"}
  BY Innermost DEF AttachSub, DefaultSub, ScalarInv
<1> QED BY <1>1, WhichCall DEF ScalarInv

(* Every step of the specification. *)
LEMMA ScalarNext ==
  ASSUME ScalarInv, Scalar, UidAssumption, SlotAssumption, [Next]_vars
  PROVE  ScalarInv'
<1>1. CASE CreateFromStep
  <2>1. ~ AttachSub /\ ~ DefaultSub
    BY NoSubobjects
  <2> QED BY <1>1, <2>1, NoPrefabKeeps, CopyPrefabKeeps, CopySubKeeps, FromEndKeeps DEF CreateFromStep
<1>2. CASE SetSubStep
  BY <1>2, DropSubKeeps, AssignSubKeeps DEF SetSubStep
<1>3. CASE DestroyStep
  BY <1>3, NotAliveKeeps, DestroyStartKeeps, DestroyInstanceKeeps, DestroyEndKeeps DEF DestroyStep
<1>4. CASE CommitStep
  BY <1>4, DispatchBeginKeeps, FollowValuePreserves, FollowSubPreserves, FollowSetKeeps,
     FollowEndKeeps, CommitEndKeeps DEF CommitStep
<1>5. CASE ClientCall
  <2>1. ASSUME NEW u \in Roots, CreateObject(u) \/ WriteBegin(u) PROVE ScalarInv'
    BY <2>1, CreateObjectKeeps, WriteBeginKeeps
  <2>2. ASSUME NEW u \in Doomed, DestroyObject(u) PROVE ScalarInv'
    BY <2>2, UidAssumption, DestroyObjectKeeps
  <2>3. ASSUME NEW u \in Uids, NEW p \in Roots, CreateFrom(u, p) PROVE ScalarInv'
    BY <2>3, CreateFromKeeps
  <2>4. ASSUME NEW u \in writers, NEW v \in Values, SetValue(u, v) PROVE ScalarInv'
    BY <2>4, SetValueKeeps
  <2>5. ASSUME NEW u \in writers, NEW s \in SubUids \union {0}, SetSubobject(u, s) PROVE ScalarInv'
    BY <2>5, SetSubobjectKeeps
  <2>6. ASSUME NEW u \in writers, WriteCommit(u) PROVE ScalarInv'
    BY <2>6, WriteCommitKeeps
  <2> QED BY <1>5, <2>1, <2>2, <2>3, <2>4, <2>5, <2>6 DEF ClientCall, Scalar
<1>6. CASE Gc
  BY <1>6, GcKeeps
<1>7. CASE UNCHANGED vars
  BY <1>7, ScalarStutters
<1> QED BY <1>1, <1>2, <1>3, <1>4, <1>5, <1>6, <1>7 DEF Next

(* The invariant holds in every state, for any number of objects, prefabs   *)
(* of prefabs, values and places in the pool.                               *)
THEOREM ScalarInvariant == ASSUME Scalar PROVE Spec => []ScalarInv
<1>1. Init => ScalarInv
  BY ScalarInit, UidAssumption, SlotAssumption
<1>2. ScalarInv /\ [Next]_vars => ScalarInv'
  BY ScalarNext, UidAssumption, SlotAssumption
<1> QED BY <1>1, <1>2, PTL DEF Spec

---------------------------------------------------------------------------
(* What the runs check. *)

(* Between calls only clients have writers. *)
LEMMA AtRest ==
  ASSUME ScalarInv, Resting
  PROVE  /\ Drafting = writers /\ Gone = toFreeUids
         /\ Drafted(objects, writers, toFreeUids)
         /\ Owners(objects, writers, toFreeUids, fresh, freeIdx, toFreeIdx)
<1>1. UidsAt(calls, CommitOps) = {} /\ UidsAt(calls, DestroyOps) = {}
  BY UidsNone DEF Resting
<1>2. Drafting = writers /\ Gone = toFreeUids
  BY <1>1 DEF Drafting, Committing, Gone
<1> QED BY <1>2 DEF ScalarInv

(* The invariant has the types of the model. *)
LEMMA ScalarTypes ==
  ASSUME ScalarInv, UidAssumption, SlotAssumption
  PROVE  TypeOK
<1> DEFINE C == [prop : {"val", "sub"}, old : Values \union Uids \union {0},
                 new : Values \union Uids \union {0}]
           R == [slot : Slots \union {0}, wslot : Slots \union {0}, from : Uids \union {0},
                 instances : SUBSET Uids, changed : Seq(C)]
<1>1. Changes \subseteq C
  <2> SUFFICES ASSUME NEW c \in Changes PROVE c \in C
    OBVIOUS
  <2>1. CASE c \in [prop : {"val"}, old : Values, new : Values]
    BY <2>1
  <2>2. CASE c \in [prop : {"sub"}, old : {0}, new : {0}]
    BY <2>2
  <2> QED BY <2>1, <2>2, Zenon DEF Changes
<1> HIDE DEF C
<1>2. \A q \in Seq(Changes) : q \in Seq(C)
  BY <1>1
<1>3. \A r \in Records : r \in R
  BY <1>2 DEF Records
<1>4. objects \in [Objects -> R]
  BY <1>3 DEF ScalarInv, Types
<1>5. pool \in [Slots -> [val : Values, sub : Uids \union {0}]]
  <2>1. \A t \in TypedValues : t \in [val : Values, sub : Uids \union {0}]
    BY DEF TypedValues
  <2> QED BY <2>1 DEF ScalarInv, Types
<1>6. \A s \in fresh : freeIdx[s] = 0 /\ toFreeIdx[s] = 0
  BY DEF ScalarInv, Types, Owners, InOnePlace
<1>7. ASSUME Resting, NEW u \in Uids
      PROVE  /\ Current(u).changed = << >>
             /\ Live(u) => Current(u).slot # 0
             /\ u \notin writers => objects[Draft(u)] = NoObject
  <2>1. Drafted(objects, writers, toFreeUids)
    BY <1>7, AtRest
  <2>2. Cu(objects, u).changed = << >> /\ (u \in In(objects) => Cu(objects, u).slot \in Slots)
    BY DEF ScalarInv, Listed
  <2>3. u \notin writers => Dr(objects, u) = NoObject
    BY <2>1 DEF Drafted
  <2> QED BY <2>2, <2>3, InMemory DEF SlotAssumption
<1>8. /\ freeIdx \in [Slots -> Nat] /\ toFreeIdx \in [Slots -> Nat]
      /\ fresh \subseteq Slots /\ toFreeUids \subseteq Uids
      /\ ret \in Uids \union {0} /\ writers \subseteq Roots
  BY DEF ScalarInv, Types
<1> QED BY <1>4, <1>5, <1>6, <1>7, <1>8 DEF TypeOK, C

(* Sets with at most one member. *)
LEMMA AtMostOne ==
  ASSUME NEW S, \A a, b \in S : a = b
  PROVE  Cardinality(S) = IF S = {} THEN 0 ELSE 1
<1>1. CASE S = {}
  BY <1>1, FS_EmptySet
<1>2. CASE S # {}
  <2>1. PICK a \in S : TRUE
    BY <1>2
  <2>2. S = {a}
    BY <2>1
  <2>3. Cardinality({a}) = 1
    BY FS_Singleton
  <2> QED BY <1>2, <2>2, <2>3
<1> QED BY <1>1, <1>2

(* The invariant puts each typed value in one place. *)
LEMMA ScalarOwned ==
  ASSUME ScalarInv, UidAssumption
  PROVE  SlotsOwnedOnce
<1> SUFFICES ASSUME Resting, NEW s \in Slots \ fresh
             PROVE  freeIdx[s] + toFreeIdx[s]
                      + Cardinality({u \in Here \ toFreeUids : Current(u).slot = s})
                      + Cardinality({u \in writers : objects[Draft(u)].wslot = s}) = 1
  BY DEF SlotsOwnedOnce
<1> DEFINE A == {u \in Here \ toFreeUids : Current(u).slot = s}
           B == {u \in writers : objects[Draft(u)].wslot = s}
           o == objects
           tf == toFreeUids
<1>1. Owners(o, writers, tf, fresh, freeIdx, toFreeIdx)
  BY AtRest
<1>2. /\ \A u : u \in A <=> u \in In(o) \ tf /\ Cu(o, u).slot = s
      /\ \A u : u \in B <=> u \in writers /\ Dr(o, u).wslot = s
  BY InMemory
<1>3. Owned(s, o, writers, tf) <=> A # {} \/ B # {}
  BY <1>2 DEF Owned
<1> HIDE DEF A, B, o, tf
<1>4. /\ \A u, v \in A : u = v
      /\ \A u, v \in B : u = v
      /\ A = {} \/ B = {}
  BY <1>1, <1>2 DEF Owners, OwnedOnce
<1>5. Cardinality(A) = (IF A = {} THEN 0 ELSE 1) /\ Cardinality(B) = (IF B = {} THEN 0 ELSE 1)
  BY <1>4, AtMostOne
<1>6. \/ freeIdx[s] = 1 /\ toFreeIdx[s] = 0 /\ ~ Owned(s, o, writers, tf)
      \/ freeIdx[s] = 0 /\ toFreeIdx[s] = 1 /\ ~ Owned(s, o, writers, tf)
      \/ freeIdx[s] = 0 /\ toFreeIdx[s] = 0 /\ Owned(s, o, writers, tf)
  BY <1>1 DEF Owners, InOnePlace
<1>7. freeIdx[s] + toFreeIdx[s] + Cardinality(A) + Cardinality(B) = 1
  BY <1>3, <1>4, <1>5, <1>6
<1> QED BY <1>7 DEF A, B, tf

(* The invariant lists every instance. *)
LEMMA ScalarListed ==
  ASSUME ScalarInv, UidAssumption
  PROVE  InstancesListed
<1> SUFFICES ASSUME Resting, NEW u \in Here, NEW p \in Uids, Current(u).from = p
             PROVE  /\ Live(p) /\ u \in Current(p).instances
                    /\ p \in writers => u \in objects[Draft(p)].instances
                    /\ Current(p).instances \subseteq Here
  BY DEF InstancesListed
<1>1. p # 0 /\ u \in In(objects) /\ Cu(objects, u).from = p
  BY InMemory DEF UidAssumption
<1>2. p \in In(objects) /\ u \in Cu(objects, p).instances
  BY <1>1 DEF ScalarInv, Listed
<1>3. Cu(objects, p).instances \subseteq In(objects)
  BY <1>2 DEF ScalarInv, Listed
<1>4. p \in writers => Dr(objects, p).instances = Cu(objects, p).instances
  BY AtRest DEF Drafted
<1> QED BY <1>2, <1>3, <1>4, InMemory

(* Types, for any number of objects and places in the pool. *)
THEOREM CdbTypes == ASSUME Scalar PROVE Spec => []TypeOK
<1>1. ScalarInv => TypeOK
  BY ScalarTypes, UidAssumption, SlotAssumption
<1> QED BY <1>1, ScalarInvariant, PTL

(* Every typed value is free once, to be freed once, or has one owner.      *)
THEOREM ValuesOwnedOnce == ASSUME Scalar PROVE Spec => []SlotsOwnedOnce
<1>1. ScalarInv => SlotsOwnedOnce
  BY ScalarOwned, UidAssumption
<1> QED BY <1>1, ScalarInvariant, PTL

(* What _new_typed_object hands out is zero. *)
THEOREM FreeValuesClean == ASSUME Scalar PROVE Spec => []FreeSlotsClean
<1>1. ScalarInv => FreeSlotsClean
  BY DEF ScalarInv, Clean, FreeSlotsClean
<1> QED BY <1>1, ScalarInvariant, PTL

(* No commit and no destruction misses an instance. *)
THEOREM NoInstanceMissed == ASSUME Scalar PROVE Spec => []InstancesListed
<1>1. ScalarInv => InstancesListed
  BY ScalarListed, UidAssumption
<1> QED BY <1>1, ScalarInvariant, PTL

---------------------------------------------------------------------------
(* Readers. *)

(* A writer, and a typed value handed out, are nobody else's.               *)
LEMMA PlacesApart ==
  ASSUME ScalarInv, NEW s \in Slots
  PROVE  /\ TakeSlot(s) => /\ toFreeIdx[s] = 0
                           /\ \A v \in In(objects) : Cu(objects, v).slot # s
                           /\ \A v \in Drafting : Dr(objects, v).wslot # s
         /\ \A u \in Drafting : s = Dr(objects, u).wslot =>
               /\ toFreeIdx[s] = 0
               /\ \A v \in In(objects) : Cu(objects, v).slot # s
               /\ \A v \in Drafting \ {u} : Dr(objects, v).wslot # s
<1> DEFINE o == objects
<1>1. /\ Types /\ Owners(o, Drafting, Gone, fresh, freeIdx, toFreeIdx) /\ Clean(fresh, freeIdx, pool)
      /\ OwnedOnce(o, Drafting, Gone) /\ InOnePlace(o, Drafting, Gone, fresh, freeIdx, toFreeIdx)
      /\ GivenUp(o, Gone, toFreeIdx)
  BY DEF ScalarInv, Owners
<1>2. ASSUME toFreeIdx[s] = 0, \A u \in In(o) \ Gone : Cu(o, u).slot # s, NEW v \in In(o)
      PROVE  Cu(o, v).slot # s
  <2>1. CASE v \in Gone
    BY <1>1, <1>2, <2>1 DEF GivenUp
  <2> QED BY <1>2, <2>1
<1>3. ASSUME TakeSlot(s)
      PROVE  /\ toFreeIdx[s] = 0
             /\ \A v \in In(o) : Cu(o, v).slot # s
             /\ \A v \in Drafting : Dr(o, v).wslot # s
  <2>1. toFreeIdx[s] = 0 /\ ~ Owned(s, o, Drafting, Gone)
    BY <1>1, <1>3, PlaceTaken
  <2> QED BY <1>2, <2>1 DEF Owned
<1>4. ASSUME NEW u \in Drafting, s = Dr(o, u).wslot
      PROVE  /\ toFreeIdx[s] = 0
             /\ \A v \in In(o) : Cu(o, v).slot # s
             /\ \A v \in Drafting \ {u} : Dr(o, v).wslot # s
  <2>1. Owned(s, o, Drafting, Gone)
    BY <1>4 DEF Owned
  <2>2. toFreeIdx[s] = 0
    BY <1>1, <2>1 DEF InOnePlace
  <2>3. \A v \in In(o) \ Gone : Cu(o, v).slot # s
    BY <1>1, <1>4 DEF OwnedOnce
  <2>4. \A v \in Drafting \ {u} : Dr(o, v).wslot # s
    BY <1>1, <1>4 DEF OwnedOnce
  <2> QED BY <1>2, <2>2, <2>3, <2>4
<1> QED BY <1>3, <1>4

(* Nobody reads a place that is handed out, nor that of a writer.           *)
LEMMA Unread ==
  ASSUME ScalarInv, UidAssumption, SlotAssumption, NEW s \in Slots
  PROVE  /\ TakeSlot(s) => s \notin Readable
         /\ \A u \in Drafting : s = Dr(objects, u).wslot => s \notin Readable
<1>1. toFreeIdx[s] = 0 /\ (\A v \in In(objects) : Cu(objects, v).slot # s) => s \notin Readable
  BY InMemory DEF Readable
<1> QED BY <1>1, PlacesApart

(* A step that writes one place at most. *)
LEMMA OneWritten ==
  ASSUME NEW s, s \notin Readable, pool \in [Slots -> TypedValues], NEW t, pool' = [pool EXCEPT ![s] = t]
  PROVE  \A r \in Readable : pool'[r] = pool[r]
<1>1. Readable \subseteq Slots
  BY DEF Readable
<1> QED BY <1>1

(* No step but the collection changes what readers read. *)
LEMMA ReadersNext ==
  ASSUME ScalarInv, UidAssumption, SlotAssumption, [Next]_vars
  PROVE  Gc \/ \A s \in Readable : pool'[s] = pool[s]
<1> DEFINE Same == \A s \in Readable : pool'[s] = pool[s]
<1>1. Readable \subseteq Slots /\ pool \in [Slots -> TypedValues]
  BY DEF Readable, ScalarInv, Types
<1>2. ASSUME NEW s \in NewSlots, TakeSlot(s) PROVE s \in Slots /\ s \notin Readable
  BY <1>2, SlotTaken, Unread
<1>3. ASSUME NEW u \in Drafting PROVE SlotOf(Draft(u)) \notin Readable
  BY <1>3, HasDraft, Unread
<1>4. pool' = pool => Same
  OBVIOUS
<1>5. ASSUME CopyPrefab PROVE Same
  <2>1. PICK s \in NewSlots :
           TakeSlot(s) /\ pool' = [pool EXCEPT ![s].val = Value(Cur(Head(calls).from)).val]
    BY <1>5 DEF CopyPrefab
  <2> QED BY <1>1, <1>2, <2>1
<1>6. ASSUME NEW u, BeginWrite(u) PROVE Same
  <2>1. PICK s \in NewSlots : TakeSlot(s) /\ pool' = [pool EXCEPT ![s] = pool[Current(u).slot]]
    BY <1>6 DEF BeginWrite
  <2> QED BY <1>1, <1>2, <2>1
<1>7. ASSUME NEW u, MakeObject(u) PROVE Same
  <2>1. PICK s \in NewSlots : TakeSlot(s) /\ pool' = [pool EXCEPT ![s].val = 0]
    BY <1>7 DEF MakeObject
  <2> QED BY <1>1, <1>2, <2>1
<1>8. ASSUME AssignSub PROVE Same
  <2>1. /\ calls # << >> /\ calls[1].op \in {"set_sub", "assign"} /\ Head(calls) = calls[1]
    BY <1>8, Innermost DEF AssignSub, ScalarInv
  <2>2. PICK u \in Drafting : calls[1].obj = Draft(u)
    BY <2>1, Clearing
  <2>3. pool' = [pool EXCEPT ![SlotOf(Draft(u))].sub = calls[1].sub]
    BY <1>8, <2>1, <2>2 DEF AssignSub
  <2> QED BY <1>1, <1>3, <2>3
<1>9. ASSUME FollowValue PROVE Same
  <2>1. /\ calls # << >> /\ calls[1].op = "follow" /\ Head(calls) = calls[1]
        /\ calls[1].op \in CommitOps
    BY <1>9, Innermost DEF FollowValue, ScalarInv, CommitOps
  <2>2. calls[1].uid \in Drafting
    BY <2>1, CommittingNow
  <2>3. \/ pool' = pool
        \/ pool' = [pool EXCEPT ![SlotOf(Draft(calls[1].uid))].val = calls[1].changes[1].new]
    BY <1>9, <2>1 DEF FollowValue
  <2> QED BY <1>1, <1>3, <1>4, <2>2, <2>3
<1>10. ASSUME NEW u \in writers, NEW v, SetValue(u, v) PROVE Same
  <2>1. u \in Drafting /\ pool' = [pool EXCEPT ![SlotOf(Draft(u))].val = v]
    BY <1>10 DEF SetValue, Drafting
  <2> QED BY <1>1, <1>3, <2>1
<1> HIDE DEF Same
<1> SUFFICES Gc \/ Same
  BY DEF Same
<1>11. CASE CreateFromStep
  <2>1. NoPrefab => pool' = pool
    BY DEF NoPrefab
  <2>2. CopySub => pool' = pool
    BY DEF CopySub
  <2>3. AttachSub => pool' = pool
    BY DEF AttachSub
  <2>4. FromEnd => pool' = pool
    BY DEF FromEnd
  <2>5. DefaultSub => Same
    BY <1>7 DEF DefaultSub
  <2> QED BY <1>4, <1>5, <1>11, <2>1, <2>2, <2>3, <2>4, <2>5 DEF CreateFromStep
<1>12. CASE SetSubStep
  <2>1. DropSub => pool' = pool
    BY DEF DropSub
  <2> QED BY <1>4, <1>8, <1>12, <2>1 DEF SetSubStep
<1>13. CASE DestroyStep
  BY <1>4, <1>13 DEF DestroyStep, NotAlive, DestroyStart, DestroyInstance, DestroyEnd
<1>14. CASE CommitStep
  <2>1. DispatchBegin => Same
    BY <1>6 DEF DispatchBegin
  <2>2. FollowSub => pool' = pool
    BY DEF FollowSub
  <2>3. FollowSet => pool' = pool
    BY DEF FollowSet
  <2>4. FollowEnd => pool' = pool
    BY DEF FollowEnd
  <2>5. CommitEnd => pool' = pool
    BY DEF CommitEnd
  <2> QED BY <1>4, <1>9, <1>14, <2>1, <2>2, <2>3, <2>4, <2>5 DEF CommitStep
<1>15. CASE ClientCall
  <2>1. ASSUME NEW u, WriteBegin(u) PROVE Same
    BY <1>6, <2>1 DEF WriteBegin
  <2>2. ASSUME NEW u \in Uids, NEW p \in Roots, CreateFrom(u, p) PROVE Same
    BY <1>4, <2>2 DEF CreateFrom
  <2>3. ASSUME NEW u \in writers, NEW x, SetSubobject(u, x) PROVE Same
    BY <1>4, <2>3 DEF SetSubobject
  <2>4. ASSUME NEW u \in writers, WriteCommit(u) PROVE Same
    BY <1>4, <2>4 DEF WriteCommit
  <2>5. ASSUME NEW u \in Doomed, DestroyObject(u) PROVE Same
    BY <1>4, <2>5 DEF DestroyObject
  <2>6. ASSUME NEW u, CreateObject(u) \/ CreateComposite(u) PROVE Same
    BY <1>7, <2>6 DEF CreateObject, CreateComposite
  <2> QED BY <1>10, <1>15, <2>1, <2>2, <2>3, <2>4, <2>5, <2>6 DEF ClientCall
<1>16. CASE UNCHANGED vars
  BY <1>4, <1>16 DEF vars
<1> QED BY <1>11, <1>12, <1>13, <1>14, <1>15, <1>16 DEF Next

(* A reader keeps seeing what it read until the next gc, whatever is        *)
(* committed or destroyed in between, at any depth of instances.            *)
THEOREM ReadersKeepSeeing == ASSUME Scalar PROVE Spec => ReadersStable
<1>1. ScalarInv /\ [Next]_vars => [Gc \/ \A s \in Readable : pool'[s] = pool[s]]_vars
  BY ReadersNext, UidAssumption, SlotAssumption
<1> QED BY <1>1, ScalarInvariant, PTL DEF Spec, ReadersStable

---------------------------------------------------------------------------
(* Sequences of changes, and stacks that tell and fit.                     *)

(* No change leads from a value to itself. *)
LEMMA LedNone ==
  ASSUME NEW x, NEW y
  PROVE  Led(<< >>, x, y) <=> x \in Values /\ x = y
<1>1. ASSUME Led(<< >>, x, y) PROVE x \in Values /\ x = y
  <2>1. PICK h \in [0 .. Len(<< >>) -> Values] : h[0] = x /\ h[Len(<< >>)] = y
    BY <1>1 DEF Led
  <2>2. Len(<< >>) = 0
    OBVIOUS
  <2> QED BY <2>1, <2>2
<1>2. ASSUME x \in Values, x = y PROVE Led(<< >>, x, y)
  <2> DEFINE h == [k \in 0 .. 0 |-> x]
  <2>1. Len(<< >>) = 0
    OBVIOUS
  <2>2. h \in [0 .. Len(<< >>) -> Values] /\ h[0] = x /\ h[Len(<< >>)] = y
    BY <1>2, <2>1
  <2>3. Leads(<< >>, h)
    BY <2>1 DEF Leads
  <2> QED BY <2>2, <2>3 DEF Led
<1> QED BY <1>1, <1>2

(* One more change. *)
LEMMA LedOn ==
  ASSUME NEW q \in Seq(Changes), NEW x, NEW y, Led(q, x, y), NEW c \in Changes, NEW z \in Values,
         IF c.prop = "val" THEN c.old = y /\ c.new = z ELSE z = y
  PROVE  Led(Append(q, c), x, z)
<1> DEFINE n == Len(q)
           r == Append(q, c)
<1>1. PICK h \in [0 .. n -> Values] : h[0] = x /\ h[n] = y /\ Leads(q, h)
  BY DEF Led
<1>2. n \in Nat /\ Len(r) = n + 1 /\ (\A k \in 1 .. n : r[k] = q[k]) /\ r[n + 1] = c
  OBVIOUS
<1> DEFINE g == [k \in 0 .. n + 1 |-> IF k = n + 1 THEN z ELSE h[k]]
<1> HIDE DEF n, r
<1>3. g \in [0 .. n + 1 -> Values]
  <2>1. \A k \in 0 .. n + 1 : k # n + 1 => k \in 0 .. n
    BY <1>2
  <2> QED BY <1>1, <2>1
<1>4. g[0] = x /\ g[n + 1] = z /\ \A k \in 0 .. n : g[k] = h[k]
  BY <1>1, <1>2
<1> HIDE DEF g
<1>5. ASSUME NEW k \in 1 .. Len(r)
      PROVE  IF r[k].prop = "val" THEN r[k].old = g[k - 1] /\ r[k].new = g[k] ELSE g[k] = g[k - 1]
  <2>1. CASE k = n + 1
    <3>1. k - 1 = n /\ n \in 0 .. n
      BY <1>2, <2>1
    <3>2. g[k - 1] = y /\ g[k] = z /\ r[k] = c
      BY <1>1, <1>2, <1>4, <2>1, <3>1
    <3> QED BY <3>2
  <2>2. CASE k # n + 1
    <3>1. k \in 1 .. n /\ k \in 0 .. n /\ k - 1 \in 0 .. n
      BY <1>2, <2>2
    <3>2. r[k] = q[k] /\ g[k] = h[k] /\ g[k - 1] = h[k - 1]
      BY <1>2, <1>4, <3>1
    <3>3. IF q[k].prop = "val" THEN q[k].old = h[k - 1] /\ q[k].new = h[k] ELSE h[k] = h[k - 1]
      BY <1>1, <3>1 DEF Leads, n
    <3> QED BY <3>2, <3>3
  <2> QED BY <2>1, <2>2
<1> QED BY <1>2, <1>3, <1>4, <1>5 DEF Led, Leads, r

(* The first change is from where the sequence starts. *)
LEMMA LedFirst ==
  ASSUME NEW q \in Seq(Changes), q # << >>, NEW x, NEW y, Led(q, x, y)
  PROVE  IF q[1].prop = "val" THEN q[1].old = x /\ Led(Tail(q), q[1].new, y)
         ELSE Led(Tail(q), x, y)
<1> DEFINE n == Len(q)
           t == Tail(q)
<1>1. PICK h \in [0 .. n -> Values] : h[0] = x /\ h[n] = y /\ Leads(q, h)
  BY DEF Led
<1>2. n \in Nat \ {0} /\ Len(t) = n - 1 /\ \A k \in 1 .. n - 1 : t[k] = q[k + 1]
  OBVIOUS
<1> DEFINE g == [k \in 0 .. n - 1 |-> h[k + 1]]
<1>3. IF q[1].prop = "val" THEN q[1].old = h[0] /\ q[1].new = h[1] ELSE h[1] = h[0]
  <2>1. 1 \in 1 .. n /\ 1 - 1 = 0
    BY <1>2
  <2> QED BY <1>1, <2>1 DEF Leads
<1> HIDE DEF n, t
<1>4. g \in [0 .. n - 1 -> Values]
  <2>1. \A k \in 0 .. n - 1 : k + 1 \in 0 .. n
    BY <1>2
  <2> QED BY <1>1, <2>1
<1>5. g[0] = h[1] /\ g[n - 1] = y
  BY <1>1, <1>2
<1>6. \A k \in 0 .. n - 1 : g[k] = h[k + 1]
  OBVIOUS
<1> HIDE DEF g
<1>7. ASSUME NEW k \in 1 .. n - 1
      PROVE  IF t[k].prop = "val" THEN t[k].old = g[k - 1] /\ t[k].new = g[k] ELSE g[k] = g[k - 1]
  <2>1. k + 1 \in 1 .. n /\ (k + 1) - 1 = k /\ k \in 0 .. n - 1 /\ k - 1 \in 0 .. n - 1 /\ (k - 1) + 1 = k
    BY <1>2
  <2>2. t[k] = q[k + 1] /\ g[k] = h[k + 1] /\ g[k - 1] = h[k]
    BY <1>2, <1>6, <2>1
  <2>3. IF q[k + 1].prop = "val" THEN q[k + 1].old = h[k] /\ q[k + 1].new = h[k + 1] ELSE h[k + 1] = h[k]
    BY <1>1, <2>1 DEF Leads, n
  <2> QED BY <2>2, <2>3
<1>8. Led(t, h[1], y)
  <2>1. g \in [0 .. Len(t) -> Values] /\ g[Len(t)] = y /\ Leads(t, g)
    BY <1>2, <1>4, <1>5, <1>7 DEF Leads
  <2> QED BY <1>5, <2>1 DEF Led
<1> QED BY <1>1, <1>3, <1>8 DEF t

(* A stack tells as its innermost call or the others do. *)
LEMMA TopTells ==
  ASSUME NEW X, NEW q \in Seq(X), q # << >>, NEW p, NEW i
  PROVE  Telling(q, p, i) <=> TellsOf(q[1], p, i) \/ Telling(Rest(q), p, i)
<1>1. /\ Rest(q) \in Seq(X) /\ Len(q) = Len(Rest(q)) + 1 /\ Len(Rest(q)) \in Nat
      /\ DOMAIN q = 1 .. Len(q) /\ DOMAIN Rest(q) = 1 .. Len(Rest(q))
      /\ \A k \in 1 .. Len(Rest(q)) : Rest(q)[k] = q[k + 1]
  BY Popped
<1>2. 1 \in DOMAIN q /\ \A k \in DOMAIN Rest(q) : k + 1 \in DOMAIN q
  BY <1>1
<1>3. ASSUME NEW k \in DOMAIN q, k # 1 PROVE k - 1 \in DOMAIN Rest(q) /\ Rest(q)[k - 1] = q[k]
  <2>1. k - 1 \in 1 .. Len(Rest(q)) /\ (k - 1) + 1 = k
    BY <1>1, <1>3
  <2> QED BY <1>1, <2>1
<1>4. Telling(q, p, i) => TellsOf(q[1], p, i) \/ Telling(Rest(q), p, i)
  BY <1>3 DEF Telling
<1>5. Telling(Rest(q), p, i) => Telling(q, p, i)
  BY <1>1, <1>2 DEF Telling
<1> QED BY <1>2, <1>4, <1>5 DEF Telling

(* A stack fits when its innermost call and the others do. *)
LEMMA TopFits ==
  ASSUME NEW X, NEW q \in Seq(X), q # << >>, NEW o, NEW a, NEW c, NEW ow
  PROVE  Following(o, a, q, c, ow) <=> Fits(q[1], o, a, c, ow) /\ Following(o, a, Rest(q), c, ow)
<1>1. /\ Rest(q) \in Seq(X) /\ Len(q) = Len(Rest(q)) + 1 /\ Len(Rest(q)) \in Nat
      /\ DOMAIN q = 1 .. Len(q) /\ DOMAIN Rest(q) = 1 .. Len(Rest(q))
      /\ \A k \in 1 .. Len(Rest(q)) : Rest(q)[k] = q[k + 1]
  BY Popped
<1>2. 1 \in DOMAIN q /\ \A k \in DOMAIN Rest(q) : k + 1 \in DOMAIN q
  BY <1>1
<1>3. ASSUME NEW k \in DOMAIN q, k # 1 PROVE k - 1 \in DOMAIN Rest(q) /\ Rest(q)[k - 1] = q[k]
  <2>1. k - 1 \in 1 .. Len(Rest(q)) /\ (k - 1) + 1 = k
    BY <1>1, <1>3
  <2> QED BY <1>1, <2>1
<1>4. ASSUME Fits(q[1], o, a, c, ow), Following(o, a, Rest(q), c, ow), NEW k \in DOMAIN q
      PROVE  Fits(q[k], o, a, c, ow)
  BY <1>3, <1>4 DEF Following
<1>5. ASSUME Following(o, a, q, c, ow), NEW k \in DOMAIN Rest(q) PROVE Fits(Rest(q)[k], o, a, c, ow)
  BY <1>1, <1>2, <1>5 DEF Following
<1> QED BY <1>2, <1>4, <1>5 DEF Following

(* A stack without commits does neither. *)
LEMMA NothingTold ==
  ASSUME NEW q, UidsAt(q, CommitOps) = {}
  PROVE  /\ \A p, i : ~ Telling(q, p, i)
         /\ \A o, a, c, ow : Following(o, a, q, c, ow)
<1>1. \A k \in DOMAIN q : q[k].op \notin CommitOps
  BY DEF UidsAt
<1> QED BY <1>1 DEF Telling, TellsOf, Following, Fits, CommitOps

(* A stack tells of the uids it commits. *)
LEMMA TellsUid ==
  ASSUME NEW q, NEW p, NEW i, Telling(q, p, i)
  PROVE  p \in UidsAt(q, CommitOps)
BY DEF Telling, TellsOf, UidsAt, CommitOps

(* The calls that are not about the values that have changed.               *)
LEMMA FollowingSame ==
  ASSUME NEW o, NEW a, NEW q, NEW c, NEW ow, Following(o, a, q, c, ow), NEW n, NEW b, NEW d, NEW ow2,
         Heirs(n, ow2) \subseteq Heirs(o, ow),
         \A u \in Heirs(n, ow2) \intersect UidsAt(q, CommitOps) :
            /\ Cu(n, u).from = Cu(o, u).from /\ New(n, b, u) = New(o, a, u)
            /\ Goal(n, b, d, Cu(o, u).from) = Goal(o, a, c, Cu(o, u).from)
  PROVE  Following(n, b, q, d, ow2)
<1> SUFFICES ASSUME NEW k \in DOMAIN q, q[k].op \in CommitOps, q[k].uid \in Heirs(n, ow2)
             PROVE  Led(Remaining(q[k]), New(n, b, q[k].uid), Goal(n, b, d, Cu(n, q[k].uid).from))
  BY DEF Following, Fits
<1>1. q[k].uid \in UidsAt(q, CommitOps) /\ q[k].uid \in Heirs(o, ow)
  BY DEF UidsAt
<1>2. Led(Remaining(q[k]), New(o, a, q[k].uid), Goal(o, a, c, Cu(o, q[k].uid).from))
  BY <1>1 DEF Following, Fits
<1> QED BY <1>1, <1>2

(* No value changes that matters to an instance. *)
LEMMA SameValues ==
  ASSUME FollowInv, Recorded(objects', pool', Drafting'), writers' = writers,
         UidsAt(calls', CommitOps) = Committing,
         \A p, i : Telling(calls', p, i) <=> Telling(calls, p, i),
         Heirs(objects', own') \subseteq Heirs(objects, own),
         \A i \in Heirs(objects', own') :
            /\ Cu(objects', i).from = Cu(objects, i).from
            /\ Val(objects', pool', i) = Val(objects, pool, i)
            /\ Val(objects', pool', Cu(objects, i).from) = Val(objects, pool, Cu(objects, i).from),
         \A v \in Drafting : New(objects', pool', v) = New(objects, pool, v),
         Following(objects, pool, calls', Committing, own)
  PROVE  FollowInv'
<1> DEFINE o == objects
           n == objects'
           H == Heirs(n, own')
<1>1. Committing' = Committing /\ Committing \subseteq Drafting /\ writers \subseteq Drafting
  BY DEF Committing, Drafting
<1>2. \A i \in H : Goal(n, pool', Committing, Cu(o, i).from) = Goal(o, pool, Committing, Cu(o, i).from)
  BY <1>1 DEF Goal
<1>3. ASSUME NEW i \in H PROVE Shows(i, Cu(n, i).from, n, pool', calls', Committing)
  <2>1. Shows(i, Cu(o, i).from, o, pool, calls, Committing)
    BY <1>3 DEF FollowInv, Shown
  <2>2. Told(calls, Committing, Cu(o, i).from, i) => Cu(o, i).from \in Drafting
    BY <1>1, TellsUid DEF Told, Committing
  <2> QED BY <1>3, <2>1, <2>2 DEF Shows, Told
<1>4. Drawn(n, pool', Committing, writers, own')
  BY <1>1, <1>2 DEF FollowInv, Drawn
<1>5. Following(n, pool', calls', Committing, own')
  <2>1. \A u \in H \intersect UidsAt(calls', CommitOps) :
            /\ Cu(n, u).from = Cu(o, u).from /\ New(n, pool', u) = New(o, pool, u)
            /\ Goal(n, pool', Committing, Cu(o, u).from) = Goal(o, pool, Committing, Cu(o, u).from)
    BY <1>1, <1>2
  <2> HIDE DEF n, o
  <2> QED BY <2>1, FollowingSame DEF n, o
<1> QED BY <1>1, <1>3, <1>4, <1>5 DEF FollowInv, Shown

(* Nothing but the calls changes, and what clients have set.                *)
LEMMA Quiet ==
  ASSUME FollowInv, objects' = objects, pool' = pool, writers' = writers, own \subseteq own',
         UidsAt(calls', CommitOps) = Committing,
         \A p, i : Telling(calls', p, i) <=> Telling(calls, p, i),
         Following(objects, pool, calls', Committing, own)
  PROVE  FollowInv'
<1>1. Heirs(objects', own') \subseteq Heirs(objects, own)
  BY DEF Heirs
<1>2. Drafting' = Drafting
  BY DEF Drafting, Committing
<1>3. Recorded(objects', pool', Drafting')
  BY <1>2 DEF FollowInv
<1> QED BY <1>1, <1>3, SameValues

(* No commit is in progress. *)
LEMMA QuietCalls ==
  ASSUME FollowInv, objects' = objects, pool' = pool, writers' = writers, own \subseteq own',
         UidsAt(calls, CommitOps) = {}, UidsAt(calls', CommitOps) = {}
  PROVE  FollowInv'
<1>1. /\ \A p, i : ~ Telling(calls, p, i) /\ ~ Telling(calls', p, i)
      /\ Following(objects, pool, calls', Committing, own)
  BY NothingTold
<1> QED BY <1>1, Quiet DEF Committing

(* Values are values. *)
LEMMA ValuesTyped ==
  ASSUME ScalarInv, UidAssumption, SlotAssumption
  PROVE  /\ \A v \in In(objects) : Val(objects, pool, v) \in Values
         /\ \A v \in Drafting : New(objects, pool, v) \in Values
<1>1. pool \in [Slots -> TypedValues] /\ \A v \in In(objects) : Cu(objects, v).slot \in Slots
  BY DEF ScalarInv, Types, Listed
<1>2. \A v \in Drafting : Dr(objects, v).wslot \in Slots
  BY HasDraft
<1> QED BY <1>1, <1>2 DEF Val, New, TypedValues

(* The prefab of an instance. *)
LEMMA Prefab ==
  ASSUME ScalarInv, NEW i \in In(objects), Cu(objects, i).from # 0
  PROVE  /\ Cu(objects, i).from \in In(objects) /\ Cu(objects, i).from \in Uids /\ i \in Uids
         /\ i \in Cu(objects, Cu(objects, i).from).instances
         /\ Cu(objects, i).from # i
<1> DEFINE p == Cu(objects, i).from
<1>1. p \in In(objects) /\ p \in Uids /\ i \in Uids /\ i \in Cu(objects, p).instances
  BY DEF ScalarInv, Listed, In
<1>2. p # i
  BY <1>1, NotOfItself DEF ScalarInv
<1> QED BY <1>1, <1>2

---------------------------------------------------------------------------
(* Steps that change no value.                                             *)

(* A call that helps another is no commit. *)
LEMMA HelperQuiet ==
  ASSUME NEW X, NEW q \in Seq(X), q # << >>, q[1].op \notin CommitOps
  PROVE  /\ UidsAt(q, CommitOps) = UidsAt(Rest(q), CommitOps)
         /\ \A p, i : Telling(q, p, i) <=> Telling(Rest(q), p, i)
         /\ \A o, a, c, ow : Following(o, a, q, c, ow) <=> Following(o, a, Rest(q), c, ow)
<1>1. UidsAt(q, CommitOps) = UidsAt(Rest(q), CommitOps)
  BY UidsOfTail
<1>2. \A p, i : ~ TellsOf(q[1], p, i)
  BY DEF TellsOf, CommitOps
<1>3. \A o, a, c, ow : Fits(q[1], o, a, c, ow)
  BY DEF Fits
<1>4. ASSUME NEW p, NEW i PROVE Telling(q, p, i) <=> Telling(Rest(q), p, i)
  BY <1>2, TopTells
<1>5. ASSUME NEW o, NEW a, NEW c, NEW ow
      PROVE  Following(o, a, q, c, ow) <=> Following(o, a, Rest(q), c, ow)
  BY <1>3, TopFits
<1> QED BY <1>1, <1>4, <1>5

(* No commit is in progress while clients create or destroy.                *)
LEMMA CreatesQuiet ==
  ASSUME ScalarInv, calls # << >>,
         \/ calls[1].op \in {"copy_sub", "from_end", "destroy", "destroy_instances"}
         \/ calls[1].op = "create_from" /\ calls[1].from # 0
  PROVE  UidsAt(calls, CommitOps) = {}
<1> DEFINE f == calls[1]
<1>1. calls \in Seq(Frames) /\ InCalls(calls, objects, writers, toFreeUids)
  BY DEF ScalarInv, Types
<1>2. CASE f.op \in {"destroy", "destroy_instances"}
  <2>1. calls \in Seq(DestroyFrames) /\ Destroys(calls, objects, writers, toFreeUids)
    BY <1>1, <1>2, WhichCall
  <2> QED BY <2>1, DestroyCalls
<1>3. CASE f.op \notin {"destroy", "destroy_instances"}
  <2>1. f \notin NoneFrames \/ f.op # "create_from"
    BY <1>3 DEF NoneFrames
  <2>2. Len(calls) = 1 /\ f.op \notin CommitOps
    BY <1>1, <1>3, <2>1, WhichCall DEF CommitOps
  <2> QED BY <1>1, <2>2, Alone
<1> QED BY <1>2, <1>3

(* Nor in what comes of such a stack. *)
LEMMA StaysQuiet ==
  ASSUME NEW X, NEW q \in Seq(X), q # << >>, UidsAt(q, CommitOps) = {},
         NEW g, g.op \notin CommitOps, NEW h, h.op \notin CommitOps
  PROVE  /\ UidsAt(Rest(q), CommitOps) = {} /\ UidsAt(Push(g, Rest(q)), CommitOps) = {}
         /\ UidsAt(Push(h, Push(g, Rest(q))), CommitOps) = {}
<1>1. UidsAt(Rest(q), CommitOps) = {}
  BY UidsOfTail
<1>2. UidsAt(Push(g, Rest(q)), CommitOps) = {}
  BY <1>1, UidsReplaced
<1>3. Push(g, Rest(q)) \in Seq(X \union {g})
  <2>1. Rest(q) \in Seq(X)
    BY Popped
  <2>2. Rest(q) \in Seq(X \union {g})
    BY <2>1
  <2> QED BY <2>2, OnTop
<1>4. UidsAt(Push(h, Push(g, Rest(q))), CommitOps) = {}
  BY <1>2, <1>3, UidsOnTop
<1> QED BY <1>1, <1>2, <1>4

(* create_from of none returns. *)
LEMMA NoPrefabFollows ==
  ASSUME FollowInv, ScalarInv, NoPrefab
  PROVE  FollowInv'
<1>1. /\ calls \in Seq(Frames) /\ calls # << >> /\ calls[1].op = "create_from"
  BY Innermost DEF NoPrefab, ScalarInv
<1>2. calls[1].op \notin CommitOps
  BY <1>1 DEF CommitOps
<1>3. /\ calls' = Rest(calls) /\ objects' = objects /\ pool' = pool /\ writers' = writers /\ own' = own
  BY DEF NoPrefab, Leave, Rest, clientVars
<1>4. /\ UidsAt(calls', CommitOps) = Committing
      /\ \A p, i : Telling(calls', p, i) <=> Telling(calls, p, i)
      /\ Following(objects, pool, calls', Committing, own)
  BY <1>1, <1>2, <1>3, HelperQuiet DEF Committing, FollowInv
<1> QED BY <1>3, <1>4, Quiet

(* A subobject is cleared that there is not. *)
LEMMA DropSubFollows ==
  ASSUME FollowInv, ScalarInv, UidAssumption, SlotAssumption, DropSub
  PROVE  FollowInv'
<1> DEFINE f == calls[1]
           g == [f EXCEPT !.op = "assign"]
<1>1. /\ calls \in Seq(Frames) /\ calls # << >> /\ f.op = "set_sub" /\ Head(calls) = f
  BY Innermost DEF DropSub, ScalarInv
<1>2. f \in ClearFrames /\ \E u \in Drafting : f.obj = Draft(u)
  BY <1>1, Clearing
<1>3. Value(f.obj).sub = 0
  BY <1>2, HasDraft
<1>4. calls' = Push(g, Rest(calls))
  <2>1. Become(g)
    BY <1>1, <1>3 DEF DropSub
  <2> QED BY <1>1, <2>1, Steps
<1>5. g \in Frames /\ g.op \notin CommitOps /\ f.op \notin CommitOps
  BY <1>2, ClearFrame DEF CommitOps
<1> HIDE DEF g
<1>6. calls' \in Seq(Frames) /\ calls' # << >> /\ Rest(calls') = Rest(calls) /\ calls'[1] = g
  BY <1>1, <1>4, <1>5, Replaced
<1>7. objects' = objects /\ pool' = pool /\ writers' = writers /\ own' = own
  BY DEF DropSub, clientVars
<1>8. /\ UidsAt(calls', CommitOps) = UidsAt(calls, CommitOps)
      /\ \A p, i : Telling(calls', p, i) <=> Telling(calls, p, i)
      /\ \A o, a, c, ow : Following(o, a, calls', c, ow) <=> Following(o, a, calls, c, ow)
  <2>1. /\ UidsAt(calls, CommitOps) = UidsAt(Rest(calls), CommitOps)
        /\ \A p, i : Telling(calls, p, i) <=> Telling(Rest(calls), p, i)
        /\ \A o, a, c, ow : Following(o, a, calls, c, ow) <=> Following(o, a, Rest(calls), c, ow)
    BY <1>1, <1>5, HelperQuiet
  <2>2. /\ UidsAt(calls', CommitOps) = UidsAt(Rest(calls'), CommitOps)
        /\ \A p, i : Telling(calls', p, i) <=> Telling(Rest(calls'), p, i)
        /\ \A o, a, c, ow : Following(o, a, calls', c, ow) <=> Following(o, a, Rest(calls'), c, ow)
    BY <1>5, <1>6, HelperQuiet
  <2> QED BY <1>6, <2>1, <2>2
<1>9. Following(objects, pool, calls', Committing, own)
  BY <1>8 DEF FollowInv
<1> QED BY <1>7, <1>8, <1>9, Quiet DEF Committing

(* Creating an object, up to the copy of its values and from there on.      *)
LEMMA CreatesFollow ==
  ASSUME FollowInv, ScalarInv, CopySub \/ AttachSub \/ FromEnd
  PROVE  FollowInv'
<1> DEFINE f == calls[1]
<1>1. /\ calls \in Seq(Frames) /\ calls # << >> /\ f.op \in {"copy_sub", "attach", "from_end"}
      /\ Head(calls) = f
  BY Innermost DEF CopySub, AttachSub, FromEnd, ScalarInv
<1>2. f.op # "attach"
  BY <1>1, WhichCall DEF ScalarInv
<1>3. UidsAt(calls, CommitOps) = {}
  BY <1>1, <1>2, CreatesQuiet
<1>4. /\ pool' = pool /\ writers' = writers /\ own \subseteq own'
  BY DEF CopySub, AttachSub, FromEnd, clientVars
<1>5. CASE CopySub
  <2>1. PICK g, h : /\ Become(g) \/ Call(g, h)
                    /\ g.op \in {"from_end", "attach"} /\ h.op = "create_from"
    <3> DEFINE sub == pool[Current(Current(f.uid).from).slot].sub
               e == [op |-> "from_end", uid |-> f.uid]
               g == [op |-> "attach", uid |-> f.uid]
               h(v) == [op |-> "create_from", from |-> sub, uid |-> v]
    <3>1. Become(e) \/ \E v \in Uids : Call(g, h(v))
      BY <1>1, <1>5 DEF CopySub
    <3>2. e.op = "from_end" /\ g.op = "attach" /\ \A v : h(v).op = "create_from"
      OBVIOUS
    <3> HIDE DEF e, g, h
    <3> QED BY <3>1, <3>2
  <2>2. g.op \notin CommitOps /\ h.op \notin CommitOps
    BY <2>1 DEF CommitOps
  <2>3. UidsAt(calls', CommitOps) = {}
    BY <1>1, <1>3, <2>1, <2>2, Steps, StaysQuiet
  <2>4. objects' = objects
    BY <1>5 DEF CopySub
  <2> QED BY <1>3, <1>4, <2>3, <2>4, QuietCalls
<1>6. CASE FromEnd
  <2>1. UidsAt(calls', CommitOps) = {}
    BY <1>1, <1>3, <1>6, StaysQuiet, UidsOfTail DEF FromEnd, Leave, Rest
  <2>2. objects' = objects
    BY <1>6, FromEndSame
  <2> QED BY <1>3, <1>4, <2>1, <2>2, QuietCalls
<1> QED BY <1>1, <1>2, <1>5, <1>6, Innermost DEF AttachSub, ScalarInv

(* Destroying objects changes no value they have. *)
LEMMA DestroysFollow ==
  ASSUME FollowInv, ScalarInv, DestroyStep
  PROVE  FollowInv'
<1> DEFINE f == calls[1]
<1>1. /\ calls \in Seq(Frames) /\ calls # << >> /\ f.op \in {"destroy", "destroy_instances"}
      /\ Head(calls) = f
  BY Innermost DEF DestroyStep, NotAlive, DestroyStart, DestroyInstance, DestroyEnd, ScalarInv
<1>2. UidsAt(calls, CommitOps) = {}
  BY <1>1, CreatesQuiet
<1>3. /\ objects' = objects /\ pool' = pool /\ writers' = writers /\ own \subseteq own'
  BY DEF DestroyStep, NotAlive, DestroyStart, DestroyInstance, DestroyEnd, clientVars
<1>4. CASE NotAlive \/ DestroyEnd
  <2>1. calls' = Rest(calls)
    BY <1>4 DEF NotAlive, DestroyEnd, Leave, Rest
  <2>2. UidsAt(calls', CommitOps) = {}
    BY <1>1, <1>2, <2>1, UidsOfTail
  <2> QED BY <1>2, <1>3, <2>2, QuietCalls
<1>5. CASE DestroyStart
  <2> DEFINE g == [op |-> "destroy_instances", uid |-> f.uid, todo |-> Current(f.uid).instances]
             h == [op |-> "destroy", uid |-> Value(Cur(f.uid)).sub]
  <2>1. Become(g) \/ Call(g, h)
    BY <1>1, <1>5 DEF DestroyStart
  <2>2. g.op \notin CommitOps /\ h.op \notin CommitOps
    BY DEF CommitOps
  <2> HIDE DEF g, h
  <2>3. UidsAt(calls', CommitOps) = {}
    BY <1>1, <1>2, <2>1, <2>2, Steps, StaysQuiet
  <2> QED BY <1>2, <1>3, <2>3, QuietCalls
<1>6. CASE DestroyInstance
  <2>1. PICK i \in f.todo : Call([f EXCEPT !.todo = @ \ {i}], [op |-> "destroy", uid |-> i])
    BY <1>1, <1>6 DEF DestroyInstance
  <2> DEFINE g == [f EXCEPT !.todo = @ \ {i}]
             h == [op |-> "destroy", uid |-> i]
  <2>2. f \in [op : {"destroy_instances"}, uid : Uids, todo : SUBSET Uids]
    <3>1. f \in DestroyFrames /\ f.op = "destroy_instances"
      BY <1>1, <1>6, DestroyingNow, Innermost DEF DestroyInstance, ScalarInv
    <3> QED BY <3>1 DEF DestroyFrames
  <2>3. g.op \notin CommitOps /\ h.op \notin CommitOps
    BY <2>2 DEF CommitOps
  <2>4. Call(g, h)
    BY <2>1
  <2> HIDE DEF g, h
  <2>5. UidsAt(calls', CommitOps) = {}
    BY <1>1, <1>2, <2>3, <2>4, Steps, StaysQuiet
  <2> QED BY <1>2, <1>3, <2>5, QuietCalls
<1> QED BY <1>4, <1>5, <1>6 DEF DestroyStep

(* Clients call create_from, destroy_object and set_subobject.              *)
LEMMA CallsFollow ==
  ASSUME FollowInv,
         \/ \E u \in Uids : DestroyObject(u) \/ \E p \in Roots : CreateFrom(u, p)
         \/ \E u \in writers : \E s \in SubUids \union {0} : SetSubobject(u, s)
  PROVE  FollowInv'
<1>1. /\ calls = << >> /\ objects' = objects /\ pool' = pool /\ writers' = writers /\ own \subseteq own'
      /\ \E f : calls' = <<f>> /\ f.op \notin CommitOps
  <2>1. ASSUME NEW u, DestroyObject(u)
        PROVE  /\ calls = << >> /\ objects' = objects /\ pool' = pool /\ writers' = writers
               /\ own \subseteq own' /\ \E f : calls' = <<f>> /\ f.op \notin CommitOps
    <3> DEFINE f == [op |-> "destroy", uid |-> u]
    <3>1. f.op \notin CommitOps
      BY DEF CommitOps
    <3>2. calls' = <<f>>
      BY <2>1 DEF DestroyObject
    <3> HIDE DEF f
    <3> QED BY <2>1, <3>1, <3>2 DEF DestroyObject, clientVars
  <2>2. ASSUME NEW u, NEW p, CreateFrom(u, p)
        PROVE  /\ calls = << >> /\ objects' = objects /\ pool' = pool /\ writers' = writers
               /\ own \subseteq own' /\ \E f : calls' = <<f>> /\ f.op \notin CommitOps
    <3> DEFINE f == [op |-> "create_from", from |-> p, uid |-> u]
    <3>1. f.op \notin CommitOps
      BY DEF CommitOps
    <3>2. calls' = <<f>>
      BY <2>2 DEF CreateFrom
    <3> HIDE DEF f
    <3> QED BY <2>2, <3>1, <3>2 DEF CreateFrom, clientVars
  <2>3. ASSUME NEW u, NEW s, SetSubobject(u, s)
        PROVE  /\ calls = << >> /\ objects' = objects /\ pool' = pool /\ writers' = writers
               /\ own \subseteq own' /\ \E f : calls' = <<f>> /\ f.op \notin CommitOps
    <3> DEFINE f == [op |-> "set_sub", obj |-> Draft(u), sub |-> s]
    <3>1. f.op \notin CommitOps
      BY DEF CommitOps
    <3>2. calls' = <<f>>
      BY <2>3 DEF SetSubobject
    <3> HIDE DEF f
    <3> QED BY <2>3, <3>1, <3>2 DEF SetSubobject
  <2> QED BY <2>1, <2>2, <2>3
<1>2. PICK f : calls' = <<f>> /\ f.op \notin CommitOps
  BY <1>1
<1>3. <<f>> \in Seq({f}) /\ Len(<<f>>) = 1 /\ <<f>>[1] = f
  OBVIOUS
<1>4. UidsAt(calls', CommitOps) = {} /\ UidsAt(calls, CommitOps) = {}
  BY <1>1, <1>2, <1>3, Alone, UidsNone
<1> QED BY <1>1, <1>4, QuietCalls

---------------------------------------------------------------------------
(* Values that are written.                                                *)

(* The instances whose value follows are the same.                          *)
LEMMA SameHeirs ==
  ASSUME NEW o, NEW n, \A v \in Uids : Cu(n, v) = Cu(o, v)
  PROVE  /\ In(n) = In(o) /\ \A ow : Heirs(n, ow) = Heirs(o, ow)
         /\ \A a, v : v \in Uids => Val(n, a, v) = a[Cu(o, v).slot].val
<1>1. In(n) = In(o)
  BY DEF In
<1>2. \A v \in In(o) : v \in Uids
  BY DEF In
<1> QED BY <1>1, <1>2 DEF Heirs, Val

(* What a value that is written in a writer changes. *)
LEMMA LoggedValues ==
  ASSUME ScalarInv, UidAssumption, SlotAssumption, NEW u \in Drafting, NEW c \in Changes,
         Changed(Draft(u), c), NEW y \in Values,
         \A r \in Slots : pool'[r].val = IF r = Dr(objects, u).wslot THEN y ELSE pool[r].val,
         FollowInv, writers' = writers, UidsAt(calls', CommitOps) = Committing,
         IF c.prop = "val" THEN c.old = New(objects, pool, u) /\ c.new = y
         ELSE y = New(objects, pool, u)
  PROVE  /\ \A ow : Heirs(objects', ow) = Heirs(objects, ow)
         /\ \A v \in In(objects) : Cu(objects', v) = Cu(objects, v)
         /\ \A v \in In(objects) : Val(objects', pool', v) = Val(objects, pool, v)
         /\ \A v \in Drafting \ {u} : New(objects', pool', v) = New(objects, pool, v)
         /\ New(objects', pool', u) = y
         /\ Drafting' = Drafting /\ Committing' = Committing
         /\ Recorded(objects', pool', Drafting')
<1> DEFINE o == objects
           n == objects'
           s == Dr(o, u).wslot
<1>1. /\ \A v \in Uids : Cu(n, v) = Cu(o, v)
      /\ \A v \in Uids \ {u} : Dr(n, v) = Dr(o, v)
      /\ Dr(n, u).wslot = s /\ Dr(o, u).changed \in Seq(Changes)
      /\ Dr(n, u).changed = Append(Dr(o, u).changed, c)
  BY Logged
<1>2. /\ s \in Slots /\ u \in In(o)
      /\ \A v \in In(o) : v \in Uids /\ Cu(o, v).slot \in Slots /\ Cu(o, v).slot # s
      /\ \A v \in Drafting : v \in Uids /\ v \in In(o) /\ Dr(o, v).wslot \in Slots
      /\ \A v \in Drafting \ {u} : Dr(o, v).wslot # s
  <2>1. s \in Slots
    BY HasDraft
  <2>2. \A v \in In(o) : Cu(o, v).slot \in Slots
    BY DEF ScalarInv, Listed
  <2> QED BY <2>1, <2>2, InMemory, HasDraft, PlacesApart
<1>3. \A ow : Heirs(n, ow) = Heirs(o, ow)
  BY <1>1, SameHeirs
<1>4. \A v \in In(o) : Val(n, pool', v) = Val(o, pool, v)
  BY <1>1, <1>2 DEF Val
<1>5. \A v \in Drafting \ {u} : New(n, pool', v) = New(o, pool, v)
  BY <1>1, <1>2 DEF New
<1>6. New(n, pool', u) = y
  BY <1>1, <1>2 DEF New
<1>7. Drafting' = Drafting /\ Committing' = Committing
  BY DEF Drafting, Committing
<1>8. ASSUME NEW v \in Drafting PROVE Led(Dr(n, v).changed, Val(n, pool', v), New(n, pool', v))
  <2>1. Led(Dr(o, v).changed, Val(o, pool, v), New(o, pool, v))
    BY DEF FollowInv, Recorded
  <2>2. CASE v = u
    <3>1. Led(Append(Dr(o, u).changed, c), Val(o, pool, u), y)
      BY <1>1, <2>1, <2>2, LedOn
    <3> QED BY <1>1, <1>2, <1>4, <1>6, <2>2, <3>1
  <2>3. CASE v # u
    BY <1>1, <1>2, <1>4, <1>5, <2>1, <2>3
  <2> QED BY <2>2, <2>3
<1> QED BY <1>1, <1>2, <1>3, <1>4, <1>5, <1>6, <1>7, <1>8 DEF Recorded

(* Clearing a subobject changes no value. *)
LEMMA AssignSubFollows ==
  ASSUME FollowInv, ScalarInv, UidAssumption, SlotAssumption, AssignSub
  PROVE  FollowInv'
<1> DEFINE f == calls[1]
<1>1. /\ calls \in Seq(Frames) /\ calls # << >> /\ f.op = "assign" /\ Head(calls) = f
  BY Innermost DEF AssignSub, ScalarInv
<1>2. f \in ClearFrames /\ f.op \notin CommitOps /\ \E u \in Drafting : f.obj = Draft(u)
  BY <1>1, Clearing DEF CommitOps
<1>3. PICK u \in Drafting : f.obj = Draft(u)
  BY <1>2
<1> DEFINE s == Dr(objects, u).wslot
           c == [prop |-> "sub", old |-> f.sub, new |-> f.sub]
           y == New(objects, pool, u)
<1>4. SlotOf(f.obj) = s /\ s \in Slots /\ f.sub = 0
  BY <1>2, <1>3, HasDraft, ClearFrame
<1>5. c \in Changes /\ c.prop # "val"
  BY <1>4 DEF Changes
<1>6. pool' = [pool EXCEPT ![s].sub = 0] /\ Changed(Draft(u), c)
  BY <1>1, <1>3, <1>4 DEF AssignSub
<1>7. \A r \in Slots : pool'[r].val = pool[r].val
  BY <1>4, <1>6 DEF ScalarInv, Types, TypedValues
<1>8. y \in Values
  BY ValuesTyped
<1>9. pool[s].val = y
  BY DEF New
<1>10. calls' = Rest(calls) /\ writers' = writers /\ own' = own
  BY DEF AssignSub, Leave, Rest, clientVars
<1>11. /\ UidsAt(calls', CommitOps) = Committing
       /\ \A p, i : Telling(calls', p, i) <=> Telling(calls, p, i)
       /\ Following(objects, pool, calls', Committing, own)
  BY <1>1, <1>2, <1>10, HelperQuiet DEF Committing, FollowInv
<1> HIDE DEF c, y, s
<1>12. /\ Heirs(objects', own') = Heirs(objects, own)
       /\ \A v \in In(objects) : Cu(objects', v) = Cu(objects, v)
       /\ \A v \in In(objects) : Val(objects', pool', v) = Val(objects, pool, v)
       /\ \A v \in Drafting : New(objects', pool', v) = New(objects, pool, v)
       /\ Recorded(objects', pool', Drafting')
  <2>1. \A r \in Slots : pool'[r].val = IF r = Dr(objects, u).wslot THEN y ELSE pool[r].val
    BY <1>7, <1>9 DEF s
  <2>2. y = New(objects, pool, u)
    BY DEF y
  <2>3. /\ \A ow : Heirs(objects', ow) = Heirs(objects, ow)
        /\ \A v \in In(objects) : Cu(objects', v) = Cu(objects, v)
        /\ \A v \in In(objects) : Val(objects', pool', v) = Val(objects, pool, v)
        /\ \A v \in Drafting \ {u} : New(objects', pool', v) = New(objects, pool, v)
        /\ New(objects', pool', u) = y
        /\ Recorded(objects', pool', Drafting')
    BY <1>5, <1>6, <1>8, <1>10, <1>11, <2>1, <2>2, LoggedValues
  <2> QED BY <1>10, <2>2, <2>3
<1>13. \A i \in Heirs(objects, own) : i \in In(objects) /\ Cu(objects, i).from \in In(objects)
  BY Prefab DEF Heirs
<1> QED BY <1>10, <1>11, <1>12, <1>13, SameValues

(* A client sets a value: the instance is nobody's heir from then on.       *)
LEMMA SetValueFollows ==
  ASSUME FollowInv, ScalarInv, UidAssumption, SlotAssumption, NEW u \in writers, NEW v \in Values,
         SetValue(u, v)
  PROVE  FollowInv'
<1> DEFINE o == objects
           n == objects'
           c == [prop |-> "val", old |-> Value(Draft(u)).val, new |-> v]
<1>1. u \in Drafting
  BY DEF Drafting
<1>2. /\ SlotOf(Draft(u)) = Dr(o, u).wslot /\ Dr(o, u).wslot \in Slots
      /\ Value(Draft(u)).val \in Values /\ Value(Draft(u)).val = New(o, pool, u)
  BY <1>1, HasDraft DEF New
<1>3. c \in Changes /\ c.prop = "val" /\ c.old = New(o, pool, u) /\ c.new = v
  BY <1>2 DEF Changes
<1>4. pool' = [pool EXCEPT ![Dr(o, u).wslot].val = v] /\ Changed(Draft(u), c)
  BY <1>2 DEF SetValue
<1>5. \A r \in Slots : pool'[r].val = IF r = Dr(o, u).wslot THEN v ELSE pool[r].val
  BY <1>2, <1>4 DEF ScalarInv, Types, TypedValues
<1>6. /\ calls = << >> /\ calls' = calls /\ writers' = writers /\ own' = own \union {<<u, "val">>}
  BY DEF SetValue
<1>7. UidsAt(calls', CommitOps) = Committing /\ Committing = {}
  BY <1>6, UidsNone DEF Committing
<1> HIDE DEF c
<1>8. /\ \A ow : Heirs(n, ow) = Heirs(o, ow)
      /\ \A x \in In(o) : Cu(n, x) = Cu(o, x)
      /\ \A x \in In(o) : Val(n, pool', x) = Val(o, pool, x)
      /\ \A x \in Drafting \ {u} : New(n, pool', x) = New(o, pool, x)
      /\ Drafting' = Drafting /\ Committing' = Committing
      /\ Recorded(n, pool', Drafting')
  BY <1>1, <1>3, <1>4, <1>5, <1>6, <1>7, LoggedValues
<1>9. /\ \A p, i : ~ Telling(calls, p, i) /\ ~ Telling(calls', p, i)
      /\ Following(n, pool', calls', Committing', own')
  BY <1>7, <1>8, NothingTold DEF Committing
<1>10. ASSUME NEW i \in Heirs(n, own')
       PROVE  /\ i \in Heirs(o, own) /\ i # u /\ i \in In(o) /\ Cu(o, i).from \in In(o)
              /\ Cu(n, i).from = Cu(o, i).from
  <2>1. i \in Heirs(o, own')
    BY <1>8
  <2>2. i \in Heirs(o, own) /\ i # u
    BY <1>6, <2>1 DEF Heirs
  <2>3. i \in In(o) /\ Cu(o, i).from # 0
    BY <2>2 DEF Heirs
  <2> QED BY <1>8, <2>2, <2>3, Prefab
<1>11. Shown(n, pool', calls', Committing', own')
  <2> SUFFICES ASSUME NEW i \in Heirs(n, own')
               PROVE  Val(n, pool', i) = Val(n, pool', Cu(n, i).from)
    BY <1>9 DEF Shown, Shows, Told
  <2>1. Shows(i, Cu(o, i).from, o, pool, calls, Committing)
    BY <1>10 DEF FollowInv, Shown
  <2>2. Val(o, pool, i) = Val(o, pool, Cu(o, i).from)
    BY <1>9, <2>1 DEF Shows, Told
  <2> QED BY <1>8, <1>10, <2>2
<1>12. Drawn(n, pool', Committing', writers', own')
  <2> SUFFICES ASSUME NEW i \in Heirs(n, own'), i \in writers
               PROVE  New(n, pool', i) = Val(n, pool', Cu(n, i).from)
    BY <1>6, <1>7, <1>8 DEF Drawn, Goal
  <2>1. New(o, pool, i) = Val(o, pool, Cu(o, i).from)
    BY <1>7, <1>10 DEF FollowInv, Drawn, Goal
  <2> QED BY <1>8, <1>10, <2>1 DEF Drafting
<1> QED BY <1>8, <1>9, <1>11, <1>12 DEF FollowInv

(* The innermost of the calls is on the stack once. *)
LEMMA TopApart ==
  ASSUME NEW X, NEW q \in Seq(X), q # << >>, Apart(q), NEW ops
  PROVE  q[1].uid \notin UidsAt(Rest(q), ops)
<1>1. /\ DOMAIN q = 1 .. Len(q) /\ DOMAIN Rest(q) = 1 .. Len(Rest(q)) /\ Len(q) = Len(Rest(q)) + 1
      /\ Len(Rest(q)) \in Nat /\ \A k \in 1 .. Len(Rest(q)) : Rest(q)[k] = q[k + 1]
  BY Popped
<1>2. \A k \in DOMAIN Rest(q) : k + 1 \in DOMAIN q /\ 1 \in DOMAIN q /\ k + 1 # 1
  BY <1>1
<1>3. \A k \in DOMAIN Rest(q) : Rest(q)[k].uid # q[1].uid
  BY <1>1, <1>2 DEF Apart
<1> QED BY <1>3 DEF UidsAt

(* An object whose instances are yet to follow: no instance of it is written*)
(* by a client, or committed.                                               *)
LEMMA TopAlone ==
  ASSUME ScalarInv, UidAssumption, SlotAssumption, calls # << >>, calls[1].op \in CommitOps,
         NEW i \in In(objects), Cu(objects, i).from = calls[1].uid
  PROVE  /\ i \notin Committing
         /\ calls[1].op # "commit" => i \notin writers
<1> DEFINE u == calls[1].uid
<1>1. /\ calls \in Seq(CommitFrames) /\ Commits(calls, objects, writers, toFreeUids)
      /\ u \in In(objects) /\ u \in Uids
  BY CommittingNow
<1>2. i \in Cu(objects, u).instances
  BY <1>1, UidAssumption DEF ScalarInv, Listed
<1>3. i \notin Committing
  <2>1. \A k \in 1 .. Len(calls) : calls[k].uid # i
    BY <1>1, <1>2, NotOnStack DEF ScalarInv
  <2>2. DOMAIN calls = 1 .. Len(calls)
    BY <1>1, CommitCalls
  <2> QED BY <2>1, <2>2 DEF Committing, UidsAt
<1>4. ASSUME calls[1].op # "commit" PROVE i \notin writers
  <2>1. PICK W \in SUBSET Uids : Reaches(W, calls, objects, writers, toFreeUids)
    BY <1>1 DEF Commits
  <2> QED BY <1>2, <1>4, <2>1 DEF Reaches
<1> QED BY <1>3, <1>4

---------------------------------------------------------------------------
(* Instances that follow.                                                  *)

(* An instance that follows tells nobody yet; the call goes on to g.        *)
LEMMA FollowerQuiet ==
  ASSUME NEW X, NEW q \in Seq(X), q # << >>, q[1].op \in {"follow", "follow_set"},
         NEW g, g.op \in {"follow", "follow_set"}, g.uid = q[1].uid, NEW n, n = Push(g, Rest(q))
  PROVE  /\ UidsAt(n, CommitOps) = UidsAt(q, CommitOps)
         /\ \A p, i : Telling(n, p, i) <=> Telling(q, p, i)
         /\ \A p, i : Telling(q, p, i) <=> Telling(Rest(q), p, i)
         /\ \A o, a, c, ow : Following(o, a, n, c, ow) <=>
               Fits(g, o, a, c, ow) /\ Following(o, a, Rest(q), c, ow)
<1>1. q[1].op \in CommitOps /\ g.op \in CommitOps /\ q[1].op # "commit" /\ g.op # "commit"
  BY DEF CommitOps
<1>2. UidsAt(n, CommitOps) = UidsAt(q, CommitOps)
  <2>1. UidsAt(n, CommitOps) = {g.uid} \union UidsAt(Rest(q), CommitOps)
    BY <1>1, UidsReplaced
  <2>2. UidsAt(q, CommitOps) = {q[1].uid} \union UidsAt(Rest(q), CommitOps)
    BY <1>1, UidsOfTail
  <2> QED BY <2>1, <2>2
<1>3. n \in Seq(X \union {g}) /\ n # << >> /\ Rest(n) = Rest(q) /\ n[1] = g
  <2>1. q \in Seq(X \union {g})
    OBVIOUS
  <2> QED BY <2>1, Replaced
<1>4. \A p, i : ~ TellsOf(q[1], p, i) /\ ~ TellsOf(n[1], p, i)
  BY <1>1, <1>3 DEF TellsOf
<1>5. ASSUME NEW p, NEW i
      PROVE  /\ Telling(q, p, i) <=> Telling(Rest(q), p, i)
             /\ Telling(n, p, i) <=> Telling(Rest(q), p, i)
  <2>1. Telling(q, p, i) <=> Telling(Rest(q), p, i)
    BY <1>4, TopTells
  <2>2. Telling(n, p, i) <=> Telling(Rest(n), p, i)
    BY <1>3, <1>4, TopTells
  <2> QED BY <1>3, <2>1, <2>2
<1>6. ASSUME NEW o, NEW a, NEW c, NEW ow
      PROVE  Following(o, a, n, c, ow) <=>
               Fits(g, o, a, c, ow) /\ Following(o, a, Rest(q), c, ow)
  BY <1>3, TopFits
<1> QED BY <1>2, <1>5, <1>6

(* What is left for it to follow, one change on. *)
LEMMA FitsOn ==
  ASSUME ScalarInv, FollowInv, UidAssumption, SlotAssumption, calls # << >>,
         calls[1].op \in {"follow", "follow_set"}, calls[1].uid \in Heirs(objects, own)
  PROVE  LET f == calls[1]
             y == New(objects, pool, f.uid)
             z == Goal(objects, pool, Committing, Cu(objects, f.uid).from)
         IN  /\ f.op = "follow_set" => Led(Tail(f.changes), y, z)
             /\ f.op = "follow" => Led(f.changes, y, z)
             /\ f.op = "follow" /\ f.changes # << >> =>
                  IF f.changes[1].prop = "val"
                  THEN f.changes[1].old = y /\ Led(Tail(f.changes), f.changes[1].new, z)
                  ELSE Led(Tail(f.changes), y, z)
<1> DEFINE f == calls[1]
           y == New(objects, pool, f.uid)
           z == Goal(objects, pool, Committing, Cu(objects, f.uid).from)
<1>1. f.op \in CommitOps /\ f.op # "commit" /\ calls \in Seq(Frames)
  BY DEF CommitOps, ScalarInv, Types
<1>2. f \in CommitFrames
  BY <1>1, CommittingNow
<1>3. f.changes \in Seq(Changes)
  BY <1>2, FollowFrame
<1>4. Fits(f, objects, pool, Committing, own)
  BY <1>1, TopFits DEF FollowInv
<1>5. Led(Remaining(f), y, z)
  BY <1>1, <1>4 DEF Fits
<1>6. /\ f.op = "follow_set" => Led(Tail(f.changes), y, z)
      /\ f.op = "follow" => Led(f.changes, y, z)
  BY <1>5 DEF Remaining
<1> HIDE DEF y, z
<1>7. ASSUME f.op = "follow", f.changes # << >>
      PROVE  IF f.changes[1].prop = "val"
             THEN f.changes[1].old = y /\ Led(Tail(f.changes), f.changes[1].new, z)
             ELSE Led(Tail(f.changes), y, z)
  BY <1>3, <1>6, <1>7, LedFirst
<1> QED BY <1>6, <1>7 DEF y, z

(* The innermost call goes on, with help or without, and no value changes.  *)
LEMMA GoesOnFollows ==
  ASSUME FollowInv, ScalarInv, UidAssumption, SlotAssumption, calls # << >>,
         calls[1].op \in {"follow", "follow_set"},
         NEW g, g.op \in {"follow", "follow_set"}, g.uid = calls[1].uid,
         g.uid \in Heirs(objects, own) =>
            Led(Remaining(g), New(objects, pool, g.uid),
                Goal(objects, pool, Committing, Cu(objects, g.uid).from)),
         NEW h, h.op \notin CommitOps,
         \/ calls' = Push(g, Rest(calls))
         \/ calls' = Push(h, Push(g, Rest(calls))),
         objects' = objects, pool' = pool, writers' = writers, own' = own
  PROVE  FollowInv'
<1> DEFINE m == Push(g, Rest(calls))
<1>1. calls \in Seq(Frames) /\ calls[1].op \in CommitOps
  BY DEF ScalarInv, Types, CommitOps
<1>2. /\ UidsAt(m, CommitOps) = Committing
      /\ \A p, i : Telling(m, p, i) <=> Telling(calls, p, i)
      /\ \A o, a, c, ow : Following(o, a, m, c, ow) <=>
            Fits(g, o, a, c, ow) /\ Following(o, a, Rest(calls), c, ow)
  BY <1>1, FollowerQuiet DEF Committing
<1>3. Following(objects, pool, Rest(calls), Committing, own)
  BY <1>1, TopFits DEF FollowInv
<1>4. Following(objects, pool, m, Committing, own)
  BY <1>2, <1>3 DEF Fits
<1>5. m \in Seq(Frames \union {g}) /\ calls \in Seq(Frames \union {g, h})
  <2>1. calls \in Seq(Frames \union {g})
    BY <1>1
  <2> QED BY <1>1, <2>1, Replaced
<1>6. CASE calls' = m
  BY <1>2, <1>4, <1>6, Quiet
<1>7. CASE calls' = Push(h, m)
  <2> HIDE DEF m
  <2>1. calls' \in Seq(Frames \union {g, h}) /\ calls' # << >> /\ calls'[1] = h /\ Rest(calls') = m
    <3>1. m \in Seq(Frames \union {g, h})
      BY <1>5
    <3> QED BY <1>7, <3>1, OnTop
  <2>2. /\ UidsAt(calls', CommitOps) = UidsAt(m, CommitOps)
        /\ \A p, i : Telling(calls', p, i) <=> Telling(m, p, i)
        /\ \A o, a, c, ow : Following(o, a, calls', c, ow) <=> Following(o, a, m, c, ow)
    BY <2>1, HelperQuiet
  <2> QED BY <1>2, <1>4, <2>2, Quiet
<1> QED BY <1>6, <1>7

(* A subobject that does not exist follows. *)
LEMMA FollowSubFollows ==
  ASSUME FollowInv, ScalarInv, UidAssumption, SlotAssumption, FollowSub
  PROVE  FollowInv'
<1> DEFINE f == calls[1]
           g == [f EXCEPT !.op = "follow_set"]
<1>1. /\ calls \in Seq(Frames) /\ calls # << >> /\ f.op = "follow" /\ Head(calls) = f
      /\ f.op \in CommitOps
  BY Innermost DEF FollowSub, ScalarInv, CommitOps
<1>2. f \in CommitFrames /\ f.changes # << >> /\ f.changes[1].prop = "sub"
  BY <1>1, CommittingNow DEF FollowSub
<1>3. PICK v \in Uids : Call(g, [op |-> "create_from", from |-> f.changes[1].new, uid |-> v])
  BY <1>1 DEF FollowSub
<1> DEFINE h == [op |-> "create_from", from |-> f.changes[1].new, uid |-> v]
<1>4. calls' = Push(h, Push(g, Rest(calls)))
  BY <1>1, <1>3, Steps
<1>5. g.op = "follow_set" /\ g.uid = f.uid
  BY <1>1, <1>2, FollowOn
<1>6. g.changes = f.changes
  <2>1. f \in [op : {"follow"}, uid : Uids, changes : Seq(Changes)]
    BY <1>1, <1>2 DEF CommitFrames
  <2> QED BY <2>1
<1>7. h.op \notin CommitOps
  BY DEF CommitOps
<1> HIDE DEF g, h
<1>8. g.uid \in Heirs(objects, own) =>
        Led(Remaining(g), New(objects, pool, g.uid),
            Goal(objects, pool, Committing, Cu(objects, g.uid).from))
  <2> SUFFICES ASSUME f.uid \in Heirs(objects, own)
               PROVE  Led(Tail(f.changes), New(objects, pool, f.uid),
                          Goal(objects, pool, Committing, Cu(objects, f.uid).from))
    BY <1>5, <1>6 DEF Remaining
  <2> QED BY <1>1, <1>2, FitsOn
<1>9. objects' = objects /\ pool' = pool /\ writers' = writers /\ own' = own
  BY DEF FollowSub, clientVars
<1> QED BY <1>1, <1>4, <1>5, <1>7, <1>8, <1>9, GoesOnFollows

(* And is set. *)
LEMMA FollowSetFollows ==
  ASSUME FollowInv, ScalarInv, UidAssumption, SlotAssumption, FollowSet
  PROVE  FollowInv'
<1> DEFINE f == calls[1]
           g == [f EXCEPT !.op = "follow", !.changes = Tail(@)]
           h == [op |-> "set_sub", obj |-> Draft(f.uid), sub |-> ret]
<1>1. /\ calls \in Seq(Frames) /\ calls # << >> /\ f.op = "follow_set" /\ Head(calls) = f
      /\ f.op \in CommitOps
  BY Innermost DEF FollowSet, ScalarInv, CommitOps
<1>2. f \in CommitFrames /\ f.changes # << >>
  BY <1>1, CommittingNow, FollowFrame
<1>3. Call(g, h)
  BY <1>1 DEF FollowSet
<1>4. calls' = Push(h, Push(g, Rest(calls)))
  BY <1>1, <1>3, Steps
<1>5. g.op = "follow" /\ g.uid = f.uid /\ g.changes = Tail(f.changes)
  <2>1. f \in [op : {"follow_set"}, uid : Uids, changes : Seq(Changes) \ {<< >>}]
    BY <1>1, <1>2 DEF CommitFrames
  <2> QED BY <2>1
<1>6. h.op \notin CommitOps
  BY DEF CommitOps
<1> HIDE DEF g, h
<1>7. g.uid \in Heirs(objects, own) =>
        Led(Remaining(g), New(objects, pool, g.uid),
            Goal(objects, pool, Committing, Cu(objects, g.uid).from))
  <2> SUFFICES ASSUME f.uid \in Heirs(objects, own)
               PROVE  Led(Tail(f.changes), New(objects, pool, f.uid),
                          Goal(objects, pool, Committing, Cu(objects, f.uid).from))
    BY <1>5 DEF Remaining
  <2> QED BY <1>1, FitsOn
<1>8. objects' = objects /\ pool' = pool /\ writers' = writers /\ own' = own
  BY DEF FollowSet, clientVars
<1> QED BY <1>1, <1>4, <1>5, <1>6, <1>7, <1>8, GoesOnFollows

(* A value follows that is still the prefab's; any heir's is.               *)
LEMMA FollowValueFollows ==
  ASSUME FollowInv, ScalarInv, UidAssumption, SlotAssumption, FollowValue
  PROVE  FollowInv'
<1> DEFINE f == calls[1]
           u == f.uid
           c == f.changes[1]
           g == [f EXCEPT !.changes = Tail(@)]
           o == objects
           n == objects'
           y == New(o, pool, u)
           H == Heirs(o, own)
<1>1. /\ calls \in Seq(Frames) /\ calls # << >> /\ f.op = "follow" /\ Head(calls) = f
      /\ f.op \in CommitOps
  BY Innermost DEF FollowValue, ScalarInv, CommitOps
<1>2. /\ f \in CommitFrames /\ u \in Drafting /\ u \in Committing
      /\ Apart(calls)
  BY <1>1, CommittingNow DEF Commits
<1>3. f.changes # << >> /\ c.prop = "val"
  BY <1>1 DEF FollowValue
<1>4. c \in Changes /\ c.new \in Values
  <2>1. c \in Changes
    BY <1>1, <1>2, <1>3, FollowFrame
  <2> QED BY <1>3, <2>1 DEF Changes
<1>5. calls' = Push(g, Rest(calls))
  <2>1. Become(g)
    BY <1>1 DEF FollowValue
  <2> QED BY <1>1, <2>1, Steps
<1>6. g.op = "follow" /\ g.uid = u /\ g.changes = Tail(f.changes)
  <2>1. f \in [op : {"follow"}, uid : Uids, changes : Seq(Changes)]
    BY <1>1, <1>2 DEF CommitFrames
  <2> QED BY <2>1
<1>7. writers' = writers /\ own' = own
  BY DEF FollowValue, clientVars
<1>8. SlotOf(Draft(u)) = Dr(o, u).wslot /\ Dr(o, u).wslot \in Slots /\ Value(Draft(u)).val = y
  BY <1>2, HasDraft DEF New
<1> DEFINE e == [prop |-> "val", old |-> y, new |-> c.new]
<1>9. IF Follows(y, c.old)
      THEN pool' = [pool EXCEPT ![Dr(o, u).wslot].val = c.new] /\ Changed(Draft(u), e)
      ELSE pool' = pool /\ n = o
  BY <1>1, <1>8 DEF FollowValue
<1> HIDE DEF g
<1>10. u \in H => y = c.old /\ Led(Remaining(g), c.new, Goal(o, pool, Committing, Cu(o, u).from))
  BY <1>1, <1>3, <1>6, FitsOn DEF Remaining
<1>11. CASE ~ Follows(y, c.old)
  <2> DEFINE h == [op |-> "destroy"]
  <2>1. h.op \notin CommitOps
    BY DEF CommitOps
  <2> HIDE DEF h
  <2>2. g.uid \notin Heirs(objects, own)
    BY <1>6, <1>10, <1>11 DEF Follows
  <2>3. pool' = pool /\ objects' = objects
    BY <1>9, <1>11
  <2>4. /\ calls # << >> /\ calls[1].op \in {"follow", "follow_set"} /\ g.op \in {"follow", "follow_set"}
        /\ g.uid = calls[1].uid
    BY <1>1, <1>6
  <2> QED BY <1>5, <1>7, <2>1, <2>2, <2>3, <2>4, GoesOnFollows
<1>12. CASE Follows(y, c.old)
  <2>1. /\ UidsAt(calls', CommitOps) = Committing
        /\ \A p, i : Telling(calls', p, i) <=> Telling(calls, p, i)
        /\ \A p, i : Telling(calls, p, i) <=> Telling(Rest(calls), p, i)
        /\ \A b, a, d, ow : Following(b, a, calls', d, ow) <=>
              Fits(g, b, a, d, ow) /\ Following(b, a, Rest(calls), d, ow)
    BY <1>1, <1>5, <1>6, FollowerQuiet DEF Committing
  <2>2. \A r \in Slots : pool'[r].val = IF r = Dr(o, u).wslot THEN c.new ELSE pool[r].val
    BY <1>8, <1>9, <1>12 DEF ScalarInv, Types, TypedValues
  <2>3. /\ Heirs(n, own') = H
        /\ \A v \in In(o) : Cu(n, v) = Cu(o, v)
        /\ \A v \in In(o) : Val(n, pool', v) = Val(o, pool, v)
        /\ \A v \in Drafting \ {u} : New(n, pool', v) = New(o, pool, v)
        /\ New(n, pool', u) = c.new
        /\ Committing' = Committing
        /\ Recorded(n, pool', Drafting')
    <3>1. /\ Changed(Draft(u), e) /\ e.prop = "val" /\ e.old = New(objects, pool, u)
          /\ e.new = c.new
      BY <1>9, <1>12
    <3>3. e \in Changes
      <4>1. y \in Values
        BY <1>2, <1>8, HasDraft
      <4> QED BY <1>4, <4>1 DEF Changes
    <3> HIDE DEF c, u, e
    <3>2. /\ \A ow : Heirs(n, ow) = Heirs(o, ow)
          /\ \A v \in In(o) : Cu(n, v) = Cu(o, v)
          /\ \A v \in In(o) : Val(n, pool', v) = Val(o, pool, v)
          /\ \A v \in Drafting \ {u} : New(n, pool', v) = New(o, pool, v)
          /\ New(n, pool', u) = c.new
          /\ Committing' = Committing
          /\ Recorded(n, pool', Drafting')
      BY <1>2, <1>4, <1>7, <2>1, <2>2, <3>1, <3>3, LoggedValues
    <3> QED BY <1>7, <3>2
  <2> HIDE DEF c, n
  <2>4. ASSUME NEW i \in H
        PROVE  /\ i \in In(o) /\ Cu(o, i).from \in In(o) /\ Cu(o, i).from # i
               /\ Cu(n, i).from = Cu(o, i).from
    BY <2>3, Prefab DEF Heirs
  <2>5. Committing \subseteq Drafting
    BY DEF Drafting
  <2>6. ASSUME NEW i \in H, Cu(o, i).from # u
        PROVE  Goal(n, pool', Committing, Cu(o, i).from) = Goal(o, pool, Committing, Cu(o, i).from)
    BY <2>3, <2>4, <2>5, <2>6 DEF Goal
  <2>7. ASSUME NEW i \in H PROVE Shows(i, Cu(n, i).from, n, pool', calls', Committing)
    <3> DEFINE p == Cu(o, i).from
    <3>1. Shows(i, p, o, pool, calls, Committing)
      BY DEF FollowInv, Shown
    <3>2. Told(calls', Committing, p, i) <=> Told(calls, Committing, p, i)
      BY <2>1 DEF Told
    <3>3. Told(calls, Committing, p, i) => p # u /\ p \in Drafting
      <4> SUFFICES ASSUME Telling(calls, p, i) PROVE p # u /\ p \in Drafting
        BY DEF Told
      <4>1. p \in UidsAt(Rest(calls), CommitOps) /\ p \in Committing
        BY <2>1, TellsUid DEF Committing
      <4>2. u \notin UidsAt(Rest(calls), CommitOps)
        BY <1>1, <1>2, TopApart
      <4> QED BY <2>5, <4>1, <4>2
    <3>4. /\ Val(n, pool', i) = Val(o, pool, i) /\ Val(n, pool', p) = Val(o, pool, p)
          /\ Told(calls, Committing, p, i) => New(n, pool', p) = New(o, pool, p)
      BY <2>3, <2>4, <3>3
    <3>5. Cu(n, i).from = p
      BY <2>4
    <3> HIDE DEF p
    <3> QED BY <3>1, <3>2, <3>4, <3>5 DEF Shows
  <2>8. ASSUME NEW i \in H, i \in writers
        PROVE  New(n, pool', i) = Goal(n, pool', Committing, Cu(n, i).from)
    <3>1. i # u /\ i \in Drafting
      BY <1>2, <2>8 DEF ScalarInv, Drafting
    <3>2. Cu(o, i).from # u
      BY <1>1, <2>4, <2>8, TopAlone
    <3>3. New(o, pool, i) = Goal(o, pool, Committing, Cu(o, i).from)
      BY <2>8 DEF FollowInv, Drawn
    <3> QED BY <2>3, <2>4, <2>6, <3>1, <3>2, <3>3
  <2>9. Fits(g, n, pool', Committing, own')
    <3> SUFFICES ASSUME u \in H
                 PROVE  Led(Remaining(g), New(n, pool', u), Goal(n, pool', Committing, Cu(n, u).from))
      BY <1>6, <2>3 DEF Fits
    <3>1. Cu(o, u).from # u /\ Cu(n, u).from = Cu(o, u).from
      BY <2>4
    <3> QED BY <1>10, <2>3, <2>6, <3>1
  <2>10. Following(n, pool', Rest(calls), Committing, own')
    <3>1. Following(o, pool, Rest(calls), Committing, own)
      BY <1>1, TopFits DEF FollowInv
    <3>2. ASSUME NEW v \in H \intersect UidsAt(Rest(calls), CommitOps)
          PROVE  /\ Cu(n, v).from = Cu(o, v).from /\ New(n, pool', v) = New(o, pool, v)
                 /\ Goal(n, pool', Committing, Cu(o, v).from) = Goal(o, pool, Committing, Cu(o, v).from)
      <4>1. v # u
        BY <1>1, <1>2, TopApart
      <4>2. v \in Committing
        <5>1. UidsAt(calls, CommitOps) = {u} \union UidsAt(Rest(calls), CommitOps)
          BY <1>1, UidsOfTail
        <5> QED BY <5>1 DEF Committing
      <4>3. Cu(o, v).from # u
        BY <1>1, <2>4, <4>2, TopAlone
      <4> QED BY <2>3, <2>4, <2>5, <2>6, <4>1, <4>2, <4>3
    <3>3. Heirs(n, own') \subseteq H
      BY <2>3
    <3> HIDE DEF o, H
    <3> QED BY <2>3, <3>1, <3>2, <3>3, FollowingSame DEF H
  <2>11. Following(n, pool', calls', Committing, own')
    BY <2>1, <2>9, <2>10
  <2> QED BY <1>7, <2>3, <2>7, <2>8, <2>11 DEF FollowInv, Shown, Drawn, n
<1> QED BY <1>11, <1>12

(* A commit that has nothing for an heir to follow.                         *)
LEMMA CommitStarts ==
  ASSUME FollowInv, ScalarInv, UidAssumption, SlotAssumption, NEW u \in Drafting,
         NEW i \in In(objects), Cu(objects, i).from = u
  PROVE  /\ Commit(u).op = "commit" /\ Commit(u).uid = u
         /\ Commit(u).todo \subseteq Cu(objects, u).instances
         /\ i \notin Commit(u).todo => New(objects, pool, u) = Val(objects, pool, u)
<1> DEFINE w == Dr(objects, u)
<1>1. /\ Commit(u).op = "commit" /\ Commit(u).uid = u
      /\ Commit(u).todo = IF w.changed = << >> THEN {} ELSE w.instances
  BY DEF Commit, Dr
<1>2. u \in Uids /\ w.instances = Cu(objects, u).instances
  BY HasDraft
<1>3. i \in Cu(objects, u).instances
  BY <1>2, UidAssumption DEF ScalarInv, Listed
<1>4. Led(w.changed, Val(objects, pool, u), New(objects, pool, u))
  BY DEF FollowInv, Recorded
<1>5. w.changed = << >> => New(objects, pool, u) = Val(objects, pool, u)
  BY <1>4, LedNone
<1> QED BY <1>1, <1>2, <1>3, <1>5

(* All changes have been followed: what the instance has is what it is to have. *)
LEMMA FollowEndFollows ==
  ASSUME FollowInv, ScalarInv, UidAssumption, SlotAssumption, FollowEnd
  PROVE  FollowInv'
<1> DEFINE f == calls[1]
           u == f.uid
           g == Commit(u)
           o == objects
           H == Heirs(o, own)
<1>1. /\ calls \in Seq(Frames) /\ calls # << >> /\ f.op = "follow" /\ Head(calls) = f
      /\ f.op \in CommitOps
  BY Innermost DEF FollowEnd, ScalarInv, CommitOps
<1>2. f \in CommitFrames /\ u \in Drafting /\ f.changes = << >>
  BY <1>1, CommittingNow DEF FollowEnd
<1>3. g.op = "commit" /\ g.uid = u /\ g.op \in CommitOps
  BY DEF Commit, CommitOps
<1>4. calls' = Push(g, Rest(calls))
  <2>1. Become(g)
    BY <1>1 DEF FollowEnd
  <2> QED BY <1>1, <2>1, Steps
<1> HIDE DEF g
<1>5. /\ objects' = objects /\ pool' = pool /\ writers' = writers /\ own' = own
  BY DEF FollowEnd, clientVars
<1>6. calls' \in Seq(Frames \union {g}) /\ calls' # << >> /\ calls'[1] = g /\ Rest(calls') = Rest(calls)
  <2>1. calls \in Seq(Frames \union {g})
    BY <1>1
  <2> QED BY <1>1, <1>4, <2>1, Replaced
<1>7. UidsAt(calls', CommitOps) = UidsAt(calls, CommitOps)
  <2>1. UidsAt(calls, CommitOps) = {u} \union UidsAt(Rest(calls), CommitOps)
    BY <1>1, UidsOfTail
  <2>2. UidsAt(calls', CommitOps) = {u} \union UidsAt(Rest(calls), CommitOps)
    BY <1>3, <1>6, UidsOfTail
  <2> QED BY <2>1, <2>2
<1>8. Committing' = Committing /\ Drafting' = Drafting
  BY <1>5, <1>7 DEF Committing, Drafting
<1>9. ASSUME NEW p, NEW i
      PROVE  Telling(calls', p, i) <=> Telling(calls, p, i) \/ (p = u /\ i \notin g.todo)
  <2>1. Telling(calls', p, i) <=> TellsOf(g, p, i) \/ Telling(Rest(calls), p, i)
    BY <1>6, TopTells
  <2>2. Telling(calls, p, i) <=> TellsOf(f, p, i) \/ Telling(Rest(calls), p, i)
    BY <1>1, TopTells
  <2>3. ~ TellsOf(f, p, i) /\ (TellsOf(g, p, i) <=> p = u /\ i \notin g.todo)
    BY <1>1, <1>3 DEF TellsOf
  <2> QED BY <2>1, <2>2, <2>3
<1>10. ASSUME NEW i \in H PROVE Shows(i, Cu(o, i).from, o, pool, calls', Committing)
  <2> DEFINE p == Cu(o, i).from
  <2>1. Shows(i, p, o, pool, calls, Committing)
    BY DEF FollowInv, Shown
  <2>2. CASE Told(calls', Committing, p, i) <=> Told(calls, Committing, p, i)
    BY <2>1, <2>2 DEF Shows
  <2>3. CASE ~ (Told(calls', Committing, p, i) <=> Told(calls, Committing, p, i))
    <3>1. Told(calls', Committing, p, i) /\ ~ Told(calls, Committing, p, i) /\ p = u /\ i \notin g.todo
      BY <1>9, <2>3 DEF Told
    <3>2. New(o, pool, u) = Val(o, pool, u)
      BY <1>2, <3>1, CommitStarts DEF Heirs, g
    <3> HIDE DEF u
    <3> QED BY <2>1, <3>1, <3>2 DEF Shows
  <2> QED BY <2>2, <2>3
<1>11. Following(o, pool, calls', Committing, own)
  <2>1. Fits(f, o, pool, Committing, own) /\ Following(o, pool, Rest(calls), Committing, own)
    BY <1>1, TopFits DEF FollowInv
  <2>2. Fits(g, o, pool, Committing, own)
    BY <1>1, <1>2, <1>3, <2>1 DEF Fits, Remaining
  <2> QED BY <1>6, <2>1, <2>2, TopFits
<1> QED BY <1>5, <1>8, <1>10, <1>11 DEF FollowInv, Shown

(* A client commits a writer. *)
LEMMA WriteCommitFollows ==
  ASSUME FollowInv, ScalarInv, Scalar, UidAssumption, SlotAssumption, NEW u \in writers, WriteCommit(u)
  PROVE  FollowInv'
<1> DEFINE o == objects
           g == Commit(u)
           H == Heirs(o, own)
<1>1. /\ calls = << >> /\ calls' = <<g>> /\ writers' = writers \ {u}
      /\ objects' = objects /\ pool' = pool /\ own' = own
  BY DEF WriteCommit
<1>2. /\ calls' \in Seq(CommitFrames) /\ Commits(calls', o, writers', toFreeUids)
      /\ UidsAt(calls', CommitOps) = {u}
  BY CommitCalled
<1>3. Committing = {} /\ Committing' = {u} /\ Drafting' = Drafting /\ u \in Drafting
  <2>1. Committing = {}
    BY <1>1, UidsNone DEF Committing
  <2> QED BY <1>1, <1>2, <2>1 DEF Committing, Drafting
<1>4. g.op = "commit" /\ g.uid = u /\ g.op \in CommitOps
  BY DEF Commit, CommitOps
<1> HIDE DEF g
<1>5. calls' # << >> /\ calls'[1] = g /\ Rest(calls') = << >>
  <2>1. <<g>> # << >> /\ <<g>>[1] = g /\ Tail(<<g>>) = << >>
    OBVIOUS
  <2> QED BY <1>1, <2>1 DEF Rest
<1>6. ASSUME NEW p, NEW i
      PROVE  ~ Telling(calls, p, i) /\ (Telling(calls', p, i) <=> p = u /\ i \notin g.todo)
  <2>1. ~ Telling(<< >>, p, i)
    BY NothingTold, UidsNone
  <2>2. Telling(calls', p, i) <=> TellsOf(g, p, i) \/ Telling(<< >>, p, i)
    BY <1>2, <1>5, TopTells
  <2>3. TellsOf(g, p, i) <=> p = u /\ i \notin g.todo
    BY <1>4 DEF TellsOf
  <2> QED BY <1>1, <2>1, <2>2, <2>3
<1>7. ASSUME NEW i \in H
      PROVE  /\ i \in In(o) /\ Cu(o, i).from # i
             /\ Val(o, pool, i) = Val(o, pool, Cu(o, i).from)
             /\ i \in writers => New(o, pool, i) = Val(o, pool, Cu(o, i).from)
             /\ Cu(o, i).from = u /\ i \notin g.todo => New(o, pool, u) = Val(o, pool, u)
  <2>1. i \in In(o) /\ Cu(o, i).from # i
    BY Prefab DEF Heirs
  <2>2. Shows(i, Cu(o, i).from, o, pool, calls, Committing) /\ ~ Told(calls, Committing, Cu(o, i).from, i)
    BY <1>6 DEF FollowInv, Shown, Told
  <2>3. i \in writers => New(o, pool, i) = Goal(o, pool, {}, Cu(o, i).from)
    BY <1>3 DEF FollowInv, Drawn
  <2>4. Cu(o, i).from = u /\ i \notin g.todo => New(o, pool, u) = Val(o, pool, u)
    BY <1>3, <2>1, CommitStarts DEF g
  <2> QED BY <2>1, <2>2, <2>3, <2>4 DEF Shows, Goal
<1>8. Shown(o, pool, calls', {u}, own)
  <2> SUFFICES ASSUME NEW i \in H PROVE Shows(i, Cu(o, i).from, o, pool, calls', {u})
    BY DEF Shown
  <2>1. Told(calls', {u}, Cu(o, i).from, i) => Cu(o, i).from = u /\ i \notin g.todo
    BY <1>6 DEF Told
  <2> QED BY <1>7, <2>1 DEF Shows
<1>9. Drawn(o, pool, {u}, writers', own)
  <2> SUFFICES ASSUME NEW i \in H, i \in writers'
               PROVE  New(o, pool, i) = Goal(o, pool, {u}, Cu(o, i).from)
    BY DEF Drawn
  <2>1. New(o, pool, i) = Val(o, pool, Cu(o, i).from)
    BY <1>1, <1>7
  <2>2. i \notin g.todo
    <3>1. PICK W \in SUBSET Uids : Reaches(W, calls', o, writers', toFreeUids)
      BY <1>2 DEF Commits
    <3>2. 1 \in DOMAIN calls'
      BY <1>2, CommitCalls
    <3>3. g.todo \subseteq W
      BY <1>4, <1>5, <3>1, <3>2 DEF Reaches
    <3> QED BY <3>1, <3>3 DEF Reaches
  <2> QED BY <1>7, <2>1, <2>2 DEF Goal
<1>10. Following(o, pool, calls', {u}, own)
  <2>1. Following(o, pool, << >>, {u}, own)
    BY NothingTold, UidsNone
  <2>2. Fits(g, o, pool, {u}, own)
    <3> SUFFICES ASSUME u \in H
                 PROVE  Led(<< >>, New(o, pool, u), Goal(o, pool, {u}, Cu(o, u).from))
      BY <1>4 DEF Fits, Remaining
    <3>1. New(o, pool, u) = Val(o, pool, Cu(o, u).from) /\ Cu(o, u).from # u
      BY <1>7
    <3>2. New(o, pool, u) \in Values
      BY <1>3, ValuesTyped
    <3> QED BY <3>1, <3>2, LedNone DEF Goal
  <2> QED BY <1>2, <1>5, <2>1, <2>2, TopFits
<1> QED BY <1>1, <1>3, <1>8, <1>9, <1>10 DEF FollowInv

---------------------------------------------------------------------------
(* Writers that begin, and new objects.                                    *)

(* A writer begins with the values of its object. *)
LEMMA BegunValues ==
  ASSUME FollowInv, ScalarInv, UidAssumption, SlotAssumption,
         NEW u \in In(objects) \ (Drafting \union toFreeUids), BeginWrite(u), Drafting' = Drafting \union {u}
  PROVE  /\ \A ow : Heirs(objects', ow) = Heirs(objects, ow)
         /\ \A v \in In(objects) : Cu(objects', v) = Cu(objects, v)
         /\ \A v \in In(objects) : Val(objects', pool', v) = Val(objects, pool, v)
         /\ \A v \in Drafting : New(objects', pool', v) = New(objects, pool, v)
         /\ New(objects', pool', u) = Val(objects, pool, u)
         /\ Recorded(objects', pool', Drafting')
<1> DEFINE o == objects
           n == objects'
<1>1. PICK s \in Slots :
         /\ TakeSlot(s) /\ WriterOf(u, s, o, n)
         /\ pool'[s] = pool[Cu(o, u).slot] /\ \A r \in Slots \ {s} : pool'[r] = pool[r]
  BY Begun
<1>2. (\A v \in Uids : Cu(n, v) = Cu(o, v)) /\ \A v \in Uids \ {u} : Dr(n, v) = Dr(o, v)
  BY <1>1 DEF WriterOf
<1>3. Dr(n, u).wslot = s /\ Dr(n, u).changed = << >>
  BY <1>1 DEF WriterOf
<1>4. /\ \A v \in In(o) : v \in Uids /\ Cu(o, v).slot \in Slots /\ Cu(o, v).slot # s
      /\ \A v \in Drafting : v \in Uids \ {u} /\ v \in In(o) /\ Dr(o, v).wslot \in Slots /\ Dr(o, v).wslot # s
      /\ u \in Uids
  <2>1. \A v \in In(o) : Cu(o, v).slot \in Slots
    BY DEF ScalarInv, Listed
  <2>2. /\ \A v \in In(o) : Cu(o, v).slot # s
        /\ \A v \in Drafting : Dr(o, v).wslot # s
    BY <1>1, PlacesApart
  <2> QED BY <2>1, <2>2, InMemory, HasDraft
<1>5. \A ow : Heirs(n, ow) = Heirs(o, ow)
  BY <1>2, SameHeirs
<1>6. \A v \in In(o) : Val(n, pool', v) = Val(o, pool, v)
  BY <1>1, <1>2, <1>4 DEF Val
<1>7. \A v \in Drafting : New(n, pool', v) = New(o, pool, v)
  BY <1>1, <1>2, <1>4 DEF New
<1>8. New(n, pool', u) = Val(o, pool, u)
  BY <1>1, <1>3 DEF New, Val
<1>9. ASSUME NEW v \in Drafting \union {u}
      PROVE  Led(Dr(n, v).changed, Val(n, pool', v), New(n, pool', v))
  <2>1. CASE v = u
    <3>1. Val(o, pool, u) \in Values
      BY ValuesTyped
    <3>2. Led(<< >>, Val(o, pool, u), Val(o, pool, u))
      BY <3>1, LedNone
    <3> QED BY <1>3, <1>6, <1>8, <2>1, <3>2
  <2>2. CASE v # u
    <3>1. Led(Dr(o, v).changed, Val(o, pool, v), New(o, pool, v))
      BY <1>9, <2>2 DEF FollowInv, Recorded
    <3>2. Dr(n, v) = Dr(o, v) /\ v \in In(o) /\ v \in Drafting
      BY <1>2, <1>4, <1>9, <2>2
    <3> QED BY <1>6, <1>7, <3>1, <3>2
  <2> QED BY <2>1, <2>2
<1>10. \A v \in In(o) : Cu(n, v) = Cu(o, v)
  BY <1>2, <1>4
<1> QED BY <1>5, <1>6, <1>7, <1>8, <1>9, <1>10 DEF Recorded

(* A client's writer of an heir begins with the prefab's value.             *)
LEMMA WriteBeginFollows ==
  ASSUME FollowInv, ScalarInv, Scalar, UidAssumption, SlotAssumption, NEW u \in Roots, WriteBegin(u)
  PROVE  FollowInv'
<1> DEFINE o == objects
           n == objects'
           H == Heirs(o, own)
<1>1. /\ calls = << >> /\ calls' = << >> /\ u \in In(o) /\ u \notin writers /\ u \notin toFreeUids
      /\ BeginWrite(u) /\ writers' = writers \union {u} /\ own' = own
  BY InMemory DEF WriteBegin, Scalar, Untouched
<1>2. Committing = {} /\ Committing' = {}
  BY <1>1, UidsNone DEF Committing
<1>3. Drafting = writers /\ Drafting' = Drafting \union {u}
  BY <1>1, <1>2 DEF Drafting
<1>4. /\ Heirs(n, own') = H
      /\ \A v \in In(o) : Cu(n, v) = Cu(o, v)
      /\ \A v \in In(o) : Val(n, pool', v) = Val(o, pool, v)
      /\ \A v \in Drafting : New(n, pool', v) = New(o, pool, v)
      /\ New(n, pool', u) = Val(o, pool, u)
      /\ Recorded(n, pool', Drafting')
  BY <1>1, <1>3, BegunValues
<1>5. ASSUME NEW q, NEW p, NEW i PROVE ~ Told(<< >>, q, p, i)
  BY NothingTold, UidsNone DEF Told
<1>6. ASSUME NEW i \in H
      PROVE  /\ i \in In(o) /\ Cu(o, i).from \in In(o) /\ Cu(n, i).from = Cu(o, i).from
             /\ Val(o, pool, i) = Val(o, pool, Cu(o, i).from)
             /\ i \in writers => New(o, pool, i) = Val(o, pool, Cu(o, i).from)
  <2>1. i \in In(o) /\ Cu(o, i).from \in In(o)
    BY Prefab DEF Heirs
  <2>2. Shows(i, Cu(o, i).from, o, pool, << >>, Committing)
    BY <1>1 DEF FollowInv, Shown
  <2>3. i \in writers => New(o, pool, i) = Goal(o, pool, {}, Cu(o, i).from)
    BY <1>2 DEF FollowInv, Drawn
  <2> QED BY <1>4, <1>5, <2>1, <2>2, <2>3 DEF Shows, Goal
<1> HIDE DEF n, o, H
<1>7. Shown(n, pool', << >>, {}, own')
  BY <1>4, <1>5, <1>6 DEF Shown, Shows
<1>8. ASSUME NEW i \in H, i \in writers \union {u}
      PROVE  New(n, pool', i) = Val(n, pool', Cu(n, i).from)
  BY <1>3, <1>4, <1>6, <1>8
<1>9. Drawn(n, pool', {}, writers', own')
  BY <1>1, <1>4, <1>8 DEF Drawn, Goal
<1>10. Following(n, pool', << >>, {}, own')
  BY NothingTold, UidsNone
<1> QED BY <1>1, <1>2, <1>4, <1>7, <1>9, <1>10 DEF FollowInv, n

(* An instance begins to follow, from the prefab's old value to its new one.*)
LEMMA DispatchBeginFollows ==
  ASSUME FollowInv, ScalarInv, UidAssumption, SlotAssumption, DispatchBegin
  PROVE  FollowInv'
<1> DEFINE f == calls[1]
           u == f.uid
           c == objects[Draft(u)].changed
           o == objects
           n == objects'
           H == Heirs(o, own)
           r == Rest(calls)
<1>1. /\ calls \in Seq(Frames) /\ calls # << >> /\ f.op = "commit" /\ Head(calls) = f
      /\ f.op \in CommitOps
  BY Innermost DEF DispatchBegin, ScalarInv, CommitOps
<1>2. /\ f \in CommitFrames /\ u \in Uids /\ u \in In(o) /\ u \in Committing /\ u \in Drafting
      /\ calls \in Seq(CommitFrames) /\ Commits(calls, o, writers, toFreeUids)
      /\ Writing(calls, 1, o)
  BY <1>1, CommittingNow
<1>3. PICK i \in f.todo : /\ BeginWrite(i)
                          /\ Call([f EXCEPT !.todo = @ \ {i}], [op |-> "follow", uid |-> i, changes |-> c])
  BY <1>1 DEF DispatchBegin
<1> DEFINE g == [f EXCEPT !.todo = @ \ {i}]
           h == [op |-> "follow", uid |-> i, changes |-> c]
<1>4. calls' = Push(h, Push(g, r))
  BY <1>1, <1>3, Steps
<1>5. /\ g.op = "commit" /\ g.uid = u /\ g.todo = f.todo \ {i}
      /\ h.op = "follow" /\ h.uid = i /\ h.changes = Dr(o, u).changed
  <2>1. f \in [op : {"commit"}, uid : Uids, todo : SUBSET Uids]
    BY <1>1, <1>2 DEF CommitFrames
  <2> QED BY <2>1 DEF Dr
<1> HIDE DEF g, h
<1>6. /\ g.op \in CommitOps /\ h.op \in CommitOps
      /\ f.op # "follow" /\ h.op # "commit"
  BY <1>1, <1>5 DEF CommitOps
<1>7. /\ i \in Cu(o, u).instances /\ i \in In(o) /\ Cu(o, i).from = u /\ i # u
      /\ i \notin Committing /\ i \notin writers \union toFreeUids
  <2>1. i \in Cu(o, u).instances
    BY <1>1, <1>2 DEF Writing
  <2>2. i \in In(o) /\ Cu(o, i).from = u
    BY <1>2, <2>1 DEF ScalarInv, Listed
  <2>3. i \notin Committing
    BY <1>1, <2>2, TopAlone
  <2>4. PICK W \in SUBSET Uids : Reaches(W, calls, o, writers, toFreeUids)
    BY <1>2 DEF Commits
  <2>5. 1 \in DOMAIN calls
    BY <1>2, CommitCalls
  <2>6. i \in W
    BY <1>1, <2>4, <2>5 DEF Reaches
  <2> QED BY <1>2, <2>1, <2>2, <2>3, <2>4, <2>6 DEF Reaches
<1>8. /\ writers' = writers /\ own' = own
  BY DEF DispatchBegin, clientVars
<1> DEFINE m == Push(g, r)
<1>9. /\ m \in Seq(Frames \union {g}) /\ m # << >> /\ m[1] = g /\ Rest(m) = r
      /\ UidsAt(m, CommitOps) = {u} \union UidsAt(r, CommitOps)
      /\ UidsAt(calls, CommitOps) = {u} \union UidsAt(r, CommitOps)
  <2>1. calls \in Seq(Frames \union {g})
    BY <1>1
  <2>2. m \in Seq(Frames \union {g}) /\ m # << >> /\ m[1] = g /\ Rest(m) = r
    <3> HIDE DEF r
    <3> QED BY <1>1, <2>1, Replaced DEF r
  <2> HIDE DEF m, r
  <2>3. UidsAt(m, CommitOps) = {u} \union UidsAt(r, CommitOps)
    BY <1>5, <1>6, <2>2, UidsOfTail
  <2> QED BY <1>1, <2>2, <2>3, UidsOfTail DEF r
<1> HIDE DEF m
<1>10. /\ calls' \in Seq(Frames \union {g, h}) /\ calls' # << >> /\ calls'[1] = h /\ Rest(calls') = m
       /\ UidsAt(calls', CommitOps) = Committing \union {i}
  <2>1. m \in Seq(Frames \union {g, h})
    BY <1>9
  <2>2. calls' \in Seq(Frames \union {g, h}) /\ calls' # << >> /\ calls'[1] = h /\ Rest(calls') = m
    BY <1>4, <2>1, OnTop DEF m
  <2>3. UidsAt(calls', CommitOps) = {i} \union UidsAt(m, CommitOps)
    BY <1>5, <1>6, <2>2, UidsOfTail
  <2> QED BY <1>9, <2>2, <2>3 DEF Committing
<1>11. Committing' = Committing \union {i} /\ Drafting' = Drafting \union {i} /\ Committing \subseteq Drafting
  BY <1>8, <1>10 DEF Committing, Drafting
<1>12. i \in In(o) \ (Drafting \union toFreeUids)
  BY <1>7 DEF Drafting
<1>13. /\ Heirs(n, own') = H
       /\ \A v \in In(o) : Cu(n, v) = Cu(o, v)
       /\ \A v \in In(o) : Val(n, pool', v) = Val(o, pool, v)
       /\ \A v \in Drafting : New(n, pool', v) = New(o, pool, v)
       /\ New(n, pool', i) = Val(o, pool, i)
       /\ Recorded(n, pool', Drafting')
  <2>1. /\ \A ow : Heirs(n, ow) = Heirs(o, ow)
        /\ \A v \in In(o) : Cu(n, v) = Cu(o, v)
        /\ \A v \in In(o) : Val(n, pool', v) = Val(o, pool, v)
        /\ \A v \in Drafting : New(n, pool', v) = New(o, pool, v)
        /\ New(n, pool', i) = Val(o, pool, i)
        /\ Recorded(n, pool', Drafting')
    BY <1>3, <1>11, <1>12, BegunValues
  <2> QED BY <1>8, <2>1
<1> HIDE DEF n
<1>14. ASSUME NEW p \in In(o)
       PROVE  Goal(n, pool', Committing', p) = Goal(o, pool, Committing, p)
  BY <1>7, <1>11, <1>13 DEF Goal
<1>15. ASSUME NEW j \in H
       PROVE  j \in In(o) /\ Cu(o, j).from \in In(o) /\ Cu(n, j).from = Cu(o, j).from
  BY <1>13, Prefab DEF Heirs
<1>16. u \notin UidsAt(r, CommitOps)
  BY <1>1, <1>2, TopApart DEF Commits
<1>17. ASSUME NEW j
       PROVE  Told(calls', Committing', Cu(o, j).from, j) <=> Told(calls, Committing, Cu(o, j).from, j)
  <2> DEFINE p == Cu(o, j).from
  <2>1. Telling(calls', p, j) <=> TellsOf(g, p, j) \/ Telling(r, p, j)
    <3>1. Telling(calls', p, j) <=> TellsOf(h, p, j) \/ Telling(m, p, j)
      BY <1>10, TopTells
    <3>2. Telling(m, p, j) <=> TellsOf(g, p, j) \/ Telling(r, p, j)
      BY <1>9, TopTells
    <3> QED BY <1>6, <3>1, <3>2 DEF TellsOf
  <2>2. Telling(calls, p, j) <=> TellsOf(f, p, j) \/ Telling(r, p, j)
    BY <1>1, TopTells
  <2>3. CASE j # i
    <3>1. TellsOf(g, p, j) <=> TellsOf(f, p, j)
      BY <1>1, <1>5, <2>3 DEF TellsOf
    <3> QED BY <1>11, <2>1, <2>2, <2>3, <3>1 DEF Told
  <2>4. CASE j = i
    <3>1. ~ TellsOf(f, p, j)
      BY <2>4 DEF TellsOf
    <3>2. ~ Telling(r, p, j)
      BY <1>7, <1>16, <2>4, TellsUid
    <3> QED BY <1>11, <2>2, <2>4, <3>1, <3>2 DEF Told
  <2> QED BY <2>3, <2>4
<1>18. ASSUME NEW j \in H PROVE Shows(j, Cu(n, j).from, n, pool', calls', Committing')
  <2> DEFINE p == Cu(o, j).from
  <2>1. Shows(j, p, o, pool, calls, Committing)
    BY DEF FollowInv, Shown
  <2>2. Told(calls', Committing', p, j) <=> Told(calls, Committing, p, j)
    BY <1>17
  <2>3. Told(calls, Committing, p, j) => p \in Drafting
    BY <1>11, TellsUid DEF Told, Committing
  <2>4. /\ Val(n, pool', j) = Val(o, pool, j) /\ Val(n, pool', p) = Val(o, pool, p)
        /\ p \in Drafting => New(n, pool', p) = New(o, pool, p)
    BY <1>13, <1>15
  <2>5. Cu(n, j).from = p
    BY <1>15
  <2> HIDE DEF p, o
  <2> QED BY <2>1, <2>2, <2>3, <2>4, <2>5 DEF Shows
<1>19. ASSUME NEW j \in H, j \in writers
       PROVE  New(n, pool', j) = Goal(n, pool', Committing', Cu(n, j).from)
  <2>1. New(o, pool, j) = Goal(o, pool, Committing, Cu(o, j).from)
    BY <1>19 DEF FollowInv, Drawn
  <2> QED BY <1>13, <1>14, <1>15, <1>19, <2>1 DEF Drafting
<1>20. Fits(h, n, pool', Committing', own')
  <2> SUFFICES ASSUME i \in H
               PROVE  Led(Dr(o, u).changed, New(n, pool', i), Goal(n, pool', Committing', Cu(n, i).from))
    BY <1>5, <1>13 DEF Fits, Remaining
  <2>1. Shows(i, u, o, pool, calls, Committing)
    BY <1>7 DEF FollowInv, Shown
  <2>2. ~ Told(calls', Committing', u, i)
    BY <1>11 DEF Told
  <2>3. Val(o, pool, i) = Val(o, pool, u)
    BY <1>7, <1>17, <2>1, <2>2 DEF Shows
  <2>4. Led(Dr(o, u).changed, Val(o, pool, u), New(o, pool, u))
    BY <1>2 DEF FollowInv, Recorded
  <2>5. Goal(n, pool', Committing', Cu(n, i).from) = New(o, pool, u)
    BY <1>2, <1>7, <1>14, <1>15 DEF Goal
  <2> QED BY <1>13, <2>3, <2>4, <2>5
<1>21. Following(n, pool', m, Committing', own')
  <2>1. Following(o, pool, m, Committing, own)
    <3>1. Fits(f, o, pool, Committing, own) /\ Following(o, pool, r, Committing, own)
      BY <1>1, TopFits DEF FollowInv
    <3>2. Fits(g, o, pool, Committing, own)
      BY <1>1, <1>5, <3>1 DEF Fits, Remaining
    <3> QED BY <1>9, <3>1, <3>2, TopFits
  <2>2. ASSUME NEW v \in H \intersect UidsAt(m, CommitOps)
        PROVE  /\ Cu(n, v).from = Cu(o, v).from /\ New(n, pool', v) = New(o, pool, v)
               /\ Goal(n, pool', Committing', Cu(o, v).from) = Goal(o, pool, Committing, Cu(o, v).from)
    <3>1. v \in Drafting
      BY <1>9, <1>11 DEF Committing
    <3> QED BY <1>13, <1>14, <1>15, <3>1
  <2>3. Heirs(n, own') \subseteq H
    BY <1>13
  <2> HIDE DEF o, H
  <2> QED BY <2>1, <2>2, <2>3, FollowingSame DEF H
<1>22. Following(n, pool', calls', Committing', own')
  BY <1>10, <1>20, <1>21, TopFits
<1> QED BY <1>8, <1>13, <1>18, <1>19, <1>22 DEF FollowInv, Shown, Drawn, n

(* A new object has the value of its prefab, if it has one.                 *)
LEMMA NewFollows ==
  ASSUME FollowInv, ScalarInv, UidAssumption, SlotAssumption,
         NEW u \in Uids \ In(objects), NEW p \in In(objects) \union {0}, NEW s \in Slots, TakeSlot(s),
         Made(u, p, s, objects, objects'), \A r \in Slots \ {s} : pool'[r] = pool[r],
         p # 0 => pool'[s].val = Val(objects, pool, p),
         writers' = writers, own' = own,
         UidsAt(calls, CommitOps) = {}, UidsAt(calls', CommitOps) = {}
  PROVE  FollowInv'
<1> DEFINE o == objects
           n == objects'
           H == Heirs(o, own)
<1>1. Committing = {} /\ Committing' = {} /\ Drafting = writers /\ Drafting' = writers
  BY DEF Committing, Drafting
<1>2. \A v \in Uids : Cu(o, v) \in Records
  BY Fields DEF ScalarInv
<1>3. /\ Cu(n, u).slot = s /\ Cu(n, u).from = p
      /\ \A v \in Uids \ {u} : Cu(n, v).slot = Cu(o, v).slot /\ Cu(n, v).from = Cu(o, v).from
      /\ \A v \in Uids \ {u} : v # p => Cu(n, v) = Cu(o, v)
      /\ \A v \in Uids : Dr(n, v) = Dr(o, v)
  <2>1. Cu(n, u).slot = s /\ Cu(n, u).from = p /\ \A v \in Uids : Dr(n, v) = Dr(o, v)
    BY DEF Made, IsNew
  <2>2. \A v \in Uids \ {u} : Cu(n, v) = IF v = p THEN [Cu(o, v) EXCEPT !.instances = @ \union {u}]
                                         ELSE Cu(o, v)
    BY DEF Made
  <2> HIDE DEF n, o
  <2>3. \A v \in Uids \ {u} : Cu(n, v).slot = Cu(o, v).slot /\ Cu(n, v).from = Cu(o, v).from
    BY <1>2, <2>2 DEF Records
  <2> QED BY <2>1, <2>2, <2>3
<1>4. /\ \A v \in In(o) : v \in Uids \ {u} /\ v # 0 /\ Cu(o, v).slot \in Slots /\ Cu(o, v).slot # s
      /\ \A v \in writers : v \in In(o) /\ Dr(o, v).wslot \in Slots /\ Dr(o, v).wslot # s
  <2>1. \A v \in In(o) : Cu(o, v).slot \in Slots
    BY DEF ScalarInv, Listed
  <2>2. /\ \A v \in In(o) : Cu(o, v).slot # s
        /\ \A v \in Drafting : Dr(o, v).wslot # s
    BY PlacesApart
  <2>3. 0 \notin In(o)
    BY InMemory
  <2> QED BY <1>1, <2>1, <2>2, <2>3, InMemory, HasDraft
<1>5. \A v \in In(o) : Val(n, pool', v) = Val(o, pool, v)
  BY <1>3, <1>4 DEF Val
<1>6. \A v \in writers : New(n, pool', v) = New(o, pool, v)
  BY <1>3, <1>4 DEF New
<1>7. p # 0 => p \in In(o) /\ Val(n, pool', u) = Val(n, pool', p)
  BY <1>3, <1>5 DEF Val
<1>8. ASSUME NEW i \in Heirs(n, own'), i # u
      PROVE  i \in H /\ Cu(n, i).from = Cu(o, i).from /\ i \in In(o) /\ Cu(o, i).from \in In(o)
  <2>1. i \in Uids /\ Cu(n, i) # NoObject /\ Cu(n, i).from # 0 /\ <<i, "val">> \notin own
    BY <1>8 DEF Heirs, In
  <2>2. Cu(n, i).from = Cu(o, i).from
    BY <1>3, <1>8, <2>1
  <2>3. i \in In(o)
    BY <1>3, <1>8, <2>1 DEF In
  <2>4. i \in H
    BY <2>1, <2>2, <2>3 DEF Heirs
  <2> QED BY <2>2, <2>3, <2>4, Prefab DEF Heirs
<1>9. ASSUME NEW q, UidsAt(q, CommitOps) = {}, NEW c, NEW x, NEW i PROVE ~ Told(q, c, x, i)
  BY <1>9, NothingTold DEF Told
<1>10. ASSUME NEW i \in H
       PROVE  /\ Val(o, pool, i) = Val(o, pool, Cu(o, i).from)
              /\ i \in writers => New(o, pool, i) = Val(o, pool, Cu(o, i).from)
  <2>1. Shows(i, Cu(o, i).from, o, pool, calls, Committing)
    BY DEF FollowInv, Shown
  <2>2. i \in writers => New(o, pool, i) = Goal(o, pool, {}, Cu(o, i).from)
    BY <1>1 DEF FollowInv, Drawn
  <2> QED BY <1>9, <2>1, <2>2 DEF Shows, Goal
<1> HIDE DEF H
<1>11. ASSUME NEW i \in Heirs(n, own')
       PROVE  /\ Val(n, pool', i) = Val(n, pool', Cu(n, i).from)
              /\ i \in writers => New(n, pool', i) = Val(n, pool', Cu(n, i).from)
  <2>1. CASE i = u
    <3>1. Cu(n, i).from = p /\ p # 0
      BY <1>3, <2>1 DEF Heirs
    <3>2. i \notin writers
      BY <1>4, <2>1
    <3> QED BY <1>7, <2>1, <3>1, <3>2
  <2>2. CASE i # u
    BY <1>5, <1>6, <1>8, <1>10, <2>2
  <2> QED BY <2>1, <2>2
<1>12. Recorded(n, pool', writers)
  <2>1. \A v \in writers : Led(Dr(o, v).changed, Val(o, pool, v), New(o, pool, v))
    BY <1>1 DEF FollowInv, Recorded
  <2> QED BY <1>3, <1>4, <1>5, <1>6, <2>1 DEF Recorded
<1>13. Following(n, pool', calls', {}, own')
  BY NothingTold
<1>14. Shown(n, pool', calls', {}, own')
  BY <1>9, <1>11 DEF Shown, Shows
<1>15. Drawn(n, pool', {}, writers', own')
  BY <1>11 DEF Drawn, Goal
<1> QED BY <1>1, <1>12, <1>13, <1>14, <1>15 DEF FollowInv

(* create_from copies the values of the prefab. *)
LEMMA CopyPrefabFollows ==
  ASSUME FollowInv, ScalarInv, UidAssumption, SlotAssumption, CopyPrefab
  PROVE  FollowInv'
<1> DEFINE f == calls[1]
           u == f.uid
           p == f.from
           g == [op |-> "copy_sub", uid |-> u]
<1>1. /\ calls \in Seq(Frames) /\ Len(calls) = 1 /\ f.op = "create_from" /\ f \in CreateFrames
      /\ u \in Uids \ In(objects) /\ p \in In(objects)
      /\ calls' = Push(g, Rest(calls))
  BY Copied DEF ScalarInv, Types
<1>2. PICK s \in Slots : /\ TakeSlot(s) /\ Made(u, p, s, objects, objects')
                         /\ pool'[s].val = Val(objects, pool, p)
                         /\ \A r \in Slots \ {s} : pool'[r] = pool[r]
  BY Copied
<1>3. writers' = writers /\ own' = own
  BY DEF CopyPrefab, clientVars
<1>4. f.op \notin CommitOps /\ g.op \notin CommitOps
  BY <1>1 DEF CommitOps
<1>5. UidsAt(calls, CommitOps) = {}
  BY <1>1, <1>4, Alone
<1> HIDE DEF g
<1>6. UidsAt(calls', CommitOps) = {}
  BY <1>1, <1>4, <1>5, OneCall, StaysQuiet
<1> HIDE DEF u, p
<1> QED BY <1>1, <1>2, <1>3, <1>5, <1>6, NewFollows

(* create_object makes an object without a prefab. *)
LEMMA CreateObjectFollows ==
  ASSUME FollowInv, ScalarInv, UidAssumption, SlotAssumption, NEW u \in Roots, CreateObject(u)
  PROVE  FollowInv'
<1>1. u \in Uids \ In(objects)
  BY Created
<1>2. PICK s \in Slots : /\ TakeSlot(s) /\ Made(u, 0, s, objects, objects')
                         /\ \A r \in Slots \ {s} : pool'[r] = pool[r]
  BY Created
<1>3. calls = << >> /\ calls' = calls /\ writers' = writers /\ own' = own
  BY DEF CreateObject, clientVars
<1>4. UidsAt(calls, CommitOps) = {} /\ UidsAt(calls', CommitOps) = {}
  BY <1>3, UidsNone
<1> QED BY <1>1, <1>2, <1>3, <1>4, NewFollows

---------------------------------------------------------------------------
(* The end of a commit, the collection, and the specification.             *)

(* A commit that waits for one of an instance has told the instance. *)
LEMMA EncloserTells ==
  ASSUME ScalarInv, UidAssumption, SlotAssumption, calls # << >>, calls[1].op \in CommitOps,
         Cu(objects, calls[1].uid).from \in Committing
  PROVE  Telling(Rest(calls), Cu(objects, calls[1].uid).from, calls[1].uid)
<1> DEFINE u == calls[1].uid
           p == Cu(objects, u).from
           r == Rest(calls)
<1>1. /\ calls \in Seq(CommitFrames) /\ Chained(calls, objects) /\ Tells(calls, objects)
      /\ u \in In(objects)
  BY CommittingNow DEF Commits
<1>2. /\ p \in Drafting /\ p # 0
  BY <1>1, HasDraft, UidAssumption DEF Drafting
<1>3. p # u
  BY <1>1, <1>2, Prefab
<1>4. p \in UidsAt(r, CommitOps)
  BY <1>1, <1>3, UidsOfTail DEF Committing
<1>5. r # << >>
  BY <1>4, UidsNone
<1>6. /\ r \in Seq(CommitFrames) /\ Len(calls) = Len(r) + 1 /\ Len(r) \in Nat
      /\ DOMAIN calls = 1 .. Len(calls) /\ DOMAIN r = 1 .. Len(r)
      /\ \A k \in 1 .. Len(r) : r[k] = calls[k + 1]
  BY <1>1, Popped
<1> HIDE DEF r
<1>7. 1 \in DOMAIN r /\ r[1] = calls[2] /\ 1 \in DOMAIN calls /\ 2 \in DOMAIN calls
  BY <1>5, <1>6
<1>8. calls[2].uid \in In(objects) /\ u \in Cu(objects, calls[2].uid).instances /\ u \notin calls[2].todo
  <2>1. 2 = 1 + 1
    OBVIOUS
  <2> QED BY <1>1, <1>7, <2>1 DEF Chained
<1>9. calls[2].uid = p
  BY <1>8 DEF ScalarInv, Listed
<1>10. calls[2].op = "commit"
  BY <1>1, <1>7 DEF Tells
<1> QED BY <1>7, <1>8, <1>9, <1>10 DEF Telling, TellsOf, r

(* What a commit leaves is what its object's instances were to have. *)
LEMMA CommitEndFollows ==
  ASSUME FollowInv, ScalarInv, UidAssumption, SlotAssumption, CommitEnd
  PROVE  FollowInv'
<1> DEFINE u == calls[1].uid
           f == calls[1]
           r == Rest(calls)
           o == objects
           n == objects'
           H == Heirs(o, own)
           C == Committing
<1>1. /\ calls \in Seq(Frames) /\ calls # << >> /\ f.op = "commit" /\ f.todo = {}
      /\ f.op \in CommitOps /\ u \in Uids /\ u \in In(o) /\ u \in C
      /\ Replacing(u, o, n) /\ In(n) = In(o)
      /\ calls' = r /\ pool' = pool /\ writers' = writers
      /\ UidsAt(r, CommitOps) = C \ {u} /\ Committing' = C \ {u} /\ Drafting' = Drafting \ {u}
  BY Committed DEF Committing
<1>2. own' = own
  BY DEF CommitEnd, clientVars
<1>3. C \subseteq Drafting /\ Drafting \subseteq Uids /\ In(o) \subseteq Uids
  BY HasDraft DEF Drafting, In
<1> HIDE DEF u, f, r, n, o
<1>4. /\ \A v \in Uids : Cu(n, v).from = Cu(o, v).from
      /\ Val(n, pool, u) = New(o, pool, u)
      /\ \A v \in Uids \ {u} : Val(n, pool, v) = Val(o, pool, v) /\ New(n, pool, v) = New(o, pool, v)
      /\ \A v \in Uids \ {u} : Cu(n, v) = Cu(o, v) /\ Dr(n, v) = Dr(o, v)
  BY <1>1 DEF Replacing, Val, New
<1>5. Heirs(n, own') = H
  BY <1>1, <1>2, <1>3, <1>4 DEF Heirs
<1>6. ASSUME NEW i \in H
      PROVE  /\ i \in Uids /\ i \in In(o) /\ Cu(o, i).from \in Uids /\ Cu(o, i).from # i
             /\ Cu(n, i).from = Cu(o, i).from
  BY <1>3, <1>4, Prefab DEF Heirs, o
<1>7. ASSUME NEW p \in Uids PROVE Goal(n, pool, C \ {u}, p) = Goal(o, pool, C, p)
  BY <1>1, <1>4 DEF Goal
<1>8. ASSUME NEW p, NEW i, p # u PROVE Telling(calls, p, i) <=> Telling(r, p, i)
  <2>1. ~ TellsOf(f, p, i)
    BY <1>8 DEF TellsOf, f, u
  <2> QED BY <1>1, <2>1, TopTells DEF f, r
<1>9. ASSUME NEW i PROVE ~ Telling(r, u, i)
  BY <1>1, TellsUid
<1>10. Fits(f, o, pool, C, own) /\ Following(o, pool, r, C, own)
  BY <1>1, TopFits DEF FollowInv, f, r, o
<1>11. ASSUME NEW i \in H PROVE Shows(i, Cu(n, i).from, n, pool, r, C \ {u})
  <2> DEFINE p == Cu(o, i).from
  <2>1. Shows(i, p, o, pool, calls, C)
    BY DEF FollowInv, Shown, o
  <2>2. CASE i = u
    <3>1. New(o, pool, u) = Goal(o, pool, C, p)
      <4>1. Remaining(f) = << >>
        BY <1>1 DEF Remaining
      <4> QED BY <1>1, <1>10, <2>2, <4>1, LedNone DEF Fits, f, u
    <3>2. Told(r, C \ {u}, p, i) <=> p \in C
      <4>1. p \in C => Telling(r, p, u)
        BY <1>1, <2>2, EncloserTells DEF f, u, r, o
      <4>2. Telling(r, p, u) => p \in C
        BY <1>1, TellsUid
      <4> QED BY <2>2, <4>1, <4>2 DEF Told
    <3>3. p # u /\ p \in Uids /\ Cu(n, i).from = p
      BY <1>6, <2>2
    <3> HIDE DEF p
    <3> QED BY <1>4, <2>2, <3>1, <3>2, <3>3 DEF Shows, Goal
  <2>3. CASE p = u
    <3>1. i \notin C
      BY <1>1, <1>6, <2>3, TopAlone DEF f, u, o
    <3>2. TellsOf(f, p, i)
      BY <1>1, <2>3 DEF TellsOf, u, f
    <3>3. Told(calls, C, p, i)
      BY <1>1, <3>1, <3>2, TopTells DEF Told, f
    <3>4. ~ Told(r, C \ {u}, p, i)
      BY <1>9, <2>3 DEF Told
    <3>5. i # u /\ i \in Uids /\ Cu(n, i).from = p
      BY <1>6, <2>3
    <3> HIDE DEF p
    <3> QED BY <1>4, <2>1, <2>3, <3>3, <3>4, <3>5 DEF Shows
  <2>4. CASE i # u /\ p # u
    <3>1. Told(r, C \ {u}, p, i) <=> Told(calls, C, p, i)
      BY <1>8, <2>4 DEF Told
    <3>2. p \in Uids /\ i \in Uids /\ Cu(n, i).from = p
      BY <1>6
    <3> HIDE DEF p
    <3> QED BY <1>4, <2>1, <2>4, <3>1, <3>2 DEF Shows
  <2> QED BY <2>2, <2>3, <2>4
<1>12. Recorded(n, pool, Drafting \ {u})
  <2> SUFFICES ASSUME NEW v \in Drafting \ {u}
               PROVE  Led(Dr(n, v).changed, Val(n, pool, v), New(n, pool, v))
    BY DEF Recorded
  <2>1. Led(Dr(o, v).changed, Val(o, pool, v), New(o, pool, v))
    BY DEF FollowInv, Recorded, o
  <2>2. v \in Uids \ {u}
    BY <1>3
  <2> QED BY <1>4, <2>1, <2>2
<1>13. Drawn(n, pool, C \ {u}, writers, own')
  <2> SUFFICES ASSUME NEW i \in H, i \in writers
               PROVE  New(n, pool, i) = Goal(n, pool, C \ {u}, Cu(n, i).from)
    BY <1>5 DEF Drawn
  <2>1. New(o, pool, i) = Goal(o, pool, C, Cu(o, i).from)
    BY DEF FollowInv, Drawn, o
  <2>2. i # u
    BY <1>1 DEF ScalarInv
  <2> QED BY <1>4, <1>6, <1>7, <2>1, <2>2
<1>14. Following(n, pool, r, C \ {u}, own')
  <2>1. ASSUME NEW v \in H \intersect UidsAt(r, CommitOps)
        PROVE  /\ Cu(n, v).from = Cu(o, v).from /\ New(n, pool, v) = New(o, pool, v)
               /\ Goal(n, pool, C \ {u}, Cu(o, v).from) = Goal(o, pool, C, Cu(o, v).from)
    BY <1>1, <1>4, <1>6, <1>7
  <2> HIDE DEF C
  <2> QED BY <1>5, <1>10, <2>1, FollowingSame DEF H
<1> HIDE DEF C
<1> QED BY <1>1, <1>5, <1>11, <1>12, <1>13, <1>14 DEF FollowInv, Shown, n

(* What survives a collection keeps its value, and its prefab survives too. *)
LEMMA GcFollows ==
  ASSUME FollowInv, ScalarInv, UidAssumption, SlotAssumption, Gc
  PROVE  FollowInv'
<1> DEFINE o == objects
           n == objects'
           tf == toFreeUids
<1>1. /\ calls' = calls /\ writers' = writers /\ Drafting = {} /\ Drafting' = {} /\ Committing' = {}
      /\ Gone = tf /\ pool' = [s \in Slots |-> IF toFreeIdx[s] > 0 THEN Zero ELSE pool[s]]
      /\ In(n) = In(o) \ tf
      /\ \A v \in Uids \ tf : Cu(n, v).from = Cu(o, v).from /\ Cu(n, v).slot = Cu(o, v).slot
  BY AfterGc
<1>2. own' = {e \in own : e[1] \notin tf}
  BY DEF Gc
<1> HIDE DEF n
<1>3. ASSUME NEW v \in In(o) \ tf
      PROVE  Val(n, pool', v) = Val(o, pool, v) /\ v \in Uids /\ Cu(n, v).from = Cu(o, v).from
  <2>1. v \in Uids /\ Cu(n, v).slot = Cu(o, v).slot /\ Cu(n, v).from = Cu(o, v).from
    BY <1>1 DEF In
  <2>2. Cu(o, v).slot \in Slots
    BY DEF ScalarInv, Listed
  <2>3. Owned(Cu(o, v).slot, o, Drafting, Gone)
    BY <1>1 DEF Owned
  <2>4. toFreeIdx[Cu(o, v).slot] = 0
    BY <2>2, <2>3 DEF ScalarInv, Owners, InOnePlace
  <2> HIDE DEF o
  <2> QED BY <1>1, <2>1, <2>2, <2>4 DEF Val
<1>4. Heirs(n, own') \subseteq Heirs(o, own)
  <2> SUFFICES ASSUME NEW i \in Heirs(n, own') PROVE i \in Heirs(o, own)
    OBVIOUS
  <2>1. i \in In(o) \ tf /\ Cu(n, i).from # 0 /\ <<i, "val">> \notin own'
    BY <1>1 DEF Heirs
  <2>2. <<i, "val">>[1] = i
    OBVIOUS
  <2>3. <<i, "val">> \notin own
    BY <1>2, <2>1, <2>2
  <2> QED BY <1>3, <2>1, <2>3 DEF Heirs
<1>5. ASSUME NEW i \in Heirs(n, own')
      PROVE  /\ Cu(n, i).from = Cu(o, i).from
             /\ Val(n, pool', i) = Val(o, pool, i)
             /\ Val(n, pool', Cu(o, i).from) = Val(o, pool, Cu(o, i).from)
  <2>1. i \in In(o) \ tf /\ Cu(o, i).from # 0
    BY <1>1, <1>4 DEF Heirs
  <2>2. Cu(o, i).from \in In(o) /\ i \in Cu(o, Cu(o, i).from).instances
    BY <2>1, Prefab
  <2>3. Cu(o, i).from \notin tf
    BY <2>1, <2>2 DEF ScalarInv, Swept
  <2> QED BY <1>3, <2>1, <2>2, <2>3
<1>6. Committing = {}
  BY <1>1 DEF Drafting
<1>7. UidsAt(calls', CommitOps) = Committing /\ \A p, i : Telling(calls', p, i) <=> Telling(calls, p, i)
  BY <1>1 DEF Committing
<1>8. Recorded(n, pool', Drafting')
  BY <1>1 DEF Recorded
<1>9. Following(o, pool, calls', Committing, own)
  BY <1>1 DEF FollowInv
<1> QED BY <1>1, <1>4, <1>5, <1>7, <1>8, <1>9, SameValues DEF n

(* No instance and no writer at first. *)
LEMMA FollowInit ==
  ASSUME UidAssumption, SlotAssumption, Init
  PROVE  FollowInv
<1>1. \A v \in Uids : Cu(objects, v) = NoObject
  BY Names DEF Init, Cu
<1>2. In(objects) = {}
  BY <1>1 DEF In
<1>3. \A ow : Heirs(objects, ow) = {}
  BY <1>2 DEF Heirs
<1>4. UidsAt(calls, CommitOps) = {}
  BY UidsNone DEF Init
<1>5. Drafting = {}
  BY <1>4 DEF Drafting, Committing, Init
<1>6. Following(objects, pool, calls, Committing, own)
  BY <1>4, NothingTold
<1> QED BY <1>3, <1>5, <1>6 DEF FollowInv, Recorded, Shown, Drawn

(* Every step of the specification. *)
LEMMA FollowNext ==
  ASSUME FollowInv, ScalarInv, Scalar, UidAssumption, SlotAssumption, [Next]_vars
  PROVE  FollowInv'
<1>1. CASE CreateFromStep
  BY <1>1, NoSubobjects, NoPrefabFollows, CopyPrefabFollows, CreatesFollow DEF CreateFromStep
<1>2. CASE SetSubStep
  BY <1>2, DropSubFollows, AssignSubFollows DEF SetSubStep
<1>3. CASE DestroyStep
  BY <1>3, DestroysFollow
<1>4. CASE CommitStep
  BY <1>4, DispatchBeginFollows, FollowValueFollows, FollowSubFollows, FollowSetFollows,
     FollowEndFollows, CommitEndFollows DEF CommitStep
<1>5. CASE ClientCall
  <2>1. ASSUME NEW u \in Roots, CreateObject(u) \/ WriteBegin(u) PROVE FollowInv'
    BY <2>1, CreateObjectFollows, WriteBeginFollows
  <2>2. ASSUME NEW u \in Uids, DestroyObject(u) \/ \E p \in Roots : CreateFrom(u, p)
        PROVE  FollowInv'
    BY <2>2, CallsFollow
  <2>6. Doomed \subseteq Uids
    BY UidAssumption
  <2>3. ASSUME NEW u \in writers, NEW v \in Values, SetValue(u, v) PROVE FollowInv'
    BY <2>3, SetValueFollows
  <2>4. ASSUME NEW u \in writers, NEW s \in SubUids \union {0}, SetSubobject(u, s) PROVE FollowInv'
    BY <2>4, CallsFollow
  <2>5. ASSUME NEW u \in writers, WriteCommit(u) PROVE FollowInv'
    BY <2>5, WriteCommitFollows
  <2> QED BY <1>5, <2>1, <2>2, <2>3, <2>4, <2>5, <2>6 DEF ClientCall, Scalar
<1>6. CASE Gc
  BY <1>6, GcFollows
<1>7. CASE UNCHANGED vars
  <2>1. objects' = objects /\ pool' = pool /\ calls' = calls /\ writers' = writers /\ own' = own
    BY <1>7 DEF vars
  <2> QED BY <2>1 DEF FollowInv, Drafting, Committing
<1> QED BY <1>1, <1>2, <1>3, <1>4, <1>5, <1>6, <1>7 DEF Next

(* Between calls nobody waits to follow. *)
LEMMA ScalarFollows ==
  ASSUME FollowInv, ScalarInv, UidAssumption, SlotAssumption
  PROVE  ValuesFollow
<1> SUFFICES ASSUME Resting, NEW u \in Here, Current(u).from # 0, <<u, "val">> \notin own
             PROVE  Value(Cur(u)).val = Value(Cur(Current(u).from)).val
  BY DEF ValuesFollow
<1> DEFINE p == Cu(objects, u).from
<1>1. u \in In(objects) /\ Current(u).from = p /\ p # 0
  BY InMemory
<1>2. p \in In(objects)
  BY <1>1, Prefab
<1>3. Shows(u, p, objects, pool, calls, Committing)
  BY <1>1 DEF FollowInv, Shown, Heirs
<1>4. ~ Telling(calls, p, u)
  BY UidsNone, NothingTold DEF Resting
<1>5. Val(objects, pool, u) = Val(objects, pool, p)
  BY <1>3, <1>4 DEF Shows, Told
<1>6. Value(Cur(u)) = pool[Cu(objects, u).slot] /\ Value(Cur(p)) = pool[Cu(objects, p).slot]
  BY <1>1, <1>2, Places DEF ScalarInv
<1> QED BY <1>1, <1>5, <1>6 DEF Val

(* An instance whose value no client has set has the value of its prefab,   *)
(* for any number of objects, prefabs of prefabs and changes in a writer.   *)
THEOREM ValuesInherited == ASSUME Scalar PROVE Spec => []ValuesFollow
<1>1. Init => FollowInv
  BY FollowInit, UidAssumption, SlotAssumption
<1>2. FollowInv /\ ScalarInv /\ [Next]_vars => FollowInv'
  BY FollowNext, UidAssumption, SlotAssumption
<1>3. FollowInv /\ ScalarInv => ValuesFollow
  BY ScalarFollows, UidAssumption, SlotAssumption
<1> QED BY <1>1, <1>2, <1>3, ScalarInvariant, PTL DEF Spec
=============================================================================
