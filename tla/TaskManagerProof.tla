-------------------------- MODULE TaskManagerProof -------------------------
(***************************************************************************)
(* Where the ids of tasks are in TaskManager, for any threads, sizes of    *)
(* the pools and batches: first queues and stacks of calls, then the shape *)
(* of the stacks, then the places of ids, action by action.                *)
(*                                                                         *)
(* Then the counters of batches: whose they are, and that each is the      *)
(* number of the items of its batch that are not done.  Last that the      *)
(* render loop stays off the main thread: at most one piece of the         *)
(* renderer's work is under way, first as an item to add, then queued,     *)
(* then run, and the main thread does no work while that can happen.       *)
(***************************************************************************)
EXTENDS TaskManager, SequenceTheorems, FiniteSetTheorems, TLAPS

AllFrames == AddFrames \union WorkFrames

---------------------------------------------------------------------------
(* Queues. *)

(* A place that is claimed adds its id. *)
LEMMA ClaimAdds ==
  ASSUME NEW q \in Seq(Entries), NEW i \in Nat
  PROVE  /\ Claim(q, i) \in Seq(Entries)
         /\ Ids(Claim(q, i)) = Ids(q) \union {i}
         /\ Distinct(q) /\ i \notin Ids(q) => Distinct(Claim(q, i))
<1> DEFINE n == Len(q)
           e == [id |-> i, ready |-> FALSE]
           r == Append(q, e)
<1>1. e \in Entries /\ e.id = i
  BY DEF Entries
<1>2. n \in Nat /\ DOMAIN q = 1 .. n
  BY LenProperties
<1>3. /\ r \in Seq(Entries) /\ Len(r) = n + 1
      /\ \A k \in 1 .. n : r[k] = q[k]
      /\ r[n + 1] = e
  BY <1>1, AppendProperties
<1>4. DOMAIN r = 1 .. n + 1 /\ Claim(q, i) = r
  BY <1>3, LenProperties DEF Claim
<1> HIDE DEF r, e
<1>5. Ids(r) = Ids(q) \union {i}
  <2>1. ASSUME NEW k \in DOMAIN r PROVE r[k].id \in Ids(q) \union {i}
    BY <1>1, <1>2, <1>3, <1>4 DEF Ids
  <2>2. ASSUME NEW k \in DOMAIN q PROVE q[k].id \in Ids(r)
    BY <1>2, <1>3, <1>4 DEF Ids
  <2>3. i \in Ids(r)
    BY <1>1, <1>2, <1>3, <1>4 DEF Ids
  <2> QED BY <2>1, <2>2, <2>3 DEF Ids
<1>6. Distinct(q) /\ i \notin Ids(q) => Distinct(r)
  BY <1>1, <1>2, <1>3, <1>4 DEF Distinct, Ids
<1> QED BY <1>3, <1>4, <1>5, <1>6

(* Publishing moves nothing. *)
LEMMA PublishKeeps ==
  ASSUME NEW q \in Seq(Entries), NEW i
  PROVE  /\ Publish(q, i) \in Seq(Entries)
         /\ DOMAIN Publish(q, i) = DOMAIN q
         /\ \A k \in DOMAIN q :
               /\ Publish(q, i)[k].id = q[k].id
               /\ Publish(q, i)[k].ready = (q[k].ready \/ q[k].id = i)
         /\ Ids(Publish(q, i)) = Ids(q)
         /\ Distinct(q) => Distinct(Publish(q, i))
<1> DEFINE r == Publish(q, i)
<1>1. DOMAIN q = 1 .. Len(q) /\ Len(q) \in Nat /\ q \in [1 .. Len(q) -> Entries]
  BY LenProperties
<1>2. \A k \in DOMAIN q : /\ r[k] \in Entries /\ r[k].id = q[k].id
                          /\ r[k].ready = (q[k].ready \/ q[k].id = i)
  BY <1>1 DEF Publish, Entries
<1>3. DOMAIN r = DOMAIN q /\ r \in [1 .. Len(q) -> Entries]
  BY <1>1, <1>2 DEF Publish
<1>4. r \in Seq(Entries)
  BY <1>1, <1>3, SeqDef
<1> HIDE DEF r
<1>5. Ids(r) = Ids(q)
  BY <1>2, <1>3 DEF Ids
<1>6. Distinct(q) => Distinct(r)
  BY <1>2, <1>3 DEF Distinct
<1> QED BY <1>2, <1>3, <1>4, <1>5, <1>6 DEF r

(* A pop takes the oldest id. *)
LEMMA PopTakes ==
  ASSUME NEW q \in Seq(Entries), q # << >>
  PROVE  /\ Head(q) \in Entries /\ Head(q).id \in Ids(q) /\ Head(q) = q[1] /\ 1 \in DOMAIN q
         /\ Tail(q) \in Seq(Entries)
         /\ Distinct(q) => /\ Ids(Tail(q)) = Ids(q) \ {Head(q).id}
                           /\ Distinct(Tail(q))
         /\ \A k \in DOMAIN Tail(q) : k + 1 \in DOMAIN q /\ Tail(q)[k] = q[k + 1]
<1> DEFINE n == Len(q)
           r == Tail(q)
<1>1. n \in Nat \ {0} /\ DOMAIN q = 1 .. n
  BY LenProperties, EmptySeq
<1>2. /\ Head(q) = q[1] /\ Head(q) \in Entries
      /\ r \in Seq(Entries) /\ Len(r) = n - 1
      /\ \A k \in 1 .. n - 1 : r[k] = q[k + 1]
  BY <1>1, HeadTailProperties
<1>3. DOMAIN r = 1 .. n - 1
  BY <1>2, LenProperties
<1> HIDE DEF r
<1>4. Head(q).id \in Ids(q)
  BY <1>1, <1>2 DEF Ids
<1>5. ASSUME Distinct(q) PROVE Ids(r) = Ids(q) \ {Head(q).id} /\ Distinct(r)
  <2>1. ASSUME NEW k \in DOMAIN r PROVE r[k].id \in Ids(q) \ {Head(q).id}
    BY <1>1, <1>2, <1>3, <1>5 DEF Ids, Distinct
  <2>2. ASSUME NEW k \in DOMAIN q, q[k].id # Head(q).id PROVE q[k].id \in Ids(r)
    <3>1. k - 1 \in DOMAIN r /\ r[k - 1] = q[k]
      BY <1>1, <1>2, <1>3, <2>2
    <3> QED BY <3>1 DEF Ids
  <2>3. Distinct(r)
    <3> SUFFICES ASSUME NEW j \in DOMAIN r, NEW k \in DOMAIN r, r[j].id = r[k].id PROVE j = k
      BY DEF Distinct
    <3>1. j + 1 \in DOMAIN q /\ k + 1 \in DOMAIN q /\ q[j + 1].id = q[k + 1].id
      BY <1>1, <1>2, <1>3
    <3>2. j + 1 = k + 1
      BY <1>5, <3>1 DEF Distinct
    <3> QED BY <1>1, <1>3, <3>2
  <2> QED BY <2>1, <2>2, <2>3 DEF Ids
<1>6. \A k \in DOMAIN r : k + 1 \in DOMAIN q /\ r[k] = q[k + 1]
  BY <1>1, <1>2, <1>3
<1> QED BY <1>1, <1>2, <1>4, <1>5, <1>6 DEF r

---------------------------------------------------------------------------
(* Stacks of calls. *)

(* The ids of calls at one of the steps at, and that they are there once.   *)
IdsAt(s, at) == {s[k].id : k \in {j \in DOMAIN s : s[j].at \in at}}
OnceAt(s, at) ==
    \A j, k \in DOMAIN s : s[j].at \in at /\ s[k].at \in at /\ s[j].id = s[k].id => j = k
IdAt(f, at) == IF f.at \in at THEN {f.id} ELSE {}

(* A stack is its innermost call on top of the others. *)
LEMMA TopOfStack ==
  ASSUME NEW s \in Seq(AllFrames), s # << >>
  PROVE  /\ Head(s) \in AllFrames /\ Head(s) = s[1] /\ 1 \in DOMAIN s
         /\ Tail(s) \in Seq(AllFrames)
         /\ s = <<Head(s)>> \o Tail(s)
<1> DEFINE h == <<Head(s)>>
           t == Tail(s)
<1>1. Len(s) \in Nat \ {0} /\ DOMAIN s = 1 .. Len(s)
  BY LenProperties, EmptySeq
<1>2. /\ Head(s) = s[1] /\ Head(s) \in AllFrames
      /\ t \in Seq(AllFrames) /\ Len(t) = Len(s) - 1
      /\ \A k \in 1 .. Len(t) : t[k] = s[k + 1]
  BY <1>1, HeadTailProperties
<1>3. h \in Seq(AllFrames) /\ Len(h) = 1 /\ h[1] = s[1]
  BY <1>2
<1> HIDE DEF h, t
<1>4. /\ h \o t \in Seq(AllFrames) /\ Len(h \o t) = Len(s)
      /\ \A k \in 1 .. Len(s) : (h \o t)[k] = IF k <= 1 THEN h[k] ELSE t[k - 1]
  <2>1. /\ h \o t \in Seq(AllFrames) /\ Len(h \o t) = Len(h) + Len(t)
        /\ \A k \in 1 .. Len(h) + Len(t) : (h \o t)[k] = IF k <= Len(h) THEN h[k] ELSE t[k - Len(h)]
    <3>1. h \in Seq(AllFrames) /\ t \in Seq(AllFrames)
      BY <1>2, <1>3
    <3> QED BY <3>1, ConcatProperties
  <2> QED BY <1>1, <1>2, <1>3, <2>1
<1>5. \A k \in 1 .. Len(s) : (h \o t)[k] = s[k]
  BY <1>1, <1>2, <1>3, <1>4
<1>6. h \o t = s
  BY <1>4, <1>5, SeqEqual
<1> QED BY <1>1, <1>2, <1>6 DEF h, t

(* A call on top of a stack. *)
LEMMA PushCall ==
  ASSUME NEW s \in Seq(AllFrames), NEW f \in AllFrames
  PROVE  LET r == <<f>> \o s
         IN  /\ r \in Seq(AllFrames) /\ r # << >>
             /\ Head(r) = f /\ Tail(r) = s
             /\ DOMAIN r = 1 .. Len(s) + 1 /\ DOMAIN s = 1 .. Len(s) /\ Len(s) \in Nat
             /\ r[1] = f
             /\ \A k \in DOMAIN s : r[k + 1] = s[k]
             /\ \A k \in DOMAIN r : k # 1 => k - 1 \in DOMAIN s /\ r[k] = s[k - 1]
<1> DEFINE h == <<f>>
           r == h \o s
<1>1. Len(s) \in Nat /\ DOMAIN s = 1 .. Len(s)
  BY LenProperties
<1>2. h \in Seq(AllFrames) /\ Len(h) = 1 /\ h[1] = f
  OBVIOUS
<1> HIDE DEF h
<1>3. /\ r \in Seq(AllFrames) /\ Len(r) = 1 + Len(s)
      /\ \A k \in 1 .. Len(r) : r[k] = IF k <= 1 THEN h[k] ELSE s[k - 1]
  <2>1. /\ h \o s \in Seq(AllFrames) /\ Len(h \o s) = Len(h) + Len(s)
        /\ \A k \in 1 .. Len(h) + Len(s) : (h \o s)[k] = IF k <= Len(h) THEN h[k] ELSE s[k - Len(h)]
    BY <1>2, ConcatProperties
  <2> QED BY <1>1, <1>2, <2>1
<1> HIDE DEF r
<1>4. DOMAIN r = 1 .. Len(s) + 1 /\ r # << >>
  BY <1>1, <1>3, LenProperties, EmptySeq
<1>5. r[1] = f /\ \A k \in DOMAIN s : r[k + 1] = s[k]
  BY <1>1, <1>2, <1>3
<1>6. \A k \in DOMAIN r : k # 1 => k - 1 \in DOMAIN s /\ r[k] = s[k - 1]
  BY <1>1, <1>2, <1>3, <1>4
<1>7. /\ Head(r) = f /\ Tail(r) \in Seq(AllFrames) /\ Len(Tail(r)) = Len(s)
      /\ \A k \in 1 .. Len(s) : Tail(r)[k] = s[k]
  BY <1>1, <1>3, <1>4, <1>5, HeadTailProperties
<1>8. Tail(r) = s
  BY <1>1, <1>7, SeqEqual
<1> QED BY <1>1, <1>3, <1>4, <1>5, <1>6, <1>7, <1>8 DEF r, h

(* The ids on a stack are that of the innermost call and those below.       *)
LEMMA IdsOfStack ==
  ASSUME NEW s \in Seq(AllFrames), NEW f \in AllFrames, NEW at
  PROVE  /\ IdsAt(<<f>> \o s, at) = IdAt(f, at) \union IdsAt(s, at)
         /\ OnceAt(<<f>> \o s, at)
              <=> OnceAt(s, at) /\ (f.at \in at => f.id \notin IdsAt(s, at))
<1> DEFINE r == <<f>> \o s
<1>1. /\ DOMAIN r = 1 .. Len(s) + 1 /\ DOMAIN s = 1 .. Len(s) /\ Len(s) \in Nat
      /\ r[1] = f
      /\ \A k \in DOMAIN s : r[k + 1] = s[k]
      /\ \A k \in DOMAIN r : k # 1 => k - 1 \in DOMAIN s /\ r[k] = s[k - 1]
  BY PushCall
<1> HIDE DEF r
<1>2. IdsAt(r, at) = IdAt(f, at) \union IdsAt(s, at)
  <2>1. ASSUME NEW k \in DOMAIN r, r[k].at \in at
        PROVE  r[k].id \in IdAt(f, at) \union IdsAt(s, at)
    BY <1>1, <2>1 DEF IdsAt, IdAt
  <2>2. ASSUME NEW k \in DOMAIN s, s[k].at \in at PROVE s[k].id \in IdsAt(r, at)
    <3>1. k + 1 \in DOMAIN r /\ r[k + 1] = s[k]
      BY <1>1
    <3> QED BY <2>2, <3>1 DEF IdsAt
  <2>3. f.at \in at => f.id \in IdsAt(r, at)
    BY <1>1 DEF IdsAt
  <2> QED BY <2>1, <2>2, <2>3 DEF IdsAt, IdAt
<1>3. ASSUME OnceAt(r, at) PROVE OnceAt(s, at) /\ (f.at \in at => f.id \notin IdsAt(s, at))
  <2>1. \A k \in DOMAIN s : k + 1 \in DOMAIN r /\ k + 1 # 1 /\ r[k + 1] = s[k] /\ k \in Int
    BY <1>1
  <2>2. OnceAt(s, at)
    <3> SUFFICES ASSUME NEW j \in DOMAIN s, NEW k \in DOMAIN s,
                        s[j].at \in at, s[k].at \in at, s[j].id = s[k].id
                 PROVE  j = k
      BY DEF OnceAt
    <3>1. j + 1 = k + 1
      BY <1>3, <2>1 DEF OnceAt
    <3> QED BY <2>1, <3>1
  <2>3. ASSUME f.at \in at, NEW k \in DOMAIN s, s[k].at \in at PROVE s[k].id # f.id
    <3>1. 1 \in DOMAIN r /\ r[1] = f
      BY <1>1
    <3> QED BY <1>3, <2>1, <2>3, <3>1 DEF OnceAt
  <2> QED BY <2>2, <2>3 DEF IdsAt
<1>4. ASSUME OnceAt(s, at), f.at \in at => f.id \notin IdsAt(s, at) PROVE OnceAt(r, at)
  <2> SUFFICES ASSUME NEW j \in DOMAIN r, NEW k \in DOMAIN r,
                      r[j].at \in at, r[k].at \in at, r[j].id = r[k].id
               PROVE  j = k
    BY DEF OnceAt
  <2>1. CASE j = 1 \/ k = 1
    BY <1>1, <1>4, <2>1 DEF IdsAt
  <2>2. CASE j # 1 /\ k # 1
    <3>1. j - 1 = k - 1
      BY <1>1, <1>4, <2>2 DEF OnceAt
    <3> QED BY <1>1, <3>1
  <2> QED BY <2>1, <2>2
<1> QED BY <1>2, <1>3, <1>4 DEF r

(* The innermost call is replaced, another one starts in it, it returns.    *)
LEMMA Becomes ==
  ASSUME stack \in [Threads -> Seq(AllFrames)], NEW p \in Threads, stack[p] # << >>,
         NEW f \in AllFrames, Become(p, f)
  PROVE  /\ stack' \in [Threads -> Seq(AllFrames)]
         /\ stack'[p] # << >> /\ Head(stack'[p]) = f /\ Tail(stack'[p]) = Tail(stack[p])
         /\ stack'[p] = <<f>> \o Tail(stack[p])
         /\ \A r \in Threads : r # p => stack'[r] = stack[r]
<1>1. Tail(stack[p]) \in Seq(AllFrames)
  BY TopOfStack
<1>2. stack'[p] = <<f>> \o Tail(stack[p])
  BY DEF Become
<1>3. /\ stack'[p] \in Seq(AllFrames) /\ stack'[p] # << >>
      /\ Head(stack'[p]) = f /\ Tail(stack'[p]) = Tail(stack[p])
  BY <1>1, <1>2, PushCall
<1> QED BY <1>2, <1>3 DEF Become

(* A call is entered on top of the stack of its thread. *)
LEMMA Enters ==
  ASSUME stack \in [Threads -> Seq(AllFrames)], NEW p \in Threads,
         NEW f \in AllFrames, Enter(p, f)
  PROVE  /\ stack' \in [Threads -> Seq(AllFrames)]
         /\ stack'[p] # << >> /\ Head(stack'[p]) = f /\ Tail(stack'[p]) = stack[p]
         /\ stack'[p] = <<f>> \o stack[p]
         /\ \A r \in Threads : r # p => stack'[r] = stack[r]
<1>1. stack[p] \in Seq(AllFrames)
  OBVIOUS
<1>2. stack'[p] = <<f>> \o stack[p]
  BY DEF Enter
<1>3. /\ stack'[p] \in Seq(AllFrames) /\ stack'[p] # << >>
      /\ Head(stack'[p]) = f /\ Tail(stack'[p]) = stack[p]
  BY <1>1, <1>2, PushCall
<1> QED BY <1>2, <1>3 DEF Enter

(* A return takes the top call off the stack of its thread. *)
LEMMA Leaves ==
  ASSUME stack \in [Threads -> Seq(AllFrames)], NEW p \in Threads, stack[p] # << >>, Leave(p)
  PROVE  /\ stack' \in [Threads -> Seq(AllFrames)]
         /\ stack'[p] = Tail(stack[p])
         /\ \A r \in Threads : r # p => stack'[r] = stack[r]
<1>1. Tail(stack[p]) \in Seq(AllFrames)
  BY TopOfStack
<1> QED BY <1>1 DEF Leave

(* A task that adds a task. *)
LEMMA Nests ==
  ASSUME stack \in [Threads -> Seq(AllFrames)], NEW p \in Threads, stack[p] # << >>,
         NEW f \in AllFrames, NEW g \in AllFrames,
         stack' = [stack EXCEPT ![p] = <<f, g>> \o Tail(@)]
  PROVE  /\ stack' \in [Threads -> Seq(AllFrames)]
         /\ <<g>> \o Tail(stack[p]) \in Seq(AllFrames)
         /\ stack'[p] # << >> /\ Head(stack'[p]) = f
         /\ Tail(stack'[p]) = <<g>> \o Tail(stack[p])
         /\ stack'[p] = <<f>> \o (<<g>> \o Tail(stack[p]))
         /\ \A r \in Threads : r # p => stack'[r] = stack[r]
<1> DEFINE t == Tail(stack[p])
<1>1. t \in Seq(AllFrames)
  BY TopOfStack
<1> HIDE DEF t
<1>2. <<f, g>> = <<f>> \o <<g>> /\ <<f>> \in Seq(AllFrames) /\ <<g>> \in Seq(AllFrames)
  <2> DEFINE a == <<f>>
             b == <<g>>
             ab == <<f, g>>
  <2>1. /\ a \in Seq(AllFrames) /\ Len(a) = 1 /\ a[1] = f
        /\ b \in Seq(AllFrames) /\ Len(b) = 1 /\ b[1] = g
        /\ ab \in Seq(AllFrames) /\ Len(ab) = 2 /\ ab[1] = f /\ ab[2] = g
    OBVIOUS
  <2> HIDE DEF a, b, ab
  <2>2. /\ a \o b \in Seq(AllFrames) /\ Len(a \o b) = Len(a) + Len(b)
        /\ \A k \in 1 .. Len(a) + Len(b) : (a \o b)[k] = IF k <= Len(a) THEN a[k] ELSE b[k - Len(a)]
    BY <2>1, ConcatProperties
  <2>3. \A k \in 1 .. Len(ab) : ab[k] = (a \o b)[k]
    BY <2>1, <2>2
  <2>4. ab = a \o b
    BY <2>1, <2>2, <2>3, SeqEqual
  <2> QED BY <2>1, <2>4 DEF a, b, ab
<1>3. <<f, g>> \o t = <<f>> \o (<<g>> \o t)
  BY <1>1, <1>2, ConcatAssociative
<1>4. <<g>> \o t \in Seq(AllFrames)
  BY <1>1, PushCall
<1>5. stack'[p] = <<f>> \o (<<g>> \o t)
  BY <1>3 DEF t
<1>6. /\ stack'[p] \in Seq(AllFrames) /\ stack'[p] # << >>
      /\ Head(stack'[p]) = f /\ Tail(stack'[p]) = <<g>> \o t
  BY <1>4, <1>5, PushCall
<1> QED BY <1>4, <1>5, <1>6 DEF t

---------------------------------------------------------------------------
(* Types, and what is below the innermost call. *)

(* TypeOK, but for the sign of the counters: that needs them to be exact.   *)
Types ==
    /\ isRunning \in BOOLEAN
    /\ taskPool \in [TaskIds -> [work : Works, counter : Nat]]
    /\ taskPoolIdx \in Nat \ {0} /\ 1 .. taskPoolIdx - 1 \subseteq TaskIds
    /\ freeTask \in Seq(Entries)
    /\ counterPool \in [CounterIds -> Int]
    /\ counterPoolIdx \in Nat \ {0} /\ 1 .. counterPoolIdx - 1 \subseteq CounterIds
    /\ freeCounter \in Seq(Entries)
    /\ jobs \in [Queues -> Seq(Entries)]
    /\ stack \in [Threads -> Seq(AllFrames)]
    /\ worker \in [Workers -> {"start", "loop", "ended"}]
    /\ phase \in {"load", "boot", "init", "up", "exit", "down", "off"}
    /\ batches \in Nat

(* Below the innermost call are a wait that works and tasks that add one.   *)
Suspended(s) == \A k \in DOMAIN s : s[k].at \in {"wait", "count"}
Shape == \A p \in Threads : stack[p] # << >> =>
             /\ Suspended(Tail(stack[p]))
             /\ Head(stack[p]).at = "push_task" => Head(stack[p]).left > 0

(* The main thread is in no call before the renderer is created. *)
Idle == phase \in {"load", "boot"} => stack[Main] = << >>

(* A stack under a call is suspended when that call and the rest are. *)
LEMMA SuspendedCall ==
  ASSUME NEW s \in Seq(AllFrames), NEW f \in AllFrames
  PROVE  Suspended(<<f>> \o s) <=> f.at \in {"wait", "count"} /\ Suspended(s)
<1> DEFINE r == <<f>> \o s
<1>1. /\ DOMAIN r = 1 .. Len(s) + 1 /\ DOMAIN s = 1 .. Len(s) /\ Len(s) \in Nat
      /\ r[1] = f
      /\ \A k \in DOMAIN s : r[k + 1] = s[k]
      /\ \A k \in DOMAIN r : k # 1 => k - 1 \in DOMAIN s /\ r[k] = s[k - 1]
  BY PushCall
<1> HIDE DEF r
<1>2. \A k \in DOMAIN s : k + 1 \in DOMAIN r
  BY <1>1
<1>3. 1 \in DOMAIN r
  BY <1>1
<1>4. Suspended(r) <=> f.at \in {"wait", "count"} /\ Suspended(s)
  BY <1>1, <1>2, <1>3 DEF Suspended
<1> QED BY <1>4 DEF r

(* A suspended call that becomes the innermost one. *)
LEMMA SuspendedTop ==
  ASSUME NEW s \in Seq(AllFrames), Suspended(s), s # << >>
  PROVE  Head(s).at \in {"wait", "count"} /\ Suspended(Tail(s))
<1>1. Head(s) \in AllFrames /\ Tail(s) \in Seq(AllFrames) /\ s = <<Head(s)>> \o Tail(s)
  BY TopOfStack
<1> QED BY <1>1, SuspendedCall

(* A step tells which kind of call it is in. *)
LEMMA FrameTypes ==
  ASSUME NEW f \in AllFrames
  PROVE  /\ f.at \in AddPcs => f \in AddFrames
         /\ f.at \in WorkPcs => f \in WorkFrames
         /\ f.id \in Nat
  BY DEF AllFrames, AddFrames, WorkFrames, AddPcs, WorkPcs

(* The calls that add and work are well typed. *)
LEMMA CallTypes ==
  /\ \A w \in Works, n \in Nat, t \in Queues, x \in {"none", "wait", "spin"} :
        AddCall(w, n, t, x) \in AllFrames
  /\ \A f \in AddFrames : \A at \in AddPcs, c \in Nat, i \in Nat, n \in Nat :
        [f EXCEPT !.at = at, !.counter = c] \in AllFrames
        /\ [f EXCEPT !.at = at, !.id = i] \in AllFrames
        /\ [f EXCEPT !.at = at, !.left = n] \in AllFrames
        /\ [f EXCEPT !.at = at] \in AllFrames
  /\ \A f \in WorkFrames : \A at \in WorkPcs : [f EXCEPT !.at = at] \in AllFrames
  /\ \A at \in WorkPcs, i \in Nat : [at |-> at, id |-> i] \in AllFrames
<1>1. ASSUME NEW w \in Works, NEW n \in Nat, NEW t \in Queues, NEW x \in {"none", "wait", "spin"}
      PROVE  AddCall(w, n, t, x) \in AllFrames
  BY DEF AllFrames, AddFrames, AddCall, AddPcs
<1>2. ASSUME NEW f \in AddFrames, NEW at \in AddPcs, NEW c \in Nat, NEW i \in Nat, NEW n \in Nat
      PROVE  /\ [f EXCEPT !.at = at, !.counter = c] \in AllFrames
             /\ [f EXCEPT !.at = at, !.id = i] \in AllFrames
             /\ [f EXCEPT !.at = at, !.left = n] \in AllFrames
             /\ [f EXCEPT !.at = at] \in AllFrames
  BY DEF AllFrames, AddFrames
<1>3. ASSUME NEW f \in WorkFrames, NEW at \in WorkPcs PROVE [f EXCEPT !.at = at] \in AllFrames
  BY DEF AllFrames, WorkFrames
<1>4. ASSUME NEW at \in WorkPcs, NEW i \in Nat PROVE [at |-> at, id |-> i] \in AllFrames
  BY DEF AllFrames, WorkFrames
<1>5. \A f \in AddFrames : \A at \in AddPcs, c \in Nat, i \in Nat, n \in Nat :
        [f EXCEPT !.at = at, !.counter = c] \in AllFrames
        /\ [f EXCEPT !.at = at, !.id = i] \in AllFrames
        /\ [f EXCEPT !.at = at, !.left = n] \in AllFrames
        /\ [f EXCEPT !.at = at] \in AllFrames
  BY <1>2
<1> QED BY <1>1, <1>3, <1>4, <1>5

(* A call that goes on to another step keeps the stacks in shape. *)
LEMMA ShapeBecomes ==
  ASSUME Types, Shape, NEW p \in Threads, stack[p] # << >>,
         NEW f \in AllFrames, Become(p, f), f.at = "push_task" => f.left > 0
  PROVE  stack' \in [Threads -> Seq(AllFrames)] /\ Shape'
  BY Becomes DEF Types, Shape

(* So does a call made by a wait or by a task that runs. *)
LEMMA ShapeEnters ==
  ASSUME Types, Shape, NEW p \in Threads,
         stack[p] # << >> => Head(stack[p]).at \in {"wait", "count"},
         NEW f \in AllFrames, Enter(p, f), f.at # "push_task"
  PROVE  stack' \in [Threads -> Seq(AllFrames)] /\ Shape'
<1>1. stack[p] \in Seq(AllFrames)
  BY DEF Types
<1>2. Suspended(stack[p])
  <2>1. CASE stack[p] = << >>
    BY <2>1 DEF Suspended
  <2>2. CASE stack[p] # << >>
    <3>1. /\ Head(stack[p]) \in AllFrames /\ Tail(stack[p]) \in Seq(AllFrames)
          /\ stack[p] = <<Head(stack[p])>> \o Tail(stack[p])
      BY <1>1, <2>2, TopOfStack
    <3>2. Suspended(<<Head(stack[p])>> \o Tail(stack[p]))
      BY <2>2, <3>1, SuspendedCall DEF Shape
    <3> QED BY <3>1, <3>2
  <2> QED BY <2>1, <2>2
<1> QED BY <1>2, Enters DEF Types, Shape

(* So does a return. *)
LEMMA ShapeLeaves ==
  ASSUME Types, Shape, NEW p \in Threads, stack[p] # << >>, Leave(p)
  PROVE  stack' \in [Threads -> Seq(AllFrames)] /\ Shape'
<1>1. Tail(stack[p]) \in Seq(AllFrames) /\ Suspended(Tail(stack[p]))
  BY TopOfStack DEF Types, Shape
<1>2. /\ stack' \in [Threads -> Seq(AllFrames)]
      /\ stack'[p] = Tail(stack[p])
      /\ \A r \in Threads : r # p => stack'[r] = stack[r]
  BY Leaves DEF Types
<1>3. stack'[p] # << >> => Head(stack'[p]).at \in {"wait", "count"} /\ Suspended(Tail(stack'[p]))
  BY <1>1, <1>2, SuspendedTop
<1> QED BY <1>2, <1>3 DEF Shape

(* So does a task that runs and adds others. *)
LEMMA ShapeNests ==
  ASSUME Types, Shape, NEW p \in Threads, stack[p] # << >>,
         NEW f \in AllFrames, NEW g \in AllFrames, f.at # "push_task", g.at = "count",
         stack' = [stack EXCEPT ![p] = <<f, g>> \o Tail(@)]
  PROVE  stack' \in [Threads -> Seq(AllFrames)] /\ Shape'
<1>1. Tail(stack[p]) \in Seq(AllFrames) /\ Suspended(Tail(stack[p]))
  BY TopOfStack DEF Types, Shape
<1>2. Suspended(<<g>> \o Tail(stack[p]))
  BY <1>1, SuspendedCall
<1>3. /\ stack' \in [Threads -> Seq(AllFrames)]
      /\ stack'[p] # << >> /\ Head(stack'[p]) = f
      /\ Tail(stack'[p]) = <<g>> \o Tail(stack[p])
      /\ \A r \in Threads : r # p => stack'[r] = stack[r]
  BY Nests DEF Types
<1> QED BY <1>2, <1>3 DEF Shape

(* The innermost call of a thread at one of the steps of add and wait, or   *)
(* of do_work.                                                              *)
LEMMA InnermostCall ==
  ASSUME Types, NEW p \in Threads, NEW at, In(p, at)
  PROVE  /\ stack[p] # << >> /\ Frame(p) \in AllFrames /\ Frame(p).at = at
         /\ Frame(p) = Head(stack[p]) /\ Frame(p) = stack[p][1]
         /\ at \in AddPcs => Frame(p) \in AddFrames
         /\ at \in WorkPcs => Frame(p) \in WorkFrames
         /\ Frame(p).id \in Nat
<1>1. stack[p] \in Seq(AllFrames) /\ stack[p] # << >>
  BY DEF Types, In
<1>2. Head(stack[p]) \in AllFrames /\ Head(stack[p]) = stack[p][1]
  BY <1>1, TopOfStack
<1> QED BY <1>1, <1>2, FrameTypes DEF In, Frame

(* The ids that a call of add gets, from the free lists or by growth. *)
TaskOf(p) == IF In(p, "new_task") THEN Head(freeTask).id ELSE taskPoolIdx
CounterOfNew(p) == IF In(p, "new_counter") THEN Head(freeCounter).id ELSE counterPoolIdx

(* The step of add that gets a task id. *)
LEMMA GotTask ==
  ASSUME Types, NEW p \in Threads, NewTask(p) \/ GrowTask(p)
  PROVE  /\ stack[p] # << >> /\ Frame(p) \in AddFrames /\ Frame(p).at \in {"new_task", "grow_task"}
         /\ Frame(p).left > 0 /\ TaskOf(p) \in TaskIds /\ TaskOf(p) \in Nat
         /\ Become(p, [Frame(p) EXCEPT !.at = "push_task", !.id = TaskOf(p)])
         /\ In(p, "new_task") => /\ CanPop(freeTask) /\ freeTask' = Tail(freeTask)
                                 /\ taskPoolIdx' = taskPoolIdx
         /\ ~ In(p, "new_task") => freeTask' = freeTask /\ taskPoolIdx' = taskPoolIdx + 1
         /\ UNCHANGED <<taskPool, counters, jobs, program>>
<1>1. CASE NewTask(p)
  BY <1>1, InnermostCall DEF NewTask, GetTask, TaskOf, AddPcs, TaskIds
<1>2. CASE GrowTask(p)
  <2>1. ~ In(p, "new_task") /\ In(p, "grow_task")
    BY <1>2 DEF GrowTask, In
  <2> QED BY <1>2, <2>1, InnermostCall DEF GrowTask, GetTask, TaskOf, AddPcs, TaskIds
<1> QED BY <1>1, <1>2

(* The step of add that gets a counter. *)
LEMMA GotCounter ==
  ASSUME Types, NEW p \in Threads, NewCounter(p) \/ GrowCounter(p)
  PROVE  /\ stack[p] # << >> /\ Frame(p) \in AddFrames
         /\ Frame(p).at \in {"new_counter", "grow_counter"}
         /\ CounterOfNew(p) \in CounterIds /\ CounterOfNew(p) \in Nat
         /\ Become(p, [Frame(p) EXCEPT !.at = "new_task", !.counter = CounterOfNew(p)])
         /\ counterPool' = [counterPool EXCEPT ![CounterOfNew(p)] = Frame(p).left]
         /\ In(p, "new_counter") => /\ CanPop(freeCounter) /\ freeCounter' = Tail(freeCounter)
                                    /\ counterPoolIdx' = counterPoolIdx
         /\ ~ In(p, "new_counter") => /\ freeCounter' = freeCounter
                                      /\ counterPoolIdx' = counterPoolIdx + 1
         /\ UNCHANGED <<tasks, jobs, program>>
<1>1. CASE NewCounter(p)
  BY <1>1, InnermostCall DEF NewCounter, GetCounter, CounterOfNew, AddPcs, CounterIds
<1>2. CASE GrowCounter(p)
  <2>1. ~ In(p, "new_counter") /\ In(p, "grow_counter")
    BY <1>2 DEF GrowCounter, In
  <2> QED BY <1>2, <2>1, InnermostCall DEF GrowCounter, GetCounter, CounterOfNew, AddPcs, CounterIds
<1> QED BY <1>1, <1>2

(* A refused pop of a free list changes nothing but what its call does next. *)
LEMMA GotNothing ==
  ASSUME Types, NEW p \in Threads, NoFreeCounter(p) \/ NoFreeTask(p)
  PROVE  \E at, to \in AddPcs \ {"push_task"} :
            /\ In(p, at) /\ Advance(p, to)
            /\ <<at, to>> \in {<<"new_counter", "grow_counter">>, <<"new_task", "grow_task">>}
            /\ UNCHANGED <<tasks, counters, jobs, program>>
  BY DEF NoFreeCounter, NoFreeTask, AddPcs

(* A call of add or wait that advances keeps the stacks in shape. *)
LEMMA AdvanceAdd ==
  ASSUME Types, Shape, NEW p \in Threads, NEW at \in AddPcs, In(p, at),
         NEW to \in AddPcs \ {"push_task"}, Advance(p, to)
  PROVE  stack' \in [Threads -> Seq(AllFrames)] /\ Shape'
<1> DEFINE f == [Frame(p) EXCEPT !.at = to]
<1>1. stack[p] # << >> /\ Frame(p) \in AddFrames
  BY InnermostCall
<1>2. f \in AddFrames /\ f.at # "push_task"
  BY <1>1 DEF AddFrames
<1>3. f \in AllFrames /\ Become(p, f)
  BY <1>2 DEF Advance, AllFrames
<1> QED BY <1>1, <1>2, <1>3, ShapeBecomes

(* So does a call of do_work. *)
LEMMA AdvanceWork ==
  ASSUME Types, Shape, NEW p \in Threads, NEW at \in WorkPcs, In(p, at),
         NEW to \in WorkPcs, Advance(p, to)
  PROVE  stack' \in [Threads -> Seq(AllFrames)] /\ Shape'
<1> DEFINE f == [Frame(p) EXCEPT !.at = to]
<1>1. stack[p] # << >> /\ Frame(p) \in WorkFrames
  BY InnermostCall
<1>2. f \in WorkFrames /\ f.at # "push_task"
  BY <1>1 DEF WorkFrames, WorkPcs
<1>3. f \in AllFrames /\ Become(p, f)
  BY <1>2 DEF Advance, AllFrames
<1> QED BY <1>1, <1>2, <1>3, ShapeBecomes

(* Every step of add keeps the types. *)
LEMMA AddingTypes ==
  ASSUME Types, Shape, NEW p \in Threads, Adding(p)
  PROVE  Types' /\ Shape'
<1> USE DEF Types
<1>1. CASE NewCounter(p) \/ GrowCounter(p)
  <2> DEFINE c == CounterOfNew(p)
             f == [Frame(p) EXCEPT !.at = "new_task", !.counter = c]
  <2>1. /\ stack[p] # << >> /\ Frame(p) \in AddFrames /\ c \in CounterIds /\ c \in Nat
        /\ Become(p, f) /\ counterPool' = [counterPool EXCEPT ![c] = Frame(p).left]
        /\ UNCHANGED <<tasks, jobs, program>>
    BY <1>1, GotCounter
  <2>2. f \in AllFrames /\ f.at = "new_task"
    BY <2>1 DEF AllFrames, AddFrames, AddPcs
  <2>3. stack' \in [Threads -> Seq(AllFrames)] /\ Shape'
    BY <2>1, <2>2, ShapeBecomes
  <2>4. \/ /\ freeCounter # << >> /\ freeCounter' = Tail(freeCounter)
           /\ counterPoolIdx' = counterPoolIdx
        \/ /\ freeCounter' = freeCounter /\ counterPoolIdx' = counterPoolIdx + 1
           /\ counterPoolIdx \in CounterIds
    BY <1>1, GotCounter DEF CounterOfNew, CanPop
  <2>5. /\ freeCounter' \in Seq(Entries)
        /\ counterPoolIdx' \in Nat \ {0} /\ 1 .. counterPoolIdx' - 1 \subseteq CounterIds
    <3>1. freeCounter \in Seq(Entries)
      OBVIOUS
    <3>2. freeCounter' \in Seq(Entries)
      BY <2>4, <3>1, PopTakes
    <3>3. CASE counterPoolIdx' = counterPoolIdx
      BY <3>2, <3>3
    <3>4. CASE counterPoolIdx' = counterPoolIdx + 1 /\ counterPoolIdx \in CounterIds
      <4>1. counterPoolIdx' \in Nat \ {0}
        BY <3>4
      <4>2. 1 .. counterPoolIdx' - 1 = 1 .. counterPoolIdx
        BY <3>4
      <4>3. 1 .. counterPoolIdx \subseteq CounterIds
        BY <3>4, PoolAssumption DEF CounterIds
      <4> QED BY <3>2, <4>1, <4>2, <4>3
    <3> QED BY <2>4, <3>3, <3>4
  <2>6. counterPool' \in [CounterIds -> Int]
    BY <2>1 DEF AddFrames
  <2> QED BY <2>1, <2>3, <2>5, <2>6 DEF tasks, program
<1>2. CASE NewTask(p) \/ GrowTask(p)
  <2> DEFINE i == TaskOf(p)
             f == [Frame(p) EXCEPT !.at = "push_task", !.id = i]
  <2>1. /\ stack[p] # << >> /\ Frame(p) \in AddFrames /\ i \in TaskIds /\ i \in Nat
        /\ Become(p, f) /\ Frame(p).left > 0
        /\ UNCHANGED <<taskPool, counters, jobs, program>>
    BY <1>2, GotTask
  <2>2. f \in AllFrames /\ f.left > 0
    BY <2>1 DEF AllFrames, AddFrames, AddPcs
  <2>3. stack' \in [Threads -> Seq(AllFrames)] /\ Shape'
    BY <2>1, <2>2, ShapeBecomes
  <2>4. \/ freeTask # << >> /\ freeTask' = Tail(freeTask) /\ taskPoolIdx' = taskPoolIdx
        \/ freeTask' = freeTask /\ taskPoolIdx' = taskPoolIdx + 1 /\ taskPoolIdx \in TaskIds
    BY <1>2, GotTask DEF TaskOf, CanPop
  <2>5. /\ freeTask' \in Seq(Entries)
        /\ taskPoolIdx' \in Nat \ {0} /\ 1 .. taskPoolIdx' - 1 \subseteq TaskIds
    <3>1. freeTask \in Seq(Entries)
      OBVIOUS
    <3>2. freeTask' \in Seq(Entries)
      BY <2>4, <3>1, PopTakes
    <3>3. CASE taskPoolIdx' = taskPoolIdx
      BY <3>2, <3>3
    <3>4. CASE taskPoolIdx' = taskPoolIdx + 1 /\ taskPoolIdx \in TaskIds
      <4>1. taskPoolIdx' \in Nat \ {0}
        BY <3>4
      <4>2. 1 .. taskPoolIdx' - 1 = 1 .. taskPoolIdx
        BY <3>4
      <4>3. 1 .. taskPoolIdx \subseteq TaskIds
        BY <3>4, PoolAssumption DEF TaskIds
      <4> QED BY <3>2, <4>1, <4>2, <4>3
    <3> QED BY <2>4, <3>3, <3>4
  <2> QED BY <2>1, <2>3, <2>5 DEF counters, program
<1>3. CASE PushTask(p)
  <2> DEFINE f == [Frame(p) EXCEPT !.at = "publish_task", !.left = @ - 1]
  <2>1. stack[p] # << >> /\ Frame(p) \in AddFrames /\ Become(p, f) /\ Frame(p).left > 0
    BY <1>3, InnermostCall DEF PushTask, AddPcs, Shape, In
  <2>2. f \in AllFrames /\ f.at = "publish_task"
    <3>1. Frame(p).left - 1 \in Nat
      BY <2>1 DEF AddFrames
    <3>2. f \in AddFrames /\ f.at = "publish_task"
      BY <2>1, <3>1 DEF AddFrames, AddPcs
    <3> QED BY <3>2 DEF AllFrames
  <2>3. stack' \in [Threads -> Seq(AllFrames)] /\ Shape'
    BY <2>1, <2>2, ShapeBecomes
  <2>4. jobs' \in [Queues -> Seq(Entries)]
    BY <1>3, <2>1, ClaimAdds DEF PushTask, AddFrames
  <2>5. taskPool' \in [TaskIds -> [work : Works, counter : Nat]]
    BY <1>3, <2>1 DEF PushTask, AddFrames
  <2> QED BY <1>3, <2>3, <2>4, <2>5 DEF PushTask, counters, program
<1>4. CASE PublishTask(p)
  <2> DEFINE f == [Frame(p) EXCEPT !.at = "new_task", !.id = 0]
  <2>1. stack[p] # << >> /\ Frame(p) \in AddFrames /\ Become(p, f)
    BY <1>4, InnermostCall DEF PublishTask, AddPcs
  <2>2. f \in AllFrames /\ f.at = "new_task"
    BY <2>1 DEF AllFrames, AddFrames, AddPcs
  <2>3. stack' \in [Threads -> Seq(AllFrames)] /\ Shape'
    BY <2>1, <2>2, ShapeBecomes
  <2>4. jobs' \in [Queues -> Seq(Entries)]
    BY <1>4, <2>1, PublishKeeps DEF PublishTask, AddFrames
  <2> QED BY <1>4, <2>3, <2>4 DEF PublishTask, tasks, counters, program
<1>5. CASE AddReturn(p)
  <2>1. stack[p] # << >> /\ Frame(p) \in AddFrames /\ In(p, "new_task")
    BY <1>5, InnermostCall DEF AddReturn, AddPcs
  <2>2. stack' \in [Threads -> Seq(AllFrames)] /\ Shape'
    <3>1. CASE Frame(p).wait = "none"
      BY <1>5, <2>1, <3>1, ShapeLeaves DEF AddReturn
    <3>2. CASE Frame(p).wait # "none"
      <4>1. Advance(p, Frame(p).wait) /\ Frame(p).wait \in {"wait", "spin"}
        BY <1>5, <2>1, <3>2 DEF AddReturn, AddFrames
      <4>2. "new_task" \in AddPcs /\ Frame(p).wait \in AddPcs \ {"push_task"}
        BY <4>1 DEF AddPcs
      <4> QED BY <2>1, <4>1, <4>2, AdvanceAdd
    <3> QED BY <3>1, <3>2
  <2> QED BY <1>5, <2>2 DEF AddReturn, tasks, counters, program
<1>6. CASE NoFreeCounter(p) \/ NoFreeTask(p)
  <2>1. PICK at, to \in AddPcs \ {"push_task"} : /\ In(p, at) /\ Advance(p, to)
                                               /\ UNCHANGED <<tasks, counters, jobs, program>>
    BY <1>6, GotNothing
  <2>2. stack' \in [Threads -> Seq(AllFrames)] /\ Shape'
    BY <2>1, AdvanceAdd
  <2> QED BY <2>1, <2>2 DEF tasks, counters, program
<1> QED BY <1>1, <1>2, <1>3, <1>4, <1>5, <1>6 DEF Adding

(* Every step of a wait keeps the types. *)
LEMMA WaitingTypes ==
  ASSUME Types, Shape, NEW p \in Threads, Waiting(p)
  PROVE  Types' /\ Shape'
<1> USE DEF Types
<1>1. CASE WaitDone(p)
  <2>1. stack' \in [Threads -> Seq(AllFrames)] /\ Shape'
    <3>1. PICK at \in {"wait", "spin"} : In(p, at)
      BY <1>1 DEF WaitDone
    <3>2. at \in AddPcs /\ "release" \in AddPcs \ {"push_task"}
      BY DEF AddPcs
    <3> QED BY <1>1, <3>1, <3>2, AdvanceAdd DEF WaitDone
  <2> QED BY <1>1, <2>1 DEF WaitDone, tasks, counters, program
<1>2. CASE WaitWork(p)
  <2> DEFINE f == [at |-> "seek", id |-> 0]
  <2>1. f \in AllFrames /\ f.at # "push_task"
    BY DEF AllFrames, WorkFrames, WorkPcs
  <2>2. Head(stack[p]).at = "wait" /\ Enter(p, f)
    BY <1>2 DEF WaitWork, In
  <2>3. stack' \in [Threads -> Seq(AllFrames)] /\ Shape'
    BY <2>1, <2>2, ShapeEnters
  <2> QED BY <1>2, <2>3 DEF WaitWork, tasks, counters, program
<1>3. CASE ReleaseCounter(p)
  <2>1. stack' \in [Threads -> Seq(AllFrames)] /\ Shape'
    <3>1. "release" \in AddPcs /\ "publish_counter" \in AddPcs \ {"push_task"}
      BY DEF AddPcs
    <3> QED BY <1>3, <3>1, AdvanceAdd DEF ReleaseCounter
  <2>2. Frame(p).counter \in Nat
    BY <1>3, InnermostCall DEF ReleaseCounter, AddPcs, AddFrames
  <2>3. freeCounter' \in Seq(Entries)
    BY <1>3, <2>2, ClaimAdds DEF ReleaseCounter
  <2> QED BY <1>3, <2>1, <2>3 DEF ReleaseCounter, tasks, program
<1>4. CASE PublishCounter(p)
  <2>1. stack' \in [Threads -> Seq(AllFrames)] /\ Shape'
    BY <1>4, InnermostCall, ShapeLeaves DEF PublishCounter
  <2>2. freeCounter' \in Seq(Entries)
    BY <1>4, PublishKeeps DEF PublishCounter
  <2> QED BY <1>4, <2>1, <2>2 DEF PublishCounter, tasks, program
<1> QED BY <1>1, <1>2, <1>3, <1>4 DEF Waiting

(* Every step of do_work keeps the types. *)
LEMMA WorkingTypes ==
  ASSUME Types, Shape, NEW p \in Threads, Working(p)
  PROVE  Types' /\ Shape'
<1> USE DEF Types
<1>1. CASE TakeWork(p)
  <2> USE <1>1 DEF TakeWork
  <2>0. p \in Queues /\ Shared \in Queues
    BY DEF Queues
  <2>1. PICK t \in {p, Shared} : /\ CanPop(jobs[t])
                                 /\ jobs' = [jobs EXCEPT ![t] = Tail(@)]
                                 /\ Become(p, [at |-> "run", id |-> Head(jobs[t]).id])
    OBVIOUS
  <2> DEFINE f == [at |-> "run", id |-> Head(jobs[t]).id]
  <2>2. stack[p] # << >>
    BY InnermostCall
  <2>3. /\ Head(jobs[t]) \in Entries /\ Tail(jobs[t]) \in Seq(Entries)
    BY <2>0, <2>1, PopTakes DEF CanPop
  <2>4. f \in AllFrames /\ f.at = "run"
    BY <2>3 DEF AllFrames, WorkFrames, WorkPcs, Entries
  <2>5. stack' \in [Threads -> Seq(AllFrames)] /\ Shape'
    BY <2>1, <2>2, <2>4, ShapeBecomes
  <2> QED BY <2>0, <2>1, <2>3, <2>5 DEF tasks, counters, program
<1>2. CASE NoWork(p)
  <2>1. stack' \in [Threads -> Seq(AllFrames)] /\ Shape'
    BY <1>2, InnermostCall, ShapeLeaves DEF NoWork
  <2> QED BY <1>2, <2>1 DEF NoWork, tasks, counters, program
<1>3. CASE RunLeaf(p) \/ RunRender(p)
  <2>1. stack' \in [Threads -> Seq(AllFrames)] /\ Shape'
    BY <1>3, AdvanceWork DEF RunLeaf, RunRender, Running, WorkPcs
  <2> QED BY <1>3, <2>1 DEF RunLeaf, RunRender, tasks, counters, program
<1>4. CASE RunInit(p)
  <2> DEFINE f == AddCall("render", 1, Shared, "none")
             g == [Frame(p) EXCEPT !.at = "count"]
  <2>1. stack[p] # << >> /\ Frame(p) \in WorkFrames /\ Frame(p) = stack[p][1]
    BY <1>4, InnermostCall DEF RunInit, Running, WorkPcs
  <2>2. f \in AllFrames /\ f.at = "new_counter"
    BY DEF AllFrames, AddFrames, AddCall, AddPcs, Works, Queues
  <2>3. g \in AllFrames /\ g.at = "count"
    BY <2>1 DEF AllFrames, WorkFrames, WorkPcs
  <2>4. stack' = [stack EXCEPT ![p] = <<f, g>> \o Tail(@)]
    BY <1>4, <2>1 DEF RunInit
  <2>5. stack' \in [Threads -> Seq(AllFrames)] /\ Shape'
    BY <2>1, <2>2, <2>3, <2>4, ShapeNests
  <2> QED BY <1>4, <2>5 DEF RunInit, tasks, counters, program
<1>5. CASE CountDown(p)
  <2>1. stack' \in [Threads -> Seq(AllFrames)] /\ Shape'
    BY <1>5, AdvanceWork DEF CountDown, WorkPcs
  <2>2. counterPool' \in [CounterIds -> Int]
    <3> DEFINE c == taskPool[Frame(p).id].counter
    <3>1. counterPool' = [counterPool EXCEPT ![c] = @ - 1]
      BY <1>5 DEF CountDown
    <3> HIDE DEF c
    <3>2. \A x \in CounterIds : counterPool[x] \in Int /\ counterPool[x] - 1 \in Int
      OBVIOUS
    <3>3. \A x \in CounterIds : counterPool'[x] = IF x = c THEN counterPool[x] - 1 ELSE counterPool[x]
      BY <3>1
    <3> QED BY <3>1, <3>2, <3>3
  <2> QED BY <1>5, <2>1, <2>2 DEF CountDown, tasks, program
<1>6. CASE FreeTask(p)
  <2>1. stack' \in [Threads -> Seq(AllFrames)] /\ Shape'
    BY <1>6, AdvanceWork DEF FreeTask, WorkPcs
  <2>2. freeTask' \in Seq(Entries)
    BY <1>6, InnermostCall, ClaimAdds DEF FreeTask
  <2> QED BY <1>6, <2>1, <2>2 DEF FreeTask, counters, program
<1>7. CASE PublishFree(p)
  <2>1. stack' \in [Threads -> Seq(AllFrames)] /\ Shape'
    BY <1>7, InnermostCall, ShapeLeaves DEF PublishFree
  <2>2. freeTask' \in Seq(Entries)
    BY <1>7, PublishKeeps DEF PublishFree
  <2> QED BY <1>7, <2>1, <2>2 DEF PublishFree, counters, program
<1> QED BY <1>1, <1>2, <1>3, <1>4, <1>5, <1>6, <1>7 DEF Working

(* The threads and the main program keep them too. *)
LEMMA OtherTypes ==
  ASSUME Types, Shape, Idle, (\E w \in Workers : Worker(w)) \/ Program
  PROVE  Types' /\ Shape'
<1> USE DEF Types
<1>0. Main \in Threads /\ Shared \in Queues /\ Threads \subseteq Queues /\ Workers \subseteq Threads
  BY DEF Threads, Queues
<1>1. ASSUME NEW w \in Workers, Worker(w) PROVE Types' /\ Shape'
  <2>1. CASE WorkerStart(w) \/ WorkerEnd(w)
    BY <2>1 DEF WorkerStart, WorkerEnd, tasks, counters, Shape
  <2>2. CASE WorkerLoop(w)
    <3>1. [at |-> "seek", id |-> 0] \in AllFrames
      BY DEF AllFrames, WorkFrames, WorkPcs
    <3>2. stack' \in [Threads -> Seq(AllFrames)] /\ Shape'
      BY <1>0, <2>2, <3>1, ShapeEnters DEF WorkerLoop
    <3> QED BY <2>2, <3>2 DEF WorkerLoop, tasks, counters, program
  <2> QED BY <1>1, <2>1, <2>2 DEF Worker
<1>2. CASE Load \/ BgfxInit \/ NoRenderer \/ Exit \/ Unload \/ Joined
  BY <1>2 DEF Load, BgfxInit, NoRenderer, Exit, Unload, Joined, tasks, counters, Shape
<1>3. CASE \E n \in Sizes, t \in Queues : AddBatch(n, t)
  <2>1. PICK n \in Sizes, t \in Queues : AddBatch(n, t)
    BY <1>3
  <2> DEFINE f == AddCall("leaf", n, t, "wait")
  <2>2. f \in AllFrames /\ f.at = "new_counter"
    BY BatchAssumption DEF AllFrames, AddFrames, AddCall, AddPcs, Works
  <2>3. stack' \in [Threads -> Seq(AllFrames)] /\ Shape'
    BY <1>0, <2>1, <2>2, ShapeEnters DEF AddBatch
  <2> QED BY <2>1, <2>3 DEF AddBatch, tasks, counters
<1>4. CASE CreateRenderer
  <2> DEFINE f == AddCall("init", 1, Shared, "spin")
  <2>1. f \in AllFrames /\ f.at = "new_counter"
    BY <1>0 DEF AllFrames, AddFrames, AddCall, AddPcs, Works
  <2>2. stack[Main] # << >> => Head(stack[Main]).at \in {"wait", "count"}
    BY <1>4 DEF CreateRenderer, Idle
  <2>3. stack' \in [Threads -> Seq(AllFrames)] /\ Shape'
    BY <1>0, <1>4, <2>1, <2>2, ShapeEnters DEF CreateRenderer
  <2> QED BY <1>4, <2>3 DEF CreateRenderer, tasks, counters
<1> QED BY <1>1, <1>2, <1>3, <1>4 DEF Program

(* Nobody but the main program makes the main thread enter a call from      *)
(* outside of one.                                                          *)
LEMMA IdleKept ==
  ASSUME Types, Shape, Idle, Next
  PROVE  Idle'
<1> USE DEF Idle
<1>0. Main \in Threads /\ Workers \subseteq Threads /\ Main \notin Workers
  BY ThreadAssumption DEF Threads
<1>1. ASSUME NEW p \in Threads, Call(p) PROVE Idle'
  <2>1. stack[p] # << >>
    BY <1>1 DEF Call, Adding, Waiting, Working, NewCounter, NoFreeCounter, GrowCounter, GetCounter,
           NewTask, NoFreeTask, GrowTask, GetTask, PushTask, PublishTask, AddReturn,
                WaitDone, WaitWork, ReleaseCounter, PublishCounter, TakeWork, NoWork, RunLeaf, RunInit,
                RunRender, Running, CountDown, FreeTask, PublishFree, In
  <2>2. phase' = phase /\ (p # Main => stack'[Main] = stack[Main])
    BY <1>0, <1>1
       DEF Types, Call, Adding, Waiting, Working, NewCounter, NoFreeCounter, GrowCounter, GetCounter,
           NewTask, NoFreeTask, GrowTask, GetTask, PushTask, PublishTask, AddReturn,
           WaitDone, WaitWork, ReleaseCounter, PublishCounter, TakeWork, NoWork, RunLeaf, RunInit,
           RunRender, CountDown, FreeTask, PublishFree, Advance, Become, Enter, Leave, program
  <2> QED BY <2>1, <2>2
<1>2. ASSUME NEW w \in Workers, Worker(w) PROVE Idle'
  BY <1>0, <1>2 DEF Types, Worker, WorkerStart, WorkerLoop, WorkerEnd, Enter, program
<1>3. CASE Program
  BY <1>3 DEF Program, Load, CreateRenderer, BgfxInit, NoRenderer, AddBatch, Exit, Unload, Joined
<1> QED BY <1>1, <1>2, <1>3 DEF Next

(* What holds of types and stacks in every state. *)
Typed == Types /\ Shape /\ Idle

(* Types and stacks before load. *)
LEMMA TypedInit == Init => Typed
<1> SUFFICES ASSUME Init PROVE Typed
  OBVIOUS
<1>1. << >> \in Seq(Entries) /\ << >> \in Seq(AllFrames)
  OBVIOUS
<1>2. Main \in Threads
  BY DEF Threads
<1>3. /\ taskPool \in [TaskIds -> [work : Works, counter : Nat]]
      /\ counterPool \in [CounterIds -> Int]
      /\ jobs \in [Queues -> Seq(Entries)]
      /\ stack \in [Threads -> Seq(AllFrames)]
      /\ worker \in [Workers -> {"start", "loop", "ended"}]
  BY <1>1 DEF Init, Works
<1>4. /\ taskPoolIdx \in Nat \ {0} /\ 1 .. taskPoolIdx - 1 \subseteq TaskIds
      /\ counterPoolIdx \in Nat \ {0} /\ 1 .. counterPoolIdx - 1 \subseteq CounterIds
  BY DEF Init
<1>5. Types
  BY <1>1, <1>3, <1>4 DEF Init, Types
<1>6. Shape /\ Idle
  BY <1>2 DEF Init, Shape, Idle
<1> QED BY <1>5, <1>6 DEF Typed

(* Every step keeps types and stacks. *)
LEMMA TypedStep == Typed /\ [Next]_vars => Typed'
<1> SUFFICES ASSUME Typed, [Next]_vars PROVE Typed'
  OBVIOUS
<1> USE DEF Typed
<1>1. CASE Next
  BY <1>1, IdleKept, AddingTypes, WaitingTypes, WorkingTypes, OtherTypes DEF Next, Call
<1>2. CASE UNCHANGED vars
  BY <1>2 DEF vars, Types, Shape, Idle
<1> QED BY <1>1, <1>2

(* The types hold always, and the calls below the innermost one of a thread *)
(* are waits that work and tasks that add a task.                           *)
THEOREM AlwaysTyped == Spec => []Typed
  BY TypedInit, TypedStep, PTL DEF Spec

---------------------------------------------------------------------------
(* What a step of a call does to the ids on its stack, for calls at any     *)
(* steps at: IdsAt and OnceAt of the stacks before and after.               *)
LEMMA IdsBecome ==
  ASSUME Types, NEW p \in Threads, stack[p] # << >>,
         NEW f \in AllFrames, Become(p, f), NEW at
  PROVE  /\ IdsAt(stack[p], at) = IdAt(Frame(p), at) \union IdsAt(Tail(stack[p]), at)
         /\ IdsAt(stack'[p], at) = IdAt(f, at) \union IdsAt(Tail(stack[p]), at)
         /\ OnceAt(stack[p], at) <=> /\ OnceAt(Tail(stack[p]), at)
                                     /\ Frame(p).at \in at => Frame(p).id \notin IdsAt(Tail(stack[p]), at)
         /\ OnceAt(stack'[p], at) <=> /\ OnceAt(Tail(stack[p]), at)
                                      /\ f.at \in at => f.id \notin IdsAt(Tail(stack[p]), at)
         /\ \A r \in Threads : r # p => stack'[r] = stack[r]
<1>1. /\ stack[p] \in Seq(AllFrames) /\ Frame(p) \in AllFrames /\ Tail(stack[p]) \in Seq(AllFrames)
      /\ stack[p] = <<Frame(p)>> \o Tail(stack[p])
  BY TopOfStack DEF Types, Frame
<1>2. /\ stack'[p] = <<f>> \o Tail(stack[p])
      /\ \A r \in Threads : r # p => stack'[r] = stack[r]
  BY Becomes DEF Types
<1>3. /\ IdsAt(<<f>> \o Tail(stack[p]), at) = IdAt(f, at) \union IdsAt(Tail(stack[p]), at)
      /\ OnceAt(<<f>> \o Tail(stack[p]), at)
            <=> /\ OnceAt(Tail(stack[p]), at)
                /\ f.at \in at => f.id \notin IdsAt(Tail(stack[p]), at)
  BY <1>1, IdsOfStack
<1>4. /\ IdsAt(<<Frame(p)>> \o Tail(stack[p]), at) = IdAt(Frame(p), at) \union IdsAt(Tail(stack[p]), at)
      /\ OnceAt(<<Frame(p)>> \o Tail(stack[p]), at)
            <=> /\ OnceAt(Tail(stack[p]), at)
                /\ Frame(p).at \in at => Frame(p).id \notin IdsAt(Tail(stack[p]), at)
  BY <1>1, IdsOfStack
<1> QED BY <1>1, <1>2, <1>3, <1>4

(* A call goes on and owns the id it owned, or owned none and owns none.    *)
LEMMA IdsGoOn ==
  ASSUME Types, NEW p \in Threads, stack[p] # << >>,
         NEW f \in AllFrames, Become(p, f), NEW at,
         f.at \in at <=> Frame(p).at \in at, f.at \in at => f.id = Frame(p).id
  PROVE  \A r \in Threads : /\ IdsAt(stack'[r], at) = IdsAt(stack[r], at)
                            /\ OnceAt(stack[r], at) => OnceAt(stack'[r], at)
<1>1. IdAt(f, at) = IdAt(Frame(p), at)
  BY DEF IdAt
<1> DEFINE t == Tail(stack[p])
<1>2. /\ IdsAt(stack[p], at) = IdAt(Frame(p), at) \union IdsAt(t, at)
      /\ IdsAt(stack'[p], at) = IdAt(f, at) \union IdsAt(t, at)
      /\ OnceAt(stack[p], at) <=> OnceAt(t, at) /\ (Frame(p).at \in at => Frame(p).id \notin IdsAt(t, at))
      /\ OnceAt(stack'[p], at) <=> OnceAt(t, at) /\ (f.at \in at => f.id \notin IdsAt(t, at))
      /\ \A r \in Threads : r # p => stack'[r] = stack[r]
  BY IdsBecome
<1> HIDE DEF t
<1>3. IdsAt(stack'[p], at) = IdsAt(stack[p], at)
  BY <1>1, <1>2
<1>4. OnceAt(stack[p], at) => OnceAt(stack'[p], at)
  BY <1>2
<1> QED BY <1>2, <1>3, <1>4

(* A call that owns nothing starts. *)
LEMMA IdsEnter ==
  ASSUME Types, NEW p \in Threads, NEW f \in AllFrames, Enter(p, f), NEW at, f.at \notin at
  PROVE  \A r \in Threads : /\ IdsAt(stack'[r], at) = IdsAt(stack[r], at)
                            /\ OnceAt(stack[r], at) => OnceAt(stack'[r], at)
<1>1. /\ stack[p] \in Seq(AllFrames) /\ stack'[p] = <<f>> \o stack[p]
      /\ \A r \in Threads : r # p => stack'[r] = stack[r]
  BY Enters DEF Types
<1>2. /\ IdsAt(<<f>> \o stack[p], at) = IdAt(f, at) \union IdsAt(stack[p], at)
      /\ OnceAt(stack[p], at) => OnceAt(<<f>> \o stack[p], at)
  BY <1>1, IdsOfStack
<1> QED BY <1>1, <1>2 DEF IdAt

(* A call that owns nothing returns. *)
LEMMA IdsLeave ==
  ASSUME Types, NEW p \in Threads, stack[p] # << >>, Leave(p), NEW at, Frame(p).at \notin at
  PROVE  \A r \in Threads : /\ IdsAt(stack'[r], at) = IdsAt(stack[r], at)
                            /\ OnceAt(stack[r], at) => OnceAt(stack'[r], at)
<1>1. /\ stack[p] \in Seq(AllFrames) /\ Frame(p) \in AllFrames /\ Tail(stack[p]) \in Seq(AllFrames)
      /\ stack[p] = <<Frame(p)>> \o Tail(stack[p])
  BY TopOfStack DEF Types, Frame
<1>2. stack'[p] = Tail(stack[p]) /\ \A r \in Threads : r # p => stack'[r] = stack[r]
  BY Leaves DEF Types
<1>3. /\ IdsAt(<<Frame(p)>> \o Tail(stack[p]), at) = IdAt(Frame(p), at) \union IdsAt(Tail(stack[p]), at)
      /\ OnceAt(<<Frame(p)>> \o Tail(stack[p]), at) => OnceAt(Tail(stack[p]), at)
  BY <1>1, IdsOfStack
<1> QED BY <1>1, <1>2, <1>3 DEF IdAt

(* A task adds another one before it goes on. *)
LEMMA IdsNest ==
  ASSUME Types, NEW p \in Threads, stack[p] # << >>,
         NEW f \in AllFrames, NEW g \in AllFrames, NEW at, f.at \notin at,
         g.at \in at <=> Frame(p).at \in at, g.id = Frame(p).id,
         stack' = [stack EXCEPT ![p] = <<f, g>> \o Tail(@)]
  PROVE  \A r \in Threads : /\ IdsAt(stack'[r], at) = IdsAt(stack[r], at)
                            /\ OnceAt(stack[r], at) => OnceAt(stack'[r], at)
<1> DEFINE t == Tail(stack[p])
           s == <<g>> \o t
<1>1. /\ stack[p] \in Seq(AllFrames) /\ Frame(p) \in AllFrames /\ t \in Seq(AllFrames)
      /\ stack[p] = <<Frame(p)>> \o t
  BY TopOfStack DEF Types, Frame
<1>2. /\ stack'[p] = <<f>> \o s /\ s \in Seq(AllFrames)
      /\ \A r \in Threads : r # p => stack'[r] = stack[r]
  BY Nests DEF Types
<1> HIDE DEF t
<1>3. IdsAt(s, at) = IdAt(g, at) \union IdsAt(t, at)
  BY <1>1, IdsOfStack
<1>4. OnceAt(s, at) <=> OnceAt(t, at) /\ (g.at \in at => g.id \notin IdsAt(t, at))
  BY <1>1, IdsOfStack
<1> HIDE DEF s
<1>5. /\ IdsAt(<<f>> \o s, at) = IdAt(f, at) \union IdsAt(s, at)
      /\ OnceAt(s, at) => OnceAt(<<f>> \o s, at)
  BY <1>2, IdsOfStack
<1>6. IdsAt(<<Frame(p)>> \o t, at) = IdAt(Frame(p), at) \union IdsAt(t, at)
  BY <1>1, IdsOfStack
<1>7. OnceAt(<<Frame(p)>> \o t, at)
         <=> OnceAt(t, at) /\ (Frame(p).at \in at => Frame(p).id \notin IdsAt(t, at))
  BY <1>1, IdsOfStack
<1>8. IdAt(g, at) = IdAt(Frame(p), at) /\ IdAt(f, at) = {}
  BY DEF IdAt
<1> QED BY <1>1, <1>2, <1>3, <1>4, <1>5, <1>6, <1>7, <1>8

---------------------------------------------------------------------------
(* The places of ids. *)

HeldPcs == {"push_task", "run", "count", "free"}
Holds(p) == IdsAt(stack[p], HeldPcs)

(* No list has an id twice, no two have one in common, and the ids they     *)
(* have are those handed out.                                               *)
Lists ==
    /\ Distinct(freeTask)
    /\ \A t \in Queues : Distinct(jobs[t])
    /\ \A p \in Threads : OnceAt(stack[p], HeldPcs)
Apart ==
    /\ \A t \in Queues, i \in Ids(freeTask) : i \notin Ids(jobs[t])
    /\ \A p \in Threads, i \in Ids(freeTask) : i \notin Holds(p)
    /\ \A t, u \in Queues : t # u => \A i \in Ids(jobs[t]) : i \notin Ids(jobs[u])
    /\ \A t \in Queues, p \in Threads : \A i \in Ids(jobs[t]) : i \notin Holds(p)
    /\ \A p, r \in Threads : p # r => \A i \in Holds(p) : i \notin Holds(r)
Everywhere ==
    \A i : i \in 1 .. taskPoolIdx - 1 <=>
              \/ i \in Ids(freeTask)
              \/ \E t \in Queues : i \in Ids(jobs[t])
              \/ \E p \in Threads : i \in Holds(p)
Places == Lists /\ Apart /\ Everywhere

(* The steps that move no id. *)
IdsSame(at) == \A r \in Threads : /\ IdsAt(stack'[r], at) = IdsAt(stack[r], at)
                                  /\ OnceAt(stack[r], at) => OnceAt(stack'[r], at)
ListsSame ==
    /\ taskPoolIdx' = taskPoolIdx
    /\ Ids(freeTask') = Ids(freeTask) /\ (Distinct(freeTask) => Distinct(freeTask'))
    /\ \A t \in Queues : Ids(jobs'[t]) = Ids(jobs[t]) /\ (Distinct(jobs[t]) => Distinct(jobs'[t]))

(* A step that holds and lists the same ids keeps every task in one place. *)
LEMMA PlacesSame ==
  ASSUME Places, IdsSame(HeldPcs), ListsSame
  PROVE  Places'
<1>1. Lists'
  BY DEF Places, Lists, IdsSame, ListsSame
<1>2. Apart'
  BY DEF Places, Apart, Holds, IdsSame, ListsSame
<1>3. Everywhere'
  <2>1. \A i : i \in 1 .. taskPoolIdx' - 1 <=> i \in 1 .. taskPoolIdx - 1
    BY DEF ListsSame
  <2>2. ASSUME NEW i
        PROVE  /\ i \in Ids(freeTask') <=> i \in Ids(freeTask)
               /\ (\E t \in Queues : i \in Ids(jobs'[t])) <=> \E t \in Queues : i \in Ids(jobs[t])
               /\ (\E p \in Threads : i \in Holds(p)') <=> \E p \in Threads : i \in Holds(p)
    BY DEF ListsSame, IdsSame, Holds
  <2> QED BY <2>1, <2>2 DEF Places, Everywhere
<1> QED BY <1>1, <1>2, <1>3 DEF Places

(* An id is allocated: the oldest free one, or else the next of the pool.   *)
LEMMA PlacesNewTask ==
  ASSUME Types, Places, NEW p \in Threads, NewTask(p) \/ GrowTask(p)
  PROVE  Places'
<1> DEFINE reuse == In(p, "new_task")
           i == TaskOf(p)
           f == [Frame(p) EXCEPT !.at = "push_task", !.id = i]
<1>1. /\ stack[p] # << >> /\ Frame(p) \in AddFrames /\ Frame(p).at \in {"new_task", "grow_task"}
      /\ i \in TaskIds /\ Become(p, f)
  BY GotTask
<1>2. /\ reuse => /\ CanPop(freeTask) /\ freeTask' = Tail(freeTask)
                  /\ taskPoolIdx' = taskPoolIdx /\ i = Head(freeTask).id
      /\ ~ reuse => freeTask' = freeTask /\ taskPoolIdx' = taskPoolIdx + 1 /\ i = taskPoolIdx
      /\ jobs' = jobs
  BY GotTask DEF TaskOf
<1>3. /\ Distinct(freeTask') /\ Ids(freeTask') = Ids(freeTask) \ {i}
      /\ reuse => i \in Ids(freeTask)
      /\ ~ reuse => i \notin 1 .. taskPoolIdx - 1
      /\ \A j : j \in 1 .. taskPoolIdx' - 1 <=> j \in 1 .. taskPoolIdx - 1 \/ j = i
  <2>1. CASE reuse
    <3>1. /\ Distinct(freeTask') /\ Ids(freeTask') = Ids(freeTask) \ {i}
          /\ i \in Ids(freeTask)
      BY <1>2, <2>1, PopTakes DEF Types, CanPop, Places, Lists
    <3>2. i \in 1 .. taskPoolIdx - 1
      BY <3>1 DEF Places, Everywhere
    <3> HIDE DEF i
    <3> QED BY <1>2, <2>1, <3>1, <3>2
  <2>2. CASE ~ reuse
    <3>1. freeTask' = freeTask /\ i = taskPoolIdx /\ taskPoolIdx' = i + 1 /\ taskPoolIdx \in Nat \ {0}
      BY <1>2, <2>2 DEF Types
    <3>2. i \notin 1 .. taskPoolIdx - 1
      BY <3>1
    <3>3. i \notin Ids(freeTask)
      BY <3>2 DEF Places, Everywhere
    <3>4. \A j : j \in 1 .. taskPoolIdx' - 1 <=> j \in 1 .. taskPoolIdx - 1 \/ j = i
      BY <3>1
    <3> QED BY <2>2, <3>1, <3>2, <3>3, <3>4 DEF Places, Lists
  <2> QED BY <2>1, <2>2
<1> HIDE DEF i, reuse
<1>4. f \in AllFrames /\ f.at = "push_task" /\ f.id = i
  <2>1. i \in Nat
    BY <1>1 DEF TaskIds
  <2> QED BY <1>1, <2>1, CallTypes DEF AddFrames, AddPcs
<1> HIDE DEF f
<1>5. \A t \in Queues : i \notin Ids(jobs[t])
  BY <1>3 DEF Places, Apart, Everywhere
<1>6. \A r \in Threads : i \notin Holds(r)
  BY <1>3 DEF Places, Apart, Everywhere
<1>7. /\ Holds(p)' = Holds(p) \union {i} /\ OnceAt(stack'[p], HeldPcs)
      /\ \A r \in Threads : r # p => stack'[r] = stack[r]
  <2>1. IdAt(Frame(p), HeldPcs) = {} /\ IdAt(f, HeldPcs) = {i} /\ f.at \in HeldPcs /\ Frame(p).at \notin HeldPcs
    BY <1>1, <1>4 DEF IdAt, HeldPcs
  <2>2. /\ IdsAt(stack[p], HeldPcs) = IdAt(Frame(p), HeldPcs) \union IdsAt(Tail(stack[p]), HeldPcs)
        /\ IdsAt(stack'[p], HeldPcs) = IdAt(f, HeldPcs) \union IdsAt(Tail(stack[p]), HeldPcs)
        /\ OnceAt(stack[p], HeldPcs) => OnceAt(Tail(stack[p]), HeldPcs)
        /\ OnceAt(stack'[p], HeldPcs) <=> /\ OnceAt(Tail(stack[p]), HeldPcs)
                                          /\ f.at \in HeldPcs => f.id \notin IdsAt(Tail(stack[p]), HeldPcs)
        /\ \A r \in Threads : r # p => stack'[r] = stack[r]
    BY <1>1, <1>4, IdsBecome
  <2> QED BY <1>4, <1>6, <2>1, <2>2 DEF Holds, Places, Lists
<1>8. Lists'
  BY <1>2, <1>3, <1>7 DEF Places, Lists
<1>9. Apart'
  <2>1. \A r \in Threads : \A j : j \in Holds(r)' <=> j \in Holds(r) \/ (r = p /\ j = i)
    BY <1>7 DEF Holds
  <2>2. Ids(freeTask)' = Ids(freeTask) \ {i} /\ \A t \in Queues : Ids(jobs[t])' = Ids(jobs[t])
    BY <1>2, <1>3
  <2> USE DEF Places, Apart
  <2>3. /\ \A t \in Queues, j \in Ids(freeTask') : j \notin Ids(jobs'[t])
        /\ \A r \in Threads, j \in Ids(freeTask') : j \notin Holds(r)'
    BY <2>1, <2>2
  <2>4. \A t, u \in Queues : t # u => \A j \in Ids(jobs'[t]) : j \notin Ids(jobs'[u])
    BY <2>2
  <2>5. \A t \in Queues, r \in Threads : \A j \in Ids(jobs'[t]) : j \notin Holds(r)'
    BY <1>5, <2>1, <2>2
  <2>6. \A v, r \in Threads : v # r => \A j \in Holds(v)' : j \notin Holds(r)'
    BY <1>6, <2>1
  <2> QED BY <2>3, <2>4, <2>5, <2>6
<1>10. Everywhere'
  BY <1>2, <1>3, <1>7 DEF Places, Everywhere, Holds
<1> QED BY <1>8, <1>9, <1>10 DEF Places

(* An id that a call owns goes to the end of a queue or of the free list.   *)
LEMMA CallOwns ==
  ASSUME Types, Places, NEW p \in Threads, NEW at \in HeldPcs, In(p, at),
         NEW f \in AllFrames, Become(p, f), f.at \notin HeldPcs
  PROVE  LET i == Frame(p).id
         IN  /\ i \in Holds(p) /\ Holds(p)' = Holds(p) \ {i} /\ OnceAt(stack'[p], HeldPcs)
             /\ \A r \in Threads : r # p => stack'[r] = stack[r] /\ i \notin Holds(r)
             /\ \A t \in Queues : i \notin Ids(jobs[t])
             /\ i \notin Ids(freeTask) /\ i \in 1 .. taskPoolIdx - 1
<1> DEFINE i == Frame(p).id
<1>1. stack[p] # << >> /\ Frame(p).at \in HeldPcs
  BY DEF In, Frame
<1>2. IdAt(Frame(p), HeldPcs) = {i} /\ IdAt(f, HeldPcs) = {}
  BY <1>1 DEF IdAt
<1>3. /\ IdsAt(stack[p], HeldPcs) = IdAt(Frame(p), HeldPcs) \union IdsAt(Tail(stack[p]), HeldPcs)
      /\ IdsAt(stack'[p], HeldPcs) = IdAt(f, HeldPcs) \union IdsAt(Tail(stack[p]), HeldPcs)
      /\ OnceAt(stack[p], HeldPcs) <=> /\ OnceAt(Tail(stack[p]), HeldPcs)
                                       /\ Frame(p).at \in HeldPcs => i \notin IdsAt(Tail(stack[p]), HeldPcs)
      /\ OnceAt(stack'[p], HeldPcs) <=> /\ OnceAt(Tail(stack[p]), HeldPcs)
                                        /\ f.at \in HeldPcs => f.id \notin IdsAt(Tail(stack[p]), HeldPcs)
      /\ \A r \in Threads : r # p => stack'[r] = stack[r]
  BY <1>1, IdsBecome
<1> HIDE DEF i
<1>4. i \in Holds(p) /\ Holds(p)' = Holds(p) \ {i} /\ OnceAt(stack'[p], HeldPcs)
  BY <1>1, <1>2, <1>3 DEF Holds, Places, Lists
<1>5. /\ \A r \in Threads : r # p => i \notin Holds(r)
      /\ \A t \in Queues : i \notin Ids(jobs[t])
      /\ i \notin Ids(freeTask)
  BY <1>4 DEF Places, Apart
<1>6. i \in 1 .. taskPoolIdx - 1
  BY <1>4 DEF Places, Everywhere
<1> QED BY <1>3, <1>4, <1>5, <1>6 DEF i

(* A push hands an id from the call of add to a queue. *)
LEMMA PlacesPushTask ==
  ASSUME Types, Shape, Places, NEW p \in Threads, PushTask(p)
  PROVE  Places'
<1> DEFINE i == Frame(p).id
           q == Frame(p).to
           f == [Frame(p) EXCEPT !.at = "publish_task", !.left = @ - 1]
<1>1. /\ stack[p] # << >> /\ Frame(p) \in AddFrames /\ Frame(p).left > 0 /\ i \in Nat
      /\ Become(p, f) /\ In(p, "push_task")
  BY InnermostCall DEF PushTask, AddPcs, Shape, In
<1>2. f \in AllFrames /\ f.at \notin HeldPcs
  <2>1. Frame(p).left - 1 \in Nat
    BY <1>1 DEF AddFrames
  <2>2. f \in AddFrames /\ f.at = "publish_task"
    BY <1>1, <2>1 DEF AddFrames, AddPcs
  <2> QED BY <2>2 DEF AllFrames, HeldPcs
<1>3. /\ q \in Queues /\ freeTask' = freeTask /\ taskPoolIdx' = taskPoolIdx
      /\ jobs' = [jobs EXCEPT ![q] = Claim(@, i)]
  BY <1>1 DEF PushTask, AddFrames
<1> HIDE DEF f
<1>4. /\ i \in Holds(p) /\ Holds(p)' = Holds(p) \ {i} /\ OnceAt(stack'[p], HeldPcs)
      /\ \A r \in Threads : r # p => stack'[r] = stack[r] /\ i \notin Holds(r)
      /\ \A t \in Queues : i \notin Ids(jobs[t])
      /\ i \notin Ids(freeTask) /\ i \in 1 .. taskPoolIdx - 1
  BY <1>1, <1>2, CallOwns DEF HeldPcs
<1> HIDE DEF i, q
<1>5. /\ Ids(jobs'[q]) = Ids(jobs[q]) \union {i} /\ Distinct(jobs'[q])
      /\ \A t \in Queues : t # q => jobs'[t] = jobs[t]
  BY <1>1, <1>3, <1>4, ClaimAdds DEF Types, Places, Lists
<1>6. \A r \in Threads : \A j : j \in Holds(r)' <=> j \in Holds(r) /\ (r # p \/ j # i)
  BY <1>4 DEF Holds
<1>7. \A t \in Queues : \A j : j \in Ids(jobs'[t]) <=> j \in Ids(jobs[t]) \/ (t = q /\ j = i)
  BY <1>5
<1>8. Lists'
  BY <1>3, <1>4, <1>5 DEF Places, Lists
<1>9. Apart'
  <2> USE DEF Places, Apart
  <2>1. /\ \A t \in Queues, j \in Ids(freeTask') : j \notin Ids(jobs'[t])
        /\ \A r \in Threads, j \in Ids(freeTask') : j \notin Holds(r)'
    BY <1>3, <1>4, <1>6, <1>7
  <2>2. \A t, u \in Queues : t # u => \A j \in Ids(jobs'[t]) : j \notin Ids(jobs'[u])
    BY <1>4, <1>7
  <2>3. \A t \in Queues, r \in Threads : \A j \in Ids(jobs'[t]) : j \notin Holds(r)'
    BY <1>4, <1>6, <1>7
  <2>4. \A v, r \in Threads : v # r => \A j \in Holds(v)' : j \notin Holds(r)'
    BY <1>6
  <2> QED BY <2>1, <2>2, <2>3, <2>4
<1>10. Everywhere'
  BY <1>3, <1>4, <1>6, <1>7 DEF Places, Everywhere
<1> QED BY <1>8, <1>9, <1>10 DEF Places

(* A free hands an id from the call of do_work to the free list. *)
LEMMA PlacesFreeTask ==
  ASSUME Types, Places, NEW p \in Threads, FreeTask(p)
  PROVE  Places'
<1> DEFINE i == Frame(p).id
           f == [Frame(p) EXCEPT !.at = "publish_free"]
<1>1. /\ stack[p] # << >> /\ Frame(p) \in WorkFrames /\ i \in Nat
      /\ Become(p, f) /\ In(p, "free")
  BY InnermostCall DEF FreeTask, WorkPcs, Advance
<1>2. f \in AllFrames /\ f.at \notin HeldPcs
  BY <1>1 DEF AllFrames, WorkFrames, WorkPcs, HeldPcs
<1>3. freeTask' = Claim(freeTask, i) /\ taskPoolIdx' = taskPoolIdx /\ jobs' = jobs
  BY DEF FreeTask
<1> HIDE DEF f
<1>4. /\ i \in Holds(p) /\ Holds(p)' = Holds(p) \ {i} /\ OnceAt(stack'[p], HeldPcs)
      /\ \A r \in Threads : r # p => stack'[r] = stack[r] /\ i \notin Holds(r)
      /\ \A t \in Queues : i \notin Ids(jobs[t])
      /\ i \notin Ids(freeTask) /\ i \in 1 .. taskPoolIdx - 1
  BY <1>1, <1>2, CallOwns DEF HeldPcs
<1> HIDE DEF i
<1>5. Ids(freeTask') = Ids(freeTask) \union {i} /\ Distinct(freeTask')
  BY <1>1, <1>3, <1>4, ClaimAdds DEF Types, Places, Lists
<1>6. \A r \in Threads : \A j : j \in Holds(r)' <=> j \in Holds(r) /\ (r # p \/ j # i)
  BY <1>4 DEF Holds
<1>7. Lists'
  BY <1>3, <1>4, <1>5 DEF Places, Lists
<1>8. Apart'
  <2> USE DEF Places, Apart
  <2>1. \A t \in Queues : Ids(jobs'[t]) = Ids(jobs[t])
    BY <1>3
  <2>2. \A t \in Queues, j \in Ids(freeTask') : j \notin Ids(jobs'[t])
    BY <1>4, <1>5, <2>1
  <2>3. \A r \in Threads, j \in Ids(freeTask') : j \notin Holds(r)'
    BY <1>4, <1>5, <1>6
  <2>4. \A t \in Queues, r \in Threads : \A j \in Ids(jobs'[t]) : j \notin Holds(r)'
    BY <1>6, <2>1
  <2>5. \A v, r \in Threads : v # r => \A j \in Holds(v)' : j \notin Holds(r)'
    BY <1>6
  <2> QED BY <2>1, <2>2, <2>3, <2>4, <2>5
<1>9. Everywhere'
  BY <1>3, <1>4, <1>5, <1>6 DEF Places, Everywhere
<1> QED BY <1>7, <1>8, <1>9 DEF Places

(* A thread takes the oldest id of a queue. *)
LEMMA PlacesTakeWork ==
  ASSUME Types, Places, NEW p \in Threads, TakeWork(p)
  PROVE  Places'
<1>0. p \in Queues /\ Shared \in Queues
  BY DEF Queues
<1>1. PICK q \in {p, Shared} : /\ CanPop(jobs[q])
                              /\ jobs' = [jobs EXCEPT ![q] = Tail(@)]
                              /\ Become(p, [at |-> "run", id |-> Head(jobs[q]).id])
  BY DEF TakeWork
<1> DEFINE i == Head(jobs[q]).id
           f == [at |-> "run", id |-> i]
<1>2. /\ q \in Queues /\ i \in Nat /\ i \in Ids(jobs[q])
      /\ Ids(jobs'[q]) = Ids(jobs[q]) \ {i} /\ Distinct(jobs'[q])
      /\ \A t \in Queues : t # q => jobs'[t] = jobs[t]
  BY <1>0, <1>1, PopTakes DEF Types, CanPop, Places, Lists, Entries
<1>3. stack[p] # << >> /\ Frame(p).at = "seek"
  BY DEF TakeWork, In, Frame
<1>4. Become(p, f) /\ freeTask' = freeTask /\ taskPoolIdx' = taskPoolIdx
  BY <1>1 DEF TakeWork, tasks
<1> HIDE DEF i
<1>5. f \in AllFrames /\ f.at = "run" /\ f.id = i
  BY <1>2 DEF AllFrames, WorkFrames, WorkPcs
<1> HIDE DEF f
<1>6. /\ \A r \in Threads : i \notin Holds(r)
      /\ \A t \in Queues : t # q => i \notin Ids(jobs[t])
      /\ i \notin Ids(freeTask) /\ i \in 1 .. taskPoolIdx - 1
  BY <1>2 DEF Places, Apart, Everywhere
<1>7. /\ Holds(p)' = Holds(p) \union {i} /\ OnceAt(stack'[p], HeldPcs)
      /\ \A r \in Threads : r # p => stack'[r] = stack[r]
  <2>1. IdAt(Frame(p), HeldPcs) = {} /\ IdAt(f, HeldPcs) = {i} /\ f.at \in HeldPcs /\ Frame(p).at \notin HeldPcs
    BY <1>3, <1>5 DEF IdAt, HeldPcs
  <2>2. /\ IdsAt(stack[p], HeldPcs) = IdAt(Frame(p), HeldPcs) \union IdsAt(Tail(stack[p]), HeldPcs)
        /\ IdsAt(stack'[p], HeldPcs) = IdAt(f, HeldPcs) \union IdsAt(Tail(stack[p]), HeldPcs)
        /\ OnceAt(stack[p], HeldPcs) => OnceAt(Tail(stack[p]), HeldPcs)
        /\ OnceAt(stack'[p], HeldPcs) <=> /\ OnceAt(Tail(stack[p]), HeldPcs)
                                          /\ f.at \in HeldPcs => f.id \notin IdsAt(Tail(stack[p]), HeldPcs)
        /\ \A r \in Threads : r # p => stack'[r] = stack[r]
    BY <1>3, <1>4, <1>5, IdsBecome
  <2> QED BY <1>5, <1>6, <2>1, <2>2 DEF Holds, Places, Lists
<1>8. \A r \in Threads : \A j : j \in Holds(r)' <=> j \in Holds(r) \/ (r = p /\ j = i)
  BY <1>7 DEF Holds
<1>9. \A t \in Queues : \A j : j \in Ids(jobs'[t]) <=> j \in Ids(jobs[t]) /\ (t # q \/ j # i)
  BY <1>2
<1>10. Lists'
  BY <1>2, <1>4, <1>7 DEF Places, Lists
<1>11. Apart'
  <2> USE DEF Places, Apart
  <2>1. Ids(freeTask') = Ids(freeTask)
    BY <1>4
  <2>2. \A t \in Queues, j \in Ids(freeTask') : j \notin Ids(jobs'[t])
    BY <1>9, <2>1
  <2>3. \A r \in Threads, j \in Ids(freeTask') : j \notin Holds(r)'
    BY <1>6, <1>8, <2>1
  <2>4. \A t, u \in Queues : t # u => \A j \in Ids(jobs'[t]) : j \notin Ids(jobs'[u])
    BY <1>9
  <2>5. \A t \in Queues, r \in Threads : \A j \in Ids(jobs'[t]) : j \notin Holds(r)'
    BY <1>6, <1>8, <1>9
  <2>6. \A v, r \in Threads : v # r => \A j \in Holds(v)' : j \notin Holds(r)'
    BY <1>6, <1>8
  <2> QED BY <2>2, <2>3, <2>4, <2>5, <2>6
<1>12. Everywhere'
  BY <1>2, <1>4, <1>6, <1>8, <1>9 DEF Places, Everywhere
<1> QED BY <1>10, <1>11, <1>12 DEF Places

(* The steps of calls that neither allocate, push, pop nor free a task.     *)
LEMMA QuietAdding ==
  ASSUME Types, NEW p \in Threads, NEW at \in SUBSET HeldPcs,
         \/ NewCounter(p) \/ GrowCounter(p) \/ NoFreeCounter(p) \/ NoFreeTask(p)
         \/ PublishTask(p) \/ AddReturn(p) \/ Waiting(p)
  PROVE  IdsSame(at)
<1>0. at \intersect (AddPcs \ {"push_task"}) = {} /\ "seek" \notin at
  BY DEF HeldPcs, AddPcs
<1>1. ASSUME NEW l \in AddPcs \ {"push_task"}, NEW m \in AddPcs \ {"push_task"}, In(p, l), Advance(p, m)
      PROVE  IdsSame(at)
  <2> DEFINE f == [Frame(p) EXCEPT !.at = m]
  <2>1. stack[p] # << >> /\ Frame(p) \in AddFrames /\ Frame(p).at = l
    BY <1>1, InnermostCall
  <2>2. f \in AllFrames /\ f.at = m /\ Become(p, f)
    BY <1>1, <2>1, CallTypes DEF AddFrames, Advance
  <2> HIDE DEF f
  <2> QED BY <1>0, <2>1, <2>2, IdsGoOn DEF IdsSame
<1>2. ASSUME NEW l \in AddPcs \ {"push_task"}, In(p, l), Leave(p) PROVE IdsSame(at)
  <2>1. stack[p] # << >> /\ Frame(p).at \notin at
    BY <1>0, <1>2 DEF In, Frame
  <2> QED BY <1>2, <2>1, IdsLeave DEF IdsSame
<1>3. CASE NewCounter(p) \/ GrowCounter(p)
  <2> DEFINE c == CounterOfNew(p)
             f == [Frame(p) EXCEPT !.at = "new_task", !.counter = c]
  <2>1. /\ stack[p] # << >> /\ Frame(p) \in AddFrames /\ Frame(p).at \in {"new_counter", "grow_counter"}
        /\ c \in Nat /\ Become(p, f)
    BY <1>3, GotCounter
  <2> HIDE DEF c
  <2>2. f \in AllFrames /\ f.at = "new_task"
    BY <2>1, CallTypes DEF AddFrames, AddPcs
  <2>3. f.at \notin at /\ Frame(p).at \notin at
    BY <1>0, <2>1, <2>2 DEF AddPcs
  <2> HIDE DEF f
  <2> QED BY <2>1, <2>2, <2>3, IdsGoOn DEF IdsSame
<1>4. CASE PublishTask(p)
  <2> DEFINE f == [Frame(p) EXCEPT !.at = "new_task", !.id = 0]
  <2>1. /\ stack[p] # << >> /\ Frame(p) \in AddFrames /\ Frame(p).at = "publish_task"
        /\ Become(p, f)
    BY <1>4, InnermostCall DEF PublishTask, AddPcs
  <2>2. f \in AllFrames /\ f.at = "new_task"
    BY <2>1, CallTypes DEF AddFrames, AddPcs
  <2>3. f.at \notin at /\ Frame(p).at \notin at
    BY <1>0, <2>1, <2>2 DEF AddPcs
  <2> HIDE DEF f
  <2> QED BY <2>1, <2>2, <2>3, IdsGoOn DEF IdsSame
<1>5. CASE AddReturn(p)
  <2>1. "new_task" \in AddPcs \ {"push_task"}
    BY DEF AddPcs
  <2>2. Frame(p).wait = "none" \/ Frame(p).wait \in AddPcs \ {"push_task"}
    BY <1>5, InnermostCall DEF AddReturn, AddPcs, AddFrames
  <2> QED BY <1>1, <1>2, <1>5, <2>1, <2>2 DEF AddReturn
<1>6. CASE WaitDone(p)
  BY <1>1, <1>6 DEF WaitDone, AddPcs
<1>7. CASE WaitWork(p)
  <2>1. [at |-> "seek", id |-> 0] \in AllFrames
    BY DEF AllFrames, WorkFrames, WorkPcs
  <2> QED BY <1>0, <1>7, <2>1, IdsEnter DEF WaitWork, IdsSame
<1>8. CASE ReleaseCounter(p)
  BY <1>1, <1>8 DEF ReleaseCounter, AddPcs
<1>9. CASE PublishCounter(p)
  BY <1>2, <1>9 DEF PublishCounter, AddPcs
<1>10. CASE NoFreeCounter(p) \/ NoFreeTask(p)
  BY <1>1, <1>10, GotNothing
<1> QED BY <1>3, <1>4, <1>5, <1>6, <1>7, <1>8, <1>9, <1>10 DEF Waiting

(* The steps of do_work that neither pop nor free hold the same ids. *)
LEMMA QuietWorking ==
  ASSUME Types, NEW p \in Threads, NEW at \in SUBSET HeldPcs,
         \/ NoWork(p) \/ PublishFree(p)
         \/ (RunLeaf(p) \/ RunInit(p) \/ RunRender(p)) /\ ("run" \in at <=> "count" \in at)
         \/ CountDown(p) /\ ("count" \in at <=> "free" \in at)
  PROVE  IdsSame(at)
<1>1. ASSUME NEW l \in WorkPcs, NEW m \in WorkPcs, In(p, l), Advance(p, m), l \in at <=> m \in at
      PROVE  IdsSame(at)
  <2> DEFINE f == [Frame(p) EXCEPT !.at = m]
  <2>1. stack[p] # << >> /\ Frame(p) \in WorkFrames /\ Frame(p).at = l
    BY <1>1, InnermostCall
  <2>2. f \in AllFrames /\ f.at = m /\ f.id = Frame(p).id /\ Become(p, f)
    BY <1>1, <2>1, CallTypes DEF WorkFrames, Advance
  <2> HIDE DEF f
  <2> QED BY <1>1, <2>1, <2>2, IdsGoOn DEF IdsSame
<1>2. ASSUME NEW l, l \notin at, In(p, l), Leave(p) PROVE IdsSame(at)
  <2>1. stack[p] # << >> /\ Frame(p).at \notin at
    BY <1>2 DEF In, Frame
  <2> QED BY <1>2, <2>1, IdsLeave DEF IdsSame
<1>3. CASE NoWork(p) \/ PublishFree(p)
  BY <1>2, <1>3 DEF NoWork, PublishFree, HeldPcs
<1>4. CASE (RunLeaf(p) \/ RunRender(p)) /\ ("run" \in at <=> "count" \in at)
  BY <1>1, <1>4 DEF RunLeaf, RunRender, Running, WorkPcs
<1>5. CASE RunInit(p) /\ ("run" \in at <=> "count" \in at)
  <2> DEFINE f == AddCall("render", 1, Shared, "none")
             g == [Frame(p) EXCEPT !.at = "count"]
  <2>1. stack[p] # << >> /\ Frame(p) \in WorkFrames /\ Frame(p) = stack[p][1] /\ Frame(p).at = "run"
    BY <1>5, InnermostCall DEF RunInit, Running, WorkPcs
  <2>2. f \in AllFrames /\ f.at = "new_counter"
    BY DEF AllFrames, AddFrames, AddCall, AddPcs, Works, Queues
  <2>3. g \in AllFrames /\ g.at = "count" /\ g.id = Frame(p).id
    BY <2>1 DEF AllFrames, WorkFrames, WorkPcs
  <2>4. stack' = [stack EXCEPT ![p] = <<f, g>> \o Tail(@)]
    BY <1>5, <2>1 DEF RunInit
  <2>5. f.at \notin at /\ (g.at \in at <=> Frame(p).at \in at)
    BY <1>5, <2>1, <2>2, <2>3 DEF HeldPcs
  <2> HIDE DEF f, g
  <2> QED BY <2>1, <2>2, <2>3, <2>4, <2>5, IdsNest DEF IdsSame
<1>6. CASE CountDown(p) /\ ("count" \in at <=> "free" \in at)
  BY <1>1, <1>6 DEF CountDown, WorkPcs
<1> QED BY <1>3, <1>4, <1>5, <1>6

(* The steps of workers and of the main program. *)
LEMMA QuietOthers ==
  ASSUME Types, NEW at \in SUBSET HeldPcs, (\E w \in Workers : Worker(w)) \/ Program
  PROVE  IdsSame(at)
<1>0. Main \in Threads /\ Shared \in Queues /\ Threads \subseteq Queues /\ Workers \subseteq Threads
  BY DEF Threads, Queues
<1>1. ASSUME NEW w \in Workers, Worker(w) PROVE IdsSame(at)
  <2>1. [at |-> "seek", id |-> 0] \in AllFrames /\ "seek" \notin at
    BY DEF AllFrames, WorkFrames, WorkPcs, HeldPcs
  <2>2. CASE WorkerLoop(w)
    BY <1>0, <2>1, <2>2, IdsEnter DEF WorkerLoop, IdsSame
  <2> QED BY <1>1, <2>2 DEF Worker, WorkerStart, WorkerEnd, IdsSame
<1>2. ASSUME NEW f \in AllFrames, f.at = "new_counter", Enter(Main, f) PROVE IdsSame(at)
  <2>1. f.at \notin at
    BY <1>2 DEF HeldPcs
  <2> QED BY <1>0, <1>2, <2>1, IdsEnter DEF IdsSame
<1>3. ASSUME NEW n \in Sizes, NEW t \in Queues, AddBatch(n, t) PROVE IdsSame(at)
  <2>1. AddCall("leaf", n, t, "wait") \in AllFrames /\ AddCall("leaf", n, t, "wait").at = "new_counter"
    BY BatchAssumption DEF AllFrames, AddFrames, AddCall, AddPcs, Works
  <2> QED BY <1>2, <1>3, <2>1 DEF AddBatch
<1>4. CASE CreateRenderer
  <2>1. AddCall("init", 1, Shared, "spin") \in AllFrames /\ AddCall("init", 1, Shared, "spin").at = "new_counter"
    BY <1>0 DEF AllFrames, AddFrames, AddCall, AddPcs, Works
  <2> QED BY <1>2, <1>4, <2>1 DEF CreateRenderer
<1>5. CASE Load \/ BgfxInit \/ NoRenderer \/ Exit \/ Unload \/ Joined
  BY <1>5 DEF Load, BgfxInit, NoRenderer, Exit, Unload, Joined, IdsSame
<1> QED BY <1>1, <1>3, <1>4, <1>5 DEF Program

(* No id is in use before load. *)
LEMMA PlacesInit == Init => Places
<1> SUFFICES ASSUME Init PROVE Places
  OBVIOUS
<1>1. Ids(freeTask) = {} /\ \A t \in Queues : Ids(jobs[t]) = {}
  BY DEF Init, Ids
<1>2. \A p \in Threads : Holds(p) = {}
  BY DEF Init, Holds, IdsAt
<1>3. Lists
  BY DEF Init, Lists, Distinct, OnceAt
<1>4. \A i : i \notin 1 .. taskPoolIdx - 1
  BY DEF Init
<1> QED BY <1>1, <1>2, <1>3, <1>4 DEF Places, Apart, Everywhere

(* Every step leaves each id in one place. *)
LEMMA PlacesStep ==
  ASSUME Typed, Places, Next
  PROVE  Places'
<1> USE DEF Typed
<1>0. HeldPcs \in SUBSET HeldPcs /\ {"run", "count", "free"} \subseteq HeldPcs
  BY DEF HeldPcs
<1>1. ASSUME NEW p \in Threads, Adding(p) PROVE Places'
  <2>1. CASE NewTask(p) \/ GrowTask(p)
    BY <2>1, PlacesNewTask
  <2>2. CASE PushTask(p)
    BY <2>2, PlacesPushTask
  <2>3. CASE NewCounter(p) \/ GrowCounter(p) \/ NoFreeCounter(p) \/ NoFreeTask(p) \/ AddReturn(p)
    <3>1. IdsSame(HeldPcs)
      BY <1>0, <2>3, QuietAdding
    <3>2. ListsSame
      BY <2>3 DEF NewCounter, GrowCounter, GetCounter, NoFreeCounter, NoFreeTask, AddReturn, tasks, ListsSame
    <3> QED BY <3>1, <3>2, PlacesSame
  <2>4. CASE PublishTask(p)
    <3>1. IdsSame(HeldPcs)
      BY <1>0, <2>4, QuietAdding
    <3>2. Frame(p).to \in Queues
      BY <2>4, InnermostCall DEF PublishTask, AddPcs, AddFrames
    <3>3. ListsSame
      BY <2>4, <3>2, PublishKeeps DEF PublishTask, tasks, ListsSame, Types
    <3> QED BY <3>1, <3>3, PlacesSame
  <2> QED BY <1>1, <2>1, <2>2, <2>3, <2>4 DEF Adding
<1>2. ASSUME NEW p \in Threads, Waiting(p) PROVE Places'
  <2>1. IdsSame(HeldPcs)
    BY <1>0, <1>2, QuietAdding
  <2>2. ListsSame
    BY <1>2 DEF Waiting, WaitDone, WaitWork, ReleaseCounter, PublishCounter, tasks, ListsSame
  <2> QED BY <2>1, <2>2, PlacesSame
<1>3. ASSUME NEW p \in Threads, Working(p) PROVE Places'
  <2>1. CASE TakeWork(p)
    BY <2>1, PlacesTakeWork
  <2>2. CASE FreeTask(p)
    BY <2>2, PlacesFreeTask
  <2>3. CASE NoWork(p) \/ RunLeaf(p) \/ RunInit(p) \/ RunRender(p) \/ CountDown(p)
    <3>1. IdsSame(HeldPcs)
      BY <1>0, <2>3, QuietWorking DEF HeldPcs
    <3>2. ListsSame
      BY <2>3 DEF NoWork, RunLeaf, RunInit, RunRender, CountDown, tasks, ListsSame
    <3> QED BY <3>1, <3>2, PlacesSame
  <2>4. CASE PublishFree(p)
    <3>1. IdsSame(HeldPcs)
      BY <1>0, <2>4, QuietWorking
    <3>2. ListsSame
      BY <2>4, PublishKeeps DEF PublishFree, ListsSame, Types
    <3> QED BY <3>1, <3>2, PlacesSame
  <2> QED BY <1>3, <2>1, <2>2, <2>3, <2>4 DEF Working
<1>4. ASSUME (\E w \in Workers : Worker(w)) \/ Program PROVE Places'
  <2>1. IdsSame(HeldPcs)
    BY <1>0, <1>4, QuietOthers
  <2>2. ListsSame
    BY <1>4 DEF Worker, WorkerStart, WorkerLoop, WorkerEnd, Program, Load, CreateRenderer, BgfxInit,
                NoRenderer, AddBatch, Exit, Unload, Joined, tasks, ListsSame
  <2> QED BY <2>1, <2>2, PlacesSame
<1> QED BY <1>1, <1>2, <1>3, <1>4 DEF Next, Call

(* Places says what TaskPlaces says. *)
LEMMA PlacesMean ==
  ASSUME Typed, Places
  PROVE  TaskPlaces
<1> USE DEF Places
<1> DEFINE places == {<<"free", freeTask>>} \union {<<t, jobs[t]>> : t \in Queues}
           queued == UNION {Ids(pl[2]) : pl \in places}
           held == UNION {Held(p) : p \in Threads}
<1>1. \A p \in Threads : Held(p) = Holds(p)
  <2> SUFFICES ASSUME NEW p \in Threads PROVE Held(p) = Holds(p)
    OBVIOUS
  <2>1. Frames(p) = {stack[p][k] : k \in DOMAIN stack[p]}
    BY DEF Frames
  <2> QED BY <2>1 DEF Held, Holds, IdsAt, HeldPcs
<1>2. queued = Ids(freeTask) \union UNION {Ids(jobs[t]) : t \in Queues}
  <2>1. <<"free", freeTask>> \in places /\ \A t \in Queues : <<t, jobs[t]>> \in places
    OBVIOUS
  <2>2. \A pl \in places : pl = <<"free", freeTask>> \/ \E t \in Queues : pl = <<t, jobs[t]>>
    OBVIOUS
  <2> HIDE DEF places
  <2>3. ASSUME NEW i \in queued PROVE i \in Ids(freeTask) \/ \E t \in Queues : i \in Ids(jobs[t])
    BY <2>2
  <2>4. ASSUME NEW i \in Ids(freeTask) PROVE i \in queued
    <3>1. <<"free", freeTask>>[2] = freeTask
      OBVIOUS
    <3> QED BY <2>1, <3>1
  <2>5. ASSUME NEW t \in Queues, NEW i \in Ids(jobs[t]) PROVE i \in queued
    <3>1. <<t, jobs[t]>>[2] = jobs[t]
      OBVIOUS
    <3> QED BY <2>1, <3>1
  <2> QED BY <2>3, <2>4, <2>5
<1>3. \A i : /\ i \in queued <=> i \in Ids(freeTask) \/ \E t \in Queues : i \in Ids(jobs[t])
             /\ i \in held <=> \E p \in Threads : i \in Holds(p)
  BY <1>1, <1>2
<1> HIDE DEF queued, held
<1>4. queued \union held = 1 .. taskPoolIdx - 1
  BY <1>3 DEF Everywhere
<1>5. queued \intersect held = {}
  BY <1>3 DEF Apart
<1>6. \A pl \in places : Distinct(pl[2])
  BY DEF Lists
<1>7. \A pl, qm \in places : pl # qm => Ids(pl[2]) \intersect Ids(qm[2]) = {}
  <2>1. ASSUME NEW t \in Queues PROVE Ids(freeTask) \intersect Ids(jobs[t]) = {}
    BY DEF Apart
  <2>2. ASSUME NEW t \in Queues, NEW u \in Queues, t # u PROVE Ids(jobs[t]) \intersect Ids(jobs[u]) = {}
    BY <2>2 DEF Apart
  <2>3. \A pl \in places : pl = <<"free", freeTask>> \/ \E t \in Queues : pl = <<t, jobs[t]>>
    OBVIOUS
  <2> HIDE DEF places
  <2> SUFFICES ASSUME NEW pl \in places, NEW qm \in places, pl # qm
               PROVE  Ids(pl[2]) \intersect Ids(qm[2]) = {}
    OBVIOUS
  <2>4. CASE pl = <<"free", freeTask>>
    BY <2>1, <2>3, <2>4
  <2>5. CASE \E t \in Queues : pl = <<t, jobs[t]>>
    BY <2>1, <2>2, <2>3, <2>5
  <2> QED BY <2>3, <2>4, <2>5
<1>8. \A p, r \in Threads : p # r => Held(p) \intersect Held(r) = {}
  BY <1>1 DEF Apart
<1>9. \A p \in Threads : \A j, k \in DOMAIN stack[p] :
              /\ j # k
              /\ stack[p][j].at \in {"push_task", "run", "count", "free"}
              /\ stack[p][k].at \in {"push_task", "run", "count", "free"}
              => stack[p][j].id # stack[p][k].id
  BY DEF Lists, OnceAt, HeldPcs
<1> QED BY <1>4, <1>5, <1>6, <1>7, <1>8, <1>9 DEF TaskPlaces, queued, held

(* No task is lost or doubled: an id that was handed out is in one place.   *)
THEOREM EveryTaskInOnePlace == Spec => []TaskPlaces
<1>1. Init => Typed /\ Places
  BY TypedInit, PlacesInit
<1>2. Typed /\ Places /\ [Next]_vars => (Typed /\ Places)'
  <2> SUFFICES ASSUME Typed, Places, [Next]_vars PROVE Typed' /\ Places'
    OBVIOUS
  <2>1. CASE Next
    BY <2>1, TypedStep, PlacesStep
  <2>2. CASE UNCHANGED vars
    <3>1. IdsSame(HeldPcs) /\ ListsSame
      BY <2>2 DEF vars, IdsSame, ListsSame
    <3> QED BY <2>2, <3>1, TypedStep, PlacesSame
  <2> QED BY <2>1, <2>2
<1>3. Typed /\ Places => TaskPlaces
  BY PlacesMean
<1> QED BY <1>1, <1>2, <1>3, PTL DEF Spec

(* A call changes only the stack of its own thread. *)
LEMMA OwnStack ==
  ASSUME Types, NEW p \in Threads, Call(p)
  PROVE  stack[p] # << >> /\ \A r \in Threads : r # p => stack'[r] = stack[r]
<1>1. stack[p] # << >>
  BY DEF Call, Adding, Waiting, Working, NewCounter, NoFreeCounter, GrowCounter, GetCounter,
           NewTask, NoFreeTask, GrowTask, GetTask, PushTask, PublishTask, AddReturn,
         WaitDone, WaitWork, ReleaseCounter, PublishCounter, TakeWork, NoWork, RunLeaf, RunInit,
         RunRender, Running, CountDown, FreeTask, PublishFree, In
<1>2. \A r \in Threads : r # p => stack'[r] = stack[r]
  BY DEF Types, Call, Adding, Waiting, Working, NewCounter, NoFreeCounter, GrowCounter, GetCounter,
           NewTask, NoFreeTask, GrowTask, GetTask, PushTask, PublishTask, AddReturn,
         WaitDone, WaitWork, ReleaseCounter, PublishCounter, TakeWork, NoWork, RunLeaf, RunInit,
         RunRender, CountDown, FreeTask, PublishFree, Advance, Become, Enter, Leave
<1> QED BY <1>1, <1>2

---------------------------------------------------------------------------
(* The counters of the calls on a stack. *)

(* A call of add or wait owns its counter until it gives it back. *)
OwnPcs == {"new_task", "grow_task", "push_task", "publish_task", "wait", "spin", "release"}
CountersOn(s) == {s[k].counter : k \in {j \in DOMAIN s : s[j].at \in OwnPcs}}
OnceOn(s) ==
    \A j, k \in DOMAIN s :
        s[j].at \in OwnPcs /\ s[k].at \in OwnPcs /\ s[j].counter = s[k].counter => j = k
CounterOf(f) == IF f.at \in OwnPcs THEN {f.counter} ELSE {}

(* The counters on a stack are that of the innermost call and those below.  *)
LEMMA CountersOfStack ==
  ASSUME NEW s \in Seq(AllFrames), NEW f \in AllFrames
  PROVE  /\ CountersOn(<<f>> \o s) = CounterOf(f) \union CountersOn(s)
         /\ OnceOn(<<f>> \o s)
              <=> OnceOn(s) /\ (f.at \in OwnPcs => f.counter \notin CountersOn(s))
<1> DEFINE r == <<f>> \o s
<1>1. /\ DOMAIN r = 1 .. Len(s) + 1 /\ DOMAIN s = 1 .. Len(s) /\ Len(s) \in Nat
      /\ r[1] = f
      /\ \A k \in DOMAIN s : r[k + 1] = s[k]
      /\ \A k \in DOMAIN r : k # 1 => k - 1 \in DOMAIN s /\ r[k] = s[k - 1]
  BY PushCall
<1> HIDE DEF r
<1>2. CountersOn(r) = CounterOf(f) \union CountersOn(s)
  <2>1. ASSUME NEW k \in DOMAIN r, r[k].at \in OwnPcs
        PROVE  r[k].counter \in CounterOf(f) \union CountersOn(s)
    BY <1>1, <2>1 DEF CountersOn, CounterOf
  <2>2. ASSUME NEW k \in DOMAIN s, s[k].at \in OwnPcs PROVE s[k].counter \in CountersOn(r)
    <3>1. k + 1 \in DOMAIN r /\ r[k + 1] = s[k]
      BY <1>1
    <3> QED BY <2>2, <3>1 DEF CountersOn
  <2>3. f.at \in OwnPcs => f.counter \in CountersOn(r)
    BY <1>1 DEF CountersOn
  <2> QED BY <2>1, <2>2, <2>3 DEF CountersOn, CounterOf
<1>3. ASSUME OnceOn(r) PROVE OnceOn(s) /\ (f.at \in OwnPcs => f.counter \notin CountersOn(s))
  <2>1. \A k \in DOMAIN s : k + 1 \in DOMAIN r /\ k + 1 # 1 /\ r[k + 1] = s[k] /\ k \in Int
    BY <1>1
  <2>2. OnceOn(s)
    <3> SUFFICES ASSUME NEW j \in DOMAIN s, NEW k \in DOMAIN s,
                        s[j].at \in OwnPcs, s[k].at \in OwnPcs, s[j].counter = s[k].counter
                 PROVE  j = k
      BY DEF OnceOn
    <3>1. j + 1 = k + 1
      BY <1>3, <2>1 DEF OnceOn
    <3> QED BY <2>1, <3>1
  <2>3. ASSUME f.at \in OwnPcs, NEW k \in DOMAIN s, s[k].at \in OwnPcs PROVE s[k].counter # f.counter
    <3>1. 1 \in DOMAIN r /\ r[1] = f
      BY <1>1
    <3> QED BY <1>3, <2>1, <2>3, <3>1 DEF OnceOn
  <2> QED BY <2>2, <2>3 DEF CountersOn
<1>4. ASSUME OnceOn(s), f.at \in OwnPcs => f.counter \notin CountersOn(s) PROVE OnceOn(r)
  <2> SUFFICES ASSUME NEW j \in DOMAIN r, NEW k \in DOMAIN r,
                      r[j].at \in OwnPcs, r[k].at \in OwnPcs, r[j].counter = r[k].counter
               PROVE  j = k
    BY DEF OnceOn
  <2>1. CASE j = 1 \/ k = 1
    BY <1>1, <1>4, <2>1 DEF CountersOn
  <2>2. CASE j # 1 /\ k # 1
    <3>1. j - 1 = k - 1
      BY <1>1, <1>4, <2>2 DEF OnceOn
    <3> QED BY <1>1, <3>1
  <2> QED BY <2>1, <2>2
<1> QED BY <1>2, <1>3, <1>4 DEF r

(* The innermost call is replaced by one with or without a counter. *)
LEMMA CountersBecome ==
  ASSUME Types, NEW p \in Threads, stack[p] # << >>, NEW f \in AllFrames, Become(p, f)
  PROVE  LET t == Tail(stack[p])
         IN  /\ CountersOn(stack[p]) = CounterOf(Frame(p)) \union CountersOn(t)
             /\ CountersOn(stack'[p]) = CounterOf(f) \union CountersOn(t)
             /\ OnceOn(stack[p]) <=> OnceOn(t) /\ (Frame(p).at \in OwnPcs => Frame(p).counter \notin CountersOn(t))
             /\ OnceOn(stack'[p]) <=> OnceOn(t) /\ (f.at \in OwnPcs => f.counter \notin CountersOn(t))
             /\ \A r \in Threads : r # p => stack'[r] = stack[r]
<1> DEFINE t == Tail(stack[p])
<1>1. /\ stack[p] \in Seq(AllFrames) /\ Frame(p) \in AllFrames /\ t \in Seq(AllFrames)
      /\ stack[p] = <<Frame(p)>> \o t
  BY TopOfStack DEF Types, Frame
<1>2. stack'[p] = <<f>> \o t /\ \A r \in Threads : r # p => stack'[r] = stack[r]
  BY Becomes DEF Types
<1> HIDE DEF t
<1>3. /\ CountersOn(<<f>> \o t) = CounterOf(f) \union CountersOn(t)
      /\ OnceOn(<<f>> \o t) <=> OnceOn(t) /\ (f.at \in OwnPcs => f.counter \notin CountersOn(t))
  BY <1>1, CountersOfStack
<1>4. /\ CountersOn(<<Frame(p)>> \o t) = CounterOf(Frame(p)) \union CountersOn(t)
      /\ OnceOn(<<Frame(p)>> \o t) <=> OnceOn(t) /\ (Frame(p).at \in OwnPcs => Frame(p).counter \notin CountersOn(t))
  BY <1>1, CountersOfStack
<1>5. /\ CountersOn(stack[p]) = CounterOf(Frame(p)) \union CountersOn(t)
      /\ CountersOn(stack'[p]) = CounterOf(f) \union CountersOn(t)
  BY <1>1, <1>2, <1>3, <1>4
<1>6. /\ OnceOn(stack[p]) <=> OnceOn(t) /\ (Frame(p).at \in OwnPcs => Frame(p).counter \notin CountersOn(t))
      /\ OnceOn(stack'[p]) <=> OnceOn(t) /\ (f.at \in OwnPcs => f.counter \notin CountersOn(t))
  BY <1>1, <1>2, <1>3, <1>4
<1> QED BY <1>2, <1>5, <1>6 DEF t

(* The calls own the same counters after a step as before it. *)
CountersSame ==
    \A r \in Threads : /\ CountersOn(stack'[r]) = CountersOn(stack[r])
                       /\ OnceOn(stack[r]) => OnceOn(stack'[r])

(* A call goes on with the counter it has, or has none before and after.    *)
LEMMA CountersGoOn ==
  ASSUME Types, NEW p \in Threads, stack[p] # << >>, NEW f \in AllFrames, Become(p, f),
         f.at \in OwnPcs <=> Frame(p).at \in OwnPcs, f.at \in OwnPcs => f.counter = Frame(p).counter
  PROVE  CountersSame
<1> DEFINE t == Tail(stack[p])
<1>1. /\ CountersOn(stack[p]) = CounterOf(Frame(p)) \union CountersOn(t)
      /\ CountersOn(stack'[p]) = CounterOf(f) \union CountersOn(t)
      /\ OnceOn(stack[p]) <=> OnceOn(t) /\ (Frame(p).at \in OwnPcs => Frame(p).counter \notin CountersOn(t))
      /\ OnceOn(stack'[p]) <=> OnceOn(t) /\ (f.at \in OwnPcs => f.counter \notin CountersOn(t))
      /\ \A r \in Threads : r # p => stack'[r] = stack[r]
  BY CountersBecome
<1> HIDE DEF t
<1>2. CounterOf(f) = CounterOf(Frame(p))
  BY DEF CounterOf
<1>3. CountersOn(stack'[p]) = CountersOn(stack[p])
  BY <1>1, <1>2
<1>4. OnceOn(stack[p]) => OnceOn(stack'[p])
  BY <1>1
<1> QED BY <1>1, <1>3, <1>4 DEF CountersSame

(* A call without a counter starts. *)
LEMMA CountersEnter ==
  ASSUME Types, NEW p \in Threads, NEW f \in AllFrames, Enter(p, f), f.at \notin OwnPcs
  PROVE  CountersSame
<1>1. /\ stack[p] \in Seq(AllFrames) /\ stack'[p] = <<f>> \o stack[p]
      /\ \A r \in Threads : r # p => stack'[r] = stack[r]
  BY Enters DEF Types
<1>2. /\ CountersOn(<<f>> \o stack[p]) = CounterOf(f) \union CountersOn(stack[p])
      /\ OnceOn(stack[p]) => OnceOn(<<f>> \o stack[p])
  BY <1>1, CountersOfStack
<1> QED BY <1>1, <1>2 DEF CounterOf, CountersSame

(* A call returns; if it has a counter, nobody owns that one any more.      *)
LEMMA CountersLeave ==
  ASSUME Types, NEW p \in Threads, stack[p] # << >>, Leave(p), OnceOn(stack[p])
  PROVE  /\ CountersOn(stack'[p]) = CountersOn(stack[p]) \ CounterOf(Frame(p))
         /\ OnceOn(stack'[p])
         /\ \A r \in Threads : r # p => stack'[r] = stack[r]
<1> DEFINE t == Tail(stack[p])
<1>1. /\ stack[p] \in Seq(AllFrames) /\ Frame(p) \in AllFrames /\ t \in Seq(AllFrames)
      /\ stack[p] = <<Frame(p)>> \o t
  BY TopOfStack DEF Types, Frame
<1>2. stack'[p] = t /\ \A r \in Threads : r # p => stack'[r] = stack[r]
  BY Leaves DEF Types
<1> HIDE DEF t
<1>3. CountersOn(<<Frame(p)>> \o t) = CounterOf(Frame(p)) \union CountersOn(t)
  BY <1>1, CountersOfStack
<1>4. OnceOn(<<Frame(p)>> \o t) => OnceOn(t) /\ (Frame(p).at \in OwnPcs => Frame(p).counter \notin CountersOn(t))
  BY <1>1, CountersOfStack
<1> QED BY <1>1, <1>2, <1>3, <1>4 DEF CounterOf

(* A task adds another one: neither call has a counter yet. *)
LEMMA CountersNest ==
  ASSUME Types, NEW p \in Threads, stack[p] # << >>,
         NEW f \in AllFrames, NEW g \in AllFrames,
         f.at \notin OwnPcs, g.at \notin OwnPcs, Frame(p).at \notin OwnPcs,
         stack' = [stack EXCEPT ![p] = <<f, g>> \o Tail(@)]
  PROVE  CountersSame
<1> DEFINE t == Tail(stack[p])
           s == <<g>> \o t
<1>1. /\ stack[p] \in Seq(AllFrames) /\ Frame(p) \in AllFrames /\ t \in Seq(AllFrames)
      /\ stack[p] = <<Frame(p)>> \o t
  BY TopOfStack DEF Types, Frame
<1>2. /\ stack'[p] = <<f>> \o s /\ s \in Seq(AllFrames)
      /\ \A r \in Threads : r # p => stack'[r] = stack[r]
  BY Nests DEF Types
<1> HIDE DEF t
<1>3. CountersOn(s) = CountersOn(t) /\ (OnceOn(t) => OnceOn(s))
  BY <1>1, CountersOfStack DEF CounterOf
<1> HIDE DEF s
<1>4. CountersOn(<<f>> \o s) = CountersOn(s) /\ (OnceOn(s) => OnceOn(<<f>> \o s))
  BY <1>2, CountersOfStack DEF CounterOf
<1>5. CountersOn(<<Frame(p)>> \o t) = CountersOn(t) /\ (OnceOn(<<Frame(p)>> \o t) => OnceOn(t))
  BY <1>1, CountersOfStack DEF CounterOf
<1> QED BY <1>1, <1>2, <1>3, <1>4, <1>5 DEF CountersSame

---------------------------------------------------------------------------
(* The calls that add items to a batch are innermost. *)

Adds(p, c) == stack[p] # << >> /\ Frame(p).at \in AddingPcs /\ Frame(p).counter = c

(* A step that gives no call a counter, takes none from one, adds no item   *)
(* to a batch and finds no batch done.                                      *)
OwnersSame ==
    /\ CountersSame
    /\ \A r \in Threads, c \in CounterIds :
          /\ Adds(r, c)' <=> Adds(r, c)
          /\ Adds(r, c) => Frame(r)'.left = Frame(r).left
    /\ \A r \in Threads : In(r, "release")' =>
          In(r, "release") /\ Frame(r)'.counter = Frame(r).counter

(* A call that goes on to a step of the same kind owns what it owned. *)
LEMMA OwnersBecome ==
  ASSUME Types, NEW p \in Threads, stack[p] # << >>, NEW f \in AllFrames, Become(p, f),
         f.at \in OwnPcs <=> Frame(p).at \in OwnPcs, f.at \in OwnPcs => f.counter = Frame(p).counter,
         f.at \in AddingPcs <=> Frame(p).at \in AddingPcs,
         f.at \in AddingPcs => f.left = Frame(p).left, f.at # "release"
  PROVE  OwnersSame
<1>1. CountersSame
  BY CountersGoOn
<1>2. /\ stack'[p] # << >> /\ Head(stack'[p]) = f
      /\ \A r \in Threads : r # p => stack'[r] = stack[r]
  BY Becomes DEF Types
<1>3. AddingPcs \subseteq OwnPcs
  BY DEF AddingPcs, OwnPcs
<1>4. \A r \in Threads, c \in CounterIds : /\ Adds(r, c)' <=> Adds(r, c)
                                           /\ Adds(r, c) => Frame(r)'.left = Frame(r).left
  BY <1>2, <1>3 DEF Adds, Frame
<1>5. \A r \in Threads : In(r, "release")' => In(r, "release") /\ Frame(r)'.counter = Frame(r).counter
  BY <1>2 DEF In, Frame
<1> QED BY <1>1, <1>4, <1>5 DEF OwnersSame

(* A call that starts by owning nothing changes no owner. *)
LEMMA OwnersEnter ==
  ASSUME Types, NEW p \in Threads, NEW f \in AllFrames, Enter(p, f), f.at \notin OwnPcs,
         stack[p] # << >> => Head(stack[p]).at \in {"wait", "count"}
  PROVE  OwnersSame
<1>1. CountersSame
  BY CountersEnter
<1>2. /\ stack'[p] # << >> /\ Head(stack'[p]) = f
      /\ \A r \in Threads : r # p => stack'[r] = stack[r]
  BY Enters DEF Types
<1>3. \A r \in Threads, c \in CounterIds : /\ Adds(r, c)' <=> Adds(r, c)
                                           /\ Adds(r, c) => Frame(r)'.left = Frame(r).left
  BY <1>2 DEF Adds, Frame, AddingPcs, OwnPcs
<1>4. \A r \in Threads : In(r, "release")' => In(r, "release") /\ Frame(r)'.counter = Frame(r).counter
  BY <1>2 DEF In, Frame, OwnPcs
<1> QED BY <1>1, <1>3, <1>4 DEF OwnersSame

(* A call that returns owning nothing changes no owner. *)
LEMMA OwnersLeave ==
  ASSUME Types, Shape, NEW p \in Threads, stack[p] # << >>, Leave(p), Frame(p).at \notin OwnPcs,
         OnceOn(stack[p])
  PROVE  OwnersSame
<1>1. CountersSame
  BY CountersLeave DEF CountersSame, CounterOf
<1>2. stack'[p] = Tail(stack[p]) /\ \A r \in Threads : r # p => stack'[r] = stack[r]
  BY Leaves DEF Types
<1>3. stack'[p] # << >> => Head(stack'[p]).at \in {"wait", "count"}
  BY <1>2, TopOfStack, SuspendedTop DEF Types, Shape
<1>4. \A r \in Threads, c \in CounterIds : /\ Adds(r, c)' <=> Adds(r, c)
                                           /\ Adds(r, c) => Frame(r)'.left = Frame(r).left
  BY <1>2, <1>3 DEF Adds, Frame, AddingPcs, OwnPcs
<1>5. \A r \in Threads : In(r, "release")' => In(r, "release") /\ Frame(r)'.counter = Frame(r).counter
  BY <1>2, <1>3 DEF In, Frame
<1> QED BY <1>1, <1>4, <1>5 DEF OwnersSame

(* Taking, publishing and waiting leave the owners of counters alone. *)
LEMMA OwnersAdding ==
  ASSUME Types, Shape, NEW p \in Threads, OnceOn(stack[p]),
         \/ NewTask(p) \/ GrowTask(p) \/ NoFreeCounter(p) \/ NoFreeTask(p)
         \/ PublishTask(p) \/ WaitWork(p) \/ PublishCounter(p)
  PROVE  OwnersSame
<1>1. CASE NewTask(p) \/ GrowTask(p)
  <2> DEFINE i == TaskOf(p)
             f == [Frame(p) EXCEPT !.at = "push_task", !.id = i]
  <2>1. /\ stack[p] # << >> /\ Frame(p) \in AddFrames /\ Frame(p).at \in {"new_task", "grow_task"}
        /\ i \in Nat /\ Become(p, f)
    BY <1>1, GotTask
  <2> HIDE DEF i
  <2>2. f \in AllFrames /\ f.at = "push_task" /\ f.counter = Frame(p).counter /\ f.left = Frame(p).left
    BY <2>1, CallTypes DEF AddFrames, AddPcs
  <2> HIDE DEF f
  <2> QED BY <2>1, <2>2, OwnersBecome DEF OwnPcs, AddingPcs
<1>2. CASE PublishTask(p)
  <2> DEFINE f == [Frame(p) EXCEPT !.at = "new_task", !.id = 0]
  <2>1. /\ stack[p] # << >> /\ Frame(p) \in AddFrames /\ Frame(p).at = "publish_task" /\ Become(p, f)
    BY <1>2, InnermostCall DEF PublishTask, AddPcs
  <2>2. f \in AllFrames /\ f.at = "new_task" /\ f.counter = Frame(p).counter /\ f.left = Frame(p).left
    BY <2>1, CallTypes DEF AddFrames, AddPcs
  <2> HIDE DEF f
  <2> QED BY <2>1, <2>2, OwnersBecome DEF OwnPcs, AddingPcs
<1>3. CASE WaitWork(p)
  <2>1. [at |-> "seek", id |-> 0] \in AllFrames
    BY DEF AllFrames, WorkFrames, WorkPcs
  <2>2. Enter(p, [at |-> "seek", id |-> 0]) /\ Head(stack[p]).at = "wait"
    BY <1>3 DEF WaitWork, In
  <2> QED BY <2>1, <2>2, OwnersEnter DEF OwnPcs
<1>4. CASE PublishCounter(p)
  <2>1. stack[p] # << >> /\ Frame(p).at = "publish_counter" /\ Leave(p)
    BY <1>4 DEF PublishCounter, In, Frame
  <2> QED BY <2>1, OwnersLeave DEF OwnPcs
<1>5. CASE NoFreeCounter(p) \/ NoFreeTask(p)
  <2>1. PICK at, to \in AddPcs \ {"push_task"} :
            /\ In(p, at) /\ Advance(p, to)
            /\ <<at, to>> \in {<<"new_counter", "grow_counter">>, <<"new_task", "grow_task">>}
    BY <1>5, GotNothing
  <2> DEFINE f == [Frame(p) EXCEPT !.at = to]
  <2>2. /\ stack[p] # << >> /\ Frame(p) \in AddFrames /\ Frame(p).at = at /\ Become(p, f)
    BY <2>1, InnermostCall DEF Advance
  <2>3. f \in AllFrames /\ f.at = to /\ f.counter = Frame(p).counter /\ f.left = Frame(p).left
    BY <2>2, CallTypes DEF AddFrames
  <2> HIDE DEF f
  <2> QED BY <2>1, <2>2, <2>3, OwnersBecome DEF OwnPcs, AddingPcs
<1> QED BY <1>1, <1>2, <1>3, <1>4, <1>5

(* So do the steps of do_work but the count-down. *)
LEMMA OwnersWorking ==
  ASSUME Types, Shape, NEW p \in Threads, OnceOn(stack[p]), Working(p)
  PROVE  OwnersSame
<1>1. ASSUME NEW l \in WorkPcs, NEW m \in WorkPcs, In(p, l), Advance(p, m)
      PROVE  OwnersSame
  <2> DEFINE f == [Frame(p) EXCEPT !.at = m]
  <2>1. stack[p] # << >> /\ Frame(p) \in WorkFrames /\ Frame(p).at = l
    BY <1>1, InnermostCall
  <2>2. f \in AllFrames /\ f.at = m /\ Become(p, f)
    BY <1>1, <2>1, CallTypes DEF WorkFrames, Advance
  <2> HIDE DEF f
  <2>3. {l, m} \intersect OwnPcs = {} /\ AddingPcs \subseteq OwnPcs /\ m # "release"
    BY DEF WorkPcs, OwnPcs, AddingPcs
  <2> QED BY <2>1, <2>2, <2>3, OwnersBecome
<1>2. ASSUME NEW l \in WorkPcs, In(p, l), Leave(p) PROVE OwnersSame
  <2>1. stack[p] # << >> /\ Frame(p).at \notin OwnPcs
    BY <1>2 DEF In, Frame, WorkPcs, OwnPcs
  <2> QED BY <1>2, <2>1, OwnersLeave
<1>3. CASE TakeWork(p)
  <2>0. p \in Queues /\ Shared \in Queues
    BY DEF Queues
  <2>1. PICK t \in {p, Shared} : CanPop(jobs[t]) /\ Become(p, [at |-> "run", id |-> Head(jobs[t]).id])
    BY <1>3 DEF TakeWork
  <2> DEFINE f == [at |-> "run", id |-> Head(jobs[t]).id]
  <2>2. Head(jobs[t]).id \in Nat
    BY <2>0, <2>1, PopTakes DEF Types, CanPop, Entries
  <2>3. f \in AllFrames /\ f.at = "run" /\ Become(p, f)
    BY <2>1, <2>2 DEF AllFrames, WorkFrames, WorkPcs
  <2> HIDE DEF f
  <2>4. stack[p] # << >> /\ Frame(p).at = "seek"
    BY <1>3 DEF TakeWork, In, Frame
  <2> QED BY <2>3, <2>4, OwnersBecome DEF OwnPcs, AddingPcs
<1>4. CASE NoWork(p) \/ PublishFree(p)
  BY <1>2, <1>4 DEF NoWork, PublishFree, WorkPcs
<1>5. CASE RunLeaf(p) \/ RunRender(p) \/ CountDown(p) \/ FreeTask(p)
  BY <1>1, <1>5 DEF RunLeaf, RunRender, CountDown, FreeTask, Running, WorkPcs
<1>6. CASE RunInit(p)
  <2> DEFINE f == AddCall("render", 1, Shared, "none")
             g == [Frame(p) EXCEPT !.at = "count"]
  <2>1. stack[p] # << >> /\ Frame(p) \in WorkFrames /\ Frame(p) = stack[p][1] /\ Frame(p).at = "run"
    BY <1>6, InnermostCall DEF RunInit, Running, WorkPcs
  <2>2. f \in AllFrames /\ f.at = "new_counter"
    BY DEF AllFrames, AddFrames, AddCall, AddPcs, Works, Queues
  <2>3. g \in AllFrames /\ g.at = "count"
    BY <2>1 DEF AllFrames, WorkFrames, WorkPcs
  <2>4. stack' = [stack EXCEPT ![p] = <<f, g>> \o Tail(@)]
    BY <1>6, <2>1 DEF RunInit
  <2> HIDE DEF f, g
  <2>5. CountersSame
    BY <2>1, <2>2, <2>3, <2>4, CountersNest DEF OwnPcs
  <2>6. /\ stack'[p] # << >> /\ Head(stack'[p]) = f
        /\ \A r \in Threads : r # p => stack'[r] = stack[r]
    BY <2>1, <2>2, <2>3, <2>4, Nests DEF Types
  <2>7. \A r \in Threads, c \in CounterIds : /\ Adds(r, c)' <=> Adds(r, c)
                                             /\ Adds(r, c) => Frame(r)'.left = Frame(r).left
    BY <2>1, <2>2, <2>6 DEF Adds, Frame, AddingPcs
  <2>8. \A r \in Threads : In(r, "release")' => In(r, "release") /\ Frame(r)'.counter = Frame(r).counter
    BY <2>2, <2>6 DEF In, Frame
  <2> QED BY <2>5, <2>7, <2>8 DEF OwnersSame
<1> QED BY <1>3, <1>4, <1>5, <1>6 DEF Working

(* Workers between calls and the steps of the program own nothing. *)
LEMMA OwnersOthers ==
  ASSUME Types, Idle, (\E w \in Workers : Worker(w)) \/ Program
  PROVE  OwnersSame
<1>0. Main \in Threads /\ Shared \in Queues /\ Threads \subseteq Queues /\ Workers \subseteq Threads
  BY DEF Threads, Queues
<1>1. ASSUME stack' = stack PROVE OwnersSame
  BY <1>1 DEF OwnersSame, CountersSame, Adds, In, Frame
<1>2. ASSUME NEW w \in Workers, Worker(w) PROVE OwnersSame
  <2>1. [at |-> "seek", id |-> 0] \in AllFrames
    BY DEF AllFrames, WorkFrames, WorkPcs
  <2>2. CASE WorkerLoop(w)
    BY <1>0, <2>1, <2>2, OwnersEnter DEF WorkerLoop, OwnPcs
  <2> QED BY <1>1, <1>2, <2>2 DEF Worker, WorkerStart, WorkerEnd
<1>3. ASSUME NEW n \in Sizes, NEW t \in Queues, AddBatch(n, t) PROVE OwnersSame
  <2>1. AddCall("leaf", n, t, "wait") \in AllFrames /\ AddCall("leaf", n, t, "wait").at = "new_counter"
    BY BatchAssumption DEF AllFrames, AddFrames, AddCall, AddPcs, Works
  <2>2. Enter(Main, AddCall("leaf", n, t, "wait")) /\ stack[Main] = << >>
    BY <1>3 DEF AddBatch
  <2> QED BY <1>0, <2>1, <2>2, OwnersEnter DEF OwnPcs
<1>4. CASE CreateRenderer
  <2>1. AddCall("init", 1, Shared, "spin") \in AllFrames /\ AddCall("init", 1, Shared, "spin").at = "new_counter"
    BY <1>0 DEF AllFrames, AddFrames, AddCall, AddPcs, Works
  <2>2. Enter(Main, AddCall("init", 1, Shared, "spin")) /\ stack[Main] = << >>
    BY <1>4 DEF CreateRenderer, Idle
  <2> QED BY <1>0, <2>1, <2>2, OwnersEnter DEF OwnPcs
<1>5. CASE Load \/ BgfxInit \/ NoRenderer \/ Exit \/ Unload \/ Joined
  BY <1>1, <1>5 DEF Load, BgfxInit, NoRenderer, Exit, Unload, Joined
<1> QED BY <1>2, <1>3, <1>4, <1>5 DEF Program

---------------------------------------------------------------------------
(* The tasks of a batch that are not counted down. *)

LivePcs == {"run", "count"}
Live(i) == \/ \E t \in Queues : i \in Ids(jobs[t])
           \/ \E p \in Threads : i \in IdsAt(stack[p], LivePcs)
Pending(c) == {i \in TaskIds : Live(i) /\ taskPool[i].counter = c}
LiveSame == \A i : Live(i)' <=> Live(i)

(* A call at one of some steps is at one of more. *)
LEMMA IdsAtMore ==
  ASSUME NEW s, NEW at, NEW more, at \subseteq more
  PROVE  /\ IdsAt(s, at) \subseteq IdsAt(s, more)
         /\ OnceAt(s, more) => OnceAt(s, at)
  BY DEF IdsAt, OnceAt

(* A batch has finitely many tasks. *)
LEMMA LiveFinite == \A c : IsFiniteSet(Pending(c)) /\ Cardinality(Pending(c)) \in Nat
<1> SUFFICES ASSUME NEW c PROVE IsFiniteSet(Pending(c)) /\ Cardinality(Pending(c)) \in Nat
  OBVIOUS
<1>1. MaxTask - 1 \in Int
  BY PoolAssumption
<1>2. IsFiniteSet(TaskIds)
  BY <1>1, FS_Interval DEF TaskIds
<1>3. Pending(c) \subseteq TaskIds
  BY DEF Pending
<1> QED BY <1>2, <1>3, FS_Subset, FS_CardinalityType

(* A task that is queued or run was handed out. *)
LEMMA LiveHandedOut ==
  ASSUME Typed, Places
  PROVE  /\ \A i : Live(i) => i \in 1 .. taskPoolIdx - 1 /\ i \in TaskIds
         /\ \A c : Uncounted(c) = Pending(c)
<1>1. \A p \in Threads : IdsAt(stack[p], LivePcs) \subseteq Holds(p)
  BY IdsAtMore DEF LivePcs, HeldPcs, Holds
<1>2. \A i : Live(i) => i \in 1 .. taskPoolIdx - 1
  BY <1>1 DEF Live, Places, Everywhere
<1>3. \A i : Live(i) => i \in TaskIds
  BY <1>2 DEF Typed, Types
<1>4. ASSUME NEW c PROVE Uncounted(c) = Pending(c)
  <2>1. ASSUME NEW p \in Threads, NEW i
        PROVE  i \in IdsAt(stack[p], LivePcs) <=> \E f \in Frames(p) : f.at \in {"run", "count"} /\ f.id = i
    BY DEF IdsAt, Frames, LivePcs
  <2>2. \A i : Live(i) <=> \/ \E t \in Queues : i \in Ids(jobs[t])
                           \/ \E p \in Threads : \E f \in Frames(p) : f.at \in {"run", "count"} /\ f.id = i
    BY <2>1 DEF Live
  <2> QED BY <1>2, <1>3, <2>2 DEF Uncounted, Pending
<1> QED BY <1>2, <1>3, <1>4

(* The live tasks are the same when no queue and no call on the way changes. *)
LEMMA LiveStays ==
  ASSUME IdsSame(LivePcs), \A t \in Queues : Ids(jobs'[t]) = Ids(jobs[t])
  PROVE  LiveSame
<1> SUFFICES ASSUME NEW i PROVE Live(i)' <=> Live(i)
  BY DEF LiveSame
<1>1. (\E t \in Queues : i \in Ids(jobs'[t])) <=> \E t \in Queues : i \in Ids(jobs[t])
  OBVIOUS
<1>2. (\E p \in Threads : i \in IdsAt(stack'[p], LivePcs)) <=> \E p \in Threads : i \in IdsAt(stack[p], LivePcs)
  BY DEF IdsSame
<1> QED BY <1>1, <1>2 DEF Live

(* A call neither queues nor counts down a task but in PushTask, CountDown. *)
LEMMA LiveCalls ==
  ASSUME Typed, NEW p \in Threads, Call(p), ~ PushTask(p), ~ CountDown(p)
  PROVE  LiveSame
<1> USE DEF Typed
<1>0. LivePcs \in SUBSET HeldPcs
  BY DEF HeldPcs, LivePcs
<1>1. CASE NewTask(p) \/ GrowTask(p)
  <2> DEFINE i == TaskOf(p)
             f == [Frame(p) EXCEPT !.at = "push_task", !.id = i]
  <2>1. /\ stack[p] # << >> /\ Frame(p) \in AddFrames /\ Frame(p).at \in {"new_task", "grow_task"}
        /\ i \in Nat /\ Become(p, f)
    BY <1>1, GotTask
  <2> HIDE DEF i
  <2>2. f \in AllFrames /\ f.at = "push_task"
    BY <2>1, CallTypes DEF AddFrames, AddPcs
  <2> HIDE DEF f
  <2>3. f.at \notin LivePcs /\ Frame(p).at \notin LivePcs
    BY <2>1, <2>2 DEF LivePcs
  <2>4. IdsSame(LivePcs)
    BY <2>1, <2>2, <2>3, IdsGoOn DEF IdsSame
  <2> QED BY <1>1, <2>4, LiveStays DEF NewTask, GrowTask, GetTask
<1>2. CASE PublishTask(p)
  <2>1. IdsSame(LivePcs)
    BY <1>0, <1>2, QuietAdding
  <2>2. Frame(p).to \in Queues
    BY <1>2, InnermostCall DEF PublishTask, AddPcs, AddFrames
  <2>3. \A t \in Queues : Ids(jobs'[t]) = Ids(jobs[t])
    BY <1>2, <2>2, PublishKeeps DEF PublishTask, Types
  <2> QED BY <2>1, <2>3, LiveStays
<1>3. CASE \/ NewCounter(p) \/ GrowCounter(p) \/ NoFreeCounter(p) \/ NoFreeTask(p)
           \/ AddReturn(p) \/ Waiting(p)
  <2>1. IdsSame(LivePcs)
    BY <1>0, <1>3, QuietAdding
  <2>2. jobs' = jobs
    BY <1>3 DEF NewCounter, GrowCounter, GetCounter, NoFreeCounter, NoFreeTask, AddReturn, Waiting, WaitDone, WaitWork, ReleaseCounter, PublishCounter
  <2> QED BY <2>1, <2>2, LiveStays
<1>4. CASE NoWork(p) \/ RunLeaf(p) \/ RunInit(p) \/ RunRender(p) \/ PublishFree(p)
  <2>1. IdsSame(LivePcs)
    BY <1>0, <1>4, QuietWorking DEF LivePcs
  <2>2. jobs' = jobs
    BY <1>4 DEF NoWork, RunLeaf, RunInit, RunRender, PublishFree
  <2> QED BY <2>1, <2>2, LiveStays
<1>5. CASE FreeTask(p)
  <2> DEFINE f == [Frame(p) EXCEPT !.at = "publish_free"]
  <2>1. stack[p] # << >> /\ Frame(p) \in WorkFrames /\ Frame(p).at = "free" /\ Become(p, f)
    BY <1>5, InnermostCall DEF FreeTask, WorkPcs, Advance
  <2>2. f \in AllFrames /\ f.at = "publish_free"
    BY <2>1, CallTypes DEF WorkFrames, WorkPcs
  <2> HIDE DEF f
  <2>3. f.at \notin LivePcs /\ Frame(p).at \notin LivePcs
    BY <2>1, <2>2 DEF LivePcs
  <2>4. IdsSame(LivePcs)
    BY <2>1, <2>2, <2>3, IdsGoOn DEF IdsSame
  <2> QED BY <1>5, <2>4, LiveStays DEF FreeTask
<1>6. CASE TakeWork(p)
  <2>0. p \in Queues /\ Shared \in Queues
    BY DEF Queues
  <2>1. PICK q \in {p, Shared} : /\ CanPop(jobs[q])
                                /\ jobs' = [jobs EXCEPT ![q] = Tail(@)]
                                /\ Become(p, [at |-> "run", id |-> Head(jobs[q]).id])
    BY <1>6 DEF TakeWork
  <2> DEFINE i == Head(jobs[q]).id
             f == [at |-> "run", id |-> i]
  <2>2. /\ q \in Queues /\ i \in Nat /\ i \in Ids(jobs[q])
        /\ \A t \in Queues : t # q => jobs'[t] = jobs[t]
        /\ jobs'[q] = Tail(jobs[q]) /\ Tail(jobs[q]) \in Seq(Entries)
        /\ \A k \in DOMAIN Tail(jobs[q]) : k + 1 \in DOMAIN jobs[q] /\ Tail(jobs[q])[k] = jobs[q][k + 1]
        /\ jobs[q][1] = Head(jobs[q])
    BY <2>0, <2>1, PopTakes DEF Types, CanPop, Entries
  <2>3. stack[p] # << >> /\ Frame(p).at = "seek" /\ Become(p, f)
    BY <1>6, <2>1 DEF TakeWork, In, Frame
  <2> HIDE DEF i
  <2>4. f \in AllFrames /\ f.at = "run" /\ f.id = i
    BY <2>2 DEF AllFrames, WorkFrames, WorkPcs
  <2> HIDE DEF f
  <2>5. Ids(jobs'[q]) \union {i} = Ids(jobs[q])
    <3>1. DOMAIN jobs[q] = 1 .. Len(jobs[q]) /\ Len(jobs[q]) \in Nat \ {0}
      BY <2>1, <2>2, LenProperties, EmptySeq DEF Types, CanPop
    <3>2. DOMAIN Tail(jobs[q]) = 1 .. Len(jobs[q]) - 1
      BY <2>1, <2>2, <3>1, HeadTailProperties, LenProperties DEF Types, CanPop
    <3>3. ASSUME NEW k \in DOMAIN jobs[q] PROVE jobs[q][k].id \in Ids(jobs'[q]) \union {i}
      <4>1. CASE k = 1
        BY <2>2, <4>1 DEF i
      <4>2. CASE k # 1
        <5>1. k - 1 \in DOMAIN Tail(jobs[q]) /\ (k - 1) + 1 = k
          BY <3>1, <3>2, <4>2
        <5>2. jobs'[q][k - 1] = jobs[q][k]
          BY <2>2, <5>1
        <5> QED BY <2>2, <5>1, <5>2 DEF Ids
      <4> QED BY <4>1, <4>2
    <3>4. ASSUME NEW k \in DOMAIN jobs'[q] PROVE jobs'[q][k].id \in Ids(jobs[q])
      BY <2>2 DEF Ids
    <3> QED BY <2>2, <3>3, <3>4 DEF Ids
  <2>6. /\ IdsAt(stack'[p], LivePcs) = IdsAt(stack[p], LivePcs) \union {i}
        /\ \A r \in Threads : r # p => stack'[r] = stack[r]
    <3>1. IdAt(Frame(p), LivePcs) = {} /\ IdAt(f, LivePcs) = {i}
      BY <2>3, <2>4 DEF IdAt, LivePcs
    <3>2. /\ IdsAt(stack[p], LivePcs) = IdAt(Frame(p), LivePcs) \union IdsAt(Tail(stack[p]), LivePcs)
          /\ IdsAt(stack'[p], LivePcs) = IdAt(f, LivePcs) \union IdsAt(Tail(stack[p]), LivePcs)
          /\ \A r \in Threads : r # p => stack'[r] = stack[r]
      BY <2>3, <2>4, IdsBecome
    <3> QED BY <3>1, <3>2
  <2> SUFFICES ASSUME NEW j PROVE Live(j)' <=> Live(j)
    BY DEF LiveSame
  <2>7. CASE j = i
    <3>1. Live(j)
      BY <2>2, <2>7 DEF Live
    <3>2. \E r \in Threads : j \in IdsAt(stack'[r], LivePcs)
      BY <2>6, <2>7
    <3> QED BY <3>1, <3>2 DEF Live
  <2>8. CASE j # i
    <3>1. (\E t \in Queues : j \in Ids(jobs'[t])) <=> \E t \in Queues : j \in Ids(jobs[t])
      BY <2>2, <2>5, <2>8
    <3>2. (\E r \in Threads : j \in IdsAt(stack'[r], LivePcs)) <=> \E r \in Threads : j \in IdsAt(stack[r], LivePcs)
      BY <2>6, <2>8
    <3> QED BY <3>1, <3>2 DEF Live
  <2> QED BY <2>7, <2>8
<1> QED BY <1>1, <1>2, <1>3, <1>4, <1>5, <1>6 DEF Call, Adding, Working

(* Outside of calls no task starts or ends to live. *)
LEMMA LiveOthers ==
  ASSUME Typed, (\E w \in Workers : Worker(w)) \/ Program
  PROVE  LiveSame
<1>1. IdsSame(LivePcs)
  BY QuietOthers DEF Typed, LivePcs, HeldPcs
<1>2. jobs' = jobs
  BY DEF Worker, WorkerStart, WorkerLoop, WorkerEnd, Program, Load, CreateRenderer, BgfxInit,
         NoRenderer, AddBatch, Exit, Unload, Joined
<1> QED BY <1>1, <1>2, LiveStays

(* PushTask queues a task that was neither queued nor run. *)
LEMMA LivePush ==
  ASSUME Typed, Places, NEW p \in Threads, PushTask(p)
  PROVE  /\ ~ Live(Frame(p).id) /\ Frame(p).id \in TaskIds
         /\ \A j : Live(j)' <=> Live(j) \/ j = Frame(p).id
<1> USE DEF Typed
<1> DEFINE i == Frame(p).id
           q == Frame(p).to
           f == [Frame(p) EXCEPT !.at = "publish_task", !.left = @ - 1]
<1>1. /\ stack[p] # << >> /\ Frame(p) \in AddFrames /\ Frame(p).left > 0 /\ i \in Nat
      /\ Become(p, f) /\ In(p, "push_task") /\ Frame(p).at = "push_task"
  BY InnermostCall DEF PushTask, AddPcs, Shape, In
<1>2. f \in AllFrames /\ f.at = "publish_task"
  <2>1. Frame(p).left - 1 \in Nat
    BY <1>1 DEF AddFrames
  <2>2. f \in AddFrames /\ f.at = "publish_task"
    BY <1>1, <2>1 DEF AddFrames, AddPcs
  <2> QED BY <2>2 DEF AllFrames
<1>3. q \in Queues /\ jobs' = [jobs EXCEPT ![q] = Claim(@, i)]
  BY <1>1 DEF PushTask, AddFrames
<1> HIDE DEF f
<1>4. /\ \A r \in Threads : r # p => i \notin Holds(r)
      /\ \A t \in Queues : i \notin Ids(jobs[t])
      /\ i \in 1 .. taskPoolIdx - 1
  BY <1>1, <1>2, CallOwns DEF HeldPcs
<1>5. i \notin IdsAt(stack[p], LivePcs)
  <2>1. /\ IdsAt(stack[p], LivePcs) = IdAt(Frame(p), LivePcs) \union IdsAt(Tail(stack[p]), LivePcs)
        /\ OnceAt(stack[p], HeldPcs) => (Frame(p).at \in HeldPcs => i \notin IdsAt(Tail(stack[p]), HeldPcs))
    BY <1>1, <1>2, IdsBecome
  <2>2. IdsAt(Tail(stack[p]), LivePcs) \subseteq IdsAt(Tail(stack[p]), HeldPcs)
    BY IdsAtMore DEF LivePcs, HeldPcs
  <2>3. IdAt(Frame(p), LivePcs) = {} /\ Frame(p).at \in HeldPcs
    BY <1>1 DEF IdAt, LivePcs, HeldPcs
  <2> QED BY <2>1, <2>2, <2>3 DEF Places, Lists
<1>6. \A r \in Threads : i \notin IdsAt(stack[r], LivePcs)
  BY <1>4, <1>5, IdsAtMore DEF LivePcs, HeldPcs, Holds
<1>7. IdsSame(LivePcs)
  <2>1. f.at \notin LivePcs /\ Frame(p).at \notin LivePcs
    BY <1>1, <1>2 DEF LivePcs
  <2> QED BY <1>1, <1>2, <2>1, IdsGoOn DEF IdsSame
<1> HIDE DEF i, q
<1>8. /\ Ids(jobs'[q]) = Ids(jobs[q]) \union {i}
      /\ \A t \in Queues : t # q => jobs'[t] = jobs[t]
  BY <1>1, <1>3, ClaimAdds DEF Types
<1>9. ~ Live(i) /\ i \in TaskIds
  BY <1>4, <1>6 DEF Live, Types
<1>10. ASSUME NEW j PROVE Live(j)' <=> Live(j) \/ j = i
  <2>1. (\E t \in Queues : j \in Ids(jobs'[t])) <=> (\E t \in Queues : j \in Ids(jobs[t])) \/ j = i
    BY <1>3, <1>8
  <2>2. (\E r \in Threads : j \in IdsAt(stack'[r], LivePcs)) <=> \E r \in Threads : j \in IdsAt(stack[r], LivePcs)
    BY <1>7 DEF IdsSame
  <2> QED BY <2>1, <2>2 DEF Live
<1> QED BY <1>9, <1>10 DEF i

(* CountDown takes one from the tasks that are not counted down. *)
LEMMA LiveCountDown ==
  ASSUME Typed, Places, NEW p \in Threads, CountDown(p)
  PROVE  /\ Live(Frame(p).id)
         /\ \A j : Live(j)' <=> Live(j) /\ j # Frame(p).id
<1> USE DEF Typed
<1> DEFINE i == Frame(p).id
           f == [Frame(p) EXCEPT !.at = "free"]
           t == Tail(stack[p])
<1>1. /\ stack[p] # << >> /\ Frame(p) \in WorkFrames /\ Frame(p).at = "count" /\ Become(p, f)
      /\ jobs' = jobs
  BY InnermostCall DEF CountDown, WorkPcs, Advance
<1>2. f \in AllFrames /\ f.at = "free"
  BY <1>1, CallTypes DEF WorkFrames, WorkPcs
<1> HIDE DEF f
<1>3. /\ IdsAt(stack[p], LivePcs) = IdAt(Frame(p), LivePcs) \union IdsAt(t, LivePcs)
      /\ IdsAt(stack'[p], LivePcs) = IdAt(f, LivePcs) \union IdsAt(t, LivePcs)
      /\ OnceAt(stack[p], LivePcs) => (Frame(p).at \in LivePcs => i \notin IdsAt(t, LivePcs))
      /\ \A r \in Threads : r # p => stack'[r] = stack[r]
  BY <1>1, <1>2, IdsBecome
<1>4. IdAt(Frame(p), LivePcs) = {i} /\ IdAt(f, LivePcs) = {} /\ Frame(p).at \in LivePcs
  BY <1>1, <1>2 DEF IdAt, LivePcs
<1> HIDE DEF t, i
<1>5. OnceAt(stack[p], LivePcs)
  BY IdsAtMore DEF Places, Lists, LivePcs, HeldPcs
<1>6. i \in IdsAt(stack[p], LivePcs) /\ IdsAt(stack'[p], LivePcs) = IdsAt(stack[p], LivePcs) \ {i}
  BY <1>3, <1>4, <1>5
<1>7. /\ \A q \in Queues : i \notin Ids(jobs[q])
      /\ \A r \in Threads : r # p => i \notin IdsAt(stack[r], LivePcs)
  <2>1. \A r \in Threads : IdsAt(stack[r], LivePcs) \subseteq Holds(r)
    BY IdsAtMore DEF LivePcs, HeldPcs, Holds
  <2> QED BY <1>6, <2>1 DEF Places, Apart
<1>8. Live(i)
  BY <1>6 DEF Live
<1>9. ASSUME NEW j PROVE Live(j)' <=> Live(j) /\ j # i
  <2>1. (\E r \in Threads : j \in IdsAt(stack'[r], LivePcs)) <=>
           (\E r \in Threads : j \in IdsAt(stack[r], LivePcs)) /\ j # i
    BY <1>3, <1>6, <1>7
  <2> QED BY <1>1, <1>7, <2>1 DEF Live
<1> QED BY <1>8, <1>9 DEF i

---------------------------------------------------------------------------
(* Counters: no two owners have one in common, those that are not handed    *)
(* out are 0, the tasks that are not counted down have counters in use, and *)
(* a counter is the number of these tasks and of the items still to add.    *)

Used == 1 .. counterPoolIdx - 1
OwnersApart ==
    /\ \A p \in Threads : OnceOn(stack[p])
    /\ \A p, r \in Threads : p # r => \A c \in CountersOn(stack[p]) : c \notin CountersOn(stack[r])
    /\ Distinct(freeCounter)
    /\ \A p \in Threads : \A c \in CountersOn(stack[p]) : c \notin Ids(freeCounter)
InUse ==
    /\ \A p \in Threads : CountersOn(stack[p]) \subseteq Used
    /\ Ids(freeCounter) \subseteq Used
    /\ \A i : Live(i) => taskPool[i].counter \in Used /\ taskPool[i].counter \notin Ids(freeCounter)
    /\ \A p \in Threads : In(p, "release") => Pending(Frame(p).counter) = {}
Exact ==
    \A c \in CounterIds :
        /\ c \notin Used => counterPool[c] = 0
        /\ c \in Used => \A p \in Threads : Adds(p, c) =>
                             counterPool[c] = Cardinality(Pending(c)) + Frame(p).left
        /\ c \in Used /\ (\A p \in Threads : ~ Adds(p, c)) => counterPool[c] = Cardinality(Pending(c))
CounterInv == OwnersApart /\ InUse /\ Exact

(* The counter of the innermost call is on its stack. *)
LEMMA CountersOfTop ==
  ASSUME Types
  PROVE  \A r \in Threads : stack[r] # << >> /\ Frame(r).at \in OwnPcs =>
                                Frame(r).counter \in CountersOn(stack[r])
<1>1. \A r \in Threads : stack[r] # << >> => 1 \in DOMAIN stack[r] /\ Frame(r) = stack[r][1]
  BY TopOfStack DEF Types, Frame
<1> QED BY <1>1 DEF CountersOn

(* What the innermost call of a thread owns. *)
LEMMA InnermostOwns ==
  ASSUME Typed, CounterInv, NEW p \in Threads, stack[p] # << >>, Frame(p).at \in OwnPcs
  PROVE  /\ Frame(p).counter \in CountersOn(stack[p])
         /\ Frame(p).counter \in Used /\ Frame(p).counter \in CounterIds
         /\ Frame(p).counter \notin Ids(freeCounter)
         /\ \A r \in Threads : r # p => Frame(p).counter \notin CountersOn(stack[r])
         /\ \A r \in Threads : r # p => ~ Adds(r, Frame(p).counter)
<1>1. \A r \in Threads : stack[r] # << >> => 1 \in DOMAIN stack[r] /\ Frame(r) = stack[r][1]
  BY TopOfStack DEF Typed, Types, Frame
<1>2. \A r \in Threads : stack[r] # << >> /\ Frame(r).at \in OwnPcs => Frame(r).counter \in CountersOn(stack[r])
  BY <1>1 DEF CountersOn
<1>3. Frame(p).counter \in Used /\ Frame(p).counter \in CounterIds
  BY <1>2 DEF CounterInv, InUse, Typed, Types, Used
<1>4. /\ Frame(p).counter \notin Ids(freeCounter)
      /\ \A r \in Threads : r # p => Frame(p).counter \notin CountersOn(stack[r])
  BY <1>2 DEF CounterInv, OwnersApart
<1>5. \A r \in Threads : r # p => ~ Adds(r, Frame(p).counter)
  BY <1>2, <1>4 DEF Adds, AddingPcs, OwnPcs
<1> QED BY <1>2, <1>3, <1>4, <1>5

(* The steps that touch no batch. *)
LEMMA BatchesSame ==
  ASSUME Typed, CounterInv, OwnersSame, LiveSame,
         taskPool' = taskPool, counterPool' = counterPool, counterPoolIdx' = counterPoolIdx,
         Ids(freeCounter') = Ids(freeCounter), Distinct(freeCounter')
  PROVE  CounterInv'
<1>1. Used' = Used /\ \A r \in Threads : CountersOn(stack'[r]) = CountersOn(stack[r])
  BY DEF Used, OwnersSame, CountersSame
<1>2. \A c : Pending(c)' = Pending(c)
  BY DEF Pending, LiveSame
<1>3. OwnersApart'
  BY <1>1 DEF CounterInv, OwnersApart, OwnersSame, CountersSame
<1>4. InUse'
  <2>1. /\ \A p \in Threads : CountersOn(stack'[p]) \subseteq Used'
        /\ Ids(freeCounter') \subseteq Used'
    BY <1>1 DEF CounterInv, InUse
  <2>2. \A i : Live(i)' => taskPool'[i].counter \in Used' /\ taskPool'[i].counter \notin Ids(freeCounter')
    BY <1>1 DEF CounterInv, InUse, LiveSame
  <2>3. ASSUME NEW p \in Threads, In(p, "release")' PROVE Pending(Frame(p).counter)' = {}
    <3>1. In(p, "release") /\ Frame(p)'.counter = Frame(p).counter
      BY <2>3 DEF OwnersSame
    <3>2. \A c : Pending(c)' = {i \in TaskIds : Live(i)' /\ taskPool'[i].counter = c}
      BY DEF Pending
    <3>3. Pending(Frame(p).counter) = {}
      BY <3>1 DEF CounterInv, InUse
    <3>4. {i \in TaskIds : Live(i)' /\ taskPool'[i].counter = Frame(p).counter} = {}
      BY <3>3 DEF Pending, LiveSame
    <3> QED BY <3>1, <3>4 DEF Pending
  <2> QED BY <2>1, <2>2, <2>3 DEF InUse
<1>5. Exact'
  <2> SUFFICES ASSUME NEW c \in CounterIds
               PROVE  /\ c \notin Used' => counterPool'[c] = 0
                      /\ c \in Used' => \A p \in Threads : Adds(p, c)' =>
                                           counterPool'[c] = Cardinality(Pending(c)') + Frame(p)'.left
                      /\ c \in Used' /\ (\A p \in Threads : ~ Adds(p, c)')
                             => counterPool'[c] = Cardinality(Pending(c)')
    BY DEF Exact
  <2>1. \A p \in Threads : (Adds(p, c)' <=> Adds(p, c)) /\ (Adds(p, c) => Frame(p)'.left = Frame(p).left)
    BY DEF OwnersSame
  <2>2. Pending(c)' = Pending(c)
    BY <1>2
  <2> QED BY <1>1, <2>1, <2>2 DEF CounterInv, Exact
<1> QED BY <1>3, <1>4, <1>5 DEF CounterInv

(* A call of add takes a counter that nobody owns and no task has. *)
LEMMA BatchNewCounter ==
  ASSUME Typed, CounterInv, NEW p \in Threads, NewCounter(p) \/ GrowCounter(p)
  PROVE  CounterInv'
<1> USE DEF Typed
<1>1. PICK c \in CounterIds : c = CounterOfNew(p)
  BY GotCounter
<1> DEFINE reuse == In(p, "new_counter")
           n == Frame(p).left
           f == [Frame(p) EXCEPT !.at = "new_task", !.counter = c]
<1>2. /\ stack[p] # << >> /\ Frame(p) \in AddFrames
      /\ Frame(p).at \in {"new_counter", "grow_counter"}
      /\ Become(p, f) /\ n \in Nat
      /\ reuse => /\ CanPop(freeCounter) /\ freeCounter' = Tail(freeCounter)
                  /\ counterPoolIdx' = counterPoolIdx /\ c = Head(freeCounter).id
      /\ ~ reuse => /\ freeCounter' = freeCounter /\ counterPoolIdx' = counterPoolIdx + 1
                    /\ c = counterPoolIdx
      /\ counterPool' = [counterPool EXCEPT ![c] = n] /\ taskPool' = taskPool
  BY <1>1, GotCounter DEF CounterOfNew, AddFrames, tasks
<1>3. f \in AllFrames /\ f.at = "new_task" /\ f.counter = c /\ f.left = n
  <2>1. c \in Nat
    BY DEF CounterIds
  <2> QED BY <1>2, <2>1, CallTypes DEF AddFrames, AddPcs
<1> HIDE DEF f, n, reuse
<1>4. LiveSame
  BY LiveCalls DEF Call, Adding, NewCounter, GrowCounter, PushTask, CountDown, In
<1>5. /\ Ids(freeCounter') = Ids(freeCounter) \ {c} /\ Distinct(freeCounter')
      /\ Used' = Used \union {c}
      /\ c \in Ids(freeCounter) \/ c \notin Used
  <2>1. CASE reuse
    <3>1. /\ Ids(freeCounter') = Ids(freeCounter) \ {c} /\ Distinct(freeCounter') /\ c \in Ids(freeCounter)
      BY <1>1, <1>2, <2>1, PopTakes DEF CanPop, CounterInv, OwnersApart, Types
    <3>2. Used' = Used /\ c \in Used
      BY <1>2, <2>1, <3>1 DEF Used, CounterInv, InUse
    <3> QED BY <3>1, <3>2
  <2>2. CASE ~ reuse
    <3>1. c \notin Used /\ Used' = Used \union {c}
      BY <1>1, <1>2, <2>2 DEF Used, Types
    <3>2. freeCounter' = freeCounter /\ c \notin Ids(freeCounter)
      BY <1>2, <2>2, <3>1 DEF CounterInv, InUse
    <3> QED BY <3>1, <3>2 DEF CounterInv, OwnersApart
  <2> QED BY <2>1, <2>2
<1>6. \A r \in Threads : c \notin CountersOn(stack[r])
  BY <1>5 DEF CounterInv, OwnersApart, InUse
<1>7. \A i : Live(i) => taskPool[i].counter # c
  BY <1>5 DEF CounterInv, InUse
<1>8. /\ CountersOn(stack'[p]) = CountersOn(stack[p]) \union {c} /\ OnceOn(stack'[p])
      /\ Head(stack'[p]) = f /\ stack'[p] # << >>
      /\ \A r \in Threads : r # p => stack'[r] = stack[r]
  <2> DEFINE t == Tail(stack[p])
  <2>1. /\ CountersOn(stack[p]) = CounterOf(Frame(p)) \union CountersOn(t)
        /\ CountersOn(stack'[p]) = CounterOf(f) \union CountersOn(t)
        /\ OnceOn(stack[p]) => OnceOn(t)
        /\ OnceOn(stack'[p]) <=> OnceOn(t) /\ (f.at \in OwnPcs => f.counter \notin CountersOn(t))
        /\ \A r \in Threads : r # p => stack'[r] = stack[r]
    BY <1>2, <1>3, CountersBecome
  <2>2. CounterOf(Frame(p)) = {} /\ CounterOf(f) = {c}
    BY <1>2, <1>3 DEF CounterOf, OwnPcs
  <2>3. Head(stack'[p]) = f /\ stack'[p] # << >>
    BY <1>2, <1>3, Becomes DEF Types
  <2> HIDE DEF t
  <2> QED BY <1>3, <1>6, <2>1, <2>2, <2>3 DEF CounterInv, OwnersApart
<1>9. OwnersApart'
  <2> USE DEF CounterInv, OwnersApart
  <2>1. \A r \in Threads : \A d : d \in CountersOn(stack'[r]) <=> d \in CountersOn(stack[r]) \/ (r = p /\ d = c)
    BY <1>8
  <2>2. \A r \in Threads : OnceOn(stack'[r])
    BY <1>8
  <2>3. \A v, r \in Threads : v # r => \A d \in CountersOn(stack'[v]) : d \notin CountersOn(stack'[r])
    BY <1>6, <2>1
  <2>4. \A r \in Threads : \A d \in CountersOn(stack'[r]) : d \notin Ids(freeCounter')
    BY <1>5, <2>1
  <2> QED BY <1>5, <2>2, <2>3, <2>4
<1>10. \A d : Pending(d)' = Pending(d)
  BY <1>2, <1>4 DEF Pending, LiveSame
<1>11. InUse'
  <2>1. /\ \A r \in Threads : CountersOn(stack'[r]) \subseteq Used'
        /\ Ids(freeCounter') \subseteq Used'
    BY <1>5, <1>8 DEF CounterInv, InUse
  <2>2. \A i : Live(i)' => taskPool'[i].counter \in Used' /\ taskPool'[i].counter \notin Ids(freeCounter')
    BY <1>2, <1>4, <1>5 DEF CounterInv, InUse, LiveSame
  <2>3. ASSUME NEW r \in Threads, In(r, "release")' PROVE Pending(Frame(r).counter)' = {}
    <3>1. r # p
      BY <1>3, <1>8, <2>3 DEF In
    <3>2. In(r, "release") /\ Frame(r)' = Frame(r)
      BY <1>8, <2>3, <3>1 DEF In, Frame
    <3>3. {i \in TaskIds : Live(i)' /\ taskPool'[i].counter = Frame(r).counter} = {}
      BY <1>2, <1>4, <3>2 DEF CounterInv, InUse, Pending, LiveSame
    <3> QED BY <3>2, <3>3 DEF Pending
  <2> QED BY <2>1, <2>2, <2>3 DEF InUse
<1>12. Exact'
  <2> SUFFICES ASSUME NEW d \in CounterIds
               PROVE  /\ d \notin Used' => counterPool'[d] = 0
                      /\ d \in Used' => \A r \in Threads : Adds(r, d)' =>
                                           counterPool'[d] = Cardinality(Pending(d)') + Frame(r)'.left
                      /\ d \in Used' /\ (\A r \in Threads : ~ Adds(r, d)')
                             => counterPool'[d] = Cardinality(Pending(d)')
    BY DEF Exact
  <2>1. Pending(c) = {} /\ Cardinality({}) = 0
    BY <1>7, FS_EmptySet DEF Pending
  <2>2. \A r \in Threads : r # p => ~ Adds(r, c)'
    BY <1>6, <1>8, CountersOfTop DEF Adds, Frame, AddingPcs, OwnPcs
  <2>3. Adds(p, c)' /\ Frame(p)'.left = n
    BY <1>3, <1>8 DEF Adds, Frame, AddingPcs
  <2>4. CASE d = c
    <3>1. counterPool'[c] = n
      BY <1>2 DEF Types
    <3>2. Pending(d)' = {} /\ n = 0 + n
      BY <1>2, <1>10, <2>1, <2>4
    <3>3. \A r \in Threads : Adds(r, d)' => r = p
      BY <2>2, <2>4
    <3>4. d \in Used'
      BY <1>5, <2>4
    <3>5. \A r \in Threads : Adds(r, d)' => counterPool'[d] = Cardinality(Pending(d)') + Frame(r)'.left
      BY <2>1, <2>3, <2>4, <3>1, <3>2, <3>3
    <3>6. Adds(p, d)'
      BY <2>3, <2>4
    <3> QED BY <3>4, <3>5, <3>6
  <2>5. CASE d # c
    <3>1. counterPool'[d] = counterPool[d] /\ (d \in Used' <=> d \in Used)
      BY <1>2, <1>5, <2>5 DEF Types
    <3>2. ~ Adds(p, d) /\ ~ Adds(p, d)'
      BY <1>2, <1>3, <1>8, <2>5 DEF Adds, Frame, AddingPcs
    <3>3. \A r \in Threads : (Adds(r, d)' <=> Adds(r, d)) /\ (Adds(r, d) => Frame(r)'.left = Frame(r).left)
      BY <1>8, <3>2 DEF Adds, Frame
    <3> QED BY <1>10, <3>1, <3>3 DEF CounterInv, Exact
  <2> QED BY <2>4, <2>5
<1> QED BY <1>9, <1>11, <1>12 DEF CounterInv

(* An item of a batch becomes a task that is not counted down. *)
LEMMA BatchPush ==
  ASSUME Typed, Places, CounterInv, NEW p \in Threads, PushTask(p)
  PROVE  CounterInv'
<1> USE DEF Typed
<1>1. PICK c, i, n : c = Frame(p).counter /\ i = Frame(p).id /\ n = Frame(p).left
  OBVIOUS
<1> DEFINE f == [Frame(p) EXCEPT !.at = "publish_task", !.left = @ - 1]
<1>2. /\ stack[p] # << >> /\ Frame(p) \in AddFrames /\ n > 0 /\ n \in Nat
      /\ Become(p, f) /\ Frame(p).at = "push_task"
  BY <1>1, InnermostCall DEF PushTask, AddPcs, AddFrames, Shape, In, Frame
<1>3. f \in AllFrames /\ f.at = "publish_task" /\ f.counter = c /\ f.left = n - 1
  <2>1. Frame(p).left - 1 \in Nat
    BY <1>1, <1>2 DEF AddFrames
  <2>2. f \in AddFrames /\ f.at = "publish_task" /\ f.counter = c /\ f.left = n - 1
    BY <1>1, <1>2, <2>1 DEF AddFrames, AddPcs
  <2> QED BY <2>2 DEF AllFrames
<1> HIDE DEF f
<1>4. /\ taskPool' = [taskPool EXCEPT ![i] = [work |-> Frame(p).work, counter |-> c]]
      /\ counterPool' = counterPool /\ counterPoolIdx' = counterPoolIdx /\ freeCounter' = freeCounter
  BY <1>1 DEF PushTask, counters
<1>5. /\ ~ Live(i) /\ i \in TaskIds
      /\ \A j : Live(j)' <=> Live(j) \/ j = i
  BY <1>1, LivePush
<1>6. /\ c \in Used /\ c \in CounterIds /\ c \notin Ids(freeCounter)
      /\ \A r \in Threads : r # p => c \notin CountersOn(stack[r]) /\ ~ Adds(r, c)
  BY <1>1, <1>2, InnermostOwns DEF OwnPcs
<1>7. /\ Head(stack'[p]) = f /\ stack'[p] # << >>
      /\ \A r \in Threads : r # p => stack'[r] = stack[r]
  BY <1>2, <1>3, Becomes DEF Types
<1>8. CountersSame
  BY <1>1, <1>2, <1>3, CountersGoOn DEF OwnPcs
<1>9. Used' = Used /\ taskPool'[i].counter = c /\ \A j \in TaskIds : j # i => taskPool'[j] = taskPool[j]
  BY <1>4, <1>5 DEF Used, Types
<1>10. Pending(c)' = Pending(c) \union {i} /\ i \notin Pending(c)
  BY <1>5, <1>9 DEF Pending
<1>11. \A d : d # c => Pending(d)' = Pending(d)
  <2> SUFFICES ASSUME NEW d, d # c PROVE Pending(d)' = Pending(d)
    OBVIOUS
  <2> QED BY <1>5, <1>9 DEF Pending
<1>12. OwnersApart'
  BY <1>4, <1>8 DEF CounterInv, OwnersApart, CountersSame
<1>13. InUse'
  <2>1. /\ \A r \in Threads : CountersOn(stack'[r]) \subseteq Used'
        /\ Ids(freeCounter') \subseteq Used'
    BY <1>4, <1>8, <1>9 DEF CounterInv, InUse, CountersSame
  <2>2. \A j : Live(j)' => taskPool'[j].counter \in Used' /\ taskPool'[j].counter \notin Ids(freeCounter')
    <3>1. \A j : Live(j) => j \in TaskIds
      BY LiveHandedOut
    <3> QED BY <1>4, <1>5, <1>6, <1>9, <3>1 DEF CounterInv, InUse
  <2>3. ASSUME NEW r \in Threads, In(r, "release")' PROVE Pending(Frame(r).counter)' = {}
    <3>1. r # p
      BY <1>3, <1>7, <2>3 DEF In
    <3>2. In(r, "release") /\ Frame(r)' = Frame(r)
      BY <1>7, <2>3, <3>1 DEF In, Frame
    <3>3. PICK d : d = Frame(r).counter
      OBVIOUS
    <3>4. d \in CountersOn(stack[r])
      BY <3>2, <3>3, InnermostOwns DEF In, Frame, OwnPcs
    <3>5. d # c
      BY <1>6, <3>1, <3>4
    <3>6. Pending(d)' = {}
      BY <1>11, <3>2, <3>3, <3>5 DEF CounterInv, InUse
    <3> QED BY <3>2, <3>3, <3>6 DEF Pending
  <2> QED BY <2>1, <2>2, <2>3 DEF InUse
<1>14. Exact'
  <2> SUFFICES ASSUME NEW d \in CounterIds
               PROVE  /\ d \notin Used' => counterPool'[d] = 0
                      /\ d \in Used' => \A r \in Threads : Adds(r, d)' =>
                                           counterPool'[d] = Cardinality(Pending(d)') + Frame(r)'.left
                      /\ d \in Used' /\ (\A r \in Threads : ~ Adds(r, d)')
                             => counterPool'[d] = Cardinality(Pending(d)')
    BY DEF Exact
  <2>1. /\ Adds(p, c) /\ Adds(p, c)' /\ Frame(p)'.left = n - 1
        /\ \A r \in Threads : r # p => ~ Adds(r, c)'
    BY <1>1, <1>2, <1>3, <1>6, <1>7 DEF Adds, Frame, AddingPcs
  <2>2. CASE d = c
    <3>1. counterPool[c] = Cardinality(Pending(c)) + n
      BY <1>1, <1>6, <2>1 DEF CounterInv, Exact
    <3>2. Cardinality(Pending(c)') = Cardinality(Pending(c)) + 1 /\ Cardinality(Pending(c)) \in Nat
      BY <1>10, LiveFinite, FS_AddElement
    <3> QED BY <1>2, <1>4, <1>6, <1>9, <2>1, <2>2, <3>1, <3>2
  <2>3. CASE d # c
    <3>1. ~ Adds(p, d) /\ ~ Adds(p, d)'
      BY <1>1, <1>3, <1>7, <2>3 DEF Adds, Frame
    <3>2. \A r \in Threads : (Adds(r, d)' <=> Adds(r, d)) /\ (Adds(r, d) => Frame(r)'.left = Frame(r).left)
      BY <1>7, <3>1 DEF Adds, Frame
    <3>3. Pending(d)' = Pending(d)
      BY <1>11, <2>3
    <3> QED BY <1>4, <1>9, <3>2, <3>3 DEF CounterInv, Exact
  <2> QED BY <2>2, <2>3
<1> QED BY <1>12, <1>13, <1>14 DEF CounterInv

(* add returns with nothing left to add: its caller keeps the counter, or   *)
(* nobody does.                                                             *)
LEMMA BatchAddReturn ==
  ASSUME Typed, CounterInv, NEW p \in Threads, AddReturn(p)
  PROVE  CounterInv'
<1> USE DEF Typed
<1>1. PICK c : c = Frame(p).counter
  OBVIOUS
<1>2. /\ stack[p] # << >> /\ Frame(p) \in AddFrames /\ Frame(p).left = 0
      /\ In(p, "new_task") /\ Frame(p).at = "new_task"
  BY InnermostCall DEF AddReturn, AddPcs
<1>3. /\ taskPool' = taskPool /\ counterPool' = counterPool
      /\ counterPoolIdx' = counterPoolIdx /\ freeCounter' = freeCounter
  BY DEF AddReturn, tasks, counters
<1>4. LiveSame
  BY LiveCalls DEF Call, Adding, AddReturn, PushTask, CountDown, In
<1>5. /\ c \in CountersOn(stack[p]) /\ c \in Used
      /\ \A r \in Threads : r # p => ~ Adds(r, c)
  BY <1>1, <1>2, InnermostOwns DEF OwnPcs
<1>6. /\ CountersOn(stack'[p]) \subseteq CountersOn(stack[p]) /\ OnceOn(stack'[p])
      /\ stack'[p] # << >> => Head(stack'[p]).at \in {"wait", "count", "spin"}
      /\ \A r \in Threads : r # p => stack'[r] = stack[r]
  <2>1. CASE Frame(p).wait = "none"
    <3>1. Leave(p)
      BY <2>1 DEF AddReturn
    <3>2. /\ CountersOn(stack'[p]) \subseteq CountersOn(stack[p]) /\ OnceOn(stack'[p])
          /\ \A r \in Threads : r # p => stack'[r] = stack[r]
      BY <1>2, <3>1, CountersLeave DEF CounterInv, OwnersApart
    <3>3. stack'[p] # << >> => Head(stack'[p]).at \in {"wait", "count"}
      BY <1>2, <3>1, Leaves, TopOfStack, SuspendedTop DEF Types, Shape
    <3> QED BY <3>2, <3>3
  <2>2. CASE Frame(p).wait # "none"
    <3> DEFINE f == [Frame(p) EXCEPT !.at = Frame(p).wait]
    <3>1. Become(p, f) /\ Frame(p).wait \in {"wait", "spin"}
      BY <1>2, <2>2 DEF AddReturn, Advance, AddFrames
    <3>2. f \in AllFrames /\ f.at \in {"wait", "spin"} /\ f.counter = Frame(p).counter
      BY <1>2, <3>1, CallTypes DEF AddFrames, AddPcs
    <3> HIDE DEF f
    <3>3. CountersSame
      BY <1>2, <3>1, <3>2, CountersGoOn DEF OwnPcs
    <3>4. Head(stack'[p]) = f /\ \A r \in Threads : r # p => stack'[r] = stack[r]
      BY <1>2, <3>1, <3>2, Becomes DEF Types
    <3> QED BY <3>2, <3>3, <3>4 DEF CountersSame, CounterInv, OwnersApart
  <2> QED BY <2>1, <2>2
<1>7. Used' = Used /\ \A d : Pending(d)' = Pending(d)
  BY <1>3, <1>4 DEF Used, Pending, LiveSame
<1>8. OwnersApart'
  <2> USE DEF CounterInv, OwnersApart
  <2>1. \A r \in Threads : CountersOn(stack'[r]) \subseteq CountersOn(stack[r]) /\ OnceOn(stack'[r])
    BY <1>6
  <2>2. \A v, r \in Threads : v # r => \A d \in CountersOn(stack'[v]) : d \notin CountersOn(stack'[r])
    BY <2>1
  <2> QED BY <1>3, <2>1, <2>2
<1>9. InUse'
  <2>1. /\ \A r \in Threads : CountersOn(stack'[r]) \subseteq Used'
        /\ Ids(freeCounter') \subseteq Used'
    BY <1>3, <1>6, <1>7 DEF CounterInv, InUse
  <2>2. \A i : Live(i)' => taskPool'[i].counter \in Used' /\ taskPool'[i].counter \notin Ids(freeCounter')
    BY <1>3, <1>4, <1>7 DEF CounterInv, InUse, LiveSame
  <2>3. ASSUME NEW r \in Threads, In(r, "release")' PROVE Pending(Frame(r).counter)' = {}
    <3>1. r # p
      BY <1>6, <2>3 DEF In
    <3>2. In(r, "release") /\ Frame(r)' = Frame(r)
      BY <1>6, <2>3, <3>1 DEF In, Frame
    <3>3. {i \in TaskIds : Live(i)' /\ taskPool'[i].counter = Frame(r).counter} = {}
      BY <1>3, <1>4, <3>2 DEF CounterInv, InUse, Pending, LiveSame
    <3> QED BY <3>2, <3>3 DEF Pending
  <2> QED BY <2>1, <2>2, <2>3 DEF InUse
<1>10. Exact'
  <2> SUFFICES ASSUME NEW d \in CounterIds
               PROVE  /\ d \notin Used' => counterPool'[d] = 0
                      /\ d \in Used' => \A r \in Threads : Adds(r, d)' =>
                                           counterPool'[d] = Cardinality(Pending(d)') + Frame(r)'.left
                      /\ d \in Used' /\ (\A r \in Threads : ~ Adds(r, d)')
                             => counterPool'[d] = Cardinality(Pending(d)')
    BY DEF Exact
  <2>1. ~ Adds(p, d)' /\ Adds(p, c)
    BY <1>1, <1>2, <1>6 DEF Adds, Frame, AddingPcs
  <2>2. \A r \in Threads : r # p => (Adds(r, d)' <=> Adds(r, d)) /\ Frame(r)' = Frame(r)
    BY <1>6 DEF Adds, Frame
  <2>3. CASE d = c
    <3>1. counterPool[c] = Cardinality(Pending(c)) + 0
      BY <1>2, <1>5, <2>1, <2>3 DEF CounterInv, Exact
    <3>2. Cardinality(Pending(c)) \in Nat
      BY <1>2, LiveFinite
    <3>3. counterPool[c] = Cardinality(Pending(c))
      BY <3>1, <3>2
    <3>4. \A r \in Threads : ~ Adds(r, d)'
      BY <1>5, <2>1, <2>2, <2>3
    <3>5. d \in Used' /\ Pending(d)' = Pending(d)
      BY <1>5, <1>7, <2>3
    <3> QED BY <1>3, <2>3, <3>3, <3>4, <3>5
  <2>4. CASE d # c
    <3>1. ~ Adds(p, d)
      BY <1>1, <2>4 DEF Adds
    <3>2. \A r \in Threads : (Adds(r, d)' <=> Adds(r, d)) /\ (Adds(r, d) => Frame(r)'.left = Frame(r).left)
      BY <2>1, <2>2, <3>1
    <3>3. Pending(d)' = Pending(d)
      BY <1>7
    <3> QED BY <1>3, <1>7, <3>2, <3>3 DEF CounterInv, Exact
  <2> QED BY <2>3, <2>4
<1> QED BY <1>8, <1>9, <1>10 DEF CounterInv

(* A wait that reads 0 finds that its batch has no task and no item.        *)
LEMMA BatchWaitDone ==
  ASSUME Typed, CounterInv, NEW p \in Threads, WaitDone(p)
  PROVE  CounterInv'
<1> USE DEF Typed
<1>1. PICK c : c = Frame(p).counter
  OBVIOUS
<1> DEFINE f == [Frame(p) EXCEPT !.at = "release"]
<1>2. /\ stack[p] # << >> /\ Frame(p) \in AddFrames /\ Frame(p).at \in {"wait", "spin"}
      /\ Become(p, f) /\ counterPool[c] = 0
  BY <1>1, InnermostCall DEF WaitDone, AddPcs, Advance
<1>3. f \in AllFrames /\ f.at = "release" /\ f.counter = c
  BY <1>1, <1>2, CallTypes DEF AddFrames, AddPcs
<1> HIDE DEF f
<1>4. /\ taskPool' = taskPool /\ counterPool' = counterPool
      /\ counterPoolIdx' = counterPoolIdx /\ freeCounter' = freeCounter
  BY DEF WaitDone, tasks, counters
<1>5. LiveSame
  BY LiveCalls DEF Call, Waiting, WaitDone, PushTask, CountDown, In
<1>6. c \in Used /\ c \in CounterIds /\ \A r \in Threads : ~ Adds(r, c)
  BY <1>1, <1>2, InnermostOwns DEF OwnPcs, Adds, AddingPcs
<1>7. Pending(c) = {}
  <2>1. Cardinality(Pending(c)) = 0
    BY <1>2, <1>6 DEF CounterInv, Exact
  <2> QED BY <2>1, LiveFinite, FS_EmptySet
<1>8. /\ Head(stack'[p]) = f /\ stack'[p] # << >>
      /\ \A r \in Threads : r # p => stack'[r] = stack[r]
  BY <1>2, <1>3, Becomes DEF Types
<1>9. CountersSame
  BY <1>1, <1>2, <1>3, CountersGoOn DEF OwnPcs
<1>10. Used' = Used /\ \A d : Pending(d)' = Pending(d)
  BY <1>4, <1>5 DEF Used, Pending, LiveSame
<1>11. OwnersApart'
  BY <1>4, <1>9 DEF CounterInv, OwnersApart, CountersSame
<1>12. InUse'
  <2>1. /\ \A r \in Threads : CountersOn(stack'[r]) \subseteq Used'
        /\ Ids(freeCounter') \subseteq Used'
    BY <1>4, <1>9, <1>10 DEF CounterInv, InUse, CountersSame
  <2>2. \A i : Live(i)' => taskPool'[i].counter \in Used' /\ taskPool'[i].counter \notin Ids(freeCounter')
    BY <1>4, <1>5, <1>10 DEF CounterInv, InUse, LiveSame
  <2>3. ASSUME NEW r \in Threads, In(r, "release")' PROVE Pending(Frame(r).counter)' = {}
    <3>1. PICK d : d = Frame(r)'.counter
      OBVIOUS
    <3>2. Pending(d) = {}
      <4>1. CASE r = p
        BY <1>3, <1>7, <1>8, <3>1, <4>1 DEF Frame
      <4>2. CASE r # p
        <5>1. In(r, "release") /\ Frame(r)' = Frame(r)
          BY <1>8, <2>3, <4>2 DEF In, Frame
        <5> QED BY <3>1, <5>1 DEF CounterInv, InUse
      <4> QED BY <4>1, <4>2
    <3>3. Pending(d)' = {}
      BY <1>10, <3>2
    <3> QED BY <3>1, <3>3 DEF Pending
  <2> QED BY <2>1, <2>2, <2>3 DEF InUse
<1>13. Exact'
  <2> SUFFICES ASSUME NEW d \in CounterIds
               PROVE  /\ d \notin Used' => counterPool'[d] = 0
                      /\ d \in Used' => \A r \in Threads : Adds(r, d)' =>
                                           counterPool'[d] = Cardinality(Pending(d)') + Frame(r)'.left
                      /\ d \in Used' /\ (\A r \in Threads : ~ Adds(r, d)')
                             => counterPool'[d] = Cardinality(Pending(d)')
    BY DEF Exact
  <2>1. \A r \in Threads : (Adds(r, d)' <=> Adds(r, d)) /\ (Adds(r, d) => Frame(r)'.left = Frame(r).left)
    BY <1>2, <1>3, <1>8 DEF Adds, Frame, AddingPcs
  <2>2. Pending(d)' = Pending(d)
    BY <1>10
  <2> QED BY <1>4, <1>10, <2>1, <2>2 DEF CounterInv, Exact
<1> QED BY <1>11, <1>12, <1>13 DEF CounterInv

(* The counter of a batch that is done goes to the free list. *)
LEMMA BatchRelease ==
  ASSUME Typed, Places, CounterInv, NEW p \in Threads, ReleaseCounter(p)
  PROVE  CounterInv'
<1> USE DEF Typed
<1>1. PICK c : c = Frame(p).counter
  OBVIOUS
<1> DEFINE f == [Frame(p) EXCEPT !.at = "publish_counter"]
<1>2. /\ stack[p] # << >> /\ Frame(p) \in AddFrames /\ Frame(p).at = "release" /\ In(p, "release")
      /\ Become(p, f) /\ c \in Nat
  BY <1>1, InnermostCall DEF ReleaseCounter, AddPcs, Advance, AddFrames
<1>3. f \in AllFrames /\ f.at = "publish_counter"
  BY <1>1, <1>2, CallTypes DEF AddFrames, AddPcs
<1> HIDE DEF f
<1>4. /\ taskPool' = taskPool /\ counterPool' = counterPool
      /\ counterPoolIdx' = counterPoolIdx /\ freeCounter' = Claim(freeCounter, c)
  BY <1>1 DEF ReleaseCounter, tasks
<1>5. LiveSame
  BY LiveCalls DEF Call, Waiting, ReleaseCounter, PushTask, CountDown, In
<1>6. /\ c \in Used /\ c \in CounterIds /\ c \notin Ids(freeCounter)
      /\ \A r \in Threads : r # p => c \notin CountersOn(stack[r])
  BY <1>1, <1>2, InnermostOwns DEF OwnPcs
<1>7. Ids(freeCounter') = Ids(freeCounter) \union {c} /\ Distinct(freeCounter')
  BY <1>2, <1>4, <1>6, ClaimAdds DEF Types, CounterInv, OwnersApart
<1>8. \A i : Live(i) => taskPool[i].counter # c
  <2>1. Pending(c) = {} /\ \A i : Live(i) => i \in TaskIds
    BY <1>1, <1>2, LiveHandedOut DEF CounterInv, InUse
  <2> QED BY <2>1 DEF Pending
<1>9. /\ CountersOn(stack'[p]) = CountersOn(stack[p]) \ {c} /\ OnceOn(stack'[p])
      /\ Head(stack'[p]) = f /\ stack'[p] # << >>
      /\ \A r \in Threads : r # p => stack'[r] = stack[r]
  <2> DEFINE t == Tail(stack[p])
  <2>1. /\ CountersOn(stack[p]) = CounterOf(Frame(p)) \union CountersOn(t)
        /\ CountersOn(stack'[p]) = CounterOf(f) \union CountersOn(t)
        /\ OnceOn(stack[p]) => OnceOn(t) /\ (Frame(p).at \in OwnPcs => Frame(p).counter \notin CountersOn(t))
        /\ OnceOn(stack'[p]) <=> OnceOn(t) /\ (f.at \in OwnPcs => f.counter \notin CountersOn(t))
        /\ \A r \in Threads : r # p => stack'[r] = stack[r]
    BY <1>2, <1>3, CountersBecome
  <2>2. CounterOf(Frame(p)) = {c} /\ CounterOf(f) = {} /\ Frame(p).at \in OwnPcs /\ f.at \notin OwnPcs
    BY <1>1, <1>2, <1>3 DEF CounterOf, OwnPcs
  <2>3. Head(stack'[p]) = f /\ stack'[p] # << >>
    BY <1>2, <1>3, Becomes DEF Types
  <2> HIDE DEF t
  <2> QED BY <1>1, <2>1, <2>2, <2>3 DEF CounterInv, OwnersApart
<1>10. Used' = Used /\ \A d : Pending(d)' = Pending(d)
  BY <1>4, <1>5 DEF Used, Pending, LiveSame
<1>11. OwnersApart'
  <2> USE DEF CounterInv, OwnersApart
  <2>1. \A r \in Threads : \A d : d \in CountersOn(stack'[r]) => d \in CountersOn(stack[r]) /\ d # c
    BY <1>6, <1>9
  <2>2. \A r \in Threads : OnceOn(stack'[r])
    BY <1>9
  <2>3. \A v, r \in Threads : v # r => \A d \in CountersOn(stack'[v]) : d \notin CountersOn(stack'[r])
    BY <2>1
  <2>4. \A r \in Threads : \A d \in CountersOn(stack'[r]) : d \notin Ids(freeCounter')
    BY <1>7, <2>1
  <2> QED BY <1>7, <2>2, <2>3, <2>4
<1>12. InUse'
  <2>1. /\ \A r \in Threads : CountersOn(stack'[r]) \subseteq Used'
        /\ Ids(freeCounter') \subseteq Used'
    BY <1>6, <1>7, <1>9, <1>10 DEF CounterInv, InUse
  <2>2. \A i : Live(i)' => taskPool'[i].counter \in Used' /\ taskPool'[i].counter \notin Ids(freeCounter')
    BY <1>4, <1>5, <1>7, <1>8, <1>10 DEF CounterInv, InUse, LiveSame
  <2>3. ASSUME NEW r \in Threads, In(r, "release")' PROVE Pending(Frame(r).counter)' = {}
    <3>1. r # p
      BY <1>3, <1>9, <2>3 DEF In
    <3>2. In(r, "release") /\ Frame(r)' = Frame(r)
      BY <1>9, <2>3, <3>1 DEF In, Frame
    <3>3. {i \in TaskIds : Live(i)' /\ taskPool'[i].counter = Frame(r).counter} = {}
      BY <1>4, <1>5, <3>2 DEF CounterInv, InUse, Pending, LiveSame
    <3> QED BY <3>2, <3>3 DEF Pending
  <2> QED BY <2>1, <2>2, <2>3 DEF InUse
<1>13. Exact'
  <2> SUFFICES ASSUME NEW d \in CounterIds
               PROVE  /\ d \notin Used' => counterPool'[d] = 0
                      /\ d \in Used' => \A r \in Threads : Adds(r, d)' =>
                                           counterPool'[d] = Cardinality(Pending(d)') + Frame(r)'.left
                      /\ d \in Used' /\ (\A r \in Threads : ~ Adds(r, d)')
                             => counterPool'[d] = Cardinality(Pending(d)')
    BY DEF Exact
  <2>1. \A r \in Threads : (Adds(r, d)' <=> Adds(r, d)) /\ (Adds(r, d) => Frame(r)'.left = Frame(r).left)
    BY <1>2, <1>3, <1>9 DEF Adds, Frame, AddingPcs
  <2>2. Pending(d)' = Pending(d)
    BY <1>10
  <2> QED BY <1>4, <1>10, <2>1, <2>2 DEF CounterInv, Exact
<1> QED BY <1>11, <1>12, <1>13 DEF CounterInv

(* A task counts down the counter of its batch, once. *)
LEMMA BatchCountDown ==
  ASSUME Typed, Places, CounterInv, NEW p \in Threads, CountDown(p)
  PROVE  CounterInv'
<1> USE DEF Typed
<1>1. PICK i, c : i = Frame(p).id /\ c = taskPool[i].counter
  OBVIOUS
<1>2. /\ taskPool' = taskPool /\ counterPool' = [counterPool EXCEPT ![c] = @ - 1]
      /\ counterPoolIdx' = counterPoolIdx /\ freeCounter' = freeCounter
  BY <1>1 DEF CountDown, tasks
<1>3. OwnersSame
  BY OwnersWorking DEF Working, CounterInv, OwnersApart
<1>4. Live(i) /\ \A j : Live(j)' <=> Live(j) /\ j # i
  BY <1>1, LiveCountDown
<1>5. c \in Used /\ c \in CounterIds /\ i \in TaskIds /\ i \in Pending(c)
  BY <1>1, <1>4, LiveHandedOut DEF CounterInv, InUse, Pending, Used, Types
<1>6. Used' = Used
  BY <1>2 DEF Used
<1>7. Pending(c)' = Pending(c) \ {i}
  BY <1>2, <1>4 DEF Pending
<1>8. \A d : d # c => Pending(d)' = Pending(d)
  <2> SUFFICES ASSUME NEW d, d # c PROVE Pending(d)' = Pending(d)
    OBVIOUS
  <2> QED BY <1>1, <1>2, <1>4 DEF Pending
<1>9. OwnersApart'
  BY <1>2, <1>3 DEF CounterInv, OwnersApart, OwnersSame, CountersSame
<1>10. InUse'
  <2>1. /\ \A r \in Threads : CountersOn(stack'[r]) \subseteq Used'
        /\ Ids(freeCounter') \subseteq Used'
    BY <1>2, <1>3, <1>6 DEF CounterInv, InUse, OwnersSame, CountersSame
  <2>2. \A j : Live(j)' => taskPool'[j].counter \in Used' /\ taskPool'[j].counter \notin Ids(freeCounter')
    BY <1>2, <1>4, <1>6 DEF CounterInv, InUse
  <2>3. ASSUME NEW r \in Threads, In(r, "release")' PROVE Pending(Frame(r).counter)' = {}
    <3>1. PICK d : d = Frame(r).counter
      OBVIOUS
    <3>2. In(r, "release") /\ Frame(r)'.counter = d
      BY <1>3, <2>3, <3>1 DEF OwnersSame
    <3>3. Pending(d) = {}
      BY <3>1, <3>2 DEF CounterInv, InUse
    <3>4. Pending(d)' = {}
      BY <1>7, <1>8, <3>3
    <3> QED BY <3>2, <3>4 DEF Pending
  <2> QED BY <2>1, <2>2, <2>3 DEF InUse
<1>11. Exact'
  <2> SUFFICES ASSUME NEW d \in CounterIds
               PROVE  /\ d \notin Used' => counterPool'[d] = 0
                      /\ d \in Used' => \A r \in Threads : Adds(r, d)' =>
                                           counterPool'[d] = Cardinality(Pending(d)') + Frame(r)'.left
                      /\ d \in Used' /\ (\A r \in Threads : ~ Adds(r, d)')
                             => counterPool'[d] = Cardinality(Pending(d)')
    BY DEF Exact
  <2>1. \A r \in Threads : (Adds(r, d)' <=> Adds(r, d)) /\ (Adds(r, d) => Frame(r)'.left = Frame(r).left)
    BY <1>3 DEF OwnersSame
  <2>2. CASE d = c
    <3>1. counterPool'[d] = counterPool[d] - 1 /\ d \in Used
      BY <1>2, <1>5, <2>2 DEF Types
    <3>2. Cardinality(Pending(d)') = Cardinality(Pending(d)) - 1 /\ Cardinality(Pending(d)) \in Nat
      BY <1>5, <1>7, <2>2, LiveFinite, FS_RemoveElement
    <3>3. ASSUME NEW r \in Threads, Adds(r, d) PROVE Frame(r).left \in Nat
      <4>1. stack[r] \in Seq(AllFrames) /\ stack[r] # << >>
        BY <3>3 DEF Types, Adds
      <4>2. Frame(r) \in AddFrames
        BY <3>3, <4>1, TopOfStack, FrameTypes DEF Adds, Frame, AddingPcs, AddPcs
      <4> QED BY <4>2 DEF AddFrames
    <3>4. \A r \in Threads : Adds(r, d) => counterPool[d] = Cardinality(Pending(d)) + Frame(r).left
      BY <3>1 DEF CounterInv, Exact
    <3>5. (\A r \in Threads : ~ Adds(r, d)) => counterPool[d] = Cardinality(Pending(d))
      BY <3>1 DEF CounterInv, Exact
    <3> QED BY <1>6, <2>1, <3>1, <3>2, <3>3, <3>4, <3>5
  <2>3. CASE d # c
    <3>1. counterPool'[d] = counterPool[d] /\ Pending(d)' = Pending(d)
      BY <1>2, <1>8, <2>3 DEF Types
    <3> QED BY <1>6, <2>1, <3>1 DEF CounterInv, Exact
  <2> QED BY <2>2, <2>3
<1> QED BY <1>9, <1>10, <1>11 DEF CounterInv

(* No batch and no counter before load. *)
LEMMA CounterInit == Init => CounterInv
<1> SUFFICES ASSUME Init PROVE CounterInv
  OBVIOUS
<1>1. \A p \in Threads : stack[p] = << >> /\ CountersOn(stack[p]) = {} /\ OnceOn(stack[p]) /\ IdsAt(stack[p], LivePcs) = {}
  BY DEF Init, CountersOn, OnceOn, IdsAt
<1>2. Ids(freeCounter) = {} /\ Distinct(freeCounter) /\ \A t \in Queues : Ids(jobs[t]) = {}
  BY DEF Init, Ids, Distinct
<1>3. \A i : ~ Live(i)
  BY <1>1, <1>2 DEF Live
<1>4. \A c : c \notin Used
  BY DEF Init, Used
<1>5. OwnersApart
  BY <1>1, <1>2 DEF OwnersApart
<1>6. InUse
  BY <1>1, <1>2, <1>3 DEF InUse, In
<1>7. Exact
  BY <1>4 DEF Exact, Init
<1> QED BY <1>5, <1>6, <1>7 DEF CounterInv

(* Every step keeps the counters exact. *)
LEMMA CounterStep ==
  ASSUME Typed, Places, CounterInv, Next
  PROVE  CounterInv'
<1> USE DEF Typed
<1>0. \A p \in Threads : OnceOn(stack[p])
  BY DEF CounterInv, OwnersApart
<1>1. ASSUME NEW p \in Threads, Adding(p) PROVE CounterInv'
  <2>1. CASE NewCounter(p) \/ GrowCounter(p)
    BY <2>1, BatchNewCounter
  <2>2. CASE PushTask(p)
    BY <2>2, BatchPush
  <2>3. CASE AddReturn(p)
    BY <2>3, BatchAddReturn
  <2>4. CASE NewTask(p) \/ GrowTask(p) \/ NoFreeCounter(p) \/ NoFreeTask(p) \/ PublishTask(p)
    <3>1. OwnersSame
      BY <1>0, <2>4, OwnersAdding
    <3>2. LiveSame
      BY <2>4, LiveCalls DEF Call, Adding, NewTask, GrowTask, NoFreeCounter, NoFreeTask, PublishTask,
                                 PushTask, CountDown, In
    <3>3. taskPool' = taskPool /\ UNCHANGED counters
      BY <2>4 DEF NewTask, GrowTask, GetTask, NoFreeCounter, NoFreeTask, PublishTask, tasks
    <3> QED BY <3>1, <3>2, <3>3, BatchesSame DEF counters, CounterInv, OwnersApart
  <2> QED BY <1>1, <2>1, <2>2, <2>3, <2>4 DEF Adding
<1>2. ASSUME NEW p \in Threads, Waiting(p) PROVE CounterInv'
  <2>1. CASE WaitDone(p)
    BY <2>1, BatchWaitDone
  <2>2. CASE ReleaseCounter(p)
    BY <2>2, BatchRelease
  <2>3. CASE WaitWork(p) \/ PublishCounter(p)
    <3>1. OwnersSame
      BY <1>0, <2>3, OwnersAdding
    <3>2. LiveSame
      BY <2>3, LiveCalls DEF Call, Waiting, WaitWork, PublishCounter, PushTask, CountDown, In
    <3>3. /\ taskPool' = taskPool /\ counterPool' = counterPool /\ counterPoolIdx' = counterPoolIdx
          /\ Ids(freeCounter') = Ids(freeCounter) /\ Distinct(freeCounter')
      BY <2>3, PublishKeeps DEF WaitWork, PublishCounter, tasks, counters, CounterInv, OwnersApart, Types
    <3> QED BY <3>1, <3>2, <3>3, BatchesSame
  <2> QED BY <1>2, <2>1, <2>2, <2>3 DEF Waiting
<1>3. ASSUME NEW p \in Threads, Working(p) PROVE CounterInv'
  <2>1. CASE CountDown(p)
    BY <2>1, BatchCountDown
  <2>2. CASE ~ CountDown(p)
    <3>1. OwnersSame
      BY <1>0, <1>3, OwnersWorking
    <3>2. ~ PushTask(p)
      BY <1>3 DEF Working, TakeWork, NoWork, RunLeaf, RunInit, RunRender, Running, CountDown, FreeTask,
                  PublishFree, PushTask, In
    <3>3. LiveSame
      BY <1>3, <2>2, <3>2, LiveCalls DEF Call
    <3>4. taskPool' = taskPool /\ UNCHANGED counters
      BY <1>3, <2>2 DEF Working, TakeWork, NoWork, RunLeaf, RunInit, RunRender, FreeTask, PublishFree, tasks
    <3> QED BY <3>1, <3>3, <3>4, BatchesSame DEF counters, CounterInv, OwnersApart
  <2> QED BY <2>1, <2>2
<1>4. ASSUME (\E w \in Workers : Worker(w)) \/ Program PROVE CounterInv'
  <2>1. OwnersSame
    BY <1>4, OwnersOthers
  <2>2. LiveSame
    BY <1>4, LiveOthers
  <2>3. taskPool' = taskPool /\ UNCHANGED counters
    BY <1>4 DEF Worker, WorkerStart, WorkerLoop, WorkerEnd, Program, Load, CreateRenderer, BgfxInit,
                NoRenderer, AddBatch, Exit, Unload, Joined, tasks
  <2> QED BY <2>1, <2>2, <2>3, BatchesSame DEF counters, CounterInv, OwnersApart
<1> QED BY <1>1, <1>2, <1>3, <1>4 DEF Next, Call

(* The items of a batch that have no task are those of the call that adds   *)
(* them.                                                                    *)
LEMMA UnaddedAre ==
  ASSUME Typed, CounterInv, NEW c \in CounterIds
  PROVE  /\ \A p \in Threads : Adds(p, c) => /\ IsFiniteSet(Unadded(c))
                                              /\ Cardinality(Unadded(c)) = Frame(p).left
         /\ (\A p \in Threads : ~ Adds(p, c)) => Unadded(c) = {}
<1> USE DEF Typed
<1>1. ASSUME NEW p \in Threads PROVE AddingTo(p, c) = IF Adds(p, c) THEN {Frame(p)} ELSE {}
  <2>1. CASE stack[p] = << >>
    BY <2>1 DEF AddingTo, Frames, Adds
  <2>2. CASE stack[p] # << >>
    <3>0. stack[p] \in Seq(AllFrames)
      BY DEF Types
    <3>1. /\ Frame(p) = stack[p][1] /\ 1 \in DOMAIN stack[p]
          /\ Tail(stack[p]) \in Seq(AllFrames)
      BY <2>2, <3>0, TopOfStack DEF Frame
    <3>2. \A k \in DOMAIN stack[p] : k # 1 => stack[p][k].at \in {"wait", "count"}
      <4>1. DOMAIN stack[p] = 1 .. Len(stack[p]) /\ Len(stack[p]) \in Nat
        BY <3>0, LenProperties
      <4>2. /\ Len(Tail(stack[p])) = Len(stack[p]) - 1
            /\ \A k \in 1 .. Len(stack[p]) - 1 : Tail(stack[p])[k] = stack[p][k + 1]
        BY <2>2, <3>0, HeadTailProperties
      <4>3. DOMAIN Tail(stack[p]) = 1 .. Len(stack[p]) - 1
        BY <3>1, <4>2, LenProperties
      <4>4. Suspended(Tail(stack[p]))
        BY <2>2 DEF Shape
      <4> SUFFICES ASSUME NEW k \in DOMAIN stack[p], k # 1 PROVE stack[p][k].at \in {"wait", "count"}
        OBVIOUS
      <4>5. k - 1 \in 1 .. Len(stack[p]) - 1 /\ (k - 1) + 1 = k
        BY <4>1
      <4> QED BY <4>2, <4>3, <4>4, <4>5 DEF Suspended
    <3>3. \A g \in Frames(p) : g.at \in AddingPcs => g = Frame(p)
      BY <3>1, <3>2 DEF Frames, AddingPcs
    <3>4. Frame(p) \in Frames(p)
      BY <3>1 DEF Frames
    <3> QED BY <2>2, <3>3, <3>4 DEF AddingTo, Adds, AddingPcs
  <2> QED BY <2>1, <2>2
<1>2. ASSUME NEW p \in Threads, Adds(p, c)
      PROVE  IsFiniteSet(Unadded(c)) /\ Cardinality(Unadded(c)) = Frame(p).left
  <2> DEFINE n == Frame(p).left
  <2>1. stack[p] # << >> /\ Frame(p).at \in OwnPcs /\ Frame(p).counter = c
    BY <1>2 DEF Adds, AddingPcs, OwnPcs
  <2>2. \A r \in Threads : r # p => ~ Adds(r, c)
    BY <2>1, InnermostOwns
  <2>3. n \in Nat
    <3>1. Frame(p) \in AllFrames
      BY <2>1, TopOfStack DEF Types, Frame
    <3>2. Frame(p) \in AddFrames
      BY <1>2, <3>1, FrameTypes DEF Adds, AddingPcs, AddPcs
    <3> QED BY <3>2 DEF AddFrames
  <2>4. UNION {1 .. f.left : f \in AddingTo(p, c)} = 1 .. n
    <3>1. AddingTo(p, c) = {Frame(p)}
      BY <1>1, <1>2
    <3> QED BY <3>1
  <2>5. \A r \in Threads : r # p => {r} \X UNION {1 .. f.left : f \in AddingTo(r, c)} = {}
    <3> SUFFICES ASSUME NEW r \in Threads, r # p PROVE {r} \X UNION {1 .. f.left : f \in AddingTo(r, c)} = {}
      OBVIOUS
    <3>1. AddingTo(r, c) = {}
      BY <1>1, <2>2
    <3> QED BY <3>1
  <2> HIDE DEF n
  <2>6. Unadded(c) = {p} \X (1 .. n)
    <3> DEFINE U(r) == {r} \X UNION {1 .. f.left : f \in AddingTo(r, c)}
    <3>1. Unadded(c) = UNION {U(r) : r \in Threads}
      BY DEF Unadded
    <3>2. U(p) = {p} \X (1 .. n)
      BY <2>4
    <3>3. \A r \in Threads : r # p => U(r) = {}
      BY <2>5
    <3> HIDE DEF U
    <3> QED BY <3>1, <3>2, <3>3
  <2>7. IsFiniteSet({p}) /\ Cardinality({p}) = 1
    BY FS_Singleton
  <2>8. IsFiniteSet(1 .. n) /\ Cardinality(1 .. n) = n
    BY <2>3, FS_Interval
  <2>9. IsFiniteSet({p} \X (1 .. n)) /\ Cardinality({p} \X (1 .. n)) = 1 * n
    <3> DEFINE S == {p}
               T == 1 .. n
    <3>1. IsFiniteSet(S) /\ Cardinality(S) = 1 /\ IsFiniteSet(T) /\ Cardinality(T) = n
      BY <2>7, <2>8
    <3> HIDE DEF S, T
    <3>2. IsFiniteSet(S \X T) /\ Cardinality(S \X T) = Cardinality(S) * Cardinality(T)
      BY <3>1, FS_Product
    <3>3. IsFiniteSet(S \X T) /\ Cardinality(S \X T) = 1 * n
      BY <3>1, <3>2
    <3> QED BY <3>3 DEF S, T
  <2> QED BY <2>3, <2>6, <2>9 DEF n
<1>3. ASSUME \A p \in Threads : ~ Adds(p, c) PROVE Unadded(c) = {}
  <2>1. \A p \in Threads : AddingTo(p, c) = {}
    BY <1>1, <1>3
  <2>2. \A p \in Threads : {p} \X UNION {1 .. f.left : f \in AddingTo(p, c)} = {}
    <3> SUFFICES ASSUME NEW p \in Threads PROVE {p} \X UNION {1 .. f.left : f \in AddingTo(p, c)} = {}
      OBVIOUS
    <3> QED BY <2>1
  <2> QED BY <2>2 DEF Unadded
<1> QED BY <1>2, <1>3

(* What the invariant says of the properties of TaskManager. *)
LEMMA CountersMean ==
  ASSUME Typed, Places, CounterInv
  PROVE  CounterExact /\ FreedCounterUnreferenced /\ TypeOK
<1> USE DEF Typed
<1>1. ASSUME NEW c \in CounterIds, c \in Used
      PROVE  counterPool[c] = Cardinality(Uncounted(c)) + Cardinality(Unadded(c))
  <2>1. Uncounted(c) = Pending(c) /\ Cardinality(Pending(c)) \in Nat
    BY LiveHandedOut, LiveFinite
  <2>2. CASE \E p \in Threads : Adds(p, c)
    <3>1. PICK p \in Threads : Adds(p, c)
      BY <2>2
    <3>2. counterPool[c] = Cardinality(Pending(c)) + Frame(p).left
      BY <1>1, <3>1 DEF CounterInv, Exact
    <3>3. Cardinality(Unadded(c)) = Frame(p).left
      BY <3>1, UnaddedAre
    <3> QED BY <2>1, <3>2, <3>3
  <2>3. CASE \A p \in Threads : ~ Adds(p, c)
    <3>1. counterPool[c] = Cardinality(Pending(c))
      BY <1>1, <2>3 DEF CounterInv, Exact
    <3>2. Unadded(c) = {} /\ Cardinality({}) = 0
      BY <2>3, UnaddedAre, FS_EmptySet
    <3> QED BY <2>1, <3>1, <3>2
  <2> QED BY <2>2, <2>3
<1>2. CounterExact
  BY <1>1 DEF CounterExact, Used, Types
<1>3. FreedCounterUnreferenced
  <2>1. ASSUME NEW c \in Ids(freeCounter) PROVE Uncounted(c) = {}
    <3>1. Uncounted(c) = Pending(c)
      BY LiveHandedOut
    <3> QED BY <3>1 DEF CounterInv, InUse, Pending
  <2>2. ASSUME NEW c \in Ids(freeCounter), NEW p \in Threads, NEW f \in Frames(p), f.at \in OwnPcs
        PROVE  f.counter # c
    <3>1. f.counter \in CountersOn(stack[p])
      BY <2>2 DEF Frames, CountersOn
    <3> QED BY <3>1 DEF CounterInv, OwnersApart
  <2> QED BY <2>1, <2>2 DEF FreedCounterUnreferenced, CounterInv, OwnersApart, OwnPcs, AddingPcs
<1>4. counterPool \in [CounterIds -> Nat]
  <2> SUFFICES ASSUME NEW c \in CounterIds PROVE counterPool[c] \in Nat
    BY DEF Types
  <2>1. CASE c \notin Used
    BY <2>1 DEF CounterInv, Exact
  <2>2. CASE c \in Used
    <3>1. Cardinality(Pending(c)) \in Nat
      BY LiveFinite
    <3>2. CASE \E p \in Threads : Adds(p, c)
      <4>1. PICK p \in Threads : Adds(p, c)
        BY <3>2
      <4>2. counterPool[c] = Cardinality(Pending(c)) + Frame(p).left
        BY <2>2, <4>1 DEF CounterInv, Exact
      <4>3. IsFiniteSet(Unadded(c)) /\ Cardinality(Unadded(c)) = Frame(p).left
        BY <4>1, UnaddedAre
      <4>4. Cardinality(Unadded(c)) \in Nat
        BY <4>3, FS_CardinalityType
      <4> QED BY <3>1, <4>2, <4>3, <4>4
    <3>3. CASE \A p \in Threads : ~ Adds(p, c)
      BY <2>2, <3>1, <3>3 DEF CounterInv, Exact
    <3> QED BY <3>2, <3>3
  <2> QED BY <2>1, <2>2
<1>5. TypeOK
  BY <1>4 DEF TypeOK, Types, AllFrames
<1> QED BY <1>2, <1>3, <1>5

(* All that is invariant of batches. *)
Batches == Typed /\ Places /\ CounterInv

(* Types, places and counters hold in every reachable state. *)
LEMMA BatchesInvariant == Spec => []Batches
<1>1. Init => Batches
  BY TypedInit, PlacesInit, CounterInit DEF Batches
<1>2. Batches /\ [Next]_vars => Batches'
  <2> SUFFICES ASSUME Batches, [Next]_vars PROVE Batches'
    OBVIOUS
  <2>1. CASE Next
    BY <2>1, TypedStep, PlacesStep, CounterStep DEF Batches
  <2>2. CASE UNCHANGED vars
    <3>1. Typed'
      BY <2>2, TypedStep DEF Batches
    <3>2. IdsSame(HeldPcs) /\ ListsSame
      BY <2>2 DEF vars, IdsSame, ListsSame
    <3>3. Places'
      BY <3>2, PlacesSame DEF Batches
    <3>4. OwnersSame /\ LiveSame
      BY <2>2 DEF vars, OwnersSame, CountersSame, Adds, In, Frame, LiveSame, Live
    <3>5. CounterInv'
      BY <2>2, <3>4, BatchesSame DEF vars, Batches, CounterInv, OwnersApart
    <3> QED BY <3>1, <3>3, <3>5 DEF Batches
  <2> QED BY <2>1, <2>2
<1> QED BY <1>1, <1>2, PTL DEF Spec

(* A counter is the number of the items of its batch that are not done, so  *)
(* no wait returns early and none waits for another batch.                  *)
THEOREM CountersExact == Spec => []CounterExact
<1>1. Batches => CounterExact
  BY CountersMean DEF Batches
<1> QED BY <1>1, BatchesInvariant, PTL

(* A counter on the free list is on it once, and nobody refers to it.       *)
THEOREM FreedCountersUnreferenced == Spec => []FreedCounterUnreferenced
<1>1. Batches => FreedCounterUnreferenced
  BY CountersMean DEF Batches
<1> QED BY <1>1, BatchesInvariant, PTL

(* The types hold always; no counter goes below 0. *)
THEOREM TaskTypes == Spec => []TypeOK
<1>1. Batches => TypeOK
  BY CountersMean DEF Batches
<1> QED BY <1>1, BatchesInvariant, PTL

---------------------------------------------------------------------------
(* The renderer's work: an item that a call is to add, a queued task, a     *)
(* task that is run.                                                        *)
ToAdd == {"new_counter", "grow_counter", "new_task", "grow_task", "push_task", "publish_task"}
Brings(p) == /\ stack[p] # << >> /\ Frame(p).at \in ToAdd
             /\ Frame(p).left > 0 /\ Frame(p).work # "leaf"
Renders(p) == /\ stack[p] # << >> /\ Frame(p).at = "run"
              /\ taskPool[Frame(p).id].work # "leaf"
Queued(i) == (\E t \in Queues : i \in Ids(jobs[t])) /\ taskPool[i].work # "leaf"

(* There is at most one piece of it. *)
AtMostOne ==
    /\ \A p, r \in Threads : p # r =>
          ~ (Brings(p) /\ Brings(r)) /\ ~ (Brings(p) /\ Renders(r)) /\ ~ (Renders(p) /\ Renders(r))
    /\ \A p \in Threads : \A i : Queued(i) => ~ Brings(p) /\ ~ Renders(p)
    /\ \A i, j : Queued(i) /\ Queued(j) => i = j
    /\ \A p \in Threads : Brings(p) => Frame(p).left = 1

(* None before the renderer is created; once it is up, only the render      *)
(* loop, on another thread than the main one.                               *)
Early == phase \in {"load", "boot"} =>
             /\ \A p \in Threads : ~ Brings(p) /\ ~ Renders(p)
             /\ \A i : ~ Queued(i)
Late == phase \notin {"load", "boot", "init"} =>
             /\ \A p \in Threads : ~ Brings(p)
             /\ ~ Renders(Main)
             /\ \A p \in Threads : Renders(p) => taskPool[Frame(p).id].work = "render"
             /\ \A i : ~ Queued(i)

(* In between the main thread is in the one call that waits without work.   *)
SpinPcs == {"new_counter", "grow_counter", "new_task", "grow_task", "push_task", "publish_task",
            "spin", "release", "publish_counter"}
MainSpins == phase = "init" /\ stack[Main] # << >> =>
                 /\ Tail(stack[Main]) = << >>
                 /\ Frame(Main).at \in SpinPcs /\ Frame(Main).wait = "spin"

Rendering == AtMostOne /\ Early /\ Late
RenderInv == Rendering /\ MainSpins

(* So the main thread is never found in the render loop. *)
LEMMA RenderMeans ==
  ASSUME Typed, RenderInv
  PROVE  MainNeverRenders
<1> SUFFICES ASSUME Running(Main, "render") PROVE FALSE
  BY DEF MainNeverRenders
<1>1. Main \in Threads
  BY DEF Threads
<1>2. Renders(Main) /\ stack[Main] # << >> /\ Frame(Main).at = "run"
  BY DEF Running, In, Renders, Frame
<1>3. phase = "init"
  BY <1>1, <1>2 DEF RenderInv, Rendering, Early, Late
<1> QED BY <1>2, <1>3 DEF RenderInv, MainSpins, SpinPcs

---------------------------------------------------------------------------
(* What the main thread does while the renderer starts. *)

(* While the renderer starts the main thread stays in that call. *)
LEMMA MainGoesOn ==
  ASSUME Typed, MainSpins, phase = "init", Call(Main)
  PROVE  MainSpins'
<1> USE DEF Typed
<1>0. Main \in Threads
  BY DEF Threads
<1>1. stack[Main] # << >>
  BY <1>0, OwnStack
<1>2. Tail(stack[Main]) = << >> /\ Frame(Main).at \in SpinPcs /\ Frame(Main).wait = "spin"
  BY <1>1 DEF MainSpins
<1>3. Frame(Main) \in AddFrames
  BY <1>0, <1>1, <1>2, TopOfStack, FrameTypes DEF Types, Frame, SpinPcs, AddPcs
<1>4. phase' = phase
  BY DEF Call, Adding, Waiting, Working, NewCounter, NoFreeCounter, GrowCounter, GetCounter,
           NewTask, NoFreeTask, GrowTask, GetTask, PushTask, PublishTask, AddReturn,
         WaitDone, WaitWork, ReleaseCounter, PublishCounter, TakeWork, NoWork, RunLeaf, RunInit,
         RunRender, CountDown, FreeTask, PublishFree, program
<1>5. ASSUME NEW f \in AddFrames, Become(Main, f), f.at \in SpinPcs, f.wait = "spin"
      PROVE  MainSpins'
  BY <1>0, <1>1, <1>2, <1>5, Becomes DEF Types, AllFrames, MainSpins, Frame
<1>6. ASSUME NEW at \in SpinPcs, Advance(Main, at) PROVE MainSpins'
  <2>1. [Frame(Main) EXCEPT !.at = at] \in AddFrames
    BY <1>3 DEF AddFrames, SpinPcs, AddPcs
  <2> QED BY <1>2, <1>3, <1>5, <1>6, <2>1 DEF Advance, AddFrames
<1>7. CASE NewCounter(Main) \/ GrowCounter(Main)
  <2> DEFINE c == CounterOfNew(Main)
             f == [Frame(Main) EXCEPT !.at = "new_task", !.counter = c]
  <2>1. Become(Main, f) /\ c \in Nat
    BY <1>0, <1>7, GotCounter
  <2> HIDE DEF c
  <2>2. f \in AddFrames /\ f.at = "new_task" /\ f.wait = "spin"
    BY <1>2, <1>3, <2>1 DEF AddFrames, AddPcs
  <2> HIDE DEF f
  <2> QED BY <1>5, <2>1, <2>2 DEF SpinPcs
<1>8. CASE NewTask(Main) \/ GrowTask(Main)
  <2> DEFINE i == TaskOf(Main)
             f == [Frame(Main) EXCEPT !.at = "push_task", !.id = i]
  <2>1. Become(Main, f) /\ i \in Nat
    BY <1>0, <1>8, GotTask
  <2> HIDE DEF i
  <2>2. f \in AddFrames /\ f.at = "push_task" /\ f.wait = "spin"
    BY <1>2, <1>3, <2>1 DEF AddFrames, AddPcs
  <2> HIDE DEF f
  <2> QED BY <1>5, <2>1, <2>2 DEF SpinPcs
<1>9. CASE PushTask(Main)
  <2> DEFINE f == [Frame(Main) EXCEPT !.at = "publish_task", !.left = @ - 1]
  <2>1. Become(Main, f) /\ Frame(Main).left > 0
    BY <1>0, <1>9 DEF PushTask, In, Shape, Frame
  <2>2. Frame(Main).left - 1 \in Nat
    BY <1>3, <2>1 DEF AddFrames
  <2>3. f \in AddFrames /\ f.at = "publish_task" /\ f.wait = "spin"
    BY <1>2, <1>3, <2>2 DEF AddFrames, AddPcs
  <2> HIDE DEF f
  <2> QED BY <1>5, <2>1, <2>3 DEF SpinPcs
<1>10. CASE PublishTask(Main)
  <2> DEFINE f == [Frame(Main) EXCEPT !.at = "new_task", !.id = 0]
  <2>1. Become(Main, f)
    BY <1>10 DEF PublishTask
  <2>2. f \in AddFrames /\ f.at = "new_task" /\ f.wait = "spin"
    BY <1>2, <1>3 DEF AddFrames, AddPcs
  <2> HIDE DEF f
  <2> QED BY <1>5, <2>1, <2>2 DEF SpinPcs
<1>11. CASE AddReturn(Main)
  BY <1>2, <1>6, <1>11 DEF AddReturn, SpinPcs
<1>12. CASE Waiting(Main)
  <2>1. ~ In(Main, "wait")
    BY <1>2 DEF In, Frame, SpinPcs
  <2>2. CASE WaitDone(Main) \/ ReleaseCounter(Main)
    BY <1>6, <2>2 DEF WaitDone, ReleaseCounter, SpinPcs
  <2>3. CASE PublishCounter(Main)
    BY <1>0, <1>1, <1>2, <2>3, Leaves DEF PublishCounter, MainSpins, Types
  <2> QED BY <1>12, <2>1, <2>2, <2>3 DEF Waiting, WaitWork
<1>13. ~ Working(Main)
  BY <1>2 DEF Working, TakeWork, NoWork, RunLeaf, RunInit, RunRender, Running, CountDown, FreeTask,
              PublishFree, In, Frame, SpinPcs
<1>14. CASE NoFreeCounter(Main) \/ NoFreeTask(Main)
  BY <1>6, <1>14 DEF NoFreeCounter, NoFreeTask, SpinPcs
<1> QED BY <1>7, <1>8, <1>9, <1>10, <1>11, <1>12, <1>13, <1>14 DEF Call, Adding

(* Every step keeps the main thread spinning while the renderer starts. *)
LEMMA MainSpinsStep ==
  ASSUME Typed, MainSpins, Next
  PROVE  MainSpins'
<1> USE DEF Typed
<1>0. Main \in Threads /\ Main \notin Workers /\ Workers \subseteq Threads /\ Shared \in Queues
  BY ThreadAssumption DEF Threads, Queues
<1>1. ASSUME NEW p \in Threads, Call(p) PROVE MainSpins'
  <2>1. phase' = phase
    BY <1>1 DEF Call, Adding, Waiting, Working, NewCounter, NoFreeCounter, GrowCounter, GetCounter,
           NewTask, NoFreeTask, GrowTask, GetTask, PushTask, PublishTask, AddReturn,
         WaitDone, WaitWork, ReleaseCounter, PublishCounter, TakeWork, NoWork, RunLeaf, RunInit,
         RunRender, CountDown, FreeTask, PublishFree, program
  <2>2. CASE p # Main
    <3>1. stack'[Main] = stack[Main]
      BY <1>0, <1>1, <2>2, OwnStack
    <3> QED BY <2>1, <3>1 DEF MainSpins, Frame
  <2>3. CASE p = Main /\ phase = "init"
    BY <1>1, <2>3, MainGoesOn
  <2>4. CASE phase # "init"
    BY <2>1, <2>4 DEF MainSpins
  <2> QED BY <2>2, <2>3, <2>4
<1>2. ASSUME NEW w \in Workers, Worker(w) PROVE MainSpins'
  <2>1. phase' = phase /\ stack'[Main] = stack[Main]
    BY <1>0, <1>2 DEF Types, Worker, WorkerStart, WorkerLoop, WorkerEnd, Enter, program
  <2> QED BY <2>1 DEF MainSpins, Frame
<1>3. CASE CreateRenderer
  <2> DEFINE f == AddCall("init", 1, Shared, "spin")
  <2>1. f \in AllFrames /\ f.at = "new_counter" /\ f.wait = "spin"
    BY <1>0 DEF AllFrames, AddFrames, AddCall, AddPcs, Works
  <2>2. Enter(Main, f) /\ stack[Main] = << >>
    BY <1>3 DEF CreateRenderer, Idle
  <2> HIDE DEF f
  <2>3. Head(stack'[Main]) = f /\ Tail(stack'[Main]) = << >>
    BY <1>0, <2>1, <2>2, Enters DEF Types
  <2> QED BY <2>1, <2>3 DEF MainSpins, Frame, SpinPcs
<1>4. CASE Program /\ ~ CreateRenderer
  BY <1>4 DEF Program, Load, BgfxInit, NoRenderer, AddBatch, Exit, Unload, Joined, MainSpins
<1> QED BY <1>1, <1>2, <1>3, <1>4 DEF Next

---------------------------------------------------------------------------
(* The pieces of the renderer's work. *)

(* No step but those that move a piece on adds one. *)
LEMMA NoNewPiece ==
  ASSUME Rendering,
         phase' \in {"load", "boot"} => phase \in {"load", "boot"},
         phase' \notin {"load", "boot", "init"} => phase \notin {"load", "boot", "init"},
         \A p \in Threads : Brings(p)' => Brings(p) /\ Frame(p)'.left = Frame(p).left,
         \A p \in Threads : Renders(p)' =>
             Renders(p) /\ taskPool'[Frame(p)'.id].work = taskPool[Frame(p).id].work,
         \A i : Queued(i)' => Queued(i)
  PROVE  Rendering'
<1>0. Main \in Threads
  BY DEF Threads
<1>1. AtMostOne'
  <2>1. \A p, r \in Threads : p # r =>
          ~ (Brings(p)' /\ Brings(r)') /\ ~ (Brings(p)' /\ Renders(r)') /\ ~ (Renders(p)' /\ Renders(r)')
    BY DEF Rendering, AtMostOne
  <2>2. \A p \in Threads : \A i : Queued(i)' => ~ Brings(p)' /\ ~ Renders(p)'
    BY DEF Rendering, AtMostOne
  <2>3. \A i, j : Queued(i)' /\ Queued(j)' => i = j
    BY DEF Rendering, AtMostOne
  <2>4. \A p \in Threads : Brings(p)' => Frame(p)'.left = 1
    BY DEF Rendering, AtMostOne
  <2> QED BY <2>1, <2>2, <2>3, <2>4 DEF AtMostOne
<1>2. Early'
  BY DEF Rendering, Early
<1>3. Late'
  BY <1>0 DEF Rendering, Late
<1> QED BY <1>1, <1>2, <1>3 DEF Rendering

(* A step that changes the innermost call of one thread adds no piece if    *)
(* that call neither runs a task nor adds a new item.                       *)
LEMMA QuietHead ==
  ASSUME Rendering, NEW p \in Threads, \A r \in Threads : r # p => stack'[r] = stack[r],
         taskPool' = taskPool, phase' = phase,
         \A t \in Queues : Ids(jobs'[t]) = Ids(jobs[t]),
         stack'[p] # << >> =>
             \/ Head(stack'[p]).at \notin ToAdd \union {"run"}
             \/ /\ stack[p] # << >> /\ Frame(p).at \in ToAdd /\ Head(stack'[p]).at \in ToAdd
                /\ Head(stack'[p]).left = Frame(p).left /\ Head(stack'[p]).work = Frame(p).work
  PROVE  Rendering'
<1>1. ASSUME NEW r \in Threads, Brings(r)' PROVE Brings(r) /\ Frame(r)'.left = Frame(r).left
  <2>1. CASE r = p
    <3>1. stack'[p] # << >> /\ Head(stack'[p]).at \in ToAdd
      BY <1>1, <2>1 DEF Brings, Frame
    <3> QED BY <1>1, <2>1, <3>1 DEF Brings, Frame
  <2>2. CASE r # p
    BY <1>1, <2>2 DEF Brings, Frame
  <2> QED BY <2>1, <2>2
<1>2. ASSUME NEW r \in Threads, Renders(r)'
      PROVE  Renders(r) /\ taskPool'[Frame(r)'.id].work = taskPool[Frame(r).id].work
  <2>1. r # p
    BY <1>2 DEF Renders, Frame, ToAdd
  <2> QED BY <1>2, <2>1 DEF Renders, Frame
<1>3. \A i : Queued(i)' => Queued(i)
  BY DEF Queued
<1> QED BY <1>1, <1>2, <1>3, NoNewPiece

(* Adding, but for the push. *)
LEMMA AddingQuiet ==
  ASSUME Typed, Rendering, NEW p \in Threads,
         \/ NewCounter(p) \/ GrowCounter(p) \/ NewTask(p) \/ GrowTask(p)
         \/ NoFreeCounter(p) \/ NoFreeTask(p) \/ PublishTask(p) \/ AddReturn(p)
  PROVE  Rendering'
<1> USE DEF Typed
<1>1. stack[p] # << >> /\ \A r \in Threads : r # p => stack'[r] = stack[r]
  BY OwnStack DEF Call, Adding
<1>2. taskPool' = taskPool /\ phase' = phase
  BY DEF NewCounter, GrowCounter, GetCounter, NewTask, GrowTask, GetTask, NoFreeCounter, NoFreeTask,
         PublishTask, AddReturn, tasks, program
<1>3. \A t \in Queues : Ids(jobs'[t]) = Ids(jobs[t])
  <2>1. CASE PublishTask(p)
    <3>1. PICK t \in Queues, i \in Nat : t = Frame(p).to /\ i = Frame(p).id
      BY <2>1, InnermostCall DEF PublishTask, AddPcs, AddFrames
    <3>2. jobs' = [jobs EXCEPT ![t] = Publish(@, i)]
      BY <2>1, <3>1 DEF PublishTask
    <3> QED BY <3>2, PublishKeeps DEF Types
  <2>2. CASE ~ PublishTask(p)
    BY <2>2 DEF NewCounter, GrowCounter, GetCounter, NewTask, GrowTask, GetTask, NoFreeCounter,
                NoFreeTask, AddReturn
  <2> QED BY <2>1, <2>2
<1>4. ASSUME Frame(p).at \in ToAdd, Frame(p) \in AddFrames, NEW f \in AllFrames, Become(p, f),
             f.at \in ToAdd, f.left = Frame(p).left, f.work = Frame(p).work
      PROVE  Rendering'
  <2>1. Head(stack'[p]) = f
    BY <1>1, <1>4, Becomes DEF Types
  <2> QED BY <1>1, <1>2, <1>3, <1>4, <2>1, QuietHead
<1>5. CASE NewCounter(p) \/ GrowCounter(p)
  <2> DEFINE n == CounterOfNew(p)
             f == [Frame(p) EXCEPT !.at = "new_task", !.counter = n]
  <2>1. /\ Become(p, f) /\ n \in Nat /\ Frame(p) \in AddFrames
        /\ Frame(p).at \in {"new_counter", "grow_counter"}
    BY <1>5, GotCounter
  <2> HIDE DEF n
  <2>2. f \in AllFrames /\ f.at = "new_task" /\ f.left = Frame(p).left /\ f.work = Frame(p).work
    BY <2>1 DEF AllFrames, AddFrames, AddPcs
  <2> HIDE DEF f
  <2> QED BY <1>4, <2>1, <2>2 DEF ToAdd
<1>6. CASE NewTask(p) \/ GrowTask(p)
  <2> DEFINE n == TaskOf(p)
             f == [Frame(p) EXCEPT !.at = "push_task", !.id = n]
  <2>1. /\ Become(p, f) /\ n \in Nat /\ Frame(p) \in AddFrames
        /\ Frame(p).at \in {"new_task", "grow_task"}
    BY <1>6, GotTask
  <2> HIDE DEF n
  <2>2. f \in AllFrames /\ f.at = "push_task" /\ f.left = Frame(p).left /\ f.work = Frame(p).work
    BY <2>1 DEF AllFrames, AddFrames, AddPcs
  <2> HIDE DEF f
  <2> QED BY <1>4, <2>1, <2>2 DEF ToAdd
<1>7. CASE PublishTask(p)
  <2>1. Frame(p).at = "publish_task" /\ Frame(p) \in AddFrames
    BY <1>7, InnermostCall DEF PublishTask, AddPcs
  <2> DEFINE f == [Frame(p) EXCEPT !.at = "new_task", !.id = 0]
  <2>2. f \in AllFrames /\ f.at = "new_task" /\ f.left = Frame(p).left /\ f.work = Frame(p).work
    BY <2>1 DEF AllFrames, AddFrames, AddPcs
  <2> HIDE DEF f
  <2>3. Become(p, f)
    BY <1>7 DEF PublishTask, f
  <2> QED BY <1>4, <2>1, <2>2, <2>3 DEF ToAdd
<1>8. CASE AddReturn(p)
  <2>1. Frame(p) \in AddFrames
    BY <1>8, InnermostCall DEF AddReturn, AddPcs
  <2>2. CASE Leave(p)
    <3>1. stack'[p] # << >> => Head(stack'[p]).at \in {"wait", "count"}
      BY <1>1, <2>2, Leaves, SuspendedTop, TopOfStack DEF Types, Shape
    <3> QED BY <1>1, <1>2, <1>3, <3>1, QuietHead DEF ToAdd
  <2>3. CASE ~ Leave(p)
    <3>1. PICK x \in {"wait", "spin"} : x = Frame(p).wait
      BY <1>8, <2>1, <2>3 DEF AddReturn, AddFrames
    <3> DEFINE f == [Frame(p) EXCEPT !.at = x]
    <3>2. f \in AllFrames /\ f.at = x
      BY <2>1 DEF AllFrames, AddFrames, AddPcs
    <3>3. Become(p, f)
      BY <1>8, <2>3, <3>1 DEF AddReturn, Advance
    <3> HIDE DEF f
    <3>4. Head(stack'[p]) = f
      BY <1>1, <3>2, <3>3, Becomes DEF Types
    <3> QED BY <1>1, <1>2, <1>3, <3>2, <3>4, QuietHead DEF ToAdd
  <2> QED BY <2>2, <2>3
<1>9. CASE NoFreeCounter(p) \/ NoFreeTask(p)
  <2>1. PICK at, to \in AddPcs \ {"push_task"} :
            /\ In(p, at) /\ Advance(p, to)
            /\ <<at, to>> \in {<<"new_counter", "grow_counter">>, <<"new_task", "grow_task">>}
    BY <1>9, GotNothing
  <2> DEFINE f == [Frame(p) EXCEPT !.at = to]
  <2>2. Frame(p) \in AddFrames /\ Frame(p).at = at /\ Become(p, f)
    BY <2>1, InnermostCall DEF Advance
  <2>3. f \in AllFrames /\ f.at = to /\ f.left = Frame(p).left /\ f.work = Frame(p).work
    BY <2>2 DEF AllFrames, AddFrames
  <2> HIDE DEF f
  <2> QED BY <1>4, <2>1, <2>2, <2>3 DEF ToAdd
<1> QED BY <1>5, <1>6, <1>7, <1>8, <1>9

(* Waiting. *)
LEMMA WaitingQuiet ==
  ASSUME Typed, Rendering, NEW p \in Threads, Waiting(p)
  PROVE  Rendering'
<1> USE DEF Typed
<1>1. stack[p] # << >> /\ \A r \in Threads : r # p => stack'[r] = stack[r]
  BY OwnStack DEF Call
<1>2. taskPool' = taskPool /\ phase' = phase /\ jobs' = jobs
  BY DEF Waiting, WaitDone, WaitWork, ReleaseCounter, PublishCounter, tasks, program
<1>3. ASSUME stack'[p] # << >> => Head(stack'[p]).at \notin ToAdd \union {"run"} PROVE Rendering'
  BY <1>1, <1>2, <1>3, QuietHead
<1>4. CASE WaitWork(p)
  <2> DEFINE f == [at |-> "seek", id |-> 0]
  <2>1. f \in AllFrames /\ f.at = "seek" /\ Enter(p, f)
    BY <1>4, CallTypes DEF WaitWork, WorkPcs
  <2> HIDE DEF f
  <2> QED BY <1>3, <2>1, Enters DEF Types, ToAdd
<1>5. CASE WaitDone(p) \/ ReleaseCounter(p)
  <2>1. PICK at \in {"release", "publish_counter"} : Advance(p, at)
    BY <1>5 DEF WaitDone, ReleaseCounter
  <2>2. Frame(p) \in AddFrames
    BY <1>5, InnermostCall DEF WaitDone, ReleaseCounter, AddPcs
  <2> DEFINE f == [Frame(p) EXCEPT !.at = at]
  <2>3. f \in AllFrames /\ f.at = at /\ Become(p, f)
    BY <2>1, <2>2 DEF Advance, AllFrames, AddFrames, AddPcs
  <2> HIDE DEF f
  <2> QED BY <1>1, <1>3, <2>3, Becomes DEF Types, ToAdd
<1>6. CASE PublishCounter(p)
  <2>1. Leave(p)
    BY <1>6 DEF PublishCounter
  <2>2. stack'[p] # << >> => Head(stack'[p]).at \in {"wait", "count"}
    BY <1>1, <2>1, Leaves, SuspendedTop, TopOfStack DEF Types, Shape
  <2> QED BY <1>3, <2>2 DEF ToAdd
<1> QED BY <1>4, <1>5, <1>6 DEF Waiting

(* Work, but for taking a task and for the one that adds the render loop. *)
LEMMA WorkingQuiet ==
  ASSUME Typed, Rendering, NEW p \in Threads, Working(p), ~ TakeWork(p), ~ RunInit(p)
  PROVE  Rendering'
<1> USE DEF Typed
<1>1. stack[p] # << >> /\ \A r \in Threads : r # p => stack'[r] = stack[r]
  BY OwnStack DEF Call
<1>2. taskPool' = taskPool /\ phase' = phase /\ jobs' = jobs
  BY DEF Working, NoWork, RunLeaf, RunRender, CountDown, FreeTask, PublishFree, tasks, program
<1>3. ASSUME stack'[p] # << >> => Head(stack'[p]).at \notin ToAdd \union {"run"} PROVE Rendering'
  BY <1>1, <1>2, <1>3, QuietHead
<1>4. CASE NoWork(p) \/ PublishFree(p)
  <2>1. Leave(p)
    BY <1>4 DEF NoWork, PublishFree
  <2>2. stack'[p] # << >> => Head(stack'[p]).at \in {"wait", "count"}
    BY <1>1, <2>1, Leaves, SuspendedTop, TopOfStack DEF Types, Shape
  <2> QED BY <1>3, <2>2 DEF ToAdd
<1>5. CASE RunLeaf(p) \/ RunRender(p) \/ CountDown(p) \/ FreeTask(p)
  <2>1. PICK at \in {"count", "free", "publish_free"} : Advance(p, at)
    BY <1>5 DEF RunLeaf, RunRender, CountDown, FreeTask
  <2>2. Frame(p) \in WorkFrames
    BY <1>5, InnermostCall DEF RunLeaf, RunRender, CountDown, FreeTask, Running, WorkPcs
  <2> DEFINE f == [Frame(p) EXCEPT !.at = at]
  <2>3. f \in AllFrames /\ f.at = at /\ Become(p, f)
    BY <2>1, <2>2 DEF Advance, AllFrames, WorkFrames, WorkPcs
  <2> HIDE DEF f
  <2> QED BY <1>1, <1>3, <2>3, Becomes DEF Types, ToAdd
<1> QED BY <1>4, <1>5 DEF Working

(* A piece that moves on is still the only one. *)
LEMMA OnePiece ==
  ASSUME NEW p \in Threads, phase' = "init", Brings(p)' => Frame(p)'.left = 1,
         \A r \in Threads : r # p => ~ Brings(r)' /\ ~ Renders(r)',
         \A i : ~ Queued(i)'
  PROVE  Rendering'
<1>1. AtMostOne'
  BY DEF AtMostOne
<1> QED BY <1>1 DEF Rendering, Early, Late

(* The push of the renderer's item queues it; other pushes queue a leaf. *)
LEMMA RenderPush ==
  ASSUME Typed, Places, Rendering, NEW p \in Threads, PushTask(p)
  PROVE  Rendering'
<1> USE DEF Typed
<1>1. stack[p] # << >> /\ \A r \in Threads : r # p => stack'[r] = stack[r]
  BY OwnStack DEF Call, Adding
<1>2. Frame(p) \in AddFrames /\ Frame(p).at = "push_task"
  BY InnermostCall DEF PushTask, AddPcs
<1>3. Frame(p).left \in Nat /\ Frame(p).left > 0
  BY <1>1, <1>2 DEF Shape, Frame, AddFrames
<1>4. PICK i \in TaskIds, t \in Queues : i = Frame(p).id /\ t = Frame(p).to
  BY <1>2, LivePush DEF AddFrames
<1>5. ~ Live(i)
  BY <1>4, LivePush
<1> DEFINE f == [Frame(p) EXCEPT !.at = "publish_task", !.left = @ - 1]
<1>6. f \in AllFrames /\ f.at = "publish_task" /\ f.left = Frame(p).left - 1 /\ f.work = Frame(p).work
  <2>1. Frame(p).left - 1 \in Nat
    BY <1>3
  <2> QED BY <1>2, <2>1 DEF AllFrames, AddFrames, AddPcs
<1>7. Become(p, f)
  BY DEF PushTask
<1> HIDE DEF f
<1>8. Head(stack'[p]) = f /\ stack'[p] # << >>
  BY <1>1, <1>6, <1>7, Becomes DEF Types
<1>9. /\ \A j \in TaskIds : j # i => taskPool'[j] = taskPool[j]
      /\ taskPool'[i].work = Frame(p).work /\ phase' = phase
  BY <1>4 DEF PushTask, Types, program
<1>10. \A u \in Queues : \A j \in Ids(jobs'[u]) : j = i \/ j \in Ids(jobs[u])
  <2>1. jobs' = [jobs EXCEPT ![t] = Claim(@, i)]
    BY <1>4 DEF PushTask
  <2>2. i \in Nat
    BY DEF TaskIds
  <2>3. Ids(Claim(jobs[t], i)) = Ids(jobs[t]) \union {i}
    BY <2>2, ClaimAdds DEF Types
  <2>4. \A u \in Queues : jobs'[u] = IF u = t THEN Claim(jobs[t], i) ELSE jobs[u]
    BY <2>1 DEF Types
  <2> QED BY <2>3, <2>4
<1>11. \A u \in Queues : \A j \in Ids(jobs[u]) : j # i /\ j \in TaskIds
  BY <1>5, LiveHandedOut DEF Live
<1>12. ASSUME NEW r \in Threads, Renders(r)'
       PROVE  Renders(r) /\ taskPool'[Frame(r)'.id].work = taskPool[Frame(r).id].work
  <2>1. r # p
    BY <1>6, <1>8, <1>12 DEF Renders, Frame
  <2>2. stack'[r] = stack[r] /\ stack[r] # << >> /\ Frame(r)' = Frame(r) /\ Frame(r).at = "run"
    BY <1>1, <1>12, <2>1 DEF Renders, Frame
  <2>3. Frame(r).id \in IdsAt(stack[r], LivePcs)
    BY <2>2, TopOfStack DEF Types, IdsAt, LivePcs, Frame
  <2>4. Frame(r).id # i /\ Frame(r).id \in TaskIds
    BY <1>5, <2>3, LiveHandedOut DEF Live
  <2> QED BY <1>9, <1>12, <2>2, <2>4 DEF Renders
<1>13. CASE Frame(p).work = "leaf"
  <2>1. \A j : Queued(j)' => Queued(j)
    BY <1>9, <1>10, <1>11, <1>13 DEF Queued
  <2>2. ASSUME NEW r \in Threads, Brings(r)' PROVE Brings(r) /\ Frame(r)'.left = Frame(r).left
    <3>1. r # p
      BY <1>6, <1>8, <1>13, <2>2 DEF Brings, Frame
    <3> QED BY <1>1, <2>2, <3>1 DEF Brings, Frame
  <2> QED BY <1>9, <1>12, <2>1, <2>2, NoNewPiece
<1>14. CASE Frame(p).work # "leaf"
  <2>1. Brings(p)
    BY <1>1, <1>2, <1>3, <1>14 DEF Brings, ToAdd
  <2>2. phase = "init"
    BY <2>1 DEF Rendering, Early, Late
  <2>3. Frame(p).left = 1
    BY <2>1 DEF Rendering, AtMostOne
  <2>4. ~ Brings(p)'
    BY <1>6, <1>8, <2>3 DEF Brings, Frame
  <2>5. \A r \in Threads : r # p => ~ Brings(r)'
    BY <1>1, <2>1 DEF Rendering, AtMostOne, Brings, Frame
  <2>6. \A r \in Threads : ~ Renders(r)'
    BY <1>6, <1>8, <1>12, <2>1 DEF Rendering, AtMostOne, Renders, Frame
  <2>7. \A j : Queued(j)' => j = i
    BY <1>9, <1>10, <1>11, <2>1 DEF Rendering, AtMostOne, Queued
  <2>8. AtMostOne'
    BY <2>4, <2>5, <2>6, <2>7 DEF AtMostOne
  <2> QED BY <1>9, <2>2, <2>8 DEF Rendering, Early, Late
<1> QED BY <1>13, <1>14

(* A thread that takes the renderer's task runs it. *)
LEMMA RenderTake ==
  ASSUME Typed, Places, Rendering, NEW p \in Threads, TakeWork(p)
  PROVE  Rendering'
<1> USE DEF Typed
<1>1. stack[p] # << >> /\ \A r \in Threads : r # p => stack'[r] = stack[r]
  BY OwnStack DEF Call, Working
<1>2. PICK t \in {p, Shared} : /\ CanPop(jobs[t])
                              /\ jobs' = [jobs EXCEPT ![t] = Tail(@)]
                              /\ Become(p, [at |-> "run", id |-> Head(jobs[t]).id])
  BY DEF TakeWork
<1>3. t \in Queues /\ jobs[t] \in Seq(Entries) /\ jobs[t] # << >>
  BY <1>2 DEF Queues, Types, CanPop
<1>4. PICK i \in Nat : i = Head(jobs[t]).id /\ i \in Ids(jobs[t]) /\ Ids(Tail(jobs[t])) = Ids(jobs[t]) \ {i}
  BY <1>3, PopTakes DEF Places, Lists, Entries
<1>5. \A u \in Queues : \A j \in Ids(jobs'[u]) : j \in Ids(jobs[u]) /\ j # i
  BY <1>2, <1>3, <1>4 DEF Places, Apart, Types
<1> DEFINE f == [at |-> "run", id |-> i]
<1>6. f \in AllFrames /\ f.at = "run" /\ f.id = i /\ Become(p, f)
  BY <1>2, <1>4, CallTypes DEF WorkPcs
<1> HIDE DEF f
<1>7. Head(stack'[p]) = f /\ stack'[p] # << >>
  BY <1>1, <1>6, Becomes DEF Types
<1>8. taskPool' = taskPool /\ phase' = phase
  BY DEF TakeWork, tasks, program
<1>9. \A j : Queued(j)' => Queued(j) /\ j # i
  BY <1>5, <1>8 DEF Queued
<1>10. \A r \in Threads : Brings(r)' => r # p /\ Brings(r) /\ Frame(r)'.left = Frame(r).left
  BY <1>1, <1>6, <1>7 DEF Brings, Frame, ToAdd
<1>11. \A r \in Threads : r # p /\ Renders(r)' => Renders(r) /\ Frame(r)' = Frame(r)
  BY <1>1, <1>8 DEF Renders, Frame
<1>12. CASE Queued(i)
  <2>1. phase = "init"
    BY <1>12 DEF Rendering, Early, Late
  <2>2. \A r \in Threads : ~ Brings(r) /\ ~ Renders(r)
    BY <1>12 DEF Rendering, AtMostOne
  <2>3. \A j : ~ Queued(j)'
    BY <1>9, <1>12 DEF Rendering, AtMostOne
  <2> QED BY <1>8, <1>10, <1>11, <2>1, <2>2, <2>3, OnePiece
<1>13. CASE ~ Queued(i)
  <2>1. ~ Renders(p)'
    BY <1>3, <1>4, <1>6, <1>7, <1>8, <1>13 DEF Renders, Frame, Queued
  <2> QED BY <1>8, <1>9, <1>10, <1>11, <2>1, NoNewPiece
<1> QED BY <1>12, <1>13

(* The renderer's initialisation adds the render loop. *)
LEMMA RenderNest ==
  ASSUME Typed, Rendering, NEW p \in Threads, RunInit(p)
  PROVE  Rendering'
<1> USE DEF Typed
<1>1. stack[p] # << >> /\ \A r \in Threads : r # p => stack'[r] = stack[r]
  BY OwnStack DEF Call, Working
<1>2. Frame(p).at = "run" /\ taskPool[Frame(p).id].work = "init" /\ Frame(p) \in WorkFrames
  BY InnermostCall DEF RunInit, Running, WorkPcs, In, Frame
<1>3. Renders(p)
  BY <1>1, <1>2 DEF Renders
<1>4. phase = "init"
  BY <1>2, <1>3 DEF Rendering, Early, Late
<1> DEFINE f == AddCall("render", 1, Shared, "none")
           g == [Frame(p) EXCEPT !.at = "count"]
<1>5. f \in AllFrames /\ f.at = "new_counter" /\ f.left = 1
  BY DEF AllFrames, AddFrames, AddCall, AddPcs, Works, Queues
<1>6. g \in AllFrames
  BY <1>2 DEF AllFrames, WorkFrames, WorkPcs
<1>7. stack' = [stack EXCEPT ![p] = <<f, g>> \o Tail(@)]
  <2>1. Frame(p) = stack[p][1]
    BY <1>1, TopOfStack DEF Types, Frame
  <2> QED BY <2>1 DEF RunInit, Types
<1> HIDE DEF f, g
<1>8. Head(stack'[p]) = f
  BY <1>1, <1>5, <1>6, <1>7, Nests DEF Types
<1>9. taskPool' = taskPool /\ phase' = phase /\ jobs' = jobs
  BY DEF RunInit, tasks, program
<1>10. \A i : ~ Queued(i)'
  BY <1>3, <1>9 DEF Rendering, AtMostOne, Queued
<1>11. \A r \in Threads : r # p => ~ Brings(r)' /\ ~ Renders(r)'
  BY <1>1, <1>3, <1>9 DEF Rendering, AtMostOne, Brings, Renders, Frame
<1> QED BY <1>4, <1>5, <1>8, <1>9, <1>10, <1>11, OnePiece DEF Frame

---------------------------------------------------------------------------
(* The rest of the program. *)

(* A worker that looks for work has none yet. *)
LEMMA WorkerQuiet ==
  ASSUME Typed, Rendering, NEW w \in Workers, Worker(w)
  PROVE  Rendering'
<1> USE DEF Typed
<1>0. w \in Threads
  BY DEF Threads
<1>1. taskPool' = taskPool /\ phase' = phase /\ jobs' = jobs
  BY DEF Worker, WorkerStart, WorkerLoop, WorkerEnd, tasks, program
<1>2. CASE WorkerLoop(w)
  <2> DEFINE f == [at |-> "seek", id |-> 0]
  <2>1. f \in AllFrames /\ f.at = "seek" /\ Enter(w, f)
    BY <1>2, CallTypes DEF WorkerLoop, WorkPcs
  <2> HIDE DEF f
  <2>2. Head(stack'[w]) = f /\ \A r \in Threads : r # w => stack'[r] = stack[r]
    BY <1>0, <2>1, Enters DEF Types
  <2>3. Head(stack'[w]).at \notin ToAdd \union {"run"}
    BY <2>1, <2>2 DEF ToAdd
  <2> QED BY <1>0, <1>1, <2>2, <2>3, QuietHead
<1>3. CASE ~ WorkerLoop(w)
  <2>1. stack' = stack
    BY <1>3 DEF Worker, WorkerStart, WorkerEnd
  <2> QED BY <1>1, <2>1, NoNewPiece DEF Brings, Renders, Queued, Frame
<1> QED BY <1>2, <1>3

(* The renderer is created once; it is up when the render loop runs.        *)
LEMMA RenderProgram ==
  ASSUME Typed, Rendering, Program
  PROVE  Rendering'
<1> USE DEF Typed
<1>0. Main \in Threads /\ Shared \in Queues
  BY DEF Threads, Queues
<1>1. taskPool' = taskPool /\ jobs' = jobs
  BY DEF Program, Load, CreateRenderer, BgfxInit, NoRenderer, AddBatch, Exit, Unload, Joined, tasks
<1>2. \A i : Queued(i)' => Queued(i)
  BY <1>1 DEF Queued
<1>3. ASSUME NEW f \in AllFrames, Enter(Main, f), f.at = "new_counter"
      PROVE  /\ Head(stack'[Main]) = f
             /\ \A r \in Threads : r # Main => stack'[r] = stack[r]
  BY <1>0, <1>3, Enters DEF Types
<1>4. CASE Load \/ Exit \/ Unload \/ Joined
  <2>1. stack' = stack
    BY <1>4 DEF Load, Exit, Unload, Joined
  <2>2. /\ phase' \in {"load", "boot"} => phase \in {"load", "boot"}
        /\ phase' \notin {"load", "boot", "init"} => phase \notin {"load", "boot", "init"}
    BY <1>4 DEF Load, Exit, Unload, Joined
  <2> QED BY <1>1, <1>2, <2>1, <2>2, NoNewPiece DEF Brings, Renders, Frame
<1>5. CASE NoRenderer
  <2>1. stack' = stack /\ phase = "boot" /\ phase' = "up"
    BY <1>5 DEF NoRenderer
  <2>2. \A p \in Threads : ~ Brings(p)' /\ ~ Renders(p)'
    BY <1>1, <2>1 DEF Rendering, Early, Brings, Renders, Frame
  <2>3. \A i : ~ Queued(i)'
    BY <1>2, <2>1 DEF Rendering, Early
  <2>4. AtMostOne'
    BY <2>2, <2>3 DEF AtMostOne
  <2>5. Late'
    BY <1>0, <2>2, <2>3 DEF Late
  <2> QED BY <2>1, <2>4, <2>5 DEF Rendering, Early
<1>6. CASE CreateRenderer
  <2> DEFINE f == AddCall("init", 1, Shared, "spin")
  <2>1. f \in AllFrames /\ f.at = "new_counter" /\ f.left = 1
    BY <1>0 DEF AllFrames, AddFrames, AddCall, AddPcs, Works
  <2>2. Enter(Main, f) /\ phase = "boot" /\ phase' = "init"
    BY <1>6 DEF CreateRenderer
  <2> HIDE DEF f
  <2>3. /\ Head(stack'[Main]) = f
        /\ \A r \in Threads : r # Main => stack'[r] = stack[r]
    BY <1>3, <2>1, <2>2
  <2>4. \A r \in Threads : r # Main => ~ Brings(r)' /\ ~ Renders(r)'
    BY <1>1, <2>2, <2>3 DEF Rendering, Early, Brings, Renders, Frame
  <2>5. \A i : ~ Queued(i)'
    BY <1>2, <2>2 DEF Rendering, Early
  <2> QED BY <1>0, <2>1, <2>2, <2>3, <2>4, <2>5, OnePiece DEF Frame
<1>7. CASE BgfxInit
  <2>1. PICK p \in Threads : Running(p, "render")
    BY <1>7 DEF BgfxInit
  <2>2. stack' = stack /\ phase = "init" /\ phase' = "up" /\ stack[Main] = << >>
    BY <1>7 DEF BgfxInit
  <2>3. Renders(p) /\ taskPool[Frame(p).id].work = "render" /\ p # Main
    BY <2>1, <2>2 DEF Running, In, Renders, Frame
  <2>4. /\ \A r \in Threads : ~ Brings(r)
        /\ \A r \in Threads : Renders(r) => r = p
        /\ \A i : ~ Queued(i)
    BY <2>3 DEF Rendering, AtMostOne, Brings, Renders, ToAdd
  <2>5. /\ \A r \in Threads : ~ Brings(r)'
        /\ \A r \in Threads : Renders(r)' => r = p
        /\ \A i : ~ Queued(i)'
        /\ taskPool'[Frame(p)'.id].work = "render"
    BY <1>1, <1>2, <2>2, <2>3, <2>4 DEF Brings, Renders, Frame
  <2>6. AtMostOne'
    BY <2>5 DEF AtMostOne
  <2>7. Late'
    BY <1>0, <2>3, <2>5 DEF Late
  <2> QED BY <2>2, <2>6, <2>7 DEF Rendering, Early
<1>8. CASE \E n \in Sizes, t \in Queues : AddBatch(n, t)
  <2>1. PICK n \in Sizes, t \in Queues : AddBatch(n, t)
    BY <1>8
  <2> DEFINE f == AddCall("leaf", n, t, "wait")
  <2>2. f \in AllFrames /\ f.at = "new_counter" /\ f.work = "leaf"
    BY BatchAssumption DEF AllFrames, AddFrames, AddCall, AddPcs, Works
  <2>3. Enter(Main, f) /\ phase' = phase
    BY <2>1 DEF AddBatch
  <2> HIDE DEF f
  <2>4. /\ Head(stack'[Main]) = f
        /\ \A r \in Threads : r # Main => stack'[r] = stack[r]
    BY <1>3, <2>2, <2>3
  <2>5. \A r \in Threads : Brings(r)' => Brings(r) /\ Frame(r)'.left = Frame(r).left
    BY <2>2, <2>4 DEF Brings, Frame
  <2>6. \A r \in Threads : Renders(r)' =>
             Renders(r) /\ taskPool'[Frame(r)'.id].work = taskPool[Frame(r).id].work
    BY <1>1, <2>2, <2>4 DEF Renders, Frame
  <2> QED BY <1>2, <2>3, <2>5, <2>6, NoNewPiece
<1> QED BY <1>4, <1>5, <1>6, <1>7, <1>8 DEF Program

---------------------------------------------------------------------------
(* The invariant. *)

(* At first there is no task at all. *)
LEMMA RenderInit == Init => RenderInv
<1> SUFFICES ASSUME Init PROVE RenderInv
  OBVIOUS
<1>1. /\ \A p \in Threads : ~ Brings(p) /\ ~ Renders(p)
      /\ phase = "load" /\ \A t \in Queues : jobs[t] = << >>
  BY DEF Init, Brings, Renders
<1>2. \A i : ~ Queued(i)
  BY <1>1 DEF Queued, Ids
<1>3. AtMostOne
  BY <1>1, <1>2 DEF AtMostOne
<1> QED BY <1>1, <1>2, <1>3 DEF RenderInv, Rendering, Early, Late, MainSpins

(* Every step keeps it. *)
LEMMA RenderStep ==
  ASSUME Typed, Places, RenderInv, Next
  PROVE  RenderInv'
<1>1. MainSpins'
  BY MainSpinsStep DEF RenderInv
<1>2. ASSUME NEW p \in Threads, Call(p) PROVE Rendering'
  <2>1. CASE Adding(p)
    BY <2>1, AddingQuiet, RenderPush DEF Adding, RenderInv
  <2>2. CASE Waiting(p)
    BY <2>2, WaitingQuiet DEF RenderInv
  <2>3. CASE Working(p)
    BY <2>3, WorkingQuiet, RenderTake, RenderNest DEF RenderInv
  <2> QED BY <1>2, <2>1, <2>2, <2>3 DEF Call
<1>3. ASSUME NEW w \in Workers, Worker(w) PROVE Rendering'
  BY <1>3, WorkerQuiet DEF RenderInv
<1>4. CASE Program
  BY <1>1, <1>4, RenderProgram DEF RenderInv
<1> QED BY <1>1, <1>2, <1>3, <1>4 DEF Next, RenderInv

(* The render loop, which does not return before bgfx_shutdown, never runs  *)
(* on the main thread, which would then never call bgfx_shutdown.           *)
THEOREM RenderOffMain == Spec => []MainNeverRenders
<1>1. Init => RenderInv
  BY RenderInit
<1>2. Batches /\ RenderInv /\ [Next]_vars => RenderInv'
  <2> SUFFICES ASSUME Batches, RenderInv, [Next]_vars PROVE RenderInv'
    OBVIOUS
  <2>1. CASE Next
    BY <2>1, RenderStep DEF Batches
  <2>2. CASE UNCHANGED vars
    <3>1. \A p \in Threads : (Brings(p)' <=> Brings(p)) /\ (Renders(p)' <=> Renders(p)) /\ Frame(p)' = Frame(p)
      BY <2>2 DEF vars, Brings, Renders, Frame
    <3>2. \A i : Queued(i)' <=> Queued(i)
      BY <2>2 DEF vars, Queued
    <3>3. Rendering'
      BY <2>2, <3>1, <3>2, NoNewPiece DEF vars, RenderInv
    <3>4. MainSpins'
      BY <2>2 DEF vars, RenderInv, MainSpins, Frame
    <3> QED BY <3>3, <3>4 DEF RenderInv
  <2> QED BY <2>1, <2>2
<1>3. Batches /\ RenderInv => MainNeverRenders
  BY RenderMeans DEF Batches
<1> QED BY <1>1, <1>2, <1>3, BatchesInvariant, PTL DEF Spec
=============================================================================
