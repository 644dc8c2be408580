--------------------------- MODULE MpmcQueueProof ---------------------------
(***************************************************************************)
(* Proofs about the ring of MpmcQueue, for every number of threads, items  *)
(* and slots (at least two).  First arithmetic of the slots, then the ring *)
(* invariant action by action, then what it says of queue_task_size, of a  *)
(* quiescent ring and of refusals, and last the refinement of BoundedFifo. *)
(***************************************************************************)
EXTENDS MpmcQueue, SequenceTheorems, TLAPS

(* Multiples of the capacity are at least a lap apart. *)
LEMMA MulStep ==
  ASSUME NEW q \in Nat, NEW k \in Nat, q < k
  PROVE  Capacity * q + Capacity <= Capacity * k
<1> DEFINE d == k - q - 1
<1>1. d \in Nat /\ k = q + 1 + d
  OBVIOUS
<1>2. Capacity * k = Capacity * q + Capacity + Capacity * d
  BY <1>1, CapacityAssumption
<1>3. Capacity * d \in Nat /\ Capacity * q \in Nat
  BY <1>1, CapacityAssumption
<1> QED BY <1>2, <1>3, CapacityAssumption

(* A position is some whole laps and its slot. *)
LEMMA Division ==
  ASSUME NEW n \in Nat
  PROVE  /\ n \div Capacity \in Nat
         /\ Slot(n) \in Nat /\ Slot(n) < Capacity
         /\ n = Capacity * (n \div Capacity) + Slot(n)
  BY CapacityAssumption DEF Slot

(* Two positions of the same slot are at least a lap apart. *)
LEMMA SlotUnique ==
  ASSUME NEW m \in Nat, NEW n \in Nat, Slot(m) = Slot(n), m < n
  PROVE  m + Capacity <= n
<1> DEFINE q == m \div Capacity
           k == n \div Capacity
<1>1. /\ q \in Nat /\ k \in Nat
      /\ m = Capacity * q + Slot(m)
      /\ n = Capacity * k + Slot(m)
      /\ Slot(m) \in Nat /\ Capacity \in Nat
  BY Division, CapacityAssumption
<1>2. Capacity * q \in Nat /\ Capacity * k \in Nat
  BY <1>1
<1> HIDE DEF q, k
<1>3. CASE q < k
  BY <1>1, <1>2, <1>3, MulStep
<1>4. CASE k < q
  <2>1. Capacity * k + Capacity <= Capacity * q
    BY <1>1, <1>4, MulStep
  <2> QED BY <1>1, <1>2, <2>1
<1>5. CASE q = k
  BY <1>1, <1>5
<1> QED BY <1>1, <1>3, <1>4, <1>5

(* A lap later the same slot comes round. *)
LEMMA SlotNext == ASSUME NEW n \in Nat PROVE Slot(n + Capacity) = Slot(n)
<1> DEFINE q == n \div Capacity
           k == (n + Capacity) \div Capacity
           r == Slot(n)
           s == Slot(n + Capacity)
<1>0. n + Capacity \in Nat
  BY CapacityAssumption
<1>1. /\ q \in Nat /\ k \in Nat /\ r \in Nat /\ s \in Nat
      /\ n = Capacity * q + r
      /\ n + Capacity = Capacity * k + s
      /\ r < Capacity /\ s < Capacity /\ Capacity \in Nat
  BY <1>0, Division, CapacityAssumption
<1> HIDE DEF q, k, r, s
<1>2. Capacity * q \in Nat /\ Capacity * k \in Nat
  BY <1>1
<1>3. q + 1 \in Nat /\ Capacity * (q + 1) = Capacity * q + Capacity
  BY <1>1
<1>4. CASE q + 1 < k
  <2>1. Capacity * (q + 1) + Capacity <= Capacity * k
    BY <1>1, <1>3, <1>4, MulStep
  <2> QED BY <1>1, <1>2, <1>3, <2>1
<1>5. CASE k < q + 1
  <2>1. Capacity * k + Capacity <= Capacity * (q + 1)
    BY <1>1, <1>3, <1>5, MulStep
  <2> QED BY <1>1, <1>2, <1>3, <2>1
<1>6. CASE k = q + 1
  <2>1. n + Capacity = Capacity * q + Capacity + s
    BY <1>1, <1>3, <1>6
  <2>2. r = s
    BY <1>1, <1>2, <2>1
  <2> QED BY <2>2 DEF r, s
<1> QED BY <1>1, <1>3, <1>4, <1>5, <1>6

(* Masking a position gives a slot of the ring. *)
LEMMA SlotType == ASSUME NEW n \in Nat PROVE Slot(n) \in Slots
  BY Division, CapacityAssumption DEF Slots

(* On the first lap a position is its own slot. *)
LEMMA SlotOfSlot == ASSUME NEW i \in Slots PROVE Slot(i) = i /\ i \in Nat
  BY CapacityAssumption DEF Slot, Slots

(* Two positions less than a lap apart use different slots. *)
LEMMA SlotApart ==
  ASSUME NEW m \in Nat, NEW n \in Nat, m # n, m < n + Capacity, n < m + Capacity
  PROVE  Slot(m) # Slot(n)
  BY SlotUnique, CapacityAssumption

(* The state queue_task_init leaves is well typed. *)
LEMMA TypeInit == Init => TypeOK
  BY CapacityAssumption DEF Init, TypeOK, Slots, PushPcs, PopPcs, SizePcs

(* Every access of a push or a pop keeps the types. *)
LEMMA TypeNext == TypeOK /\ [Next]_vars => TypeOK'
<1> SUFFICES ASSUME TypeOK, [Next]_vars PROVE TypeOK'
  OBVIOUS
<1> USE CapacityAssumption DEF TypeOK, PushPcs, PopPcs, SizePcs, Goto, Return, shared
<1>1. ASSUME NEW p \in Procs, NEW v \in Values, PushStart(p, v) PROVE TypeOK'
  BY <1>1 DEF PushStart
<1>2. ASSUME NEW p \in Procs, PopStart(p) PROVE TypeOK'
  BY <1>2 DEF PopStart
<1>3. ASSUME NEW p \in Procs, Push(p) PROVE TypeOK'
  <2>1. CASE PushLoad(p)
    BY <2>1, SlotType DEF PushLoad
  <2>2. CASE PushClaim(p)
    BY <2>2 DEF PushClaim
  <2>3. CASE PushLost(p)
    BY <2>3 DEF PushLost
  <2>4. CASE PushFull(p)
    BY <2>4 DEF PushFull
  <2>5. CASE PushBehind(p)
    BY <2>5 DEF PushBehind
  <2>6. CASE PushWrite(p)
    BY <2>6 DEF PushWrite
  <2>7. CASE PushPublish(p)
    <3>1. pos[p] + 1 \in Nat
      OBVIOUS
    <3>2. sequences' \in [Slots -> Nat]
      BY <2>7, <3>1 DEF PushPublish
    <3> QED BY <2>7, <3>2 DEF PushPublish
  <2> QED BY <1>3, <2>1, <2>2, <2>3, <2>4, <2>5, <2>6, <2>7 DEF Push
<1>4. ASSUME NEW p \in Procs, Pop(p) PROVE TypeOK'
  <2>1. CASE PopLoad(p)
    BY <2>1, SlotType DEF PopLoad
  <2>2. CASE PopClaim(p)
    BY <2>2 DEF PopClaim
  <2>3. CASE PopLost(p)
    BY <2>3 DEF PopLost
  <2>4. CASE PopEmpty(p)
    BY <2>4 DEF PopEmpty
  <2>5. CASE PopBehind(p)
    BY <2>5 DEF PopBehind
  <2>6. CASE PopRead(p)
    BY <2>6, SlotType DEF PopRead
  <2>7. CASE PopRelease(p)
    <3>1. pos[p] + Capacity \in Nat
      OBVIOUS
    <3>2. sequences' \in [Slots -> Nat]
      BY <2>7, <3>1 DEF PopRelease
    <3> QED BY <2>7, <3>2 DEF PopRelease
  <2> QED BY <1>4, <2>1, <2>2, <2>3, <2>4, <2>5, <2>6, <2>7 DEF Pop
<1>5. ASSUME NEW p \in Procs, SizeStart(p) \/ SizeLoad(p) PROVE TypeOK'
  BY <1>5 DEF SizeStart, SizeLoad
<1>6. CASE UNCHANGED vars
  BY <1>6 DEF vars
<1> QED BY <1>1, <1>2, <1>3, <1>4, <1>5, <1>6 DEF Next

---------------------------------------------------------------------------
(* The ring invariant, for every number of threads, items and slots. *)

(* A thread that has read the ticket of the next position to push, and finds *)
(* the position unclaimed, finds the slot free.                              *)
LEMMA ClaimFindsFree ==
  ASSUME RingInv, sequences[Slot(enqueuePos)] >= enqueuePos
  PROVE  Free(enqueuePos) /\ enqueuePos < dequeuePos + Capacity
<1> USE CapacityAssumption
<1> DEFINE e == enqueuePos
           d == dequeuePos
<1>1. /\ e \in Nat /\ d \in Nat /\ d <= e /\ e <= d + Capacity
      /\ Slot(e) \in Slots
  BY SlotType DEF RingInv, TypeOK, PositionsBounded
<1>2. PICK n \in Nat : Slot(n) = Slot(e) /\ (Open(n) \/ Claimed(n) \/ Ready(n) \/ Leaving(n))
  BY <1>1 DEF RingInv, SlotStates
<1>3. sequences[Slot(n)] >= e
  BY <1>2
<1>4. n >= e
  <2> SUFFICES ASSUME n < e PROVE FALSE
    BY <1>1
  <2>1. n + Capacity <= e
    BY <1>1, <1>2, SlotUnique
  <2>2. sequences[Slot(n)] = n \/ sequences[Slot(n)] = n + 1
    BY <1>2 DEF Open, Claimed, Ready, Leaving, Free, Published
  <2> QED BY <1>1, <1>3, <2>1, <2>2
<1>5. Open(n)
  BY <1>1, <1>2, <1>4 DEF Claimed, Ready, Leaving
<1>6. n = e
  <2> SUFFICES ASSUME e < n PROVE FALSE
    BY <1>1, <1>4
  <2>1. e + Capacity <= n
    BY <1>1, <1>2, SlotUnique
  <2> QED BY <1>1, <1>5, <2>1 DEF Open
<1> QED BY <1>5, <1>6 DEF Open

(* A thread that has read the ticket of the next position to pop as          *)
(* published, and finds the position unclaimed, finds it still published.    *)
LEMMA ClaimFindsPublished ==
  ASSUME RingInv, sequences[Slot(dequeuePos)] >= dequeuePos + 1
  PROVE  Published(dequeuePos) /\ dequeuePos < enqueuePos
<1> USE CapacityAssumption
<1> DEFINE e == enqueuePos
           d == dequeuePos
<1>1. /\ e \in Nat /\ d \in Nat /\ d <= e /\ e <= d + Capacity
      /\ Slot(d) \in Slots
  BY SlotType DEF RingInv, TypeOK, PositionsBounded
<1>2. PICK n \in Nat : Slot(n) = Slot(d) /\ (Open(n) \/ Claimed(n) \/ Ready(n) \/ Leaving(n))
  BY <1>1 DEF RingInv, SlotStates
<1>3. sequences[Slot(n)] >= d + 1
  BY <1>2
<1>4. n >= d
  <2> SUFFICES ASSUME n < d PROVE FALSE
    BY <1>1
  <2>1. n + Capacity <= d
    BY <1>1, <1>2, SlotUnique
  <2>2. sequences[Slot(n)] = n \/ sequences[Slot(n)] = n + 1
    BY <1>2 DEF Open, Claimed, Ready, Leaving, Free, Published
  <2> QED BY <1>1, <1>3, <2>1, <2>2
<1>5. n = d
  <2> SUFFICES ASSUME d < n PROVE FALSE
    BY <1>1, <1>4
  <2>1. d + Capacity <= n
    BY <1>1, <1>2, SlotUnique
  <2> QED BY <1>1, <1>2, <2>1 DEF Open, Claimed, Ready, Leaving
<1>6. Ready(n)
  BY <1>1, <1>2, <1>3, <1>5 DEF Open, Claimed, Leaving, Free
<1> QED BY <1>5, <1>6 DEF Ready

(* A ring fresh from queue_task_init satisfies the ring invariant. *)
LEMMA RingInit == Init => RingInv
<1> SUFFICES ASSUME Init PROVE RingInv
  OBVIOUS
<1> USE CapacityAssumption
<1>1. TypeOK
  BY TypeInit
<1>2. PositionsBounded
  BY DEF Init, PositionsBounded
<1>3. PushOwnership /\ PopOwnership /\ TicketsGrow /\ Written
  BY DEF Init, PushOwnership, PopOwnership, TicketsGrow, Written, Pushing, Popping
<1>4. SlotStates
  <2> SUFFICES ASSUME NEW i \in Slots
               PROVE  \E n \in 0 .. enqueuePos + Capacity : Slot(n) = i /\ Open(n)
    BY DEF SlotStates
  <2>1. Slot(i) = i /\ i \in 0 .. enqueuePos + Capacity
    BY SlotOfSlot DEF Slots, Init
  <2>2. Open(i)
    BY <2>1 DEF Open, Free, Init, Slots
  <2> QED BY <2>1, <2>2
<1> QED BY <1>1, <1>2, <1>3, <1>4 DEF RingInv

(* Steps that touch neither the tickets nor the positions, and move no       *)
(* thread into or out of the ownership of a position.                        *)
LEMMA LocalStep ==
  ASSUME RingInv, TypeOK', TicketsGrow', Written',
         UNCHANGED <<sequences, enqueuePos, dequeuePos>>,
         \A q \in Procs : /\ Pushing(q)' <=> Pushing(q)
                          /\ Popping(q)' <=> Popping(q)
                          /\ Pushing(q) \/ Popping(q) => pos'[q] = pos[q]
  PROVE  RingInv'
<1>1. PositionsBounded'
  BY DEF RingInv, PositionsBounded
<1>2. PushOwnership'
  BY DEF RingInv, PushOwnership, Free
<1>3. PopOwnership'
  BY DEF RingInv, PopOwnership, Published
<1>4. SlotStates'
  <2>1. ASSUME NEW n \in Nat
        PROVE  /\ Open(n) => Open(n)'
               /\ Claimed(n) => Claimed(n)'
               /\ Ready(n) => Ready(n)'
               /\ Leaving(n) => Leaving(n)'
    BY DEF Open, Claimed, Ready, Leaving, Free, Published
  <2>2. 0 .. enqueuePos + Capacity \subseteq Nat
    OBVIOUS
  <2> QED BY <2>1, <2>2 DEF RingInv, SlotStates
<1> QED BY <1>1, <1>2, <1>3, <1>4 DEF RingInv

(* The steps of a push that claim and publish nothing: reading the position or
   a ticket, a lost exchange, a refusal, the store of the item. *)
LEMMA RingPushLocal ==
  ASSUME RingInv, NEW p \in Procs,
         \/ \E v \in Values : PushStart(p, v)
         \/ PushLoad(p) \/ PushLost(p) \/ PushFull(p) \/ PushBehind(p) \/ PushWrite(p),
         TypeOK'
  PROVE  RingInv'
<1> USE CapacityAssumption DEF Goto, Return, shared
<1>1. TypeOK
  BY DEF RingInv
<1>2. /\ UNCHANGED <<sequences, enqueuePos, dequeuePos>>
      /\ \A q \in Procs : /\ Pushing(q)' <=> Pushing(q)
                          /\ Popping(q)' <=> Popping(q)
                          /\ Pushing(q) \/ Popping(q) => pos'[q] = pos[q]
  BY <1>1 DEF PushStart, PushLoad, PushLost, PushFull, PushBehind, PushWrite,
              TypeOK, Pushing, Popping
<1>3. TicketsGrow'
  BY <1>1 DEF PushStart, PushLoad, PushLost, PushFull, PushBehind, PushWrite,
              TypeOK, RingInv, TicketsGrow
<1>4. Written'
  <2> SUFFICES ASSUME NEW q \in Procs, pc'[q] = "push_publish"
               PROVE  data'[Slot(pos'[q])] = item'[q]
    BY DEF Written
  <2>1. CASE PushWrite(p)
    <3>1. CASE q = p
      BY <1>1, <2>1, <3>1, SlotType DEF PushWrite, TypeOK
    <3>2. CASE q # p
      <4>1. /\ pc[q] = "push_publish" /\ pos'[q] = pos[q] /\ item' = item
            /\ data' = [data EXCEPT ![Slot(pos[p])] = item[p]]
        BY <1>1, <2>1, <3>2 DEF PushWrite, TypeOK
      <4>2. Slot(pos[q]) # Slot(pos[p])
        <5>1. Pushing(p) /\ Pushing(q)
          BY <2>1, <4>1 DEF PushWrite, Pushing
        <5> QED BY <1>1, <3>2, <5>1, SlotApart
                DEF RingInv, PushOwnership, PositionsBounded, TypeOK
      <4> QED BY <1>1, <4>1, <4>2, SlotType DEF RingInv, Written, TypeOK
    <3> QED BY <3>1, <3>2
  <2>2. CASE ~ PushWrite(p)
    BY <1>1, <2>2 DEF PushStart, PushLoad, PushLost, PushFull, PushBehind,
                      TypeOK, RingInv, Written
  <2> QED BY <2>1, <2>2
<1> QED BY <1>2, <1>3, <1>4, LocalStep

(* The steps of a pop that claim and release nothing, and those of a call of size. *)
LEMMA RingPopLocal ==
  ASSUME RingInv, NEW p \in Procs,
         \/ PopStart(p) \/ PopLoad(p) \/ PopLost(p) \/ PopEmpty(p) \/ PopBehind(p)
         \/ PopRead(p) \/ SizeStart(p) \/ SizeLoad(p),
         TypeOK'
  PROVE  RingInv'
<1> USE CapacityAssumption DEF Goto, Return, shared
<1>1. TypeOK
  BY DEF RingInv
<1>2. /\ UNCHANGED <<sequences, enqueuePos, dequeuePos>>
      /\ \A q \in Procs : /\ Pushing(q)' <=> Pushing(q)
                          /\ Popping(q)' <=> Popping(q)
                          /\ Pushing(q) \/ Popping(q) => pos'[q] = pos[q]
  BY <1>1 DEF PopStart, PopLoad, PopLost, PopEmpty, PopBehind, PopRead, SizeStart, SizeLoad,
              TypeOK, Pushing, Popping
<1>3. TicketsGrow'
  BY <1>1 DEF PopStart, PopLoad, PopLost, PopEmpty, PopBehind, PopRead, SizeStart, SizeLoad,
              TypeOK, RingInv, TicketsGrow
<1>4. Written'
  BY <1>1 DEF PopStart, PopLoad, PopLost, PopEmpty, PopBehind, PopRead, SizeStart, SizeLoad,
              TypeOK, RingInv, Written
<1> QED BY <1>2, <1>3, <1>4, LocalStep

(* The exchange of a push takes a free slot. *)
LEMMA RingPushClaim ==
  ASSUME RingInv, NEW p \in Procs, PushClaim(p), TypeOK'
  PROVE  RingInv'
<1> USE CapacityAssumption DEF Goto
<1>1. PICK e \in Nat, d \in Nat :
         /\ e = enqueuePos /\ d = dequeuePos /\ d <= e /\ e <= d + Capacity
         /\ TypeOK
         /\ Slot(e) \in Slots
  BY SlotType DEF RingInv, TypeOK, PositionsBounded
<1>2. /\ sequences' = sequences /\ data' = data /\ item' = item /\ pos' = pos
      /\ dequeuePos' = d /\ enqueuePos' = e + 1 /\ pos[p] = e /\ seq[p] = e
      /\ seq' = seq
      /\ pc[p] = "push_cas" /\ pc' = [pc EXCEPT ![p] = "push_write"]
  BY <1>1 DEF PushClaim, TypeOK
<1>3. Free(e) /\ e < d + Capacity
  <2>1. sequences[Slot(e)] >= e
    BY <1>1, <1>2, SlotType DEF RingInv, TicketsGrow, TypeOK
  <2> QED BY <1>1, <2>1, ClaimFindsFree
<1>4. \A q \in Procs : /\ Pushing(q)' <=> Pushing(q) \/ q = p
                       /\ Popping(q)' <=> Popping(q)
                       /\ ~ Pushing(p) /\ ~ Popping(p)
  BY <1>1, <1>2 DEF Pushing, Popping, TypeOK
<1>5. PositionsBounded'
  BY <1>1, <1>2, <1>3 DEF PositionsBounded
<1>6. PushOwnership'
  <2>1. \A q \in Procs : Pushing(q) => pos[q] # e
    BY <1>1 DEF RingInv, PushOwnership, TypeOK
  <2> QED BY <1>1, <1>2, <1>3, <1>4, <2>1 DEF RingInv, PushOwnership, Free, TypeOK
<1>7. PopOwnership'
  <2>1. ASSUME NEW q \in Procs, Popping(q) PROVE e + 1 <= pos[q] + Capacity
    <3> SUFFICES ASSUME pos[q] + Capacity = e PROVE FALSE
      BY <1>1, <2>1 DEF RingInv, PopOwnership, TypeOK
    <3>1. pos[q] \in Nat
      BY <1>1 DEF TypeOK
    <3>2. Slot(pos[q]) = Slot(e)
      BY <3>1, SlotNext
    <3>3. sequences[Slot(e)] = e /\ sequences[Slot(e)] = pos[q] + 1
      BY <1>3, <2>1, <3>2 DEF RingInv, PopOwnership, Free, Published
    <3> QED BY <1>1, <3>1, <3>3
  <2> QED BY <1>1, <1>2, <1>4, <2>1 DEF RingInv, PopOwnership, Published, TypeOK
<1>8. SlotStates'
  <2> SUFFICES ASSUME NEW i \in Slots
               PROVE  \E n \in Nat : /\ n <= enqueuePos' + Capacity
                                     /\ Slot(n) = i
                                     /\ (Open(n) \/ Claimed(n) \/ Ready(n) \/ Leaving(n))'
    BY <1>1, <1>2 DEF SlotStates
  <2>1. CASE i = Slot(e)
    <3>1. Pushing(p)' /\ pos'[p] = e
      BY <1>2, <1>4
    <3>2. \E q \in Procs : Pushing(q)' /\ pos'[q] = e
      BY <3>1
    <3>3. sequences'[Slot(e)] = e /\ dequeuePos' <= e /\ e < enqueuePos'
      BY <1>1, <1>2, <1>3 DEF Free
    <3>4. Claimed(e)'
      BY <3>2, <3>3 DEF Claimed, Free
    <3>5. e <= enqueuePos' + Capacity
      BY <1>1, <1>2
    <3> QED BY <1>1, <2>1, <3>4, <3>5
  <2>2. CASE i # Slot(e)
    <3>1. PICK n \in 0 .. e + Capacity :
              Slot(n) = i /\ (Open(n) \/ Claimed(n) \/ Ready(n) \/ Leaving(n))
      BY <1>1 DEF RingInv, SlotStates
    <3>2. n \in Nat /\ n # e /\ n + Capacity # e
      BY <2>2, <3>1, SlotNext
    <3>3. (Open(n) \/ Claimed(n) \/ Ready(n) \/ Leaving(n))'
      BY <1>1, <1>2, <1>4, <3>1, <3>2
         DEF Open, Claimed, Ready, Leaving, Free, Published
    <3> QED BY <1>1, <1>2, <3>1, <3>2, <3>3
  <2> QED BY <2>1, <2>2
<1>9. TicketsGrow' /\ Written'
  BY <1>1, <1>2 DEF RingInv, TicketsGrow, Written, TypeOK
<1> QED BY <1>5, <1>6, <1>7, <1>8, <1>9 DEF RingInv

(* The exchange of a pop takes a published slot. *)
LEMMA RingPopClaim ==
  ASSUME RingInv, NEW p \in Procs, PopClaim(p), TypeOK'
  PROVE  RingInv'
<1> USE CapacityAssumption DEF Goto
<1>1. PICK e \in Nat, d \in Nat :
         /\ e = enqueuePos /\ d = dequeuePos /\ d <= e /\ e <= d + Capacity
         /\ TypeOK
         /\ Slot(d) \in Slots
  BY SlotType DEF RingInv, TypeOK, PositionsBounded
<1>2. /\ sequences' = sequences /\ data' = data /\ item' = item /\ pos' = pos
      /\ enqueuePos' = e /\ dequeuePos' = d + 1 /\ pos[p] = d /\ seq[p] = d + 1
      /\ seq' = seq
      /\ pc[p] = "pop_cas" /\ pc' = [pc EXCEPT ![p] = "pop_read"]
  BY <1>1 DEF PopClaim, TypeOK
<1>3. Published(d) /\ d < e
  <2>1. sequences[Slot(d)] >= d + 1
    BY <1>1, <1>2, SlotType DEF RingInv, TicketsGrow, TypeOK
  <2> QED BY <1>1, <2>1, ClaimFindsPublished
<1>4. \A q \in Procs : /\ Popping(q)' <=> Popping(q) \/ q = p
                       /\ Pushing(q)' <=> Pushing(q)
                       /\ ~ Pushing(p) /\ ~ Popping(p)
  BY <1>1, <1>2 DEF Pushing, Popping, TypeOK
<1>5. PositionsBounded'
  BY <1>1, <1>2, <1>3 DEF PositionsBounded
<1>6. PushOwnership'
  <2>1. \A q \in Procs : Pushing(q) => pos[q] # d
    BY <1>1, <1>3 DEF RingInv, PushOwnership, TypeOK, Free, Published
  <2> QED BY <1>1, <1>2, <1>4, <2>1 DEF RingInv, PushOwnership, Free, TypeOK
<1>7. PopOwnership'
  <2>1. \A q \in Procs : Popping(q) => pos[q] # d
    BY <1>1 DEF RingInv, PopOwnership, TypeOK
  <2> QED BY <1>1, <1>2, <1>3, <1>4, <2>1 DEF RingInv, PopOwnership, Published, TypeOK
<1>8. SlotStates'
  <2> SUFFICES ASSUME NEW i \in Slots
               PROVE  \E n \in Nat : /\ n <= enqueuePos' + Capacity
                                     /\ Slot(n) = i
                                     /\ (Open(n) \/ Claimed(n) \/ Ready(n) \/ Leaving(n))'
    BY <1>1, <1>2 DEF SlotStates
  <2>1. CASE i = Slot(d)
    <3>1. Popping(p)' /\ pos'[p] = d
      BY <1>2, <1>4
    <3>2. \E q \in Procs : Popping(q)' /\ pos'[q] = d
      BY <3>1
    <3>3. /\ sequences'[Slot(d)] = d + 1
          /\ enqueuePos' <= d + Capacity /\ d < dequeuePos'
      BY <1>1, <1>2, <1>3 DEF Published
    <3>4. Leaving(d)'
      BY <3>2, <3>3 DEF Leaving, Published
    <3>5. d <= enqueuePos' + Capacity
      BY <1>1, <1>2
    <3> QED BY <1>1, <2>1, <3>4, <3>5
  <2>2. CASE i # Slot(d)
    <3>1. PICK n \in 0 .. e + Capacity :
              Slot(n) = i /\ (Open(n) \/ Claimed(n) \/ Ready(n) \/ Leaving(n))
      BY <1>1 DEF RingInv, SlotStates
    <3>2. n \in Nat /\ n # d
      BY <2>2, <3>1
    <3>3. (Open(n) \/ Claimed(n) \/ Ready(n) \/ Leaving(n))'
      BY <1>1, <1>2, <1>4, <3>1, <3>2
         DEF Open, Claimed, Ready, Leaving, Free, Published
    <3> QED BY <1>1, <1>2, <3>1, <3>2, <3>3
  <2> QED BY <2>1, <2>2
<1>9. TicketsGrow' /\ Written'
  BY <1>1, <1>2 DEF RingInv, TicketsGrow, Written, TypeOK
<1> QED BY <1>5, <1>6, <1>7, <1>8, <1>9 DEF RingInv

(* Publishing an item: no other thread owns the slot. *)
LEMMA RingPushPublish ==
  ASSUME RingInv, NEW p \in Procs, PushPublish(p), TypeOK'
  PROVE  RingInv'
<1> USE CapacityAssumption DEF Goto, Return
<1>1. PICK e \in Nat, d \in Nat, m \in Nat :
         /\ e = enqueuePos /\ d = dequeuePos /\ d <= e /\ e <= d + Capacity
         /\ m = pos[p] /\ d <= m /\ m < e
         /\ TypeOK
         /\ Slot(m) \in Slots
         /\ sequences[Slot(m)] = m
  BY SlotType
     DEF RingInv, TypeOK, PositionsBounded, PushPublish, PushOwnership, Pushing, Free
<1>2. /\ sequences' = [sequences EXCEPT ![Slot(m)] = m + 1]
      /\ data' = data /\ item' = item
      /\ enqueuePos' = e /\ dequeuePos' = d
      /\ pos' = [pos EXCEPT ![p] = 0] /\ seq' = [seq EXCEPT ![p] = 0]
      /\ pc[p] = "push_publish" /\ pc' = [pc EXCEPT ![p] = "idle"]
  BY <1>1 DEF PushPublish, TypeOK
<1>3. \A q \in Procs : /\ Pushing(q)' <=> Pushing(q) /\ q # p
                       /\ Popping(q)' <=> Popping(q)
                       /\ Pushing(p) /\ ~ Popping(p)
                       /\ q # p => pos'[q] = pos[q]
  BY <1>1, <1>2 DEF Pushing, Popping, TypeOK
<1>4. \A n \in Nat : /\ Slot(n) # Slot(m) => sequences'[Slot(n)] = sequences[Slot(n)]
                     /\ Slot(n) = Slot(m) => sequences'[Slot(n)] = m + 1
  BY <1>1, <1>2, SlotType DEF TypeOK
<1>5. PositionsBounded'
  BY <1>1, <1>2 DEF PositionsBounded
<1>6. PushOwnership'
  <2>1. ASSUME NEW q \in Procs, Pushing(q), q # p
        PROVE  Slot(pos[q]) # Slot(m)
    <3>1. /\ pos[q] \in Nat /\ d <= pos[q] /\ pos[q] < e /\ pos[q] # m
      BY <1>1, <1>3, <2>1 DEF RingInv, PushOwnership, TypeOK
    <3> QED BY <1>1, <3>1, SlotApart
  <2>2. ASSUME NEW q \in Procs, Pushing(q)'
        PROVE  /\ dequeuePos' <= pos'[q] /\ pos'[q] < enqueuePos'
               /\ Free(pos[q])'
               /\ \A r \in Procs : Pushing(r)' /\ pos'[r] = pos'[q] => r = q
    <3>1. q # p /\ Pushing(q) /\ pos'[q] = pos[q] /\ pos[q] \in Nat
      BY <1>1, <1>3, <2>2 DEF TypeOK
    <3>2. sequences'[Slot(pos[q])] = pos[q]
      BY <1>4, <2>1, <3>1 DEF RingInv, PushOwnership, Free
    <3> QED BY <1>1, <1>2, <1>3, <3>1, <3>2 DEF RingInv, PushOwnership, Free
  <2> QED BY <2>2 DEF PushOwnership
<1>7. PopOwnership'
  <2>1. ASSUME NEW q \in Procs, Popping(q)
        PROVE  Slot(pos[q]) # Slot(m)
    <3>1. /\ pos[q] \in Nat /\ e <= pos[q] + Capacity /\ pos[q] < d
          /\ sequences[Slot(pos[q])] = pos[q] + 1
      BY <1>1, <2>1 DEF RingInv, PopOwnership, Published, TypeOK
    <3>2. SUFFICES ASSUME Slot(pos[q]) = Slot(m) PROVE FALSE
      OBVIOUS
    <3>3. m = pos[q] + 1
      BY <1>1, <3>1, <3>2
    <3> QED BY <1>1, <3>1, <3>2, <3>3, SlotApart
  <2>2. ASSUME NEW q \in Procs, Popping(q)'
        PROVE  /\ enqueuePos' <= pos'[q] + Capacity /\ pos'[q] < dequeuePos'
               /\ Published(pos[q])'
               /\ \A r \in Procs : Popping(r)' /\ pos'[r] = pos'[q] => r = q
    <3>1. q # p /\ Popping(q) /\ pos'[q] = pos[q] /\ pos[q] \in Nat
      BY <1>1, <1>3, <2>2 DEF TypeOK
    <3>2. sequences'[Slot(pos[q])] = pos[q] + 1
      BY <1>4, <2>1, <3>1 DEF RingInv, PopOwnership, Published
    <3> QED BY <1>1, <1>2, <1>3, <3>1, <3>2 DEF RingInv, PopOwnership, Published
  <2> QED BY <2>2 DEF PopOwnership
<1>8. SlotStates'
  <2> SUFFICES ASSUME NEW i \in Slots
               PROVE  \E n \in Nat : /\ n <= enqueuePos' + Capacity
                                     /\ Slot(n) = i
                                     /\ (Open(n) \/ Claimed(n) \/ Ready(n) \/ Leaving(n))'
    BY <1>1, <1>2 DEF SlotStates
  <2>1. CASE i = Slot(m)
    <3>1. Ready(m)'
      BY <1>1, <1>2, <1>4 DEF Ready, Published
    <3> QED BY <1>1, <1>2, <2>1, <3>1
  <2>2. CASE i # Slot(m)
    <3>1. PICK n \in 0 .. e + Capacity :
              Slot(n) = i /\ (Open(n) \/ Claimed(n) \/ Ready(n) \/ Leaving(n))
      BY <1>1 DEF RingInv, SlotStates
    <3>2. n \in Nat /\ n # m /\ sequences'[Slot(n)] = sequences[Slot(n)]
      BY <1>4, <2>2, <3>1
    <3>3. CASE Open(n) \/ Ready(n)
      <4>1. (Open(n) \/ Ready(n))'
        BY <1>1, <1>2, <3>2, <3>3 DEF Open, Ready, Free, Published
      <4> QED BY <1>1, <1>2, <3>1, <3>2, <4>1
    <3>4. CASE Claimed(n)
      <4>1. PICK q \in Procs : Pushing(q) /\ pos[q] = n
        BY <3>4 DEF Claimed
      <4>2. Pushing(q)' /\ pos'[q] = n
        BY <1>1, <1>3, <3>2, <4>1
      <4>3. Claimed(n)'
        BY <1>1, <1>2, <3>2, <3>4, <4>2 DEF Claimed, Free
      <4> QED BY <1>1, <1>2, <3>1, <3>2, <4>3
    <3>5. CASE Leaving(n)
      <4>1. PICK q \in Procs : Popping(q) /\ pos[q] = n
        BY <3>5 DEF Leaving
      <4>2. Popping(q)' /\ pos'[q] = n
        BY <1>1, <1>3, <4>1
      <4>3. Leaving(n)'
        BY <1>1, <1>2, <3>2, <3>5, <4>2 DEF Leaving, Published
      <4> QED BY <1>1, <1>2, <3>1, <3>2, <4>3
    <3> QED BY <3>1, <3>3, <3>4, <3>5
  <2> QED BY <2>1, <2>2
<1>9. TicketsGrow'
  <2> SUFFICES ASSUME NEW q \in Procs, pc'[q] \in {"push_cas", "pop_cas"}
               PROVE  seq'[q] <= sequences'[Slot(pos'[q])]
    BY DEF TicketsGrow
  <2>1. /\ q # p /\ pc'[q] = pc[q] /\ seq'[q] = seq[q] /\ pos'[q] = pos[q]
        /\ pos[q] \in Nat /\ seq[q] \in Nat
    BY <1>1, <1>2 DEF TypeOK
  <2>2. seq[q] <= sequences[Slot(pos[q])]
    BY <2>1 DEF RingInv, TicketsGrow
  <2> QED BY <1>1, <1>4, <2>1, <2>2
<1>10. Written'
  BY <1>1, <1>2 DEF RingInv, Written, TypeOK
<1> QED BY <1>5, <1>6, <1>7, <1>8, <1>9, <1>10 DEF RingInv

(* Giving a slot back for the next lap: no other thread owns it. *)
LEMMA RingPopRelease ==
  ASSUME RingInv, NEW p \in Procs, PopRelease(p), TypeOK'
  PROVE  RingInv'
<1> USE CapacityAssumption DEF Goto, Return
<1>1. PICK e \in Nat, d \in Nat, m \in Nat :
         /\ e = enqueuePos /\ d = dequeuePos /\ d <= e /\ e <= d + Capacity
         /\ m = pos[p] /\ e <= m + Capacity /\ m < d
         /\ TypeOK
         /\ Slot(m) \in Slots
         /\ sequences[Slot(m)] = m + 1
  BY SlotType
     DEF RingInv, TypeOK, PositionsBounded, PopRelease, PopOwnership, Popping, Published
<1>2. /\ sequences' = [sequences EXCEPT ![Slot(m)] = m + Capacity]
      /\ data' = data /\ item' = item
      /\ enqueuePos' = e /\ dequeuePos' = d
      /\ pos' = [pos EXCEPT ![p] = 0] /\ seq' = [seq EXCEPT ![p] = 0]
      /\ pc[p] = "pop_release" /\ pc' = [pc EXCEPT ![p] = "idle"]
  BY <1>1 DEF PopRelease, TypeOK
<1>3. \A q \in Procs : /\ Popping(q)' <=> Popping(q) /\ q # p
                       /\ Pushing(q)' <=> Pushing(q)
                       /\ Popping(p) /\ ~ Pushing(p)
                       /\ q # p => pos'[q] = pos[q]
  BY <1>1, <1>2 DEF Pushing, Popping, TypeOK
<1>4. \A n \in Nat : /\ Slot(n) # Slot(m) => sequences'[Slot(n)] = sequences[Slot(n)]
                     /\ Slot(n) = Slot(m) => sequences'[Slot(n)] = m + Capacity
  BY <1>1, <1>2, SlotType DEF TypeOK
<1>5. PositionsBounded'
  BY <1>1, <1>2 DEF PositionsBounded
<1>6. PopOwnership'
  <2>1. ASSUME NEW q \in Procs, Popping(q), q # p
        PROVE  Slot(pos[q]) # Slot(m)
    <3>1. /\ pos[q] \in Nat /\ e <= pos[q] + Capacity /\ pos[q] < d /\ pos[q] # m
      BY <1>1, <1>3, <2>1 DEF RingInv, PopOwnership, TypeOK
    <3> QED BY <1>1, <3>1, SlotApart
  <2>2. ASSUME NEW q \in Procs, Popping(q)'
        PROVE  /\ enqueuePos' <= pos'[q] + Capacity /\ pos'[q] < dequeuePos'
               /\ Published(pos[q])'
               /\ \A r \in Procs : Popping(r)' /\ pos'[r] = pos'[q] => r = q
    <3>1. q # p /\ Popping(q) /\ pos'[q] = pos[q] /\ pos[q] \in Nat
      BY <1>1, <1>3, <2>2 DEF TypeOK
    <3>2. sequences'[Slot(pos[q])] = pos[q] + 1
      BY <1>4, <2>1, <3>1 DEF RingInv, PopOwnership, Published
    <3> QED BY <1>1, <1>2, <1>3, <3>1, <3>2 DEF RingInv, PopOwnership, Published
  <2> QED BY <2>2 DEF PopOwnership
<1>7. PushOwnership'
  <2>1. ASSUME NEW q \in Procs, Pushing(q)
        PROVE  Slot(pos[q]) # Slot(m)
    <3>1. /\ pos[q] \in Nat /\ d <= pos[q] /\ pos[q] < e
          /\ sequences[Slot(pos[q])] = pos[q]
      BY <1>1, <2>1 DEF RingInv, PushOwnership, Free, TypeOK
    <3>2. SUFFICES ASSUME Slot(pos[q]) = Slot(m) PROVE FALSE
      OBVIOUS
    <3>3. pos[q] = m + 1
      BY <1>1, <3>1, <3>2
    <3> QED BY <1>1, <3>1, <3>2, <3>3, SlotApart
  <2>2. ASSUME NEW q \in Procs, Pushing(q)'
        PROVE  /\ dequeuePos' <= pos'[q] /\ pos'[q] < enqueuePos'
               /\ Free(pos[q])'
               /\ \A r \in Procs : Pushing(r)' /\ pos'[r] = pos'[q] => r = q
    <3>1. q # p /\ Pushing(q) /\ pos'[q] = pos[q] /\ pos[q] \in Nat
      BY <1>1, <1>3, <2>2 DEF TypeOK
    <3>2. sequences'[Slot(pos[q])] = pos[q]
      BY <1>4, <2>1, <3>1 DEF RingInv, PushOwnership, Free
    <3> QED BY <1>1, <1>2, <1>3, <3>1, <3>2 DEF RingInv, PushOwnership, Free
  <2> QED BY <2>2 DEF PushOwnership
<1>8. SlotStates'
  <2> SUFFICES ASSUME NEW i \in Slots
               PROVE  \E n \in Nat : /\ n <= enqueuePos' + Capacity
                                     /\ Slot(n) = i
                                     /\ (Open(n) \/ Claimed(n) \/ Ready(n) \/ Leaving(n))'
    BY <1>1, <1>2 DEF SlotStates
  <2>1. CASE i = Slot(m)
    <3> DEFINE n == m + Capacity
    <3>1. n \in Nat /\ Slot(n) = i /\ n <= enqueuePos' + Capacity
      BY <1>1, <1>2, <2>1, SlotNext
    <3>2. Open(n)'
      BY <1>1, <1>2, <1>4, <2>1, <3>1 DEF Open, Free
    <3> HIDE DEF n
    <3> QED BY <3>1, <3>2
  <2>2. CASE i # Slot(m)
    <3>1. PICK n \in 0 .. e + Capacity :
              Slot(n) = i /\ (Open(n) \/ Claimed(n) \/ Ready(n) \/ Leaving(n))
      BY <1>1 DEF RingInv, SlotStates
    <3>2. n \in Nat /\ n # m /\ sequences'[Slot(n)] = sequences[Slot(n)]
      BY <1>4, <2>2, <3>1
    <3>3. CASE Open(n) \/ Ready(n)
      <4>1. (Open(n) \/ Ready(n))'
        BY <1>1, <1>2, <3>2, <3>3 DEF Open, Ready, Free, Published
      <4> QED BY <1>1, <1>2, <3>1, <3>2, <4>1
    <3>4. CASE Claimed(n)
      <4>1. PICK q \in Procs : Pushing(q) /\ pos[q] = n
        BY <3>4 DEF Claimed
      <4>2. Pushing(q)' /\ pos'[q] = n
        BY <1>1, <1>3, <4>1
      <4>3. Claimed(n)'
        BY <1>1, <1>2, <3>2, <3>4, <4>2 DEF Claimed, Free
      <4> QED BY <1>1, <1>2, <3>1, <3>2, <4>3
    <3>5. CASE Leaving(n)
      <4>1. PICK q \in Procs : Popping(q) /\ pos[q] = n
        BY <3>5 DEF Leaving
      <4>2. Popping(q)' /\ pos'[q] = n
        BY <1>1, <1>3, <3>2, <4>1
      <4>3. Leaving(n)'
        BY <1>1, <1>2, <3>2, <3>5, <4>2 DEF Leaving, Published
      <4> QED BY <1>1, <1>2, <3>1, <3>2, <4>3
    <3> QED BY <3>1, <3>3, <3>4, <3>5
  <2> QED BY <2>1, <2>2
<1>9. TicketsGrow'
  <2> SUFFICES ASSUME NEW q \in Procs, pc'[q] \in {"push_cas", "pop_cas"}
               PROVE  seq'[q] <= sequences'[Slot(pos'[q])]
    BY DEF TicketsGrow
  <2>1. /\ q # p /\ pc'[q] = pc[q] /\ seq'[q] = seq[q] /\ pos'[q] = pos[q]
        /\ pos[q] \in Nat /\ seq[q] \in Nat
    BY <1>1, <1>2 DEF TypeOK
  <2>2. seq[q] <= sequences[Slot(pos[q])]
    BY <2>1 DEF RingInv, TicketsGrow
  <2> QED BY <1>1, <1>4, <2>1, <2>2
<1>10. Written'
  BY <1>1, <1>2 DEF RingInv, Written, TypeOK
<1> QED BY <1>5, <1>6, <1>7, <1>8, <1>9, <1>10 DEF RingInv

(* For any number of threads, items and slots: the tickets of the ring always
   agree with the two positions, and a claimed position is owned by one thread. *)
THEOREM RingInvariant == Spec => []RingInv
<1>1. Init => RingInv
  BY RingInit
<1>2. RingInv /\ [Next]_vars => RingInv'
  <2> SUFFICES ASSUME RingInv, [Next]_vars PROVE RingInv'
    OBVIOUS
  <2>1. TypeOK'
    BY TypeNext DEF RingInv
  <2>2. ASSUME NEW p \in Procs, NEW v \in Values, PushStart(p, v) PROVE RingInv'
    BY <2>1, <2>2, RingPushLocal
  <2>3. ASSUME NEW p \in Procs, PopStart(p) PROVE RingInv'
    BY <2>1, <2>3, RingPopLocal
  <2>4. ASSUME NEW p \in Procs, Push(p) PROVE RingInv'
    BY <2>1, <2>4, RingPushLocal, RingPushClaim, RingPushPublish DEF Push
  <2>5. ASSUME NEW p \in Procs, Pop(p) PROVE RingInv'
    BY <2>1, <2>5, RingPopLocal, RingPopClaim, RingPopRelease DEF Pop
  <2>6. ASSUME NEW p \in Procs, SizeStart(p) \/ SizeLoad(p) PROVE RingInv'
    BY <2>1, <2>6, RingPopLocal
  <2>7. CASE UNCHANGED vars
    <3>1. TicketsGrow' /\ Written'
      BY <2>7 DEF vars, RingInv, TicketsGrow, Written
    <3> QED BY <2>1, <2>7, <3>1, LocalStep DEF vars, Pushing, Popping
  <2> QED BY <2>2, <2>3, <2>4, <2>5, <2>6, <2>7 DEF Next
<1> QED BY <1>1, <1>2, PTL DEF Spec

---------------------------------------------------------------------------
(* What the ring invariant is for. *)

(* With no call in progress, queue_task_push succeeds exactly when there is room
   and queue_task_pop exactly when there is an item. *)
THEOREM QuiescentTheorem == Spec => []QuiescentExact
<1>1. RingInv => QuiescentExact
  <2> SUFFICES ASSUME RingInv, \A p \in Procs : pc[p] = "idle"
               PROVE  /\ Free(enqueuePos) <=> enqueuePos < dequeuePos + Capacity
                      /\ Published(dequeuePos) <=> dequeuePos < enqueuePos
    BY DEF QuiescentExact
  <2> USE CapacityAssumption
  <2> DEFINE e == enqueuePos
             d == dequeuePos
  <2>1. /\ e \in Nat /\ d \in Nat /\ d <= e /\ e <= d + Capacity
        /\ Slot(e) \in Slots /\ Slot(d) \in Slots
    BY SlotType DEF RingInv, TypeOK, PositionsBounded
  <2>2. \A i \in Slots : \E n \in Nat : Slot(n) = i /\ (Open(n) \/ Ready(n))
    BY <2>1 DEF RingInv, SlotStates, Claimed, Leaving, Pushing, Popping
  <2>3. Free(e) => e < d + Capacity
    BY <2>1, ClaimFindsFree DEF Free
  <2>4. Published(d) => d < e
    BY <2>1, ClaimFindsPublished DEF Published
  <2>5. ASSUME e < d + Capacity PROVE Free(e)
    <3>1. PICK n \in Nat : Slot(n) = Slot(e) /\ (Open(n) \/ Ready(n))
      BY <2>1, <2>2
    <3>2. CASE n < e
      BY <2>1, <2>5, <3>1, <3>2, SlotUnique DEF Open, Ready
    <3>3. CASE e < n
      BY <2>1, <2>5, <3>1, <3>3, SlotUnique DEF Open, Ready
    <3>4. CASE n = e
      BY <2>1, <3>1, <3>4 DEF Open, Ready
    <3> QED BY <2>1, <3>2, <3>3, <3>4
  <2>6. ASSUME d < e PROVE Published(d)
    <3>1. PICK n \in Nat : Slot(n) = Slot(d) /\ (Open(n) \/ Ready(n))
      BY <2>1, <2>2
    <3>2. CASE n < d
      BY <2>1, <2>6, <3>1, <3>2 DEF Open, Ready
    <3>3. CASE d < n
      BY <2>1, <2>6, <3>1, <3>3, SlotUnique DEF Open, Ready
    <3>4. CASE n = d
      BY <2>1, <2>6, <3>1, <3>4 DEF Open, Ready
    <3> QED BY <2>1, <3>2, <3>3, <3>4
  <2> QED BY <2>3, <2>4, <2>5, <2>6
<1> QED BY <1>1, RingInvariant, PTL

(* A position read by a push or a pop has been reached by its counter, and the
   one size has read stays within a ring of the pop position. *)
LEMMA SeenInvariant == Spec => []PositionsSeen
<1>1. Init => PositionsSeen
  BY DEF Init, PositionsSeen
<1>2. RingInv /\ PositionsSeen /\ [Next]_vars => PositionsSeen'
  <2> SUFFICES ASSUME TypeOK, PositionsBounded, PositionsSeen, [Next]_vars
               PROVE  PositionsSeen'
    BY DEF RingInv
  <2> USE CapacityAssumption DEF PositionsSeen, TypeOK, Goto, Return, shared
  <2>1. ASSUME NEW p \in Procs, NEW v \in Values, PushStart(p, v) PROVE PositionsSeen'
    BY <2>1 DEF PushStart
  <2>2. ASSUME NEW p \in Procs, PopStart(p) PROVE PositionsSeen'
    BY <2>2 DEF PopStart
  <2>3. ASSUME NEW p \in Procs, Push(p) PROVE PositionsSeen'
    BY <2>3 DEF Push, PushLoad, PushClaim, PushLost, PushFull, PushBehind, PushWrite,
                PushPublish
  <2>4. ASSUME NEW p \in Procs, Pop(p) PROVE PositionsSeen'
    BY <2>4 DEF Pop, PopLoad, PopClaim, PopLost, PopEmpty, PopBehind, PopRead, PopRelease
  <2>5. ASSUME NEW p \in Procs, SizeStart(p) \/ SizeLoad(p) PROVE PositionsSeen'
    BY <2>5 DEF SizeStart, SizeLoad, PositionsBounded
  <2>6. CASE UNCHANGED vars
    BY <2>6 DEF vars
  <2> QED BY <2>1, <2>2, <2>3, <2>4, <2>5, <2>6 DEF Next
<1> QED BY <1>1, <1>2, RingInvariant, PTL DEF Spec

(* A call of queue_task_size that returns 0 has seen every item that was in the
   queue when it began taken since, or a full ring. *)
THEOREM SizeTheorem == Spec => SizeMissesOnlyFull
<1>1. ASSUME RingInv, PositionsSeen, NEW p \in Procs,
             SizeLoad(p), QueueSize(pos[p], dequeuePos) = 0
      PROVE  pos[p] <= dequeuePos \/ pos[p] = dequeuePos + Capacity
  <2>1. /\ pos[p] \in Nat /\ dequeuePos \in Nat /\ Capacity \in Nat
        /\ pos[p] <= dequeuePos + Capacity
    BY <1>1, CapacityAssumption DEF SizeLoad, PositionsSeen, RingInv, TypeOK
  <2>2. Slot(pos[p]) \in Nat /\ Slot(dequeuePos) \in Nat
    BY <2>1, Division
  <2>3. Slot(pos[p]) = Slot(dequeuePos)
    BY <1>1, <2>2 DEF QueueSize
  <2>4. CASE dequeuePos < pos[p]
    <3>1. dequeuePos + Capacity <= pos[p]
      BY <2>1, <2>3, <2>4, SlotUnique
    <3> QED BY <2>1, <3>1
  <2> QED BY <2>1, <2>4
<1>2. RingInv /\ PositionsSeen /\ [Next]_vars =>
        [\A p \in Procs :
           SizeLoad(p) /\ QueueSize(pos[p], dequeuePos) = 0 =>
               \/ pos[p] <= dequeuePos
               \/ pos[p] = dequeuePos + Capacity]_vars
  BY <1>1
<1> QED BY <1>2, RingInvariant, SeenInvariant, PTL DEF Spec, SizeMissesOnlyFull

(* A push or a pop reads a ticket that refuses it only while the ring is full or
   empty, or while the call that will change the ticket is still in progress. *)
THEOREM RefusalTheorem == Spec => RefusedOnlyWhenBusy
<1> DEFINE PushBusy(p) == \/ enqueuePos = dequeuePos + Capacity
                          \/ \E q \in Procs : Popping(q) /\ pos[q] + Capacity = pos[p]
           PopBusy(p) == \/ enqueuePos = dequeuePos
                         \/ \E q \in Procs : Pushing(q) /\ pos[q] = pos[p]
<1>1. ASSUME RingInv, PositionsSeen, NEW p \in Procs
      PROVE  /\ PushLoad(p) /\ sequences[Slot(pos[p])] < pos[p] => PushBusy(p)
             /\ PopLoad(p) /\ sequences[Slot(pos[p])] < pos[p] + 1 => PopBusy(p)
  <2> USE CapacityAssumption
  <2> DEFINE e == enqueuePos
             d == dequeuePos
             m == pos[p]
  <2>1. /\ e \in Nat /\ d \in Nat /\ d <= e /\ e <= d + Capacity
        /\ m \in Nat /\ Slot(m) \in Slots
    BY <1>1, SlotType DEF RingInv, TypeOK, PositionsBounded
  <2>2. PICK n \in Nat : Slot(n) = Slot(m) /\ (Open(n) \/ Claimed(n) \/ Ready(n) \/ Leaving(n))
    BY <1>1, <2>1 DEF RingInv, SlotStates
  <2>3. n < m => n + Capacity <= m
    BY <2>1, <2>2, SlotUnique
  <2>4. m < n => m + Capacity <= n
    BY <2>1, <2>2, SlotUnique
  <2>5. sequences[Slot(m)] = n \/ sequences[Slot(m)] = n + 1
    BY <2>2 DEF Open, Claimed, Ready, Leaving, Free, Published
  <2>6. ASSUME PushLoad(p), sequences[Slot(m)] < m PROVE PushBusy(p)
    <3>1. m <= e
      BY <1>1, <2>6 DEF PushLoad, PositionsSeen
    <3>2. n + Capacity <= m
      BY <2>1, <2>3, <2>5, <2>6
    <3>3. CASE Claimed(n) \/ Ready(n)
      BY <2>1, <3>1, <3>2, <3>3 DEF Claimed, Ready
    <3>4. CASE Leaving(n)
      <4>1. n + Capacity = m
        BY <2>1, <3>1, <3>2, <3>4 DEF Leaving
      <4> QED BY <3>4, <4>1 DEF Leaving
    <3> QED BY <2>1, <2>2, <3>1, <3>2, <3>3, <3>4 DEF Open
  <2>7. ASSUME PopLoad(p), sequences[Slot(m)] < m + 1 PROVE PopBusy(p)
    <3>1. m <= d
      BY <1>1, <2>7 DEF PopLoad, PositionsSeen
    <3>2. CASE Open(n)
      BY <2>1, <2>3, <2>4, <2>5, <2>7, <3>1, <3>2 DEF Open
    <3>3. CASE Claimed(n)
      <4>1. n = m
        BY <2>1, <2>3, <2>4, <2>5, <2>7, <3>1, <3>3 DEF Claimed
      <4> QED BY <3>3, <4>1 DEF Claimed
    <3>4. CASE Ready(n)
      BY <2>1, <2>2, <2>3, <2>4, <2>5, <2>7, <3>1, <3>4 DEF Ready, Published
    <3>5. CASE Leaving(n)
      BY <2>1, <2>2, <2>3, <2>4, <2>5, <2>7, <3>1, <3>5 DEF Leaving, Published
    <3> QED BY <2>2, <3>2, <3>3, <3>4, <3>5
  <2> QED BY <2>6, <2>7
<1>2. RingInv /\ PositionsSeen /\ [Next]_vars =>
        [\A p \in Procs :
           /\ PushLoad(p) /\ sequences[Slot(pos[p])] < pos[p] =>
                  \/ enqueuePos = dequeuePos + Capacity
                  \/ \E q \in Procs : Popping(q) /\ pos[q] + Capacity = pos[p]
           /\ PopLoad(p) /\ sequences[Slot(pos[p])] < pos[p] + 1 =>
                  \/ enqueuePos = dequeuePos
                  \/ \E q \in Procs : Pushing(q) /\ pos[q] = pos[p]]_vars
  BY <1>1
<1> QED BY <1>2, RingInvariant, SeenInvariant, PTL DEF Spec, RefusedOnlyWhenBusy

---------------------------------------------------------------------------
(* The ring implements the bounded FIFO. *)

(* An item in the queue is in its slot, or still in the hand of the thread   *)
(* that claimed its position.                                                *)
LEMMA ItemAtValue ==
  ASSUME RingInv, NEW n \in Nat, dequeuePos <= n, n < enqueuePos
  PROVE  \/ Published(n) /\ ItemAt(n) = data[Slot(n)]
         \/ \E p \in Procs : Pushing(p) /\ pos[p] = n
<1> USE CapacityAssumption
<1> DEFINE e == enqueuePos
           d == dequeuePos
<1>1. /\ e \in Nat /\ d \in Nat /\ d <= e /\ e <= d + Capacity
      /\ Slot(n) \in Slots
  BY SlotType DEF RingInv, TypeOK, PositionsBounded
<1>2. PICK k \in Nat : Slot(k) = Slot(n) /\ (Open(k) \/ Claimed(k) \/ Ready(k) \/ Leaving(k))
  BY <1>1 DEF RingInv, SlotStates
<1>3. CASE k = n
  BY <1>1, <1>2, <1>3 DEF Open, Claimed, Ready, Leaving, ItemAt
<1>4. CASE k < n
  <2>1. k + Capacity <= n
    BY <1>1, <1>2, <1>4, SlotUnique
  <2> QED BY <1>1, <1>2, <2>1 DEF Open, Claimed, Ready, Leaving
<1>5. CASE n < k
  <2>1. n + Capacity <= k
    BY <1>1, <1>2, <1>5, SlotUnique
  <2> QED BY <1>1, <1>2, <2>1 DEF Open, Claimed, Ready, Leaving
<1> QED BY <1>3, <1>4, <1>5

(* An item in hand is the one the claiming thread was given. *)
LEMMA ItemInHand ==
  ASSUME RingInv, NEW p \in Procs, Pushing(p)
  PROVE  ~ Published(pos[p]) /\ ItemAt(pos[p]) = item[p]
<1>1. pos[p] \in Nat /\ ~ Published(pos[p])
  BY DEF RingInv, PushOwnership, TypeOK, Free, Published
<1>2. (CHOOSE q \in Procs : Pushing(q) /\ pos[q] = pos[p]) = p
  BY DEF RingInv, PushOwnership
<1> QED BY <1>1, <1>2 DEF ItemAt

(* The same after a step. *)
LEMMA ItemInHandNext ==
  ASSUME RingInv', NEW p \in Procs, NEW n \in Nat, Pushing(p)', pos'[p] = n
  PROVE  ~ Published(n)' /\ ItemAt(n)' = item'[p]
<1>1. ~ Published(n)'
  BY DEF RingInv, PushOwnership, TypeOK, Free, Published
<1>2. (CHOOSE q \in Procs : Pushing(q)' /\ pos'[q] = n) = p
  BY DEF RingInv, PushOwnership
<1> QED BY <1>1, <1>2 DEF ItemAt

(* A step that moves no position leaves the items of the queue as they are   *)
(* when it changes neither a published slot nor an item in hand.             *)
LEMMA ContentsKept ==
  ASSUME RingInv, RingInv', UNCHANGED <<enqueuePos, dequeuePos>>,
         \A n \in Nat : dequeuePos <= n /\ n < enqueuePos => ItemAt(n)' = ItemAt(n)
  PROVE  Contents' = Contents
<1>1. enqueuePos \in Nat /\ dequeuePos \in Nat /\ dequeuePos <= enqueuePos
  BY DEF RingInv, TypeOK, PositionsBounded
<1>2. ASSUME NEW k \in 1 .. enqueuePos - dequeuePos
      PROVE  ItemAt(dequeuePos + k - 1)' = ItemAt(dequeuePos + k - 1)
  <2> DEFINE n == dequeuePos + k - 1
  <2>1. n \in Nat /\ dequeuePos <= n /\ n < enqueuePos
    BY <1>1
  <2>2. ItemAt(n)' = ItemAt(n)
    BY <2>1
  <2> QED BY <2>2
<1> QED BY <1>2 DEF Contents

(* Steps that leave the ring alone and no thread's ownership or item in hand *)
(* changed.                                                                  *)
LEMMA ContentsLocal ==
  ASSUME RingInv, RingInv', UNCHANGED shared,
         \A q \in Procs : /\ Pushing(q)' <=> Pushing(q)
                          /\ Pushing(q) => pos'[q] = pos[q] /\ item'[q] = item[q]
  PROVE  Contents' = Contents
<1>1. ASSUME NEW n \in Nat, dequeuePos <= n, n < enqueuePos
      PROVE  ItemAt(n)' = ItemAt(n)
  <2>1. CASE Published(n)
    BY <2>1 DEF ItemAt, Published, shared
  <2>2. CASE ~ Published(n)
    <3>1. PICK p \in Procs : Pushing(p) /\ pos[p] = n
      BY <1>1, <2>2, ItemAtValue
    <3>2. ItemAt(n) = item[p]
      BY <3>1, ItemInHand
    <3>3. Pushing(p)' /\ pos'[p] = n /\ item'[p] = item[p]
      BY <3>1
    <3>4. ItemAt(n)' = item'[p]
      BY <3>3, ItemInHandNext
    <3> QED BY <3>2, <3>3, <3>4
  <2> QED BY <2>1, <2>2
<1> QED BY <1>1, ContentsKept DEF shared

(* Steps of a push that leave the abstract queue as it is. *)
LEMMA FifoPushLocal ==
  ASSUME RingInv, RingInv', NEW p \in Procs,
         PushLoad(p) \/ PushLost(p) \/ PushFull(p) \/ PushBehind(p)
  PROVE  UNCHANGED <<Contents, item, Taken>>
<1> USE CapacityAssumption DEF Goto, Return, shared
<1>1. TypeOK
  BY DEF RingInv
<1>2. UNCHANGED <<shared, item>>
  BY DEF PushLoad, PushLost, PushFull, PushBehind
<1>3. \A q \in Procs : /\ Pushing(q)' <=> Pushing(q)
                       /\ Pushing(q) => pos'[q] = pos[q] /\ item'[q] = item[q]
  BY <1>1 DEF PushLoad, PushLost, PushFull, PushBehind, TypeOK, Pushing
<1>4. Contents' = Contents
  BY <1>2, <1>3, ContentsLocal
<1>5. \A q \in Procs : /\ pc'[q] = "pop_read" <=> pc[q] = "pop_read"
                       /\ pc[q] = "pop_read" => pos'[q] = pos[q]
                       /\ out'[q] = out[q]
  BY <1>1 DEF PushLoad, PushLost, PushFull, PushBehind, TypeOK
<1>6. Taken' = Taken
  BY <1>2, <1>5 DEF Taken
<1> QED BY <1>2, <1>4, <1>6

(* The call of a push asks for its item. *)
LEMMA FifoPushStart ==
  ASSUME RingInv, RingInv', NEW p \in Procs, NEW v \in Values, PushStart(p, v)
  PROVE  Fifo!Ask(p, v)
<1> USE CapacityAssumption DEF Goto, shared
<1>1. TypeOK
  BY DEF RingInv
<1>2. \A q \in Procs : /\ Pushing(q)' <=> Pushing(q)
                       /\ Pushing(q) => pos'[q] = pos[q] /\ item'[q] = item[q]
  BY <1>1 DEF PushStart, TypeOK, Pushing
<1>3. Contents' = Contents
  BY <1>2, ContentsLocal DEF PushStart
<1>4. \A q \in Procs : /\ pc'[q] = "pop_read" <=> pc[q] = "pop_read"
                       /\ pc[q] = "pop_read" => pos'[q] = pos[q]
                       /\ out'[q] = out[q]
  BY <1>1 DEF PushStart, TypeOK
<1>5. Taken' = Taken
  BY <1>4 DEF Taken, PushStart
<1> QED BY <1>3, <1>5 DEF PushStart, Fifo!Ask

(* Steps of a pop or of a size that leave the abstract queue as it is. *)
LEMMA FifoPopLocal ==
  ASSUME RingInv, RingInv', NEW p \in Procs,
         \/ PopStart(p) \/ PopLoad(p) \/ PopLost(p) \/ PopBehind(p) \/ PopRead(p)
         \/ SizeStart(p) \/ SizeLoad(p)
  PROVE  UNCHANGED <<Contents, item, Taken>>
<1> USE CapacityAssumption DEF Goto, Return, shared
<1>1. TypeOK
  BY DEF RingInv
<1>2. UNCHANGED <<shared, item>>
  BY DEF PopStart, PopLoad, PopLost, PopBehind, PopRead, SizeStart, SizeLoad
<1>3. \A q \in Procs : /\ Pushing(q)' <=> Pushing(q)
                       /\ Pushing(q) => pos'[q] = pos[q] /\ item'[q] = item[q]
  BY <1>1 DEF PopStart, PopLoad, PopLost, PopBehind, PopRead, SizeStart, SizeLoad,
              TypeOK, Pushing
<1>4. Contents' = Contents
  BY <1>2, <1>3, ContentsLocal
<1>5. ASSUME PopRead(p) PROVE Taken' = Taken
  BY <1>1, <1>5 DEF Taken, TypeOK, PopRead
<1>6. ASSUME ~ PopRead(p) PROVE Taken' = Taken
  <2>1. \A q \in Procs : /\ pc'[q] = "pop_read" <=> pc[q] = "pop_read"
                         /\ pc[q] = "pop_read" => pos'[q] = pos[q]
                         /\ out'[q] = out[q]
    BY <1>1, <1>6 DEF PopStart, PopLoad, PopLost, PopBehind, SizeStart, SizeLoad, TypeOK
  <2> QED BY <1>2, <2>1 DEF Taken
<1> QED BY <1>2, <1>4, <1>5, <1>6

(* A pop that finds nothing published is a refusal. *)
LEMMA FifoPopEmpty ==
  ASSUME RingInv, RingInv', NEW p \in Procs, PopEmpty(p)
  PROVE  Fifo!Refuse(p)
<1> USE CapacityAssumption DEF Goto, Return, shared
<1>1. TypeOK
  BY DEF RingInv
<1>2. UNCHANGED <<shared, item>>
  BY DEF PopEmpty
<1>3. \A q \in Procs : /\ Pushing(q)' <=> Pushing(q)
                       /\ Pushing(q) => pos'[q] = pos[q] /\ item'[q] = item[q]
  BY <1>1 DEF PopEmpty, TypeOK, Pushing
<1>4. Contents' = Contents
  BY <1>2, <1>3, ContentsLocal
<1>5. Taken' = [Taken EXCEPT ![p] = Default]
  BY <1>1 DEF Taken, TypeOK, PopEmpty
<1> QED BY <1>2, <1>4, <1>5 DEF Fifo!Refuse

(* The store of an item does not disturb a published slot. *)
LEMMA FifoPushWrite ==
  ASSUME RingInv, RingInv', NEW p \in Procs, PushWrite(p)
  PROVE  UNCHANGED <<Contents, item, Taken>>
<1> USE CapacityAssumption DEF Goto
<1>1. PICK m \in Nat : m = pos[p] /\ TypeOK /\ Pushing(p) /\ sequences[Slot(m)] = m
  BY DEF RingInv, TypeOK, PushWrite, Pushing, PushOwnership, Free
<1>2. /\ UNCHANGED <<sequences, enqueuePos, dequeuePos, pos, item, out>>
      /\ data' = [data EXCEPT ![Slot(m)] = item[p]]
      /\ pc[p] = "push_write" /\ pc' = [pc EXCEPT ![p] = "push_publish"]
  BY <1>1 DEF PushWrite
<1>3. \A q \in Procs : /\ Pushing(q)' <=> Pushing(q)
                       /\ pc'[q] = "pop_read" <=> pc[q] = "pop_read"
  BY <1>1, <1>2 DEF Pushing, TypeOK
<1>4. ASSUME NEW n \in Nat, Published(n)
      PROVE  data'[Slot(n)] = data[Slot(n)]
  <2>1. Slot(n) # Slot(m)
    <3> SUFFICES ASSUME Slot(n) = Slot(m) PROVE FALSE
      OBVIOUS
    <3>1. m = n + 1
      BY <1>1, <1>4 DEF Published
    <3> QED BY <3>1, SlotApart
  <2> QED BY <1>1, <1>2, <2>1, SlotType DEF TypeOK
<1>5. ASSUME NEW n \in Nat, dequeuePos <= n, n < enqueuePos
      PROVE  ItemAt(n)' = ItemAt(n)
  <2>1. CASE Published(n)
    BY <1>2, <1>4, <2>1 DEF ItemAt, Published
  <2>2. CASE ~ Published(n)
    <3>1. PICK q \in Procs : Pushing(q) /\ pos[q] = n
      BY <1>5, <2>2, ItemAtValue
    <3>2. ItemAt(n) = item[q]
      BY <3>1, ItemInHand
    <3>3. Pushing(q)' /\ pos'[q] = n /\ item'[q] = item[q]
      BY <1>2, <1>3, <3>1
    <3>4. ItemAt(n)' = item'[q]
      BY <3>3, ItemInHandNext
    <3> QED BY <3>2, <3>3, <3>4
  <2> QED BY <2>1, <2>2
<1>6. Contents' = Contents
  BY <1>2, <1>5, ContentsKept
<1>7. ASSUME NEW q \in Procs, pc[q] = "pop_read"
      PROVE  data'[Slot(pos[q])] = data[Slot(pos[q])]
  <2>1. pos[q] \in Nat /\ Published(pos[q])
    BY <1>1, <1>7 DEF RingInv, PopOwnership, Popping, TypeOK
  <2> QED BY <1>4, <2>1
<1>8. Taken' = Taken
  BY <1>2, <1>3, <1>7 DEF Taken
<1> QED BY <1>2, <1>6, <1>8

(* Publishing moves an item from the thread's hand to its slot. *)
LEMMA FifoPushPublish ==
  ASSUME RingInv, RingInv', NEW p \in Procs, PushPublish(p)
  PROVE  UNCHANGED <<Contents, item, Taken>>
<1> USE CapacityAssumption DEF Goto, Return
<1>1. PICK m \in Nat : /\ m = pos[p] /\ TypeOK /\ Pushing(p)
                       /\ dequeuePos <= m /\ m < enqueuePos
                       /\ data[Slot(m)] = item[p]
  BY DEF RingInv, TypeOK, PushPublish, Pushing, PushOwnership, Written
<1>2. /\ UNCHANGED <<data, enqueuePos, dequeuePos, item, out>>
      /\ sequences' = [sequences EXCEPT ![Slot(m)] = m + 1]
      /\ pos' = [pos EXCEPT ![p] = 0]
      /\ pc[p] = "push_publish" /\ pc' = [pc EXCEPT ![p] = "idle"]
  BY <1>1 DEF PushPublish
<1>3. \A q \in Procs : /\ Pushing(q)' <=> Pushing(q) /\ q # p
                       /\ pc'[q] = "pop_read" <=> pc[q] = "pop_read"
                       /\ q # p => pos'[q] = pos[q]
  BY <1>1, <1>2 DEF Pushing, TypeOK
<1>4. ASSUME NEW n \in Nat, dequeuePos <= n, n < enqueuePos
      PROVE  ItemAt(n)' = ItemAt(n)
  <2>1. CASE n = m
    <3>1. ItemAt(n) = item[p]
      BY <1>1, <2>1, ItemInHand
    <3>2. sequences'[Slot(n)] = n + 1
      BY <1>1, <1>2, <2>1, SlotType DEF TypeOK
    <3> QED BY <1>1, <1>2, <2>1, <3>1, <3>2 DEF ItemAt, Published
  <2>2. CASE n # m
    <3>1. Slot(n) # Slot(m)
      BY <1>1, <1>4, <2>2, SlotApart DEF RingInv, PositionsBounded, TypeOK
    <3>2. sequences'[Slot(n)] = sequences[Slot(n)]
      BY <1>1, <1>2, <3>1, SlotType DEF TypeOK
    <3>3. CASE Published(n)
      BY <1>2, <3>2, <3>3 DEF ItemAt, Published
    <3>4. CASE ~ Published(n)
      <4>1. PICK q \in Procs : Pushing(q) /\ pos[q] = n
        BY <1>4, <3>4, ItemAtValue
      <4>2. ItemAt(n) = item[q]
        BY <4>1, ItemInHand
      <4>3. Pushing(q)' /\ pos'[q] = n /\ item'[q] = item[q]
        BY <1>1, <1>2, <1>3, <2>2, <4>1
      <4>4. ItemAt(n)' = item'[q]
        BY <4>3, ItemInHandNext
      <4> QED BY <4>2, <4>3, <4>4
    <3> QED BY <3>3, <3>4
  <2> QED BY <2>1, <2>2
<1>5. Contents' = Contents
  BY <1>2, <1>4, ContentsKept
<1>6. Taken' = Taken
  BY <1>1, <1>2, <1>3 DEF Taken
<1> QED BY <1>2, <1>5, <1>6

(* Releasing a slot that was read changes no item of the queue. *)
LEMMA FifoPopRelease ==
  ASSUME RingInv, RingInv', NEW p \in Procs, PopRelease(p)
  PROVE  UNCHANGED <<Contents, item, Taken>>
<1> USE CapacityAssumption DEF Goto, Return
<1>1. PICK m \in Nat : /\ m = pos[p] /\ TypeOK /\ Popping(p)
                       /\ enqueuePos <= m + Capacity /\ m < dequeuePos
                       /\ enqueuePos \in Nat /\ dequeuePos \in Nat
  BY DEF RingInv, TypeOK, PopRelease, Popping, PopOwnership
<1>2. /\ UNCHANGED <<data, enqueuePos, dequeuePos, item, out>>
      /\ sequences' = [sequences EXCEPT ![Slot(m)] = m + Capacity]
      /\ pos' = [pos EXCEPT ![p] = 0]
      /\ pc[p] = "pop_release" /\ pc' = [pc EXCEPT ![p] = "idle"]
  BY <1>1 DEF PopRelease
<1>3. \A q \in Procs : /\ Pushing(q)' <=> Pushing(q)
                       /\ pc'[q] = "pop_read" <=> pc[q] = "pop_read"
                       /\ q # p => pos'[q] = pos[q]
                       /\ pc[q] = "pop_read" \/ Pushing(q) => q # p
  BY <1>1, <1>2 DEF Pushing, TypeOK
<1>4. ASSUME NEW n \in Nat, dequeuePos <= n, n < enqueuePos
      PROVE  ItemAt(n)' = ItemAt(n)
  <2>1. Slot(n) # Slot(m)
    BY <1>1, <1>4, SlotApart
  <2>2. sequences'[Slot(n)] = sequences[Slot(n)]
    BY <1>1, <1>2, <2>1, SlotType DEF TypeOK
  <2>3. CASE Published(n)
    BY <1>2, <2>2, <2>3 DEF ItemAt, Published
  <2>4. CASE ~ Published(n)
    <3>1. PICK q \in Procs : Pushing(q) /\ pos[q] = n
      BY <1>4, <2>4, ItemAtValue
    <3>2. ItemAt(n) = item[q]
      BY <3>1, ItemInHand
    <3>3. Pushing(q)' /\ pos'[q] = n /\ item'[q] = item[q]
      BY <1>2, <1>3, <3>1
    <3>4. ItemAt(n)' = item'[q]
      BY <3>3, ItemInHandNext
    <3> QED BY <3>2, <3>3, <3>4
  <2> QED BY <2>3, <2>4
<1>5. Contents' = Contents
  BY <1>2, <1>4, ContentsKept
<1>6. Taken' = Taken
  BY <1>1, <1>2, <1>3 DEF Taken
<1> QED BY <1>2, <1>5, <1>6

(* A function whose domain is an initial segment is a sequence. *)
LEMMA SegmentIsSeq ==
  ASSUME NEW n \in Nat, NEW S, NEW f \in [1 .. n -> S]
  PROVE  f \in Seq(S) /\ Len(f) = n
<1>1. f \in Seq(S)
  BY SeqDef
<1>2. Len(f) \in Nat /\ DOMAIN f = 1 .. Len(f)
  BY <1>1, LenProperties
<1>3. 1 .. Len(f) = 1 .. n
  BY <1>2
<1> QED BY <1>1, <1>2, <1>3

(* A sequence with one more element at the end. *)
LEMMA SegmentGrows ==
  ASSUME NEW n \in Nat, NEW S, NEW f \in [1 .. n -> S], NEW g \in [1 .. n + 1 -> S],
         \A k \in 1 .. n : g[k] = f[k]
  PROVE  g = Append(f, g[n + 1])
<1>1. f \in Seq(S) /\ Len(f) = n /\ g \in Seq(S) /\ Len(g) = n + 1 /\ g[n + 1] \in S
  BY SegmentIsSeq
<1>2. /\ Append(f, g[n + 1]) \in Seq(S)
      /\ Len(Append(f, g[n + 1])) = n + 1
      /\ \A k \in 1 .. n + 1 :
            Append(f, g[n + 1])[k] = IF k = n + 1 THEN g[n + 1] ELSE f[k]
  BY <1>1
<1> QED BY <1>1, <1>2, SeqEqual

(* A sequence with its first element taken away. *)
LEMMA SegmentShrinks ==
  ASSUME NEW n \in Nat, NEW S, NEW f \in [1 .. n + 1 -> S], NEW g \in [1 .. n -> S],
         \A k \in 1 .. n : g[k] = f[k + 1]
  PROVE  f # << >> /\ Head(f) = f[1] /\ g = Tail(f)
<1>1. f \in Seq(S) /\ Len(f) = n + 1 /\ g \in Seq(S) /\ Len(g) = n
  BY SegmentIsSeq
<1>2. f # << >>
  BY <1>1, EmptySeq
<1>3. /\ Tail(f) \in Seq(S) /\ Len(Tail(f)) = n
      /\ \A k \in 1 .. n : Tail(f)[k] = f[k + 1]
  BY <1>1, <1>2, HeadTailProperties
<1> QED BY <1>1, <1>2, <1>3, SeqEqual

(* The exchange of a push appends its item. *)
LEMMA FifoPushClaim ==
  ASSUME RingInv, RingInv', NEW p \in Procs, PushClaim(p)
  PROVE  Fifo!Put(p)
<1> USE CapacityAssumption DEF Goto
<1>1. PICK e \in Nat, d \in Nat : /\ e = enqueuePos /\ d = dequeuePos /\ d <= e
                                  /\ TypeOK /\ Slot(e) \in Slots
  BY SlotType DEF RingInv, TypeOK, PositionsBounded
<1>2. /\ UNCHANGED <<sequences, data, pos, item, out>>
      /\ dequeuePos' = d /\ enqueuePos' = e + 1 /\ pos[p] = e
      /\ pc[p] = "push_cas" /\ pc' = [pc EXCEPT ![p] = "push_write"]
  BY <1>1 DEF PushClaim, TypeOK
<1>3. /\ \A q \in Procs : pc'[q] = "pop_read" <=> pc[q] = "pop_read"
      /\ \A q \in Procs : Pushing(q)' <=> Pushing(q) \/ q = p
  BY <1>1, <1>2 DEF Pushing, TypeOK
<1>4. e + 1 <= d + Capacity
  BY <1>1, <1>2 DEF RingInv, PositionsBounded
<1>5. ASSUME NEW n \in Nat, d <= n, n < e
      PROVE  ItemAt(n)' = ItemAt(n)
  <2>1. CASE Published(n)
    BY <1>2, <2>1 DEF ItemAt, Published
  <2>2. CASE ~ Published(n)
    <3>1. PICK q \in Procs : Pushing(q) /\ pos[q] = n
      BY <1>1, <1>5, <2>2, ItemAtValue
    <3>2. ItemAt(n) = item[q]
      BY <3>1, ItemInHand
    <3>3. Pushing(q)' /\ pos'[q] = n /\ item'[q] = item[q]
      BY <1>2, <1>3, <3>1
    <3>4. ItemAt(n)' = item'[q]
      BY <3>3, ItemInHandNext
    <3> QED BY <3>2, <3>3, <3>4
  <2> QED BY <2>1, <2>2
<1>6. ItemAt(e)' = item[p]
  <2>1. Pushing(p)' /\ pos'[p] = e /\ item'[p] = item[p]
    BY <1>2, <1>3
  <2> QED BY <2>1, ItemInHandNext
<1>7. PICK n \in Nat : n = e - d
  BY <1>1
<1> DEFINE f == Contents
           g == Contents'
           S == {f[k] : k \in 1 .. n} \union {g[k] : k \in 1 .. n + 1}
<1>8. f \in [1 .. n -> S] /\ g \in [1 .. n + 1 -> S]
  <2>1. f = [k \in 1 .. n |-> ItemAt(d + k - 1)]
    BY <1>1, <1>7 DEF Contents
  <2>2. g = [k \in 1 .. n + 1 |-> ItemAt(d + k - 1)']
    <3>1. enqueuePos' - dequeuePos' = n + 1
      BY <1>1, <1>2, <1>7
    <3> QED BY <1>2, <3>1 DEF Contents
  <2> QED BY <2>1, <2>2
<1>9. \A k \in 1 .. n : g[k] = f[k]
  <2> SUFFICES ASSUME NEW k \in 1 .. n PROVE g[k] = f[k]
    OBVIOUS
  <2>1. PICK m \in Nat : m = d + k - 1 /\ d <= m /\ m < e
    BY <1>1, <1>7
  <2>2. f[k] = ItemAt(m)
    BY <1>1, <1>7, <2>1 DEF Contents
  <2>3. g[k] = ItemAt(m)'
    <3>1. k \in 1 .. enqueuePos' - dequeuePos'
      BY <1>1, <1>2, <1>7
    <3> QED BY <1>2, <2>1, <3>1 DEF Contents
  <2> QED BY <1>5, <2>1, <2>2, <2>3
<1>10. g[n + 1] = item[p]
  <2>1. n + 1 \in 1 .. enqueuePos' - dequeuePos' /\ dequeuePos' + (n + 1) - 1 = e
    BY <1>1, <1>2, <1>7
  <2> QED BY <1>6, <2>1 DEF Contents
<1>11. Len(f) = n
  <2> HIDE DEF f, g, S
  <2> QED BY <1>8, SegmentIsSeq
<1>12. g = Append(f, g[n + 1])
  <2> HIDE DEF f, g, S
  <2> QED BY <1>8, <1>9, SegmentGrows
<1>13. Contents' = Append(Contents, item[p]) /\ Len(Contents) < Capacity
  BY <1>1, <1>4, <1>7, <1>10, <1>11, <1>12
<1>14. Taken' = Taken
  BY <1>2, <1>3 DEF Taken
<1> QED BY <1>2, <1>13, <1>14 DEF Fifo!Put

(* The exchange of a pop takes the oldest item. *)
LEMMA FifoPopClaim ==
  ASSUME RingInv, RingInv', NEW p \in Procs, PopClaim(p)
  PROVE  Fifo!Take(p)
<1> USE CapacityAssumption DEF Goto
<1>1. PICK e \in Nat, d \in Nat : /\ e = enqueuePos /\ d = dequeuePos
                                  /\ TypeOK /\ Slot(d) \in Slots
  BY SlotType DEF RingInv, TypeOK, PositionsBounded
<1>2. /\ UNCHANGED <<sequences, data, pos, item, out>>
      /\ dequeuePos' = d + 1 /\ enqueuePos' = e /\ pos[p] = d /\ seq[p] = d + 1
      /\ pc[p] = "pop_cas" /\ pc' = [pc EXCEPT ![p] = "pop_read"]
  BY <1>1 DEF PopClaim, TypeOK
<1>3. /\ \A q \in Procs : Pushing(q)' <=> Pushing(q)
      /\ \A q \in Procs : pc'[q] = "pop_read" <=> pc[q] = "pop_read" \/ q = p
  BY <1>1, <1>2 DEF Pushing, TypeOK
<1>4. Published(d) /\ d < e
  <2>1. sequences[Slot(d)] >= d + 1
    BY <1>1, <1>2 DEF RingInv, TicketsGrow, TypeOK
  <2> QED BY <1>1, <2>1, ClaimFindsPublished
<1>5. ASSUME NEW n \in Nat, d <= n, n < e
      PROVE  ItemAt(n)' = ItemAt(n)
  <2>1. CASE Published(n)
    BY <1>2, <2>1 DEF ItemAt, Published
  <2>2. CASE ~ Published(n)
    <3>1. PICK q \in Procs : Pushing(q) /\ pos[q] = n
      BY <1>1, <1>5, <2>2, ItemAtValue
    <3>2. ItemAt(n) = item[q]
      BY <3>1, ItemInHand
    <3>3. Pushing(q)' /\ pos'[q] = n /\ item'[q] = item[q]
      BY <1>2, <1>3, <3>1
    <3>4. ItemAt(n)' = item'[q]
      BY <3>3, ItemInHandNext
    <3> QED BY <3>2, <3>3, <3>4
  <2> QED BY <2>1, <2>2
<1>6. ItemAt(d) = data[Slot(d)]
  BY <1>4 DEF ItemAt
<1>7. PICK n \in Nat : n = e - d - 1
  BY <1>1, <1>4
<1> DEFINE f == Contents
           g == Contents'
           S == {f[k] : k \in 1 .. n + 1} \union {g[k] : k \in 1 .. n}
<1>8. f \in [1 .. n + 1 -> S] /\ g \in [1 .. n -> S]
  <2>1. f = [k \in 1 .. n + 1 |-> ItemAt(d + k - 1)]
    <3>1. enqueuePos - dequeuePos = n + 1
      BY <1>1, <1>7
    <3> QED BY <1>1, <3>1 DEF Contents
  <2>2. g = [k \in 1 .. n |-> ItemAt(d + 1 + k - 1)']
    <3>1. enqueuePos' - dequeuePos' = n
      BY <1>1, <1>2, <1>7
    <3> QED BY <1>2, <3>1 DEF Contents
  <2> QED BY <2>1, <2>2
<1>9. \A k \in 1 .. n : g[k] = f[k + 1]
  <2> SUFFICES ASSUME NEW k \in 1 .. n PROVE g[k] = f[k + 1]
    OBVIOUS
  <2>1. PICK m \in Nat : m = d + k /\ d <= m /\ m < e
    BY <1>1, <1>7
  <2>2. f[k + 1] = ItemAt(m)
    <3>1. k + 1 \in 1 .. enqueuePos - dequeuePos /\ dequeuePos + (k + 1) - 1 = m
      BY <1>1, <1>7, <2>1
    <3> QED BY <3>1 DEF Contents
  <2>3. g[k] = ItemAt(m)'
    <3>1. k \in 1 .. enqueuePos' - dequeuePos' /\ dequeuePos' + k - 1 = m
      BY <1>1, <1>2, <1>7, <2>1
    <3> QED BY <3>1 DEF Contents
  <2> QED BY <1>5, <2>1, <2>2, <2>3
<1>10. f[1] = data[Slot(d)]
  <2>1. 1 \in 1 .. enqueuePos - dequeuePos /\ dequeuePos + 1 - 1 = d
    BY <1>1, <1>7
  <2> QED BY <1>6, <2>1 DEF Contents
<1>11. f # << >> /\ Head(f) = f[1] /\ g = Tail(f)
  <2> HIDE DEF f, g, S
  <2> QED BY <1>8, <1>9, SegmentShrinks
<1>12. Taken' = [Taken EXCEPT ![p] = data[Slot(d)]]
  BY <1>1, <1>2, <1>3 DEF Taken, TypeOK
<1> QED BY <1>2, <1>10, <1>11, <1>12 DEF Fifo!Take

(* The initial ring is the empty queue. *)
LEMMA FifoInit == Init => Fifo!Init
<1> SUFFICES ASSUME Init PROVE Fifo!Init
  OBVIOUS
<1>1. Contents = << >>
  BY DEF Init, Contents
<1>2. Taken = [p \in Procs |-> Default]
  BY DEF Init, Taken
<1> QED BY <1>1, <1>2 DEF Init, Fifo!Init

(* The ring implements the bounded FIFO for any number of threads, items and *)
(* slots: an item is queued by the exchange that claims its position and     *)
(* leaves by the exchange of the pop that takes it, in the same order.       *)
THEOREM Refinement == Spec => ImplementsFifo
<1>1. RingInv /\ RingInv' /\ [Next]_vars => [Fifo!Next]_(Fifo!vars)
  <2> SUFFICES ASSUME RingInv, RingInv', [Next]_vars
               PROVE  Fifo!Next \/ UNCHANGED <<Contents, item, Taken>>
    BY DEF Fifo!vars
  <2>1. ASSUME NEW p \in Procs, NEW v \in Values, PushStart(p, v)
        PROVE  Fifo!Next
    BY <2>1, FifoPushStart DEF Fifo!Next
  <2>2. ASSUME NEW p \in Procs, PopStart(p)
        PROVE  UNCHANGED <<Contents, item, Taken>>
    BY <2>2, FifoPopLocal
  <2>3. ASSUME NEW p \in Procs, Push(p)
        PROVE  Fifo!Next \/ UNCHANGED <<Contents, item, Taken>>
    <3>1. CASE PushClaim(p)
      BY <3>1, FifoPushClaim DEF Fifo!Next
    <3>2. CASE PushLoad(p) \/ PushLost(p) \/ PushFull(p) \/ PushBehind(p)
      BY <3>2, FifoPushLocal
    <3>3. CASE PushWrite(p)
      BY <3>3, FifoPushWrite
    <3>4. CASE PushPublish(p)
      BY <3>4, FifoPushPublish
    <3> QED BY <2>3, <3>1, <3>2, <3>3, <3>4 DEF Push
  <2>4. ASSUME NEW p \in Procs, Pop(p)
        PROVE  Fifo!Next \/ UNCHANGED <<Contents, item, Taken>>
    <3>1. CASE PopClaim(p)
      BY <3>1, FifoPopClaim DEF Fifo!Next
    <3>2. CASE PopEmpty(p)
      BY <3>2, FifoPopEmpty DEF Fifo!Next
    <3>3. CASE PopLoad(p) \/ PopLost(p) \/ PopBehind(p) \/ PopRead(p)
      BY <3>3, FifoPopLocal
    <3>4. CASE PopRelease(p)
      BY <3>4, FifoPopRelease
    <3> QED BY <2>4, <3>1, <3>2, <3>3, <3>4 DEF Pop
  <2>5. ASSUME NEW p \in Procs, SizeStart(p) \/ SizeLoad(p)
        PROVE  UNCHANGED <<Contents, item, Taken>>
    BY <2>5, FifoPopLocal
  <2>6. ASSUME UNCHANGED vars PROVE UNCHANGED <<Contents, item, Taken>>
    BY <2>6 DEF vars, Contents, Taken, ItemAt, Published, Pushing
  <2> QED BY <2>1, <2>2, <2>3, <2>4, <2>5, <2>6 DEF Next
<1> QED BY <1>1, FifoInit, RingInvariant, PTL DEF Spec, ImplementsFifo, Fifo!Spec
=============================================================================
