----------------------------- MODULE MpmcQueue -----------------------------
(***************************************************************************)
(* The bounded multi-producer multi-consumer ring of                       *)
(* celib/private/queue_mpmc.inl (celib/containers/mpmc.h is the same       *)
(* algorithm over items of any size).  Every step is one access to a       *)
(* shared atomic, or the plain access to the item between two of them, so  *)
(* the threads interleave as finely as the code lets them.                 *)
(*                                                                         *)
(* Abstracted: positions are naturals, below the range of atomic_int; the  *)
(* mask is the remainder, equal to it for a capacity that is a power of    *)
(* two (asserted by the code); the accesses are sequentially consistent    *)
(* (a position is read before the ticket it addresses, and the tickets are *)
(* released and acquired, which orders the items).                         *)
(***************************************************************************)
EXTENDS Naturals, Sequences, FiniteSets

CONSTANTS Procs,     \* threads that use the queue
          Values,    \* items
          Default,   \* what a refused pop stores through its pointer
          Capacity,  \* slots of the ring
          MaxPos     \* no push starts once this many positions are claimed

(* With one slot the ring is wrong: a published sequence pos + 1 equals the *)
(* one a pop would leave for the next lap, so a push overwrites the item.   *)
ASSUME CapacityAssumption == Capacity \in Nat /\ Capacity >= 2
ASSUME BoundAssumption == MaxPos \in Nat
ASSUME DefaultAssumption == Default \notin Values

VARIABLES sequences,   \* _sequences: the ticket of each slot
          data,        \* _data: the item of each slot
          enqueuePos,  \* _enqueuePos: the next position to push at
          dequeuePos,  \* _dequeuePos: the next position to pop at
          pc,          \* what each thread does next
          pos,         \* local pos of push and pop, the first position size reads
          seq,         \* local seq
          item,        \* argument value of the last push
          out          \* *value of the last pop

vars == <<sequences, data, enqueuePos, dequeuePos, pc, pos, seq, item, out>>
shared == <<sequences, data, enqueuePos, dequeuePos>>

Slots == 0 .. Capacity - 1
Slot(n) == n % Capacity

PushPcs == {"push_load", "push_cas", "push_write", "push_publish"}
PopPcs == {"pop_load", "pop_cas", "pop_read", "pop_release"}
SizePcs == {"size_load"}

Goto(p, label) == pc' = [pc EXCEPT ![p] = label]

Init ==
    /\ sequences = [i \in Slots |-> i]
    /\ data = [i \in Slots |-> Default]
    /\ enqueuePos = 0
    /\ dequeuePos = 0
    /\ pc = [p \in Procs |-> "idle"]
    /\ pos = [p \in Procs |-> 0]
    /\ seq = [p \in Procs |-> 0]
    /\ item = [p \in Procs |-> Default]
    /\ out = [p \in Procs |-> Default]

(* A return forgets the thread's locals. *)
Return(p) ==
    /\ Goto(p, "idle")
    /\ pos' = [pos EXCEPT ![p] = 0]
    /\ seq' = [seq EXCEPT ![p] = 0]

---------------------------------------------------------------------------
(* queue_task_push *)

PushStart(p, v) ==
    /\ pc[p] = "idle"
    /\ enqueuePos < MaxPos
    /\ item' = [item EXCEPT ![p] = v]
    /\ pos' = [pos EXCEPT ![p] = enqueuePos]
    /\ Goto(p, "push_load")
    /\ UNCHANGED <<shared, seq, out>>

PushLoad(p) ==
    /\ pc[p] = "push_load"
    /\ seq' = [seq EXCEPT ![p] = sequences[Slot(pos[p])]]
    /\ Goto(p, "push_cas")
    /\ UNCHANGED <<shared, pos, item, out>>

(* Mutant of PushClaim: a plain store in place of the exchange. *)
PushClaimStore(p) ==
    /\ pc[p] = "push_cas"
    /\ seq[p] = pos[p]
    /\ enqueuePos' = pos[p] + 1
    /\ Goto(p, "push_write")
    /\ UNCHANGED <<sequences, data, dequeuePos, pos, seq, item, out>>

(* dif = 0 and the exchange finds the position unclaimed. *)
PushClaim(p) ==
    /\ pc[p] = "push_cas"
    /\ seq[p] = pos[p]
    /\ enqueuePos = pos[p]
    /\ enqueuePos' = enqueuePos + 1
    /\ Goto(p, "push_write")
    /\ UNCHANGED <<sequences, data, dequeuePos, pos, seq, item, out>>

(* dif = 0 and the weak exchange fails, possibly spuriously: it reloads pos. *)
PushLost(p) ==
    /\ pc[p] = "push_cas"
    /\ seq[p] = pos[p]
    /\ pos' = [pos EXCEPT ![p] = enqueuePos]
    /\ Goto(p, "push_load")
    /\ UNCHANGED <<shared, seq, item, out>>

(* dif < 0: the slot still holds an item of the previous lap. *)
PushFull(p) ==
    /\ pc[p] = "push_cas"
    /\ seq[p] < pos[p]
    /\ Return(p)
    /\ UNCHANGED <<shared, item, out>>

(* Mutant of PushBehind: the position is not read again. *)
PushBehindKeeps(p) ==
    /\ pc[p] = "push_cas"
    /\ seq[p] > pos[p]
    /\ Goto(p, "push_load")
    /\ UNCHANGED <<shared, pos, seq, item, out>>

(* dif > 0: another thread took the position. *)
PushBehind(p) ==
    /\ pc[p] = "push_cas"
    /\ seq[p] > pos[p]
    /\ pos' = [pos EXCEPT ![p] = enqueuePos]
    /\ Goto(p, "push_load")
    /\ UNCHANGED <<shared, seq, item, out>>

PushWrite(p) ==
    /\ pc[p] = "push_write"
    /\ data' = [data EXCEPT ![Slot(pos[p])] = item[p]]
    /\ Goto(p, "push_publish")
    /\ UNCHANGED <<sequences, enqueuePos, dequeuePos, pos, seq, item, out>>

(* Mutant of PushPublish: the ticket of the claim is stored back. *)
PushPublishSame(p) ==
    /\ pc[p] = "push_publish"
    /\ sequences' = [sequences EXCEPT ![Slot(pos[p])] = pos[p]]
    /\ Return(p)
    /\ UNCHANGED <<data, enqueuePos, dequeuePos, item, out>>

PushPublish(p) ==
    /\ pc[p] = "push_publish"
    /\ sequences' = [sequences EXCEPT ![Slot(pos[p])] = pos[p] + 1]
    /\ Return(p)
    /\ UNCHANGED <<data, enqueuePos, dequeuePos, item, out>>

---------------------------------------------------------------------------
(* queue_task_pop *)

PopStart(p) ==
    /\ pc[p] = "idle"
    /\ pos' = [pos EXCEPT ![p] = dequeuePos]
    /\ Goto(p, "pop_load")
    /\ UNCHANGED <<shared, seq, item, out>>

PopLoad(p) ==
    /\ pc[p] = "pop_load"
    /\ seq' = [seq EXCEPT ![p] = sequences[Slot(pos[p])]]
    /\ Goto(p, "pop_cas")
    /\ UNCHANGED <<shared, pos, item, out>>

PopClaim(p) ==
    /\ pc[p] = "pop_cas"
    /\ seq[p] = pos[p] + 1
    /\ dequeuePos = pos[p]
    /\ dequeuePos' = dequeuePos + 1
    /\ Goto(p, "pop_read")
    /\ UNCHANGED <<sequences, data, enqueuePos, pos, seq, item, out>>

PopLost(p) ==
    /\ pc[p] = "pop_cas"
    /\ seq[p] = pos[p] + 1
    /\ pos' = [pos EXCEPT ![p] = dequeuePos]
    /\ Goto(p, "pop_load")
    /\ UNCHANGED <<shared, seq, item, out>>

(* dif < 0: nothing is published at the position. *)
PopEmpty(p) ==
    /\ pc[p] = "pop_cas"
    /\ seq[p] < pos[p] + 1
    /\ out' = [out EXCEPT ![p] = Default]
    /\ Return(p)
    /\ UNCHANGED <<shared, item>>

PopBehind(p) ==
    /\ pc[p] = "pop_cas"
    /\ seq[p] > pos[p] + 1
    /\ pos' = [pos EXCEPT ![p] = dequeuePos]
    /\ Goto(p, "pop_load")
    /\ UNCHANGED <<shared, seq, item, out>>

PopRead(p) ==
    /\ pc[p] = "pop_read"
    /\ out' = [out EXCEPT ![p] = data[Slot(pos[p])]]
    /\ Goto(p, "pop_release")
    /\ UNCHANGED <<shared, pos, seq, item>>

(* Mutants of PopRelease: the mask is added without its one, and the next  *)
(* position is published in place of the next lap.                         *)
PopReleaseMask(p) ==
    /\ pc[p] = "pop_release"
    /\ sequences' = [sequences EXCEPT ![Slot(pos[p])] = pos[p] + Capacity - 1]
    /\ Return(p)
    /\ UNCHANGED <<data, enqueuePos, dequeuePos, item, out>>

PopReleaseNext(p) ==
    /\ pc[p] = "pop_release"
    /\ sequences' = [sequences EXCEPT ![Slot(pos[p])] = pos[p] + 1]
    /\ Return(p)
    /\ UNCHANGED <<data, enqueuePos, dequeuePos, item, out>>

PopRelease(p) ==
    /\ pc[p] = "pop_release"
    /\ sequences' = [sequences EXCEPT ![Slot(pos[p])] = pos[p] + Capacity]
    /\ Return(p)
    /\ UNCHANGED <<data, enqueuePos, dequeuePos, item, out>>

---------------------------------------------------------------------------
(* queue_task_size: the push position is read first, the pop position by an *)
(* access of its own; the queue moves on between the two.                   *)
SizeStart(p) ==
    /\ pc[p] = "idle"
    /\ pos' = [pos EXCEPT ![p] = enqueuePos]
    /\ Goto(p, "size_load")
    /\ UNCHANGED <<shared, seq, item, out>>

SizeLoad(p) ==
    /\ pc[p] = "size_load"
    /\ Return(p)
    /\ UNCHANGED <<shared, item, out>>

(* Mutant of QueueSize: a wrapped queue has no items. *)
QueueSizeUnwrapped(e, d) == IF Slot(e) > Slot(d) THEN Slot(e) - Slot(d) ELSE 0

(* What it returns: the distance of the masked positions. *)
QueueSize(e, d) ==
    IF Slot(e) > Slot(d) THEN Slot(e) - Slot(d) ELSE Slot(d) - Slot(e)

---------------------------------------------------------------------------
Push(p) ==
    \/ PushLoad(p) \/ PushClaim(p) \/ PushLost(p) \/ PushFull(p)
    \/ PushBehind(p) \/ PushWrite(p) \/ PushPublish(p)

Pop(p) ==
    \/ PopLoad(p) \/ PopClaim(p) \/ PopLost(p) \/ PopEmpty(p)
    \/ PopBehind(p) \/ PopRead(p) \/ PopRelease(p)

Next ==
    \E p \in Procs :
        \/ \E v \in Values : PushStart(p, v)
        \/ PopStart(p)
        \/ SizeStart(p)
        \/ SizeLoad(p)
        \/ Push(p)
        \/ Pop(p)

Spec == Init /\ [][Next]_vars

(* Every thread keeps executing, and a weak exchange does not fail for ever *)
(* by itself: the guarantee of the load-linked loop it is compiled to.      *)
Fairness ==
    \A p \in Procs :
        /\ WF_vars(Push(p))
        /\ WF_vars(Pop(p))
        /\ WF_vars(SizeLoad(p))
        /\ SF_vars(PushClaim(p))
        /\ SF_vars(PopClaim(p))

FairSpec == Spec /\ Fairness

---------------------------------------------------------------------------
(* Type invariant. *)
TypeOK ==
    /\ sequences \in [Slots -> Nat]
    /\ data \in [Slots -> Values \union {Default}]
    /\ enqueuePos \in Nat
    /\ dequeuePos \in Nat
    /\ pc \in [Procs -> {"idle"} \union PushPcs \union PopPcs \union SizePcs]
    /\ pos \in [Procs -> Nat]
    /\ seq \in [Procs -> Nat]
    /\ item \in [Procs -> Values \union {Default}]
    /\ out \in [Procs -> Values \union {Default}]

(* Threads that own the position they claimed. *)
Pushing(p) == pc[p] \in {"push_write", "push_publish"}
Popping(p) == pc[p] \in {"pop_read", "pop_release"}

(* What the ticket of a slot says about a position n of that slot. *)
Free(n)      == sequences[Slot(n)] = n
Published(n) == sequences[Slot(n)] = n + 1

(* The inductive invariant.  Never more than a ring of positions is between *)
(* the two counters; a claimed position is in hand of exactly one thread    *)
(* until its ticket moves on; the ticket of every slot is that of the one   *)
(* position the slot serves now: free and not yet claimed, claimed by a     *)
(* push, published, or claimed by a pop.                                    *)
PositionsBounded ==
    /\ dequeuePos <= enqueuePos
    /\ enqueuePos <= dequeuePos + Capacity

PushOwnership ==
    \A p \in Procs : Pushing(p) =>
        /\ dequeuePos <= pos[p] /\ pos[p] < enqueuePos
        /\ Free(pos[p])
        /\ \A q \in Procs : Pushing(q) /\ pos[q] = pos[p] => q = p

PopOwnership ==
    \A p \in Procs : Popping(p) =>
        /\ enqueuePos <= pos[p] + Capacity /\ pos[p] < dequeuePos
        /\ Published(pos[p])
        /\ \A q \in Procs : Popping(q) /\ pos[q] = pos[p] => q = p

Open(n)    == Free(n) /\ enqueuePos <= n /\ n < dequeuePos + Capacity
Claimed(n) == /\ Free(n) /\ dequeuePos <= n /\ n < enqueuePos
              /\ \E p \in Procs : Pushing(p) /\ pos[p] = n
Ready(n)   == Published(n) /\ dequeuePos <= n /\ n < enqueuePos
Leaving(n) == /\ Published(n) /\ enqueuePos <= n + Capacity /\ n < dequeuePos
              /\ \E p \in Procs : Popping(p) /\ pos[p] = n

SlotStates ==
    \A i \in Slots : \E n \in 0 .. enqueuePos + Capacity :
        Slot(n) = i /\ (Open(n) \/ Claimed(n) \/ Ready(n) \/ Leaving(n))

(* A ticket a thread has read is never ahead of the slot's. *)
TicketsGrow ==
    \A p \in Procs :
        pc[p] \in {"push_cas", "pop_cas"} => seq[p] <= sequences[Slot(pos[p])]

(* A push that is about to publish has its item in the slot. *)
Written ==
    \A p \in Procs : pc[p] = "push_publish" => data[Slot(pos[p])] = item[p]

RingInv ==
    /\ TypeOK
    /\ PositionsBounded
    /\ PushOwnership
    /\ PopOwnership
    /\ SlotStates
    /\ TicketsGrow
    /\ Written

(* A position a thread has read has been reached by its counter; the one    *)
(* that size has read is within a ring of the pop position.                 *)
PositionsSeen ==
    \A p \in Procs :
        /\ pc[p] \in {"push_load", "push_cas"} => pos[p] <= enqueuePos
        /\ pc[p] \in {"pop_load", "pop_cas"} => pos[p] <= dequeuePos
        /\ pc[p] = "size_load" => pos[p] <= enqueuePos /\ pos[p] <= dequeuePos + Capacity

---------------------------------------------------------------------------
(* _try_pop gives up when queue_task_size is 0.  A call that returns 0      *)
(* either finds every item that was in the queue at its first load taken by *)
(* its second, or the ring was full: an item that stays in the queue during *)
(* the call is overlooked only in a full ring, which looks empty.           *)
SizeMissesOnlyFull ==
    [][\A p \in Procs :
         SizeLoad(p) /\ QueueSize(pos[p], dequeuePos) = 0 =>
             \/ pos[p] <= dequeuePos
             \/ pos[p] = dequeuePos + Capacity]_vars

(* With no call in progress the tickets are exact: the next push succeeds   *)
(* if and only if there is room, the next pop if and only if there is an    *)
(* item.                                                                    *)
QuiescentExact ==
    (\A p \in Procs : pc[p] = "idle") =>
        /\ Free(enqueuePos) <=> enqueuePos < dequeuePos + Capacity
        /\ Published(dequeuePos) <=> dequeuePos < enqueuePos

(* The ticket that makes a push report a full queue is read only while the  *)
(* ring holds Capacity items or a pop of the slot is still in progress; the *)
(* one that makes a pop report an empty queue only while there is no item   *)
(* or the push of the oldest one is still in progress.                      *)
RefusedOnlyWhenBusy ==
    [][\A p \in Procs :
         /\ PushLoad(p) /\ sequences[Slot(pos[p])] < pos[p] =>
                \/ enqueuePos = dequeuePos + Capacity
                \/ \E q \in Procs : Popping(q) /\ pos[q] + Capacity = pos[p]
         /\ PopLoad(p) /\ sequences[Slot(pos[p])] < pos[p] + 1 =>
                \/ enqueuePos = dequeuePos
                \/ \E q \in Procs : Pushing(q) /\ pos[q] = pos[p]]_vars

(* Every call of push, pop or size returns, whatever the other threads do,  *)
(* once no more than MaxPos positions are asked for.                        *)
CallsReturn ==
    \A p \in Procs : pc[p] # "idle" ~> pc[p] = "idle"

---------------------------------------------------------------------------
(* The refinement: the items between the two positions, oldest first.  An   *)
(* item is in the queue from the exchange that claims its position.         *)
ItemAt(n) ==
    IF Published(n)
    THEN data[Slot(n)]
    ELSE item[CHOOSE p \in Procs : Pushing(p) /\ pos[p] = n]

Contents == [k \in 1 .. enqueuePos - dequeuePos |-> ItemAt(dequeuePos + k - 1)]

(* A thread has its item from the exchange that claims the position on: the *)
(* slot must still hold it when the thread reads it.                        *)
Taken == [p \in Procs |-> IF pc[p] = "pop_read" THEN data[Slot(pos[p])] ELSE out[p]]

Fifo == INSTANCE BoundedFifo WITH fifo <- Contents, want <- item, got <- Taken

(* The ring behaves as a FIFO of Capacity items: nothing is lost, duplicated *)
(* or reordered, and no thread takes another thread's item.                  *)
ImplementsFifo == Fifo!Spec
=============================================================================
