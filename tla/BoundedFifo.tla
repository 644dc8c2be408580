---------------------------- MODULE BoundedFifo ----------------------------
(***************************************************************************)
(* What a client of celib's bounded queues relies on: a FIFO of at most    *)
(* Capacity items.  Items enter and leave one at a time; a take hands the  *)
(* oldest item to exactly one thread, and a take may come back empty with  *)
(* Default.  The ring of MpmcQueue implements this specification.          *)
(***************************************************************************)
EXTENDS Naturals, Sequences

CONSTANTS Procs,     \* threads that use the queue
          Values,    \* items
          Default,   \* what a refused take returns
          Capacity   \* items the queue holds

VARIABLES fifo,      \* the items, oldest first
          want,      \* the item each thread pushes, or pushed last
          got        \* the item each thread took last

vars == <<fifo, want, got>>

Init ==
    /\ fifo = << >>
    /\ want = [p \in Procs |-> Default]
    /\ got = [p \in Procs |-> Default]

Ask(p, v) ==
    /\ want' = [want EXCEPT ![p] = v]
    /\ UNCHANGED <<fifo, got>>

Put(p) ==
    /\ Len(fifo) < Capacity
    /\ fifo' = Append(fifo, want[p])
    /\ UNCHANGED <<want, got>>

Take(p) ==
    /\ fifo # << >>
    /\ fifo' = Tail(fifo)
    /\ got' = [got EXCEPT ![p] = Head(fifo)]
    /\ UNCHANGED want

Refuse(p) ==
    /\ got' = [got EXCEPT ![p] = Default]
    /\ UNCHANGED <<fifo, want>>

Next ==
    \E p \in Procs :
        \/ \E v \in Values : Ask(p, v)
        \/ Put(p)
        \/ Take(p)
        \/ Refuse(p)

Spec == Init /\ [][Next]_vars
=============================================================================
