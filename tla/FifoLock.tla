------------------------------ MODULE FifoLock ------------------------------
(***************************************************************************)
(* What async_mutex promises its users: one owner at a time, nobody takes  *)
(* a free lock while others wait for it, and waiters become owners in the  *)
(* order in which they queued.                                             *)
(***************************************************************************)
EXTENDS Sequences

CONSTANTS Coros, Nobody

VARIABLES owner, queue

Init == owner = Nobody /\ queue = <<>>

Acquire(c) ==
    /\ owner = Nobody /\ queue = <<>>
    /\ owner' = c
    /\ UNCHANGED queue

Enqueue(c) ==
    /\ owner # Nobody
    /\ queue' = Append(queue, c)
    /\ UNCHANGED owner

Release ==
    /\ owner # Nobody /\ queue = <<>>
    /\ owner' = Nobody
    /\ UNCHANGED queue

HandOver ==
    /\ owner # Nobody /\ queue # <<>>
    /\ owner' = Head(queue)
    /\ queue' = Tail(queue)

Next == Release \/ HandOver \/ \E c \in Coros : Acquire(c) \/ Enqueue(c)

Spec == Init /\ [][Next]_<<owner, queue>>
=============================================================================
