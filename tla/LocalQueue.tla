----------------------------- MODULE LocalQueue -----------------------------
(***************************************************************************)
(* The queue of one worker of static_thread_pool (thread_state): the       *)
(* worker pushes and pops at the head without a lock; thieves take from    *)
(* the tail under m_remoteMutex.  Worker and thief both move their cursor  *)
(* first and look at the other's afterwards; when they meet over the last  *)
(* item, the worker takes the mutex to see what the thief decided.         *)
(*                                                                         *)
(* The cursors are size_t and wrap; W bits here.  Loads and stores of the  *)
(* cursors are sequentially consistent.                                    *)
(***************************************************************************)
EXTENDS Integers, Sequences, SequencesExt

CONSTANTS Worker, Thieves,
          Ops, NoOp,
          W,            \* bits of a cursor
          InitialSize,  \* local::initial_local_queue_size
          MaxSize,      \* local::max_local_queue_size
          MemoryLimit   \* bound: larger buffers than this cannot be allocated

ASSUME SizeAssumption ==
    /\ W \in Nat \ {0}
    /\ MemoryLimit \in Nat /\ MemoryLimit < 2^(W - 1)
    /\ InitialSize \in 2..MemoryLimit /\ MaxSize \in Nat
    /\ \E k \in 1..W : InitialSize = 2^k
ASSUME ThreadAssumption ==
    /\ Worker \notin Thieves
    /\ NoOp \notin Ops \cup Thieves

\* Laws of exponents, of which the provers know nothing.
ASSUME PowerAssumption ==
    \A k \in 0..W : /\ 2^k \in Nat \ {0} /\ 2^(k + 1) = 2 * 2^k
                   /\ 2^W = 2^k * 2^(W - k)

VARIABLES buf, mask,    \* m_localQueue, m_mask
          head, tail,   \* m_head, m_tail
          lock,         \* who holds m_remoteMutex
          pc,
          operation,    \* the one that the worker enqueues
          seen,         \* the cursor a thread read and uses later
          deque         \* history: what was pushed and not taken, oldest first

vars == <<buf, mask, head, tail, lock, pc, operation, seen, deque>>

Threads == {Worker} \cup Thieves
Nobody == NoOp

Cursor == 0..(2^W - 1)
Add(a, n) == (a + n) % 2^W
\* difference(): the distance as a signed number.
Difference(a, b) == LET d == (a - b) % 2^W IN IF d >= 2^(W - 1) THEN d - 2^W ELSE d

Slot(i) == i % (mask + 1)

Goto(t, label) == pc' = [pc EXCEPT ![t] = label]

Init ==
    /\ buf = [i \in 0..(InitialSize - 1) |-> NoOp]
    /\ mask = InitialSize - 1
    /\ head = 0 /\ tail = 0
    /\ lock = Nobody
    /\ pc = [t \in Threads |-> "idle"]
    /\ operation = NoOp
    /\ seen = [t \in Threads |-> 0]
    /\ deque = <<>>

-----------------------------------------------------------------------------
(* try_local_enqueue                                                       *)

\* Mutant: the slot behind the tail is not kept free.
BeginEnqueueFillsLastSlot(o) ==
    /\ pc[Worker] = "idle" /\ o \notin ToSet(deque)
    /\ operation' = o
    /\ Goto(Worker, IF Difference(head, tail) <= mask THEN "write" ELSE "grow")
    /\ UNCHANGED <<buf, mask, head, tail, lock, seen, deque>>

\* The worker reads the tail and sees whether there is room.
BeginEnqueue(o) ==
    /\ pc[Worker] = "idle" /\ o \notin ToSet(deque)
    /\ operation' = o
    /\ Goto(Worker, IF Difference(head, tail) < mask THEN "write" ELSE "grow")
    /\ UNCHANGED <<buf, mask, head, tail, lock, seen, deque>>

\* Both ways end with the new operation behind the head.
Enqueued ==
    /\ head' = Add(head, 1)
    /\ deque' = Append(deque, operation)
    /\ operation' = NoOp
    /\ Goto(Worker, "idle")

WriteSlot ==
    /\ pc[Worker] = "write"
    /\ buf' = [buf EXCEPT ![Slot(head)] = operation]
    /\ Enqueued
    /\ UNCHANGED <<mask, tail, lock, seen>>

NewSize == (mask + 1) * 2
MayGrow == mask # MaxSize /\ NewSize <= MemoryLimit

\* Copy the items that are left, under the mutex, into a buffer twice as long.
Grow ==
    /\ pc[Worker] = "grow"
    /\ MayGrow
    /\ lock = Nobody
    /\ buf' = [i \in 0..(NewSize - 1) |->
                  IF i = head % NewSize THEN operation
                  ELSE LET kept == {n \in 0..(Difference(head, tail) - 1) :
                                       Add(tail, n) % NewSize = i}
                       IN  IF kept = {} THEN NoOp
                           ELSE buf[Slot(Add(tail, CHOOSE n \in kept : TRUE))]]
    /\ mask' = NewSize - 1
    /\ Enqueued
    /\ UNCHANGED <<tail, lock, seen>>

\* Full, or no memory, or the mutex is taken: the global queue gets it.
EnqueueFails ==
    /\ pc[Worker] = "grow"
    /\ ~MayGrow \/ lock # Nobody
    /\ operation' = NoOp
    /\ Goto(Worker, "idle")
    /\ UNCHANGED <<buf, mask, head, tail, lock, seen, deque>>

-----------------------------------------------------------------------------
(* try_local_pop                                                           *)

\* The cheap test for emptiness; then the head is moved, speculatively.
BeginPop ==
    /\ pc[Worker] = "idle"
    /\ Difference(head, tail) > 0
    /\ Goto(Worker, "claim")
    /\ seen' = [seen EXCEPT ![Worker] = head]
    /\ UNCHANGED <<buf, mask, head, tail, lock, operation, deque>>

ClaimHead ==
    /\ pc[Worker] = "claim"
    /\ head' = Add(seen[Worker], -1)
    /\ Goto(Worker, "look")
    /\ UNCHANGED <<buf, mask, tail, lock, operation, seen, deque>>

LookAtTail ==
    /\ pc[Worker] = "look"
    /\ Goto(Worker, IF Difference(head, tail) < 0 THEN "settle" ELSE "pop")
    /\ UNCHANGED <<buf, mask, head, tail, lock, operation, seen, deque>>

\* There was a race for the last item: with the mutex, the tail is final.
Settle ==
    /\ pc[Worker] = "settle"
    /\ lock = Nobody
    /\ IF Difference(head, tail) < 0
       THEN head' = seen[Worker] /\ Goto(Worker, "idle")
       ELSE Goto(Worker, "pop") /\ UNCHANGED head
    /\ UNCHANGED <<buf, mask, tail, lock, operation, seen, deque>>

Pop ==
    /\ pc[Worker] = "pop"
    /\ deque' = RemoveFirst(deque, buf[Slot(head)])
    /\ Goto(Worker, "idle")
    /\ UNCHANGED <<buf, mask, head, tail, lock, operation, seen>>

-----------------------------------------------------------------------------
(* try_steal.  A try_lock that fails is repeated with lock().              *)

LockForSteal(t) ==
    /\ pc[t] = "idle"
    /\ lock = Nobody
    /\ lock' = t
    /\ Goto(t, "look")
    /\ UNCHANGED <<buf, mask, head, tail, operation, seen, deque>>

NothingToSteal(t) ==
    /\ pc[t] = "look"
    /\ Difference(head, tail) <= 0
    /\ lock' = Nobody
    /\ Goto(t, "idle")
    /\ UNCHANGED <<buf, mask, head, tail, operation, seen, deque>>

SeeItem(t) ==
    /\ pc[t] = "look"
    /\ Difference(head, tail) > 0
    /\ seen' = [seen EXCEPT ![t] = tail]
    /\ Goto(t, "claim")
    /\ UNCHANGED <<buf, mask, head, tail, lock, operation, deque>>

ClaimTail(t) ==
    /\ pc[t] = "claim"
    /\ tail' = Add(seen[t], 1)
    /\ Goto(t, "check")
    /\ UNCHANGED <<buf, mask, head, lock, operation, seen, deque>>

LookAtHead(t) ==
    /\ pc[t] = "check"
    /\ Goto(t, IF Difference(head, seen[t]) > 0 THEN "steal" ELSE "restore")
    /\ UNCHANGED <<buf, mask, head, tail, lock, operation, seen, deque>>

TakeStolen(t) ==
    /\ pc[t] = "steal"
    /\ deque' = RemoveFirst(deque, buf[Slot(seen[t])])
    /\ lock' = Nobody
    /\ Goto(t, "idle")
    /\ UNCHANGED <<buf, mask, head, tail, operation, seen>>

\* Mutant: the mutex is released, the tail not put back.
RestoreForgotten(t) ==
    /\ pc[t] = "restore"
    /\ lock' = Nobody
    /\ Goto(t, "idle")
    /\ UNCHANGED <<buf, mask, head, tail, operation, seen, deque>>

RestoreTail(t) ==
    /\ pc[t] = "restore"
    /\ tail' = seen[t]
    /\ lock' = Nobody
    /\ Goto(t, "idle")
    /\ UNCHANGED <<buf, mask, head, operation, seen, deque>>

-----------------------------------------------------------------------------

Enqueue == (\E o \in Ops : BeginEnqueue(o)) \/ WriteSlot \/ Grow \/ EnqueueFails
LocalPop == BeginPop \/ ClaimHead \/ LookAtTail \/ Settle \/ Pop
StealAttempt(t) ==
    \/ LockForSteal(t) \/ NothingToSteal(t) \/ SeeItem(t) \/ ClaimTail(t)
    \/ LookAtHead(t) \/ TakeStolen(t) \/ RestoreTail(t)

Next ==
    \/ Enqueue \/ LocalPop
    \/ \E t \in Thieves : StealAttempt(t)

Spec == Init /\ [][Next]_vars

-----------------------------------------------------------------------------
(* The queue is a deque: what the worker pops is the youngest item, what a *)
(* thief steals is the oldest, and nobody takes an item that is gone or    *)
(* reads a slot that was overwritten, however their claims interleave and  *)
(* the cursors wrap (static_thread_pool.cpp:106-128, 192-233, 257-283).    *)
TakesFromItsEnd ==
    [][\A t \in Threads :
          (pc[t] \in {"pop", "steal"} /\ pc'[t] = "idle") =>
              /\ deque # <<>>
              /\ deque' = IF t = Worker THEN Front(deque) ELSE Tail(deque)]_vars

(* Between operations the slots from tail to head hold what was pushed and *)
(* not taken, in order: neither a failed steal, a lost race for the last   *)
(* item nor growing loses or repeats an item.                              *)
Resting == lock = Nobody /\ pc[Worker] \in {"idle", "write", "grow"}
SlotsHoldTheDeque ==
    Resting => /\ Difference(head, tail) = Len(deque)
               /\ \A n \in 1..Len(deque) : buf[Slot(Add(tail, n - 1))] = deque[n]
=============================================================================
