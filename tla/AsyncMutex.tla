----------------------------- MODULE AsyncMutex -----------------------------
(***************************************************************************)
(* cppcoro's async_mutex.  m_state is not_locked, locked_no_waiters or the *)
(* head of a stack of lock operations that were queued since the holder    *)
(* last looked; m_waiters is the holder's own list, in the order in which  *)
(* the lock will be handed over.  The stack is reversed into m_waiters by  *)
(* unlock() when m_waiters is empty.                                       *)
(*                                                                         *)
(* A coroutine is an actor.  Each atomic operation on m_state is a step of *)
(* its own; m_waiters is touched between them by the holder only.  A       *)
(* resumed coroutine goes on by itself, while in the code it runs inside   *)
(* the unlock() that resumed it: the model has every behaviour of the code.*)
(***************************************************************************)
EXTENDS Integers, Sequences, SequencesExt

CONSTANTS Coros,       \* coroutines, and their lock operations
          NotLocked,   \* async_mutex::not_locked
          NoWaiters    \* async_mutex::locked_no_waiters

ASSUME StateAssumption ==
    NotLocked # NoWaiters /\ NotLocked \notin Coros /\ NoWaiters \notin Coros

VARIABLES locked,      \* m_state is not not_locked
          arriving,    \* the stack m_state points to, newest first
          waiters,     \* m_waiters
          coroPc,      \* where the coroutine is
          oldState     \* what it last read of m_state in await_suspend

mutexVars == <<locked, arriving, waiters, coroPc, oldState>>

Pc == {"idle", "suspending", "suspended", "holding", "unlocking", "taking", "resuming"}

State == IF ~locked THEN NotLocked
         ELSE IF arriving = <<>> THEN NoWaiters
         ELSE Head(arriving)

CoroGoto(c, label) == coroPc' = [coroPc EXCEPT ![c] = label]

MutexInit ==
    /\ locked = FALSE
    /\ arriving = <<>>
    /\ waiters = <<>>
    /\ coroPc = [c \in Coros |-> "idle"]
    /\ oldState = [c \in Coros |-> NotLocked]

-----------------------------------------------------------------------------
(* Acquiring.                                                              *)

\* A failed try_lock changes nothing.
TryLock(c) ==
    /\ coroPc[c] = "idle"
    /\ ~locked
    /\ locked' = TRUE
    /\ CoroGoto(c, "holding")
    /\ UNCHANGED <<arriving, waiters, oldState>>

\* co_await lock_async(): the coroutine is suspended, await_suspend loads m_state.
LockAsync(c) ==
    /\ coroPc[c] = "idle"
    /\ oldState' = [oldState EXCEPT ![c] = State]
    /\ CoroGoto(c, "suspending")
    /\ UNCHANGED <<locked, arriving, waiters>>

\* The compare_exchange saw another state than the one loaded: look again.
Reload(c) ==
    /\ coroPc[c] = "suspending"
    /\ oldState[c] # State
    /\ oldState' = [oldState EXCEPT ![c] = State]
    /\ UNCHANGED <<locked, arriving, waiters, coroPc>>

\* Mutant: the lock is stored where it must be compared and exchanged.
AcquireByStore(c) ==
    /\ coroPc[c] = "suspending"
    /\ oldState[c] = NotLocked
    /\ locked' = TRUE
    /\ CoroGoto(c, "holding")
    /\ UNCHANGED <<arriving, waiters, oldState>>

AcquireInSuspend(c) ==
    /\ coroPc[c] = "suspending"
    /\ oldState[c] = State
    /\ oldState[c] = NotLocked
    /\ locked' = TRUE
    /\ CoroGoto(c, "holding")
    /\ UNCHANGED <<arriving, waiters, oldState>>

Push(c) ==
    /\ coroPc[c] = "suspending"
    /\ oldState[c] = State
    /\ oldState[c] # NotLocked
    /\ arriving' = <<c>> \o arriving
    /\ CoroGoto(c, "suspended")
    /\ UNCHANGED <<locked, waiters, oldState>>

-----------------------------------------------------------------------------
(* Releasing.                                                              *)

Unlock(c) ==
    /\ coroPc[c] = "holding"
    /\ CoroGoto(c, IF waiters = <<>> THEN "unlocking" ELSE "resuming")
    /\ UNCHANGED <<locked, arriving, waiters, oldState>>

\* Mutant: not_locked is stored, whoever queued in the meantime.
ReleaseByStore(c) ==
    /\ coroPc[c] = "unlocking"
    /\ locked' = FALSE
    /\ arriving' = <<>>
    /\ CoroGoto(c, "idle")
    /\ UNCHANGED <<waiters, oldState>>

\* The compare_exchange from locked_no_waiters to not_locked.
Release(c) ==
    /\ coroPc[c] = "unlocking"
    /\ IF State = NoWaiters
       THEN locked' = FALSE /\ CoroGoto(c, "idle")
       ELSE CoroGoto(c, "taking") /\ UNCHANGED locked
    /\ UNCHANGED <<arriving, waiters, oldState>>

\* Mutant: the stack is used as it is, newest first.
TakeUnreversed(c) ==
    /\ coroPc[c] = "taking"
    /\ waiters' = arriving
    /\ arriving' = <<>>
    /\ CoroGoto(c, "resuming")
    /\ UNCHANGED <<locked, oldState>>

\* The exchange that takes the whole stack, and its reversal.
TakeArrived(c) ==
    /\ coroPc[c] = "taking"
    /\ waiters' = Reverse(arriving)
    /\ arriving' = <<>>
    /\ CoroGoto(c, "resuming")
    /\ UNCHANGED <<locked, oldState>>

\* Mutant: the rest of the list is dropped.
HandOverDropsRest(c) ==
    /\ coroPc[c] = "resuming"
    /\ waiters # <<>>
    /\ waiters' = <<>>
    /\ coroPc' = [coroPc EXCEPT ![c] = "idle", ![Head(waiters)] = "holding"]
    /\ UNCHANGED <<locked, arriving, oldState>>

HandOver(c) ==
    /\ coroPc[c] = "resuming"
    /\ waiters # <<>>
    /\ waiters' = Tail(waiters)
    /\ coroPc' = [coroPc EXCEPT ![c] = "idle", ![Head(waiters)] = "holding"]
    /\ UNCHANGED <<locked, arriving, oldState>>

AwaitSuspendStep(c) == Reload(c) \/ AcquireInSuspend(c) \/ Push(c)

UnlockStep(c) == Unlock(c) \/ Release(c) \/ TakeArrived(c) \/ HandOver(c)

MutexNext == \E c \in Coros :
    TryLock(c) \/ LockAsync(c) \/ AwaitSuspendStep(c) \/ UnlockStep(c)

MutexSpec == MutexInit /\ [][MutexNext]_mutexVars

\* A holder unlocks, and an unlock() runs to its end.
MutexFairness == \A c \in Coros : WF_mutexVars(UnlockStep(c))

FairMutexSpec == MutexSpec /\ MutexFairness

-----------------------------------------------------------------------------
MutexTypeOK ==
    /\ locked \in BOOLEAN
    /\ arriving \in Seq(Coros)
    /\ waiters \in Seq(Coros)
    /\ coroPc \in [Coros -> Pc]
    /\ oldState \in [Coros -> Coros \cup {NotLocked, NoWaiters}]

\* A coroutine owns the lock until it released it or handed it over.
Owning(c) == coroPc[c] \in {"holding", "unlocking", "taking", "resuming"}

(* At most one coroutine owns the lock, and m_state says not_locked        *)
(* exactly while nobody does (async_mutex.cpp:43-86).                      *)
MutualExclusion ==
    /\ \A c, d \in Coros : Owning(c) /\ Owning(d) => c = d
    /\ locked <=> \E c \in Coros : Owning(c)

\* The order in which the queued operations will get the lock.
Queue == waiters \o Reverse(arriving)

(* A suspended coroutine is in the queue once, and only suspended ones are:*)
(* no waiter is lost when the stack is taken while others push on it       *)
(* (async_mutex.cpp:63-76, 110-118).                                       *)
SuspendedAreQueued ==
    /\ \A c \in Coros : coroPc[c] = "suspended" <=> \E i \in 1..Len(Queue) : Queue[i] = c
    /\ \A i, j \in 1..Len(Queue) : Queue[i] = Queue[j] => i = j

(* The two assertions of unlock(): after the failed release there is a     *)
(* stack to take, and somebody to resume (async_mutex.cpp:65, 79).         *)
UnlockAssertions == \A c \in Coros :
    /\ coroPc[c] = "taking" => arriving # <<>>
    /\ coroPc[c] = "resuming" => waiters # <<>>

(* The mutex is a first-come first-served lock: nobody overtakes a queued  *)
(* coroutine, neither through try_lock nor by arriving while the holder    *)
(* works through its own list.                                             *)
Nobody == NotLocked
Owner == IF \E c \in Coros : Owning(c) THEN CHOOSE c \in Coros : Owning(c) ELSE Nobody
Fifo == INSTANCE FifoLock WITH owner <- Owner, queue <- Queue
FirstComeFirstServed == Fifo!Spec

(* Every coroutine that suspended gets the lock in the end.                *)
SuspendedGetsTheLock ==
    \A c \in Coros : coroPc[c] = "suspended" ~> coroPc[c] = "holding"
=============================================================================
