------------------------ MODULE MutexAndRing_proofs ------------------------
(***************************************************************************)
(* Coroutines that wait for each other.  The async_mutex, for every set of *)
(* coroutines: mutual exclusion, its assertions, and that it implements a  *)
(* first-come first-served lock.  The ring buffer, for any number of       *)
(* producers and one consumer, any ring and any width of the numbers: who  *)
(* goes on has what it waited for, what is unread stays as it was written, *)
(* and no publication is missed.                                           *)
(***************************************************************************)
EXTENDS AsyncMutex, RingBuffer, ListLemmas, WellFoundedInduction

-----------------------------------------------------------------------------
(* The mutex.                                                              *)

-----------------------------------------------------------------------------
(* The inductive invariant.  MutualExclusion is inductive only with what   *)
(* the lists look like at each place of unlock(): m_waiters is empty while *)
(* the holder looks at m_state, and both lists are empty when the mutex is *)
(* free.                                                                   *)
ListsFit ==
    /\ ~locked => arriving = <<>> /\ waiters = <<>>
    /\ \A c \in Coros : coroPc[c] \in {"unlocking", "taking"} => waiters = <<>>

IInv == MutexTypeOK /\ MutualExclusion /\ UnlockAssertions /\ ListsFit

LEMMA InitIInv == MutexInit => IInv
<1> SUFFICES ASSUME MutexInit PROVE IInv
  OBVIOUS
<1>1. MutexTypeOK
  <2>1. locked \in BOOLEAN
    BY Zenon DEF MutexInit
  <2>2. arriving \in Seq(Coros) /\ waiters \in Seq(Coros)
    BY DEF MutexInit
  <2>3. coroPc \in [Coros -> Pc] /\ oldState \in [Coros -> Coros \cup {NotLocked, NoWaiters}]
    BY DEF MutexInit, Pc
  <2> QED
    BY <2>1, <2>2, <2>3 DEF MutexTypeOK
<1>2. \A c \in Coros : ~Owning(c)
  BY DEF MutexInit, Owning
<1>3. MutualExclusion
  BY <1>2 DEF MutexInit, MutualExclusion
<1>4. UnlockAssertions /\ ListsFit
  BY DEF MutexInit, UnlockAssertions, ListsFit
<1> QED
  BY <1>1, <1>3, <1>4 DEF IInv

LEMMA StateValue ==
  ASSUME MutexTypeOK
  PROVE  /\ State \in Coros \cup {NotLocked, NoWaiters}
         /\ State = NotLocked <=> ~locked
         /\ State = NoWaiters <=> locked /\ arriving = <<>>
<1>1. arriving # <<>> => Head(arriving) \in Coros
  BY DEF MutexTypeOK
<1>2. CASE ~locked
  BY <1>2, StateAssumption DEF State
<1>3. CASE locked /\ arriving = <<>>
  BY <1>3, StateAssumption DEF State
<1>4. CASE locked /\ arriving # <<>>
  BY <1>1, <1>4, StateAssumption DEF State
<1> QED
  BY <1>2, <1>3, <1>4

LEMMA NextIInv == IInv /\ [MutexNext]_mutexVars => IInv'
<1> SUFFICES ASSUME IInv, [MutexNext]_mutexVars PROVE IInv'
  OBVIOUS
<1> USE DEF IInv, MutexTypeOK, Pc, MutualExclusion, Owning, UnlockAssertions, ListsFit, CoroGoto
<1>0. /\ State \in Coros \cup {NotLocked, NoWaiters}
      /\ State = NotLocked <=> ~locked
      /\ State = NoWaiters <=> locked /\ arriving = <<>>
  BY StateValue
<1>1. ASSUME NEW c \in Coros, TryLock(c) PROVE IInv'
  BY <1>1 DEF TryLock
<1>2. ASSUME NEW c \in Coros, LockAsync(c) \/ Reload(c) PROVE IInv'
  BY <1>0, <1>2 DEF LockAsync, Reload
<1>3. ASSUME NEW c \in Coros, AcquireInSuspend(c) PROVE IInv'
  BY <1>0, <1>3 DEF AcquireInSuspend
<1>4. ASSUME NEW c \in Coros, Push(c) PROVE IInv'
  <2>1. arriving' \in Seq(Coros) /\ arriving' # <<>>
    BY <1>4, PushedStack DEF Push
  <2>2. locked
    BY <1>0, <1>4 DEF Push
  <2> QED
    BY <1>4, <2>1, <2>2 DEF Push
<1>5. ASSUME NEW c \in Coros, Unlock(c) PROVE IInv'
  BY <1>5 DEF Unlock
<1>6. ASSUME NEW c \in Coros, Release(c) PROVE IInv'
  <2>1. CASE State = NoWaiters
    BY <1>0, <1>6, <2>1 DEF Release
  <2>2. CASE State # NoWaiters
    <3>1. locked /\ arriving # <<>>
      BY <1>0, <1>6, <2>2 DEF Release
    <3> QED
      BY <1>6, <2>2, <3>1 DEF Release
  <2> QED
    BY <2>1, <2>2
<1>7. ASSUME NEW c \in Coros, TakeArrived(c) PROVE IInv'
  <2>1. arriving # <<>> /\ Len(arriving) \in Nat \ {0}
    BY <1>7 DEF TakeArrived
  <2>2. waiters' \in Seq(Coros) /\ waiters' # <<>>
    BY <1>7, <2>1, ReverseType DEF TakeArrived
  <2> QED
    BY <1>7, <2>2 DEF TakeArrived
<1>8. ASSUME NEW c \in Coros, HandOver(c) PROVE IInv'
  <2>1. Head(waiters) \in Coros /\ Tail(waiters) \in Seq(Coros)
    BY <1>8 DEF HandOver
  <2> QED
    BY <1>8, <2>1 DEF HandOver
<1>9. CASE UNCHANGED mutexVars
  BY <1>9 DEF mutexVars
<1> QED
  BY <1>1, <1>2, <1>3, <1>4, <1>5, <1>6, <1>7, <1>8, <1>9
  DEF MutexNext, AwaitSuspendStep, UnlockStep

LEMMA Invariance == MutexSpec => []IInv
BY InitIInv, NextIInv, PTL DEF MutexSpec

(* The variables keep their types.                                         *)
THEOREM TypeCorrect == MutexSpec => []MutexTypeOK
<1>1. IInv => MutexTypeOK
  BY DEF IInv
<1> QED
  BY <1>1, Invariance, PTL

(* Two coroutines never own the mutex together, and m_state says           *)
(* not_locked exactly while nobody does.                                   *)
THEOREM Mutex == MutexSpec => []MutualExclusion
<1>1. IInv => MutualExclusion
  BY DEF IInv
<1> QED
  BY <1>1, Invariance, PTL

(* The assertions inside unlock() hold.                                    *)
THEOREM Assertions == MutexSpec => []UnlockAssertions
<1>1. IInv => UnlockAssertions
  BY DEF IInv
<1> QED
  BY <1>1, Invariance, PTL

-----------------------------------------------------------------------------
(* The refinement: who owns the lock, and how a step changes the queue.    *)

LEMMA OwnerIs ==
  ASSUME MutualExclusion, NEW c \in Coros, Owning(c)
  PROVE  Owner = c
BY DEF MutualExclusion, Owner

LEMMA NoOwner ==
  ASSUME \A c \in Coros : ~Owning(c)
  PROVE  Owner = Nobody
BY DEF Owner

LEMMA QueueType ==
  ASSUME MutexTypeOK
  PROVE  Queue \in Seq(Coros)
BY ReverseType DEF MutexTypeOK, Queue

\* Nothing of the abstract lock changes.
LEMMA Stutter ==
  ASSUME IInv, IInv', UNCHANGED <<waiters, arriving>>,
         \A c \in Coros : Owning(c)' = Owning(c)
  PROVE  UNCHANGED <<Owner, Queue>>
<1>1. Queue' = Queue
  BY DEF Queue
<1>2. Owner' = Owner
  <2>1. CASE \E c \in Coros : Owning(c)
    <3>1. PICK c \in Coros : Owning(c)
      BY <2>1
    <3>2. Owner = c
      BY <3>1, OwnerIs DEF IInv
    <3>3. Owning(c)'
      BY <3>1
    <3>4. Owner' = c
      BY <3>3 DEF IInv, MutualExclusion, Owner
    <3> QED
      BY <3>2, <3>4
  <2>2. CASE \A c \in Coros : ~Owning(c)
    <3>1. \A c \in Coros : ~Owning(c)'
      BY <2>2
    <3> QED
      BY <2>2, <3>1 DEF Owner, Nobody
  <2> QED
    BY <2>1, <2>2
<1> QED
  BY <1>1, <1>2

\* After a step that makes c the owner, Owner is c.
LEMMA NewOwner ==
  ASSUME IInv', NEW c \in Coros, Owning(c)'
  PROVE  Owner' = c
BY DEF IInv, MutualExclusion, Owner

LEMMA InitRefines == MutexInit => Fifo!Init
<1> SUFFICES ASSUME MutexInit PROVE Fifo!Init
  OBVIOUS
<1>1. \A c \in Coros : ~Owning(c)
  BY DEF MutexInit, Owning
<1>2. Owner = Nobody
  BY <1>1, NoOwner
<1>3. Queue = <<>>
  BY ReverseEmpty DEF MutexInit, Queue
<1> QED
  BY <1>2, <1>3 DEF Fifo!Init

\* A free mutex has an empty queue and no owner.
LEMMA FreeMutex ==
  ASSUME IInv, ~locked
  PROVE  Owner = Nobody /\ Queue = <<>>
<1>1. \A c \in Coros : ~Owning(c)
  BY DEF IInv, MutualExclusion
<1>2. Queue = <<>>
  BY ReverseEmpty DEF IInv, ListsFit, Queue
<1> QED
  BY <1>1, <1>2, NoOwner

\* How each step changes the queue.
LEMMA PushQueue ==
  ASSUME IInv, NEW c \in Coros, Push(c)
  PROVE  Queue' = Append(Queue, c)
<1>1. Reverse(<<c>> \o arriving) = Append(Reverse(arriving), c)
  BY PushedStack DEF IInv, MutexTypeOK
<1>2. Reverse(arriving) \in Seq(Coros) /\ waiters \in Seq(Coros)
  BY ReverseType DEF IInv, MutexTypeOK
<1>3. waiters \o Append(Reverse(arriving), c) = Append(waiters \o Reverse(arriving), c)
  BY <1>2
<1> QED
  BY <1>1, <1>3 DEF Push, Queue

LEMMA TakeQueue ==
  ASSUME IInv, NEW c \in Coros, TakeArrived(c)
  PROVE  Queue' = Queue
<1>1. waiters = <<>> /\ waiters' = Reverse(arriving) /\ arriving' = <<>>
  BY DEF TakeArrived, IInv, ListsFit
<1>2. Reverse(arriving) \in Seq(Coros)
  BY ReverseType DEF IInv, MutexTypeOK
<1> QED
  BY <1>1, <1>2, ReverseEmpty DEF Queue

LEMMA HandOverQueue ==
  ASSUME IInv, NEW c \in Coros, HandOver(c)
  PROVE  /\ Queue # <<>> /\ Queue' = Tail(Queue)
         /\ Head(Queue) = Head(waiters) /\ Head(waiters) \in Coros
<1>1. waiters \in Seq(Coros) /\ waiters # <<>> /\ Reverse(arriving) \in Seq(Coros)
  BY ReverseType DEF HandOver, IInv, MutexTypeOK
<1>2. /\ Queue # <<>>
      /\ Head(Queue) = Head(waiters)
      /\ Tail(Queue) = Tail(waiters) \o Reverse(arriving)
  BY <1>1, HeadOfConcat DEF Queue
<1> QED
  BY <1>1, <1>2 DEF HandOver, Queue

LEMMA NextRefines ==
  ASSUME IInv, IInv', [MutexNext]_mutexVars
  PROVE  [Fifo!Next]_<<Owner, Queue>>
<1> USE DEF CoroGoto
<1>0. /\ State \in Coros \cup {NotLocked, NoWaiters}
      /\ State = NotLocked <=> ~locked
      /\ State = NoWaiters <=> locked /\ arriving = <<>>
  BY StateValue DEF IInv
<1>1. ASSUME NEW c \in Coros, TryLock(c) \/ AcquireInSuspend(c)
      PROVE Fifo!Next
  <2>1. ~locked /\ UNCHANGED <<arriving, waiters>>
    BY <1>0, <1>1 DEF TryLock, AcquireInSuspend
  <2>2. Owning(c)'
    BY <1>1 DEF TryLock, AcquireInSuspend, Owning, IInv, MutexTypeOK
  <2>3. Owner = Nobody /\ Queue = <<>> /\ Owner' = c /\ Queue' = Queue
    BY <2>1, <2>2, FreeMutex, NewOwner DEF Queue
  <2> QED
    BY <2>3 DEF Fifo!Next, Fifo!Acquire
<1>2. ASSUME NEW c \in Coros, LockAsync(c) \/ Reload(c) \/ Unlock(c)
      PROVE UNCHANGED <<Owner, Queue>>
  <2>1. UNCHANGED <<waiters, arriving>>
    BY <1>2 DEF LockAsync, Reload, Unlock
  <2>2. \A d \in Coros : Owning(d)' = Owning(d)
    BY <1>2 DEF LockAsync, Reload, Unlock, Owning, IInv, MutexTypeOK
  <2> QED
    BY <2>1, <2>2, Stutter
<1>3. ASSUME NEW c \in Coros, Push(c) PROVE Fifo!Next
  <2>1. Queue' = Append(Queue, c)
    BY <1>3, PushQueue
  <2>2. PICK d \in Coros : Owning(d)
    BY <1>0, <1>3 DEF Push, IInv, MutualExclusion
  <2>3. Owning(d)'
    BY <1>3, <2>2 DEF Push, Owning, IInv, MutexTypeOK
  <2>4. Owner = d /\ Owner' = d
    BY <2>2, <2>3, OwnerIs, NewOwner DEF IInv
  <2>5. d # Nobody
    BY StateAssumption DEF Nobody
  <2> QED
    BY <2>1, <2>4, <2>5 DEF Fifo!Next, Fifo!Enqueue
<1>4. ASSUME NEW c \in Coros, Release(c) PROVE [Fifo!Next]_<<Owner, Queue>>
  <2>1. CASE State = NoWaiters
    <3>1. locked' = FALSE /\ Owning(c)
      BY <1>4, <2>1 DEF Release, Owning
    <3>2. Owner = c /\ c # Nobody
      BY <3>1, OwnerIs, StateAssumption DEF IInv, Nobody
    <3>3. \A d \in Coros : ~Owning(d)'
      BY <3>1 DEF IInv, MutualExclusion
    <3>4. Owner' = Nobody
      BY <3>3 DEF Owner, Nobody
    <3>5. waiters = <<>> /\ arriving = <<>> /\ UNCHANGED <<waiters, arriving>>
      BY <1>0, <1>4, <2>1 DEF Release, IInv, ListsFit
    <3>6. Queue = <<>> /\ Queue' = Queue
      BY <3>5, ReverseEmpty DEF Queue
    <3> QED
      BY <3>2, <3>4, <3>6 DEF Fifo!Next, Fifo!Release
  <2>2. CASE State # NoWaiters
    <3>1. UNCHANGED <<waiters, arriving>>
      BY <1>4 DEF Release
    <3>2. \A d \in Coros : Owning(d)' = Owning(d)
      BY <1>4, <2>2 DEF Release, Owning, IInv, MutexTypeOK
    <3> QED
      BY <3>1, <3>2, Stutter
  <2> QED
    BY <2>1, <2>2
<1>5. ASSUME NEW c \in Coros, TakeArrived(c) PROVE UNCHANGED <<Owner, Queue>>
  <2>1. Owning(c) /\ Owning(c)'
    BY <1>5 DEF TakeArrived, Owning, IInv, MutexTypeOK
  <2> QED
    BY <1>5, <2>1, TakeQueue, OwnerIs, NewOwner DEF IInv
<1>6. ASSUME NEW c \in Coros, HandOver(c) PROVE Fifo!Next
  <2>1. /\ Queue # <<>> /\ Queue' = Tail(Queue)
        /\ Head(Queue) = Head(waiters) /\ Head(waiters) \in Coros
    BY <1>6, HandOverQueue
  <2>2. Owner' = Head(Queue)
    <3>1. PICK d \in Coros : d = Head(waiters)
      BY <2>1
    <3>2. Owning(d)'
      BY <1>6, <3>1 DEF HandOver, Owning, IInv, MutexTypeOK
    <3>3. Owner' = d
      BY <3>2, NewOwner
    <3> QED
      BY <2>1, <3>1, <3>3
  <2>3. Owner = c /\ c # Nobody
    BY <1>6, OwnerIs, StateAssumption DEF HandOver, Owning, IInv, Nobody
  <2> QED
    BY <2>1, <2>2, <2>3 DEF Fifo!Next, Fifo!HandOver
<1>7. CASE UNCHANGED mutexVars
  <2>1. UNCHANGED <<waiters, arriving>> /\ \A d \in Coros : Owning(d)' = Owning(d)
    BY <1>7 DEF mutexVars, Owning
  <2> QED
    BY <2>1, Stutter
<1> QED
  BY <1>1, <1>2, <1>3, <1>4, <1>5, <1>6, <1>7
  DEF MutexNext, AwaitSuspendStep, UnlockStep

(* async_mutex is a first-come first-served lock: every run of it is a run *)
(* of FifoLock.                                                            *)
THEOREM Refinement == MutexSpec => FirstComeFirstServed
<1>1. IInv /\ IInv' /\ [MutexNext]_mutexVars => [Fifo!Next]_<<Owner, Queue>>
  BY NextRefines
<1> QED
  BY <1>1, InitRefines, Invariance, PTL DEF MutexSpec, FirstComeFirstServed, Fifo!Spec

-----------------------------------------------------------------------------
(* The queue holds the suspended coroutines, each once.                    *)

LEMMA NextQueued ==
  ASSUME IInv, SuspendedAreQueued, [MutexNext]_mutexVars
  PROVE  SuspendedAreQueued'
<1> USE DEF CoroGoto
<1> DEFINE InQueue(x) == \E i \in 1..Len(Queue) : Queue[i] = x
<1>0. Queue \in Seq(Coros)
  BY QueueType DEF IInv
<1>1. ASSUME Queue' = Queue,
             \A c \in Coros : coroPc'[c] = "suspended" <=> coroPc[c] = "suspended"
      PROVE  SuspendedAreQueued'
  BY <1>1 DEF SuspendedAreQueued
<1>2. ASSUME NEW c \in Coros, Push(c) PROVE SuspendedAreQueued'
  <2>1. Queue' = Append(Queue, c)
    BY <1>2, PushQueue
  <2>2. \A i \in 1..Len(Queue) : Queue[i] # c
    BY <1>2 DEF SuspendedAreQueued, Push
  <2>3. \A x \in Coros : coroPc'[x] = "suspended" <=> x = c \/ coroPc[x] = "suspended"
    BY <1>2 DEF Push, IInv, MutexTypeOK
  <2>4. /\ \A i, j \in 1..Len(Queue') : Queue'[i] = Queue'[j] => i = j
        /\ \A x \in Coros : (\E i \in 1..Len(Queue') : Queue'[i] = x)
                            <=> x = c \/ \E i \in 1..Len(Queue) : Queue[i] = x
    <3>1. \A i, j \in 1..Len(Queue) : Queue[i] = Queue[j] => i = j
      BY <1>2 DEF SuspendedAreQueued
    <3>2. /\ \A i, j \in 1..Len(Append(Queue, c)) :
                Append(Queue, c)[i] = Append(Queue, c)[j] => i = j
          /\ \A x \in Coros : (\E i \in 1..Len(Append(Queue, c)) : Append(Queue, c)[i] = x)
                              <=> x = c \/ \E i \in 1..Len(Queue) : Queue[i] = x
      BY <1>0, <2>2, <3>1, AppendKeepsOnce
    <3> QED
      BY <2>1, <3>2
  <2> QED
    BY <2>3, <2>4 DEF SuspendedAreQueued
<1>3. ASSUME NEW c \in Coros, HandOver(c) PROVE SuspendedAreQueued'
  <2>1. /\ Queue # <<>> /\ Queue' = Tail(Queue)
        /\ Head(Queue) = Head(waiters) /\ Head(waiters) \in Coros
    BY <1>3, HandOverQueue
  <2>2. coroPc[c] # "suspended"
    BY <1>3 DEF HandOver
  <2>3. \A x \in Coros : coroPc'[x] = "suspended" <=> x # Head(Queue) /\ coroPc[x] = "suspended"
    BY <1>3, <2>1, <2>2 DEF HandOver, IInv, MutexTypeOK
  <2>4. \A i, j \in 1..Len(Queue) : Queue[i] = Queue[j] => i = j
    BY <1>0 DEF SuspendedAreQueued
  <2>5. /\ \A i, j \in 1..Len(Tail(Queue)) : Tail(Queue)[i] = Tail(Queue)[j] => i = j
        /\ \A x \in Coros : (\E i \in 1..Len(Tail(Queue)) : Tail(Queue)[i] = x)
                            <=> x # Head(Queue) /\ \E i \in 1..Len(Queue) : Queue[i] = x
    <3>1. Queue \in Seq(Coros) /\ Queue # <<>>
      BY <1>0, <2>1
    <3> HIDE DEF Queue
    <3> QED
      BY ONLY <2>4, <3>1, TailKeepsOnce
  <2>6. \A x \in Coros : coroPc[x] = "suspended" <=> \E i \in 1..Len(Queue) : Queue[i] = x
    BY <1>0 DEF SuspendedAreQueued
  <2>7. \A i, j \in 1..Len(Queue') : Queue'[i] = Queue'[j] => i = j
    BY ONLY <2>1, <2>5
  <2>8. \A x \in Coros : (\E i \in 1..Len(Queue') : Queue'[i] = x)
                         <=> x # Head(Queue) /\ coroPc[x] = "suspended"
    BY ONLY <2>1, <2>5, <2>6
  <2> QED
    BY <2>3, <2>7, <2>8 DEF SuspendedAreQueued
<1>4. ASSUME NEW c \in Coros, TakeArrived(c) PROVE SuspendedAreQueued'
  <2>1. \A x \in Coros : coroPc'[x] = "suspended" <=> coroPc[x] = "suspended"
    BY <1>4 DEF TakeArrived, IInv, MutexTypeOK
  <2> QED
    BY <1>1, <1>4, <2>1, TakeQueue
<1>5. ASSUME NEW c \in Coros,
             TryLock(c) \/ LockAsync(c) \/ Reload(c) \/ AcquireInSuspend(c)
             \/ Unlock(c) \/ Release(c)
      PROVE SuspendedAreQueued'
  <2>1. UNCHANGED <<waiters, arriving>>
    BY <1>5 DEF TryLock, LockAsync, Reload, AcquireInSuspend, Unlock, Release
  <2>2. \A x \in Coros : coroPc'[x] = "suspended" <=> coroPc[x] = "suspended"
    BY <1>5 DEF TryLock, LockAsync, Reload, AcquireInSuspend, Unlock, Release, IInv, MutexTypeOK
  <2> QED
    BY <1>1, <2>1, <2>2 DEF Queue
<1>6. CASE UNCHANGED mutexVars
  BY <1>1, <1>6 DEF mutexVars, Queue
<1> QED
  BY <1>2, <1>3, <1>4, <1>5, <1>6 DEF MutexNext, AwaitSuspendStep, UnlockStep

(* No waiter is lost or queued twice, however pushes interleave with the   *)
(* exchange that takes the stack.                                          *)
THEOREM NoLostWaiter == MutexSpec => []SuspendedAreQueued
<1>1. MutexInit => SuspendedAreQueued
  <2> SUFFICES ASSUME MutexInit PROVE SuspendedAreQueued
    OBVIOUS
  <2>1. Queue = <<>>
    BY ReverseEmpty DEF MutexInit, Queue
  <2>2. \A c \in Coros : coroPc[c] # "suspended"
    BY DEF MutexInit
  <2> QED
    BY <2>1, <2>2 DEF SuspendedAreQueued
<1>2. IInv /\ SuspendedAreQueued /\ [MutexNext]_mutexVars => SuspendedAreQueued'
  BY NextQueued
<1> QED
  BY <1>1, <1>2, Invariance, PTL DEF MutexSpec

-----------------------------------------------------------------------------
(* Numbers that wrap.                                                      *)

LEMMA Remainder ==
  ASSUME NEW n \in Nat \ {0}, NEW a \in Int
  PROVE  a % n \in 0..(n - 1) /\ \E q \in Int : a = (n * q) + (a % n)
<1>1. a % n \in 0..(n - 1) /\ a = (n * (a \div n)) + (a % n) /\ a \div n \in Int
  OBVIOUS
<1> QED
  BY <1>1

LEMMA RemainderIs ==
  ASSUME NEW n \in Nat \ {0}, NEW q \in Int, NEW r \in 0..(n-1), NEW a \in Int, a = (n * q) + r
  PROVE  a % n = r
OBVIOUS

LEMMA NoMultiple ==
  ASSUME NEW n \in Nat \ {0}, NEW k \in Int, NEW d \in Int, d = n * k, d < n, -n < d
  PROVE  d = 0
OBVIOUS

LEMMA EqualRemainders ==
  ASSUME NEW n \in Nat \ {0}, NEW a \in Int, NEW b \in Int, a % n = b % n, a - b < n, b - a < n
  PROVE  a = b
<1>1. PICK p \in Int : a = (n * p) + (a % n)
  BY Remainder
<1>2. PICK q \in Int : b = (n * q) + (b % n)
  BY Remainder
<1>3. a - b = n * (p - q)
  BY <1>1, <1>2
<1>4. -n < a - b
  OBVIOUS
<1> QED
  BY <1>3, <1>4, NoMultiple

LEMMA RemainderOfSum ==
  ASSUME NEW n \in Nat \ {0}, NEW a \in Int, NEW b \in Int
  PROVE  ((a % n) + b) % n = (a + b) % n
<1>1. PICK p \in Int : a = (n * p) + (a % n)
  BY Remainder
<1>2. a % n \in Int
  BY Remainder
<1> DEFINE c == (a % n) + b
           r == c % n
<1>3. c \in Int
  BY <1>2
<1>4. r \in 0..(n - 1) /\ \E q \in Int : c = (n * q) + r
  BY <1>3, Remainder
<1>5. PICK q \in Int : c = (n * q) + r
  BY <1>4
<1> DEFINE m == p + q
           x == a + b
<1>6. m \in Int /\ a + b \in Int /\ a + b = (n * m) + r
  BY <1>1, <1>5
<1> HIDE DEF r, m, x
<1>7. x \in Int /\ m \in Int /\ x = (n * m) + r
  BY <1>6 DEF x
<1>8. x % n = r
  BY <1>4, <1>7, RemainderIs
<1> QED
  BY <1>8 DEF r, x

LEMMA RemainderOfDifference ==
  ASSUME NEW n \in Nat \ {0}, NEW a \in Int, NEW b \in Int
  PROVE  (a - (b % n)) % n = (a - b) % n
<1>2. PICK q \in Int : b = (n * q) + (b % n)
  BY Remainder
<1> DEFINE d == a - (b % n)
           r == d % n
<1>3. b % n \in Int /\ d \in Int
  BY Remainder
<1>4. r \in 0..(n - 1) /\ \E k \in Int : d = (n * k) + r
  BY <1>3, Remainder
<1>5. PICK k \in Int : d = (n * k) + r
  BY <1>4
<1> DEFINE m == k - q
           x == a - b
<1>6. m \in Int /\ n * m = (n * k) - (n * q)
  OBVIOUS
<1>7. x = d - (n * q)
  BY <1>2, <1>3
<1> HIDE DEF r, m, d
<1>8. x \in Int /\ x = (n * m) + r
  BY <1>3, <1>4, <1>5, <1>6, <1>7
<1> HIDE DEF x
<1>9. x % n = r
  BY <1>4, <1>6, <1>8, RemainderIs
<1> QED
  BY <1>9 DEF r, x, d

LEMMA RemainderOfRemainder ==
  ASSUME NEW s \in Nat \ {0}, NEW k \in Nat \ {0}, NEW n \in Nat \ {0}, n = s * k, NEW a \in Int
  PROVE  (a % n) % s = a % s
<1>1. PICK p \in Int : a = (n * p) + (a % n)
  BY Remainder
<1>2. a % n \in Int
  BY Remainder
<1> DEFINE r == (a % n) % s
<1>3. r \in 0..(s - 1) /\ \E q \in Int : a % n = (s * q) + r
  BY <1>2, Remainder
<1>4. PICK q \in Int : a % n = (s * q) + r
  BY <1>3
<1> DEFINE m == (k * p) + q
<1> HIDE DEF r
<1>5. m \in Int /\ (s * m) + r = (s * (k * p)) + ((s * q) + r)
  BY <1>3
<1>6. s * (k * p) = n * p
  OBVIOUS
<1>7. a = (s * m) + r
  BY <1>1, <1>4, <1>5, <1>6
<1> HIDE DEF m
<1>8. a % s = r
  BY <1>3, <1>5, <1>7, RemainderIs
<1> QED
  BY <1>8 DEF r

\* What there is to know of the sizes.
LEMMA Sizes ==
  /\ Modulus \in Nat \ {0} /\ Half \in Nat \ {0} /\ BufferSize \in Nat \ {0}
  /\ Modulus = 2 * Half /\ 2 * BufferSize <= Half /\ BufferSize + 1 < Half
  /\ \E f \in Nat \ {0} : Modulus = BufferSize * f
<1>1. PICK k \in 0..(W - 2) : BufferSize = 2^k
  BY BufferAssumption
<1>2. /\ W - 1 \in 0..W /\ (W - 1) + 1 = W /\ k \in 0..W /\ W \in 0..W
      /\ W - k \in 0..W /\ (W - k) - 1 \in 0..W /\ ((W - k) - 1) + 1 = W - k
      /\ (W - k) - 2 \in 0..W /\ ((W - k) - 2) + 1 = (W - k) - 1
      /\ W - 2 \in 0..W /\ (W - 2) + 1 = W - 1
      /\ W - 3 \in 0..W /\ (W - 3) + 1 = W - 2
  BY WidthAssumption
<1>3. Modulus \in Nat \ {0} /\ Half \in Nat \ {0} /\ Modulus = 2 * Half
  BY <1>2, ExponentAssumption DEF Modulus, Half
<1> DEFINE f == 2^(W - k)
           g == 2^((W - k) - 2)
<1>4. /\ BufferSize \in Nat \ {0} /\ f \in Nat \ {0} /\ g \in Nat \ {0}
      /\ Modulus = BufferSize * f
  BY <1>1, <1>2, ExponentAssumption DEF Modulus
<1>5. f = 4 * g
  <2>1. f = 2 * 2^((W - k) - 1)
    BY <1>2, ExponentAssumption
  <2>2. 2^((W - k) - 1) = 2 * g
    BY <1>2, ExponentAssumption
  <2>3. g \in Nat
    BY <1>4
  <2> HIDE DEF f, g
  <2> QED
    BY <2>1, <2>2, <2>3
<1>6. Half >= 4
  BY <1>2, ExponentAssumption DEF Half
<1> HIDE DEF f, g
<1>7. BufferSize * f >= 4 * BufferSize
  BY <1>4, <1>5
<1> QED
  BY <1>3, <1>4, <1>6, <1>7

LEMMA WrapType ==
  ASSUME NEW n \in Int
  PROVE  Wrap(n) \in SequenceNumbers /\ Wrap(n) \in Int
BY Sizes DEF Wrap, SequenceNumbers

LEMMA DifferenceType ==
  ASSUME NEW a \in SequenceNumbers, NEW b \in SequenceNumbers
  PROVE  Difference(a, b) \in Int /\ -Half <= Difference(a, b) /\ Difference(a, b) < Half
<1>1. a - b \in Int
  BY Sizes DEF SequenceNumbers
<1>2. Wrap(a - b) \in 0..(Modulus - 1)
  BY <1>1, WrapType DEF SequenceNumbers
<1> QED
  BY <1>2, Sizes DEF Difference

\* The difference is the number within half the width that has the remainder.
LEMMA DifferenceIs ==
  ASSUME NEW a \in SequenceNumbers, NEW b \in SequenceNumbers, NEW d \in Int,
         -Half <= d, d < Half, Wrap(a - b) = Wrap(d)
  PROVE  Difference(a, b) = d
<1> DEFINE w == Wrap(d)
<1>1. w \in 0..(Modulus - 1)
  BY WrapType DEF SequenceNumbers
<1>2. Difference(a, b) = IF w < Half THEN w ELSE w - Modulus
  BY DEF Difference
<1>3. CASE d >= 0
  <2>1. w = d
    BY <1>3, Sizes DEF Wrap
  <2> QED
    BY <1>2, <2>1
<1>4. CASE d < 0
  <2>1. d = (Modulus * (-1)) + (d + Modulus) /\ d + Modulus \in 0..(Modulus - 1)
    BY <1>4, Sizes
  <2>2. w = d + Modulus
    BY <2>1, Sizes, RemainderIs DEF Wrap
  <2> QED
    BY <1>2, <1>4, <2>2, Sizes
<1> QED
  BY <1>3, <1>4

LEMMA WrapDifference ==
  ASSUME NEW a \in SequenceNumbers, NEW b \in SequenceNumbers
  PROVE  Wrap(Difference(a, b)) = Wrap(a - b) /\ Wrap(b + Difference(a, b)) = a
<1>1. a - b \in Int /\ a \in Int /\ b \in Int
  BY Sizes DEF SequenceNumbers
<1> DEFINE w == Wrap(a - b)
<1>2. w \in 0..(Modulus - 1)
  BY <1>1, WrapType DEF SequenceNumbers
<1>3. Wrap(w) = w
  BY <1>2, Sizes DEF Wrap
<1>4. Wrap(w - Modulus) = w
  <2> HIDE DEF w
  <2>1. w - Modulus = (Modulus * (-1)) + w /\ w - Modulus \in Int
    BY <1>2, Sizes
  <2> DEFINE v == w - Modulus
  <2>2. v = (Modulus * (-1)) + w /\ v \in Int
    BY <2>1
  <2> HIDE DEF v
  <2>3. v % Modulus = w
    BY <1>2, <2>2, Sizes, RemainderIs
  <2> QED
    BY <2>3 DEF v, Wrap
<1>5. Wrap(Difference(a, b)) = w
  BY <1>3, <1>4 DEF Difference
<1>6. Difference(a, b) \in Int
  BY DifferenceType
<1>7. Wrap(Wrap(Difference(a, b)) + b) = Wrap(Difference(a, b) + b)
  BY <1>1, <1>6, Sizes, RemainderOfSum DEF Wrap
<1>8. Wrap(w + b) = Wrap((a - b) + b)
  BY <1>1, Sizes, RemainderOfSum DEF Wrap
<1>9. (a - b) + b = a /\ Wrap(a) = a /\ Difference(a, b) + b = b + Difference(a, b)
  BY <1>1, <1>6, Sizes DEF Wrap, SequenceNumbers
<1> QED
  BY <1>5, <1>7, <1>8, <1>9

LEMMA WrapSum ==
  ASSUME NEW a \in Int, NEW b \in Int
  PROVE  Wrap(Wrap(a) + b) = Wrap(a + b) /\ Wrap(a - Wrap(b)) = Wrap(a - b)
BY Sizes, RemainderOfSum, RemainderOfDifference DEF Wrap

\* Seen from any number, differences add up as long as they stay within half the width.
LEMMA Apart ==
  ASSUME NEW a \in SequenceNumbers, NEW b \in SequenceNumbers, NEW g \in SequenceNumbers,
         -Half <= Difference(a, g) - Difference(b, g), Difference(a, g) - Difference(b, g) < Half
  PROVE  Difference(a, b) = Difference(a, g) - Difference(b, g)
<1> DEFINE x == Difference(a, g)
           y == Difference(b, g)
<1>1. x \in Int /\ y \in Int /\ g \in Int
  BY DifferenceType DEF SequenceNumbers
<1>2. a = Wrap(g + x) /\ b = Wrap(g + y)
  BY WrapDifference
<1> HIDE DEF x, y
<1>3. Wrap(a - b) = Wrap(Wrap(g + x) + (- Wrap(g + y)))
  <2>1. Wrap(g + x) \in Int /\ Wrap(g + y) \in Int
    BY <1>1, WrapType
  <2> QED
    BY <1>2, <2>1
<1>4. Wrap(Wrap(g + x) + (- Wrap(g + y))) = Wrap((g + x) + (- Wrap(g + y)))
  <2>1. Wrap(g + y) \in Int /\ g + x \in Int
    BY <1>1, WrapType
  <2> QED
    BY <2>1, WrapSum
<1>5. Wrap((g + x) - Wrap(g + y)) = Wrap((g + x) - (g + y))
  BY <1>1, WrapSum
<1>6. Wrap(g + y) \in Int
  BY <1>1, WrapType
<1>7. (g + x) + (- Wrap(g + y)) = (g + x) - Wrap(g + y) /\ (g + x) - (g + y) = x - y
  BY <1>1, <1>6
<1>8. Wrap(a - b) = Wrap(x - y)
  BY <1>3, <1>4, <1>5, <1>7
<1>9. -Half <= x - y /\ x - y < Half /\ x - y \in Int
  BY <1>1 DEF x, y
<1> QED
  BY <1>8, <1>9, DifferenceIs DEF x, y

LEMMA Further ==
  ASSUME NEW a \in SequenceNumbers, NEW g \in SequenceNumbers, NEW i \in Int,
         -Half <= Difference(a, g) + i, Difference(a, g) + i < Half
  PROVE  Wrap(a + i) \in SequenceNumbers /\ Difference(Wrap(a + i), g) = Difference(a, g) + i
<1> DEFINE x == Difference(a, g)
<1>1. x \in Int /\ g \in Int /\ a \in Int
  BY DifferenceType DEF SequenceNumbers
<1>2. a = Wrap(g + x)
  BY WrapDifference
<1>3. Wrap(a + i) \in SequenceNumbers /\ Wrap(a + i) \in Int
  BY <1>1, WrapType
<1> HIDE DEF x
<1>4. Wrap(a + i) = Wrap((g + x) + i)
  BY <1>1, <1>2, WrapSum
<1>5. Wrap(Wrap((g + x) + i) + (-g)) = Wrap(((g + x) + i) + (-g))
  BY <1>1, WrapSum
<1>6. ((g + x) + i) + (-g) = x + i /\ Wrap(a + i) + (-g) = Wrap(a + i) - g
  BY <1>1, <1>3
<1>7. Wrap(Wrap(a + i) - g) = Wrap(x + i)
  BY <1>4, <1>5, <1>6
<1>8. -Half <= x + i /\ x + i < Half /\ x + i \in Int
  BY <1>1 DEF x
<1> QED
  BY <1>3, <1>7, <1>8, DifferenceIs DEF x

LEMMA SameNumber ==
  ASSUME NEW a \in SequenceNumbers, NEW b \in SequenceNumbers, NEW g \in SequenceNumbers,
         Difference(a, g) = Difference(b, g)
  PROVE  a = b
BY WrapDifference

LEMMA NoDistance ==
  ASSUME NEW g \in SequenceNumbers
  PROVE  Difference(g, g) = 0
<1>1. g - g = 0
  BY Sizes DEF SequenceNumbers
<1> QED
  BY <1>1, Sizes, DifferenceIs

LEMMA Distance ==
  ASSUME NEW g \in SequenceNumbers, NEW i \in Int, -Half <= i, i < Half
  PROVE  Wrap(g + i) \in SequenceNumbers /\ Difference(Wrap(g + i), g) = i
BY NoDistance, Further

\* The slots of a round.
LEMMA SlotOf ==
  ASSUME NEW n \in Int
  PROVE  Slot(Wrap(n)) = n % BufferSize /\ Slot(Wrap(n)) \in Slots
<1>1. PICK f \in Nat \ {0} : Modulus = BufferSize * f
  BY Sizes
<1>2. Slot(Wrap(n)) = n % BufferSize
  BY <1>1, Sizes, RemainderOfRemainder DEF Slot, Wrap
<1>3. n % BufferSize \in 0..(BufferSize - 1)
  BY Sizes, Remainder
<1> QED
  BY <1>2, <1>3 DEF Slots

LEMMA OneSlotEach ==
  ASSUME NEW g \in SequenceNumbers, NEW i \in Int, NEW j \in Int,
         Slot(Wrap(g + i)) = Slot(Wrap(g + j)), i - j < BufferSize, j - i < BufferSize
  PROVE  i = j
<1>1. g \in Int /\ g + i \in Int /\ g + j \in Int
  BY DEF SequenceNumbers
<1>2. (g + i) % BufferSize = (g + j) % BufferSize
  BY <1>1, SlotOf
<1>3. (g + i) - (g + j) = i - j /\ (g + j) - (g + i) = j - i
  BY <1>1
<1>4. g + i = g + j
  BY <1>1, <1>2, <1>3, Sizes, EqualRemainders
<1> QED
  BY <1>1, <1>4

LEMMA NextRound ==
  ASSUME NEW g \in SequenceNumbers, NEW i \in Int
  PROVE  Slot(Wrap(g + (i + BufferSize))) = Slot(Wrap(g + i))
<1> DEFINE n == g + i
           m == n + BufferSize
<1>1. n \in Int /\ m \in Int /\ g + (i + BufferSize) = m
  BY Sizes DEF SequenceNumbers
<1>2. PICK q \in Int : n = (BufferSize * q) + (n % BufferSize)
  BY <1>1, Sizes, Remainder
<1>3. n % BufferSize \in 0..(BufferSize - 1)
  BY <1>1, Sizes, Remainder
<1> DEFINE r == n % BufferSize
           k == q + 1
<1>4. k \in Int /\ BufferSize * k = (BufferSize * q) + BufferSize
  BY Sizes
<1> HIDE DEF r, k
<1>5. m = (BufferSize * k) + r
  <2>1. n = (BufferSize * q) + r /\ r \in Int /\ BufferSize * q \in Int /\ BufferSize * k \in Int
    BY <1>2, <1>3, <1>4, Sizes DEF r
  <2> QED
    BY <1>1, <1>4, <2>1, Sizes
<1> HIDE DEF n, m
<1>6. m % BufferSize = r
  <2>1. m \in Int /\ r \in 0..(BufferSize - 1)
    BY <1>1, <1>3 DEF r
  <2> QED
    BY <1>4, <1>5, <2>1, Sizes, RemainderIs
<1> QED
  BY <1>1, <1>6, SlotOf DEF r, n, m


-----------------------------------------------------------------------------
(* The members of a set among a list.                                      *)

LEMMA FirstNumber ==
  ASSUME NEW S \in SUBSET Nat, S # {}
  PROVE  \E m \in S : \A n \in S : m <= n
<1>1. PICK m \in S : \A n \in S : ~(<<n, m>> \in OpToRel(<, Nat))
  BY NatLessThanWellFounded, WFMin
<1>2. \A n \in S : ~(n < m)
  BY <1>1 DEF OpToRel
<1> QED
  BY <1>2

\* The lists of those among the first n, for each n up to the length of the list.
KeptOf(list, set, n, f) ==
    \A i \in 0..n : f[i] = IF i = 0 THEN <<>>
                           ELSE IF list[i] \in set THEN Append(f[i - 1], list[i]) ELSE f[i - 1]

LEMMA KeptExists ==
  ASSUME NEW S, NEW list \in Seq(S), NEW set, NEW n \in 0..Len(list)
  PROVE  \E f \in [0..n -> Seq(S)] : KeptOf(list, set, n, f)
<1> DEFINE Bad == {k \in 0..Len(list) : ~ \E f \in [0..k -> Seq(S)] : KeptOf(list, set, k, f)}
<1>1. Len(list) \in Nat
  OBVIOUS
<1>2. SUFFICES ASSUME Bad # {} PROVE FALSE
  BY <1>1
<1>3. Bad \in SUBSET Nat
  BY <1>1
<1>4. PICK m \in Bad : \A k \in Bad : m <= k
  BY <1>2, <1>3, FirstNumber
<1>5. m \in 0..Len(list) /\ ~ \E f \in [0..m -> Seq(S)] : KeptOf(list, set, m, f)
  BY <1>4
<1>6. m # 0
  <2> DEFINE f == [i \in 0..0 |-> <<>>]
  <2>1. f \in [0..0 -> Seq(S)] /\ KeptOf(list, set, 0, f)
    BY DEF KeptOf
  <2> QED
    BY <1>5, <2>1
<1>7. m - 1 \in 0..Len(list) /\ m - 1 \notin Bad /\ m \in Nat
  <2>1. m \in Nat /\ m - 1 \in 0..Len(list) /\ ~(m <= m - 1)
    BY <1>1, <1>5, <1>6
  <2> HIDE DEF Bad
  <2> QED
    BY <1>4, <2>1
<1>8. PICK g \in [0..(m - 1) -> Seq(S)] : KeptOf(list, set, m - 1, g)
  BY <1>7
<1> DEFINE x == IF list[m] \in set THEN Append(g[m - 1], list[m]) ELSE g[m - 1]
           f == [i \in 0..m |-> IF i = m THEN x ELSE g[i]]
<1>9. list[m] \in S /\ g[m - 1] \in Seq(S)
  BY <1>1, <1>5, <1>6, <1>7
<1>10. x \in Seq(S)
  BY <1>9
<1>11. f \in [0..m -> Seq(S)]
  BY <1>7, <1>10
<1>12. KeptOf(list, set, m, f)
  <2> SUFFICES ASSUME NEW i \in 0..m
               PROVE  f[i] = IF i = 0 THEN <<>>
                             ELSE IF list[i] \in set THEN Append(f[i - 1], list[i]) ELSE f[i - 1]
    BY DEF KeptOf
  <2>1. CASE i = m
    <3>1. f[m] = x /\ f[m - 1] = g[m - 1]
      BY <1>6, <1>7
    <3> QED
      BY <1>6, <2>1, <3>1
  <2>2. CASE i # m
    <3>1. i \in 0..(m - 1) /\ f[i] = g[i] /\ (i # 0 => i - 1 \in 0..m /\ i - 1 # m /\ f[i - 1] = g[i - 1])
      BY <1>7, <2>2
    <3>2. g[i] = IF i = 0 THEN <<>>
                 ELSE IF list[i] \in set THEN Append(g[i - 1], list[i]) ELSE g[i - 1]
      BY <1>8, <3>1 DEF KeptOf
    <3> QED
      BY <3>1, <3>2
  <2> QED
    BY <2>1, <2>2
<1> QED
  BY <1>5, <1>11, <1>12

LEMMA KeptHas ==
  ASSUME NEW S, NEW list \in Seq(S), NEW set, NEW f, KeptOf(list, set, Len(list), f)
  PROVE  /\ f[Len(list)] \in Seq(S)
         /\ \A x : Has(f[Len(list)], x) <=> Has(list, x) /\ x \in set
         /\ Once(list) => Once(f[Len(list)])
<1> DEFINE Good(k) == /\ f[k] \in Seq(S)
                      /\ \A x \in S : Has(f[k], x) <=> x \in set /\ \E i \in 1..k : list[i] = x
                      /\ \A x : Has(f[k], x) => x \in S
                      /\ Once(list) => Once(f[k])
           Bad == {k \in 0..Len(list) : ~Good(k)}
<1>1. Len(list) \in Nat
  OBVIOUS
<1>2. Bad = {}
  <2>1. SUFFICES ASSUME Bad # {} PROVE FALSE
    OBVIOUS
  <2>2. Bad \in SUBSET Nat
    BY <1>1
  <2>3. PICK m \in Bad : \A k \in Bad : m <= k
    BY <2>1, <2>2, FirstNumber
  <2>4. m \in 0..Len(list) /\ ~Good(m)
    BY <2>3
  <2>5. m # 0
    <3>1. f[0] = <<>>
      BY <1>1 DEF KeptOf
    <3>2. Good(0)
      BY <3>1 DEF Has, Once
    <3> QED
      BY <2>4, <3>2
  <2>6. m - 1 \in 0..Len(list) /\ m - 1 \notin Bad /\ m \in Nat /\ m \in 1..Len(list)
    BY <1>1, <2>3, <2>4, <2>5
  <2>7. Good(m - 1)
    BY <2>6
  <2>8. f[m] = IF list[m] \in set THEN Append(f[m - 1], list[m]) ELSE f[m - 1]
    BY <2>5, <2>6 DEF KeptOf
  <2>9. list[m] \in S
    BY <2>6
  <2>10. \A i : i \in 1..m <=> i \in 1..(m - 1) \/ i = m
    BY <2>6
  <2>11. CASE list[m] \notin set
    <3>1. f[m] = f[m - 1]
      BY <2>8, <2>11
    <3>2. Good(m)
      BY <2>7, <2>10, <2>11, <3>1
    <3> QED
      BY <2>4, <3>2
  <2>12. CASE list[m] \in set
    <3>1. f[m] = Append(f[m - 1], list[m])
      BY <2>8, <2>12
    <3>2. f[m - 1] \in Seq(S)
      BY <2>7
    <3>3. f[m] \in Seq(S)
      BY <2>9, <3>1, <3>2
    <3>4. \A x \in S : Has(f[m], x) <=> x = list[m] \/ Has(f[m - 1], x)
      BY <2>9, <3>1, <3>2, AppendHas
    <3>5. \A x \in S : Has(f[m], x) <=> x \in set /\ \E i \in 1..m : list[i] = x
      BY <2>7, <2>10, <2>12, <3>4
    <3>6. \A x : Has(f[m], x) => x \in S
      BY <3>3 DEF Has
    <3>7. ASSUME Once(list) PROVE Once(f[m])
      <4>1. ~Has(f[m - 1], list[m])
        <5>1. SUFFICES ASSUME Has(f[m - 1], list[m]) PROVE FALSE
          OBVIOUS
        <5>2. PICK i \in 1..(m - 1) : list[i] = list[m]
          BY <2>7, <2>9, <5>1
        <5>3. i \in 1..Len(list) /\ i # m
          BY <1>1, <2>6
        <5> QED
          BY <2>6, <3>7, <5>2, <5>3 DEF Once
      <4> QED
        BY <2>7, <2>9, <3>1, <3>2, <3>7, <4>1, AppendHas
    <3>8. Good(m)
      BY <3>3, <3>5, <3>6, <3>7
    <3> QED
      BY <2>4, <3>8
  <2> QED
    BY <2>11, <2>12
<1>3. Good(Len(list))
  BY <1>1, <1>2
<1>4. \A x : Has(list, x) <=> x \in S /\ \E i \in 1..Len(list) : list[i] = x
  BY DEF Has
<1> QED
  BY <1>3, <1>4

LEMMA AmongHas ==
  ASSUME NEW S, NEW list \in Seq(S), NEW set
  PROVE  /\ Among(list, set) \in Seq(S)
         /\ \A x : Has(Among(list, set), x) <=> Has(list, x) /\ x \in set
         /\ Once(list) => Once(Among(list, set))
<1> DEFINE Step(f, i) == IF i = 0 THEN <<>>
                         ELSE IF list[i] \in set THEN Append(f[i - 1], list[i]) ELSE f[i - 1]
           kept == CHOOSE f : f = [i \in 0..Len(list) |-> Step(f, i)]
<1>1. Len(list) \in 0..Len(list)
  OBVIOUS
<1>2. PICK f \in [0..Len(list) -> Seq(S)] : KeptOf(list, set, Len(list), f)
  BY <1>1, KeptExists
<1>3. f = [i \in 0..Len(list) |-> Step(f, i)]
  BY <1>2 DEF KeptOf
<1>4. kept = [i \in 0..Len(list) |-> Step(kept, i)]
  BY <1>3
<1> HIDE DEF kept
<1>5. KeptOf(list, set, Len(list), kept)
  BY <1>4 DEF KeptOf
<1>6. Among(list, set) = kept[Len(list)]
  BY DEF Among, kept
<1> QED
  BY <1>5, <1>6, KeptHas


LEMMA LeastOfTwo ==
  ASSUME NEW a \in Int, NEW b \in Int
  PROVE  Min({a, b}) = IF a <= b THEN a ELSE b
<1> DEFINE m == IF a <= b THEN a ELSE b
<1>1. m \in {a, b} /\ \A y \in {a, b} : m <= y
  OBVIOUS
<1>2. \A x \in {a, b} : (\A y \in {a, b} : x <= y) => x = m
  OBVIOUS
<1> HIDE DEF m
<1>3. Min({a, b}) = m
  BY <1>1, <1>2 DEF Min
<1> QED
  BY <1>3 DEF m

LEMMA LeastOf ==
  ASSUME NEW S \in SUBSET Nat, S # {}
  PROVE  Min(S) \in S /\ \A n \in S : Min(S) <= n
<1>1. PICK m \in S : \A n \in S : m <= n
  BY FirstNumber
<1> QED
  BY <1>1 DEF Min

\* The earliest target of a list of which none has come, seen from any number.
LEMMA EarliestIs ==
  ASSUME NEW g \in SequenceNumbers, NEW s \in SequenceNumbers, NEW list \in Seq(Threads), list # <<>>,
         \A a \in Threads : op[a].target \in SequenceNumbers,
         \A a \in Threads : Has(list, a) =>
            /\ 0 < Difference(op[a].target, s)
            /\ Difference(op[a].target, s) = Difference(op[a].target, g) - Difference(s, g)
  PROVE  /\ Earliest(s, list) \in SequenceNumbers
         /\ Difference(s, g) < Difference(Earliest(s, list), g)
         /\ \A a \in Threads : Has(list, a) =>
               Difference(Earliest(s, list), g) <= Difference(op[a].target, g)
<1> DEFINE D == {Difference(op[a].target, s) : a \in ToSet(list)}
           T == {Half - 1} \cup D
           m == Min(T)
<1>1. \A a \in ToSet(list) : a \in Threads /\ Has(list, a)
  BY HasIsInSet DEF Has
<1>2. \A a \in ToSet(list) : Difference(op[a].target, s) \in Nat /\ 0 < Difference(op[a].target, s)
  BY <1>1, DifferenceType
<1>3. T \in SUBSET Nat /\ T # {} /\ \A n \in T : 0 < n
  BY <1>2, Sizes
<1>4. m \in T /\ \A n \in T : m <= n
  BY <1>3, LeastOf
<1>5. list[1] \in Threads /\ Has(list, list[1])
  BY DEF Has
<1>6. list[1] \in ToSet(list)
  BY <1>5, HasIsInSet
<1>7. \A a \in Threads : Has(list, a) => Difference(op[a].target, s) \in T
  BY HasIsInSet
<1>8. m \in Nat /\ 0 < m
  BY <1>3, <1>4
<1> HIDE DEF T
<1>9. \A a \in Threads : Has(list, a) => m <= Difference(op[a].target, g) - Difference(s, g)
  BY <1>4, <1>7
<1>10. /\ Difference(s, g) \in Int /\ -Half <= Difference(s, g)
       /\ \A a \in Threads : Difference(op[a].target, g) \in Int /\ Difference(op[a].target, g) < Half
  BY DifferenceType
<1> HIDE DEF m
<1>11. -Half <= Difference(s, g) + m /\ Difference(s, g) + m < Half
  BY <1>5, <1>8, <1>9, <1>10, Sizes
<1>12. Wrap(s + m) \in SequenceNumbers /\ Difference(Wrap(s + m), g) = Difference(s, g) + m
  BY <1>8, <1>11, Further
<1>13. Earliest(s, list) = Wrap(s + m)
  BY DEF Earliest, m, T
<1> QED
  BY <1>8, <1>9, <1>10, <1>12, <1>13

-----------------------------------------------------------------------------
(* The invariant, of one consumer that the producers wait for.             *)

Reader == CHOOSE c \in Consumers : TRUE
OneConsumer == Consumers = {Reader} /\ Gating = {Reader}

Gate == lastPublished["gate"]
Items == lastPublished["items"]

\* How far ahead of the gate a number is, and the number that is so far ahead.
At(s) == Difference(s, Gate)
Number(i) == Wrap(Gate + i)

BarrierLabels == {"enqueue", "check", "reacquire"}
SequencerLabels == {"queue", "advance", "retake"}
Adding == BarrierLabels \cup SequencerLabels \cup {"resumeAdded"}
BarrierPublishing == {"loadAwaiters", "acquire", "requeue"}
SequencerPublishing == {"load", "take", "count", "putBack", "verify"}
Labels == Adding \cup BarrierPublishing \cup SequencerPublishing
            \cup {"resumePublished", "idle", "claim", "suspended", "resumed", "publish", "release"}

Operations == [target : SequenceNumbers, known : SequenceNumbers, ready : BOOLEAN]
Locals == [taken : Seq(Threads), requeue : Seq(Threads), resume : Seq(Threads),
           seen : SequenceNumbers, earliest : SequenceNumbers]

RingTypeOK ==
    /\ lastPublished \in [Barriers -> SequenceNumbers]
    /\ awaiters \in [Barriers -> Seq(Threads)]
    /\ pc \in [Threads -> Labels]
    /\ op \in [Threads -> Operations]
    /\ local \in [Threads -> Locals]
    /\ published \in [Slots -> SequenceNumbers]
    /\ kind \in {"single", "multi"}
    /\ nextToClaim \in SequenceNumbers
    /\ range \in [Producers -> [begin : SequenceNumbers, end : SequenceNumbers]]
    /\ nextToRead \in [Consumers -> SequenceNumbers]
    /\ buffer \in [Slots -> SequenceNumbers \cup {Nothing}]

\* Which calls a thread makes.
ProducerLabels == {"idle", "claim", "resumeAdded", "suspended", "resumed", "publish", "resumePublished"}
ReaderLabels == {"idle", "resumeAdded", "suspended", "resumed", "release", "resumePublished"}
Roles ==
    /\ \A p \in Producers :
          pc[p] \in ProducerLabels \cup BarrierLabels
                    \cup (IF kind = "multi" THEN SequencerPublishing ELSE BarrierPublishing)
    /\ \A p \in Producers \ Working : pc[p] = "idle"
    /\ pc[Reader] \in ReaderLabels \cup BarrierPublishing
                      \cup (IF kind = "multi" THEN SequencerLabels ELSE BarrierLabels)

Typed == RingTypeOK /\ Roles

-----------------------------------------------------------------------------
(* Where the waiting threads are.                                          *)

\* Whom somebody has to resume, which stack a thread has taken from or will
\* put back to, and whom it keeps.
Waits(a) == pc[a] = "suspended" \/ (pc[a] \in Adding /\ ~op[a].ready)
Serves(t) == IF pc[t] \in Adding THEN WaitsFor(t) ELSE PublishesTo(t)
Keeps(t, a) == Has(local[t].taken, a) \/ Has(local[t].requeue, a) \/ Has(local[t].resume, a)

\* A thread's own lists.
RequeueLabels == {"enqueue", "queue", "requeue", "putBack"}
ResumeLabels == BarrierLabels \cup {"resumeAdded", "requeue", "resumePublished"}
Tidy(t) ==
    /\ Once(local[t].taken) /\ Once(local[t].requeue) /\ Once(local[t].resume)
    /\ \A a \in Threads : Has(local[t].resume, a) => ~Has(local[t].taken, a) /\ ~Has(local[t].requeue, a)
    /\ local[t].taken # <<>> => pc[t] = "count"
    /\ local[t].requeue # <<>> => pc[t] \in RequeueLabels
    /\ local[t].resume # <<>> => pc[t] \in ResumeLabels

\* A thread that waits is at one place, and nobody else is anywhere.
Placed(a) ==
    /\ \A b \in Barriers : Has(awaiters[b], a) =>
          Waits(a) /\ b = WaitsFor(a) /\ \A t \in Threads : ~Keeps(t, a)
    /\ \A t \in Threads : Keeps(t, a) =>
          Waits(a) /\ Serves(t) = WaitsFor(a) /\ \A u \in Threads : Keeps(u, a) => u = t
    /\ Waits(a) => Has(awaiters[WaitsFor(a)], a) \/ \E t \in Threads : Keeps(t, a)
    /\ pc[a] = "suspended" => op[a].ready

Places ==
    /\ \A b \in Barriers : Once(awaiters[b])
    /\ \A t \in Threads : Tidy(t)
    /\ \A a \in Threads : Placed(a)

-----------------------------------------------------------------------------
(* The claims, the reader and the slots, counted from the gate.            *)

Holding == {"claim", "resumeAdded", "suspended", "resumed", "publish"} \cup BarrierLabels
Holds(p) == pc[p] \in Holding
First(p) == At(range[p].begin)
Final(p) == At(Wrap(range[p].end - 1))
Top == At(Wrap(nextToClaim - 1))

\* The number so far ahead was published.
Come(i) == IF kind = "multi" THEN IsPublished(Number(i)) ELSE i <= At(Items)

ClaimOf(p) ==
    /\ 1 <= First(p) /\ First(p) <= Final(p)
    /\ kind = "multi" => Final(p) <= Top /\ Final(p) - First(p) < BufferSize
    /\ kind = "single" => IF pc[p] = "publish"
                          THEN range[p].end = nextToClaim /\ range[p].begin = Wrap(Items + 1)
                          ELSE range[p].begin = nextToClaim
    /\ pc[p] = "publish" =>
          /\ Final(p) <= BufferSize
          /\ kind = "multi" => First(p) < At(local[p].seen) /\ At(local[p].seen) <= Final(p) + 1

Claims ==
    /\ \A p \in Producers : Holds(p) => ClaimOf(p)
    /\ kind = "multi" => \A p, q \in Producers : Holds(p) /\ Holds(q) /\ p # q =>
          Final(p) < First(q) \/ Final(q) < First(p)
    /\ 0 <= Top
    /\ kind = "single" =>
          /\ 0 <= At(Items) /\ At(Items) <= BufferSize
          /\ (\A p \in Working : pc[p] # "publish") => nextToClaim = Wrap(Items + 1)

Reading ==
    /\ 1 <= At(nextToRead[Reader]) /\ At(nextToRead[Reader]) <= BufferSize + 1
    /\ pc[Reader] # "release" => At(nextToRead[Reader]) = 1
    /\ \A i \in 1..BufferSize : i < At(nextToRead[Reader]) => Come(i)

\* What the slots hold of one round, and what was written to them.
Written(i) ==
    Come(i) \/ \E p \in Producers : pc[p] = "publish" /\ First(p) <= i /\ i <= Final(p)

Slotted ==
    /\ kind = "multi" => \A i \in 1..BufferSize :
          /\ published[Slot(Number(i))] \in {Number(i), Number(i - BufferSize)}
          /\ IsPublished(Number(i)) =>
                /\ i <= Top
                /\ \A p \in Producers : Holds(p) /\ First(p) <= i /\ i <= Final(p) =>
                      pc[p] = "publish" /\ First(p) < i /\ i < At(local[p].seen)
    /\ \A i \in 1..BufferSize : Written(i) => buffer[Slot(Number(i))] = Number(i)

Ring == Claims /\ Reading /\ Slotted

-----------------------------------------------------------------------------
(* What a thread knows.                                                    *)

Awaiting == Adding \cup {"suspended", "resumed"}
Target(t) == IF t \in Producers THEN ClaimTarget(t) ELSE nextToRead[t]

\* The barriers that compare with their last published number.
Compared(b) == b = "gate" \/ kind = "single"

Comparisons(t) ==
    /\ pc[t] \in Awaiting => op[t].target = Target(t)
    /\ pc[t] = "resumed" \/ (pc[t] \in Adding /\ op[t].ready) =>
          /\ At(op[t].target) <= At(op[t].known) /\ At(op[t].known) <= BufferSize
          /\ Compared(WaitsFor(t)) => At(op[t].known) <= At(lastPublished[WaitsFor(t)])
    /\ pc[t] \in BarrierLabels => At(op[t].target) <= At(local[t].earliest)
    /\ pc[t] = "enqueue" => \A a \in Threads : Has(local[t].requeue, a) =>
          At(local[t].earliest) <= At(op[a].target)
    /\ pc[t] = "reacquire" => /\ At(op[t].target) <= At(local[t].seen)
                              /\ At(local[t].seen) <= At(lastPublished[WaitsFor(t)])
    /\ \A a \in Threads : Compared(WaitsFor(a)) /\ Has(local[t].resume, a) =>
          /\ At(op[a].target) <= At(local[t].seen)
          /\ At(local[t].seen) <= At(lastPublished[WaitsFor(a)])
    /\ pc[t] \in BarrierPublishing => local[t].seen = lastPublished[PublishesTo(t)]
    /\ pc[t] = "requeue" => \A a \in Threads : Has(local[t].requeue, a) =>
          At(lastPublished[PublishesTo(t)]) < At(op[a].target)

\* Everything up to the number was published.
UpTo(s) ==
    /\ 0 <= At(s) /\ At(s) <= BufferSize
    /\ \A i \in 1..BufferSize : i <= At(s) => IsPublished(Number(i))

Counting(t) ==
    kind = "multi" =>
      /\ t = Reader /\ pc[t] \in Awaiting => UpTo(op[t].known)
      /\ pc[t] \in SequencerLabels => UpTo(local[t].seen) /\ local[t].earliest = nextToRead[Reader]
      /\ pc[t] = "retake" => 1 <= At(local[t].seen)
      /\ Has(local[t].resume, Reader) => UpTo(local[t].seen) /\ 1 <= At(local[t].seen)
      /\ pc[t] = "count" => UpTo(local[t].seen) /\ Has(local[t].taken, Reader)
      /\ pc[t] = "putBack" => /\ local[t].seen = Gate /\ local[t].earliest = nextToRead[Reader]
                              /\ Has(local[t].requeue, Reader)

Known == \A t \in Threads : Comparisons(t) /\ Counting(t)

\* Whose number came while it is in the stack: somebody will look there.
CameFor(a) == IF a \in Producers THEN At(op[a].target) <= 0 ELSE Come(1)

Looks(t, a) ==
    \/ pc[t] = "check" /\ WaitsFor(t) = WaitsFor(a) /\ At(local[t].earliest) <= At(op[a].target)
    \/ pc[t] \in {"reacquire", "retake"} /\ WaitsFor(t) = WaitsFor(a)
    \/ pc[t] \in {"loadAwaiters", "acquire", "load", "take"} /\ PublishesTo(t) = WaitsFor(a)
    \/ pc[t] = "advance" /\ t = a
    \/ pc[t] = "verify" /\ a = Reader /\ local[t].seen = Gate /\ local[t].earliest = Number(1)

Seen == \A a \in Threads :
    Has(awaiters[WaitsFor(a)], a) /\ CameFor(a) => \E t \in Threads : Looks(t, a)

RingInv == Typed /\ Places /\ Ring /\ Known /\ Seen

-----------------------------------------------------------------------------
(* Constants and numbers of the module.                                    *)

LEMMA Parties ==
  ASSUME OneConsumer
  PROVE  /\ Reader \in Threads /\ Reader \in Consumers /\ Reader \notin Producers /\ Reader \in Gating
         /\ \A t \in Threads : t \in Producers \/ t = Reader
         /\ \A c \in Consumers : c = Reader
         /\ \A p \in Producers : /\ p \in Threads /\ p \notin Consumers
                                 /\ WaitsFor(p) = "gate" /\ PublishesTo(p) = "items"
         /\ WaitsFor(Reader) = "items" /\ PublishesTo(Reader) = "gate"
BY RoleAssumption DEF OneConsumer, Threads, WaitsFor, PublishesTo

LEMMA Numbers ==
  /\ InitialSequence \in SequenceNumbers /\ 0 \in SequenceNumbers
  /\ \A s \in SequenceNumbers : s \in Int
  /\ \A s \in SequenceNumbers : Wrap(s) = s
BY Sizes DEF InitialSequence, SequenceNumbers, Wrap


-----------------------------------------------------------------------------
(* Types and roles.                                                        *)

LEMMA EarliestType ==
  ASSUME NEW s \in SequenceNumbers, NEW list \in Seq(Threads),
         \A a \in Threads : op[a].target \in SequenceNumbers,
         \A a \in Threads : Has(list, a) => 0 < Difference(op[a].target, s)
  PROVE  Earliest(s, list) \in SequenceNumbers
<1> DEFINE D == {Difference(op[a].target, s) : a \in ToSet(list)}
           T == {Half - 1} \cup D
<1>1. \A a \in ToSet(list) : a \in Threads /\ Has(list, a)
  BY HasIsInSet DEF Has
<1>2. \A a \in ToSet(list) : Difference(op[a].target, s) \in Nat
  BY <1>1, DifferenceType
<1>3. T \in SUBSET Nat /\ T # {}
  BY <1>2, Sizes
<1>4. Min(T) \in Nat
  BY <1>3, LeastOf
<1> HIDE DEF T
<1>5. s + Min(T) \in Int
  BY <1>4, Numbers
<1>6. Wrap(s + Min(T)) \in SequenceNumbers
  BY <1>5, WrapType
<1> QED
  BY <1>6 DEF Earliest, T

\* What a look at a list does to the locals.
LEMMA SplitIs ==
  ASSUME RingTypeOK, NEW t \in Threads, NEW list \in Seq(Threads)
  PROVE  /\ Split(t, list) \in Locals
         /\ Split(t, list).taken = <<>> /\ Split(t, list).seen = local[t].seen
         /\ \A a : Has(Split(t, list).requeue, a) <=>
               Has(list, a) /\ a \in Threads /\ Difference(op[a].target, local[t].seen) > 0
         /\ \A a : Has(Split(t, list).resume, a) <=>
               \/ Has(local[t].resume, a)
               \/ Has(list, a) /\ a \in Threads /\ ~(Difference(op[a].target, local[t].seen) > 0)
         /\ Once(list) => Once(Split(t, list).requeue)
         /\ Once(list) /\ Once(local[t].resume) /\ (\A a : ~(Has(list, a) /\ Has(local[t].resume, a)))
              => Once(Split(t, list).resume)
         /\ Split(t, list).earliest = Earliest(local[t].seen, Split(t, list).requeue)
<1> DEFINE later == {a \in Threads : Difference(op[a].target, local[t].seen) > 0}
           requeue == Among(list, later)
           rest == Among(list, Threads \ later)
<1>1. local[t] \in Locals /\ local[t].seen \in SequenceNumbers /\ local[t].resume \in Seq(Threads)
      /\ \A a \in Threads : op[a].target \in SequenceNumbers
  BY DEF RingTypeOK, Locals, Operations
<1>2. /\ requeue \in Seq(Threads) /\ \A x : Has(requeue, x) <=> Has(list, x) /\ x \in later
      /\ Once(list) => Once(requeue)
  BY AmongHas
<1>3. /\ rest \in Seq(Threads) /\ \A x : Has(rest, x) <=> Has(list, x) /\ x \in Threads \ later
      /\ Once(list) => Once(rest)
  BY AmongHas
<1>4. Earliest(local[t].seen, requeue) \in SequenceNumbers
  <2>1. \A a \in Threads : Has(requeue, a) => 0 < Difference(op[a].target, local[t].seen)
    BY <1>2
  <2> HIDE DEF requeue
  <2> QED
    BY <1>1, <1>2, <2>1, EarliestType
<1>5. /\ local[t].resume \o rest \in Seq(Threads)
      /\ \A x : Has(local[t].resume \o rest, x) <=> Has(local[t].resume, x) \/ Has(rest, x)
      /\ Once(local[t].resume) /\ Once(rest) /\ (\A x : ~(Has(local[t].resume, x) /\ Has(rest, x)))
           => Once(local[t].resume \o rest)
  <2> HIDE DEF rest
  <2> DEFINE r == local[t].resume
  <2>1. r \in Seq(Threads) /\ rest \in Seq(Threads)
    BY <1>1, <1>3
  <2> HIDE DEF r
  <2>2. /\ r \o rest \in Seq(Threads)
        /\ \A x : Has(r \o rest, x) <=> Has(r, x) \/ Has(rest, x)
        /\ Once(r) /\ Once(rest) /\ (\A x : ~(Has(r, x) /\ Has(rest, x))) => Once(r \o rest)
    BY <2>1, ConcatHas
  <2> QED
    BY <2>2 DEF r
<1>6. Split(t, list) = [local[t] EXCEPT !.taken = <<>>, !.requeue = requeue,
                                        !.resume = local[t].resume \o rest,
                                        !.earliest = Earliest(local[t].seen, requeue)]
  BY DEF Split
<1> HIDE DEF requeue, rest
<1>7. /\ Split(t, list) \in Locals
      /\ Split(t, list).taken = <<>> /\ Split(t, list).seen = local[t].seen
      /\ Split(t, list).requeue = requeue /\ Split(t, list).resume = local[t].resume \o rest
      /\ Split(t, list).earliest = Earliest(local[t].seen, requeue)
  <2> DEFINE e == Earliest(local[t].seen, requeue)
             z == local[t].resume \o rest
  <2>1. requeue \in Seq(Threads) /\ z \in Seq(Threads) /\ e \in SequenceNumbers /\ local[t] \in Locals
    BY <1>1, <1>2, <1>4, <1>5
  <2>2. Split(t, list) = [local[t] EXCEPT !.taken = <<>>, !.requeue = requeue,
                                          !.resume = z, !.earliest = e]
    BY <1>6
  <2> DEFINE n == Split(t, list)
             r == local[t]
  <2>3. r \in Locals /\ n = [r EXCEPT !.taken = <<>>, !.requeue = requeue, !.resume = z, !.earliest = e]
    BY <2>1, <2>2
  <2> HIDE DEF e, z, n, r
  <2>4. /\ n \in Locals /\ n.taken = <<>> /\ n.seen = r.seen /\ n.requeue = requeue /\ n.resume = z
        /\ n.earliest = e
    <3>1. r = [taken |-> r.taken, requeue |-> r.requeue, resume |-> r.resume,
               seen |-> r.seen, earliest |-> r.earliest]
      BY <2>3 DEF Locals
    <3>2. n = [taken |-> <<>>, requeue |-> requeue, resume |-> z, seen |-> r.seen, earliest |-> e]
      BY <2>3, <3>1
    <3>3. r.seen \in SequenceNumbers /\ <<>> \in Seq(Threads)
      BY <2>3 DEF Locals
    <3> QED
      BY <2>1, <3>2, <3>3 DEF Locals
  <2> QED
    BY <2>4 DEF e, z, n, r
<1> QED
  BY <1>2, <1>3, <1>5, <1>7

LEMMA WaitersTyped ==
  ASSUME OneConsumer, RingTypeOK, NEW b \in Barriers
  PROVE  awaiters[b] \in Seq(Threads)
BY DEF RingTypeOK

\* What is common to all operations: each thread is at one label of its own.
LEMMA Moves ==
  ASSUME RingTypeOK, NEW t \in Threads, NEW l \in Labels
  PROVE  /\ [pc EXCEPT ![t] = l] \in [Threads -> Labels]
         /\ [pc EXCEPT ![t] = l][t] = l
         /\ \A u \in Threads : u # t => [pc EXCEPT ![t] = l][u] = pc[u]
BY DEF RingTypeOK

LEMMA RolesKept ==
  ASSUME OneConsumer, Typed, NEW t \in Threads, NEW l, Goto(t, l), kind' = kind,
         t \in Producers => t \in Working /\ l \in ProducerLabels \cup BarrierLabels
                    \cup (IF kind = "multi" THEN SequencerPublishing ELSE BarrierPublishing),
         t = Reader => l \in ReaderLabels \cup BarrierPublishing
                    \cup (IF kind = "multi" THEN SequencerLabels ELSE BarrierLabels)
  PROVE  pc' \in [Threads -> Labels] /\ Roles'
<1>1. l \in Labels
  BY Parties DEF ProducerLabels, ReaderLabels, BarrierLabels, SequencerLabels, BarrierPublishing,
                 SequencerPublishing, Labels, Adding
<1>2. pc' \in [Threads -> Labels] /\ pc'[t] = l /\ \A u \in Threads : u # t => pc'[u] = pc[u]
  BY <1>1, Moves DEF Goto, Typed
<1>3. Working' = Working
  BY DEF Working
<1>4. \A p \in Producers : p \in Threads /\ p # Reader
  BY Parties
<1>5. ASSUME NEW p \in Producers
      PROVE  pc'[p] \in ProducerLabels \cup BarrierLabels
                    \cup (IF kind' = "multi" THEN SequencerPublishing ELSE BarrierPublishing)
  <2>1. CASE p = t
    BY <1>2, <2>1
  <2>2. CASE p # t
    BY <1>2, <1>4, <2>2 DEF Typed, Roles
  <2> QED
    BY <2>1, <2>2
<1>6. \A p \in Producers \ Working' : pc'[p] = "idle"
  BY <1>2, <1>3, <1>4 DEF Typed, Roles
<1>7. pc'[Reader] \in ReaderLabels \cup BarrierPublishing
                    \cup (IF kind' = "multi" THEN SequencerLabels ELSE BarrierLabels)
  <2>1. CASE t = Reader
    BY <1>2, <2>1
  <2>2. CASE t # Reader
    BY <1>2, <2>2, Parties DEF Typed, Roles
  <2> QED
    BY <2>1, <2>2
<1> QED
  BY <1>2, <1>5, <1>6, <1>7 DEF Roles


\* A thread's locals with one of them changed.
LEMMA LocalsOf ==
  ASSUME RingTypeOK, NEW t \in Threads
  PROVE  /\ local[t] \in Locals /\ NoLocals \in Locals
         /\ \A q \in Seq(Threads) : /\ [local EXCEPT ![t].requeue = q] \in [Threads -> Locals]
                                    /\ [local EXCEPT ![t].resume = q] \in [Threads -> Locals]
         /\ \A s \in SequenceNumbers : [local EXCEPT ![t].seen = s] \in [Threads -> Locals]
         /\ \A r \in Locals : [local EXCEPT ![t] = r] \in [Threads -> Locals]
<1>1. local \in [Threads -> Locals] /\ local[t] \in Locals
  BY DEF RingTypeOK
<1>2. NoLocals \in Locals
  BY Numbers DEF NoLocals, Locals
<1>3. \A q \in Seq(Threads) :
         [local[t] EXCEPT !.requeue = q] \in Locals /\ [local[t] EXCEPT !.resume = q] \in Locals
  BY <1>1 DEF Locals
<1>4. \A s \in SequenceNumbers : [local[t] EXCEPT !.seen = s] \in Locals
  BY <1>1 DEF Locals
<1> QED
  BY <1>1, <1>2, <1>3, <1>4

LEMMA TypedInList ==
  ASSUME OneConsumer, Typed, NEW t \in Threads,
         WaitStep(t, WaitsFor(t)), UNCHANGED <<published, ringVars>>
  PROVE  Typed'
<1> USE DEF ringVars
<1>1. /\ lastPublished' = lastPublished /\ lastPublished' \in [Barriers -> SequenceNumbers]
      /\ WaitsFor(t) \in Barriers /\ awaiters[WaitsFor(t)] \in Seq(Threads)
      /\ local[t].requeue \in Seq(Threads) /\ RingTypeOK /\ local[t] \in Locals
  BY Parties DEF WaitStep, Enqueue, Check, Reacquire, Exchange, Typed, RingTypeOK, Locals, WaitsFor, Barriers
<1>2. kind' = kind /\ pc[t] \in BarrierLabels \cup {"resumeAdded"}
  BY DEF WaitStep, Enqueue, Check, Reacquire, Exchange, BarrierLabels
<1>3. /\ t \in Producers => t \in Working
      /\ t = Reader /\ pc[t] \in BarrierLabels => kind # "multi"
  BY <1>2, Parties DEF Typed, Roles, BarrierLabels, SequencerLabels, ReaderLabels, BarrierPublishing
<1>4. \A l : \/ l \in BarrierLabels \cup {"resumeAdded"} /\ pc[t] \in BarrierLabels
             \/ l \in {"resumed", "suspended"}
      => (Goto(t, l) => pc' \in [Threads -> Labels] /\ Roles')
  <2> SUFFICES ASSUME NEW l, Goto(t, l), \/ l \in BarrierLabels \cup {"resumeAdded"} /\ pc[t] \in BarrierLabels
                                         \/ l \in {"resumed", "suspended"}
               PROVE  pc' \in [Threads -> Labels] /\ Roles'
    OBVIOUS
  <2>1. t \in Producers => l \in ProducerLabels \cup BarrierLabels
    BY DEF ProducerLabels
  <2>2. t = Reader => l \in ReaderLabels \cup (IF kind = "multi" THEN SequencerLabels ELSE BarrierLabels)
    BY <1>3 DEF ReaderLabels
  <2> QED
    BY <1>2, <1>3, <2>1, <2>2, RolesKept
<1>5. CASE Enqueue(t, WaitsFor(t))
  <2>1. awaiters' \in [Barriers -> Seq(Threads)]
    BY <1>1, <1>5 DEF Enqueue, RingTypeOK
  <2>2. local' \in [Threads -> Locals]
    <3>1. <<>> \in Seq(Threads)
      OBVIOUS
    <3> QED
      BY <1>1, <1>5, <3>1, LocalsOf DEF Enqueue
  <2>3. pc' \in [Threads -> Labels] /\ Roles'
    BY <1>4, <1>5 DEF Enqueue, BarrierLabels
  <2> QED
    BY <1>1, <1>5, <2>1, <2>2, <2>3 DEF Enqueue, Typed, RingTypeOK
<1>6. CASE Check(t, WaitsFor(t))
  <2>1. local' \in [Threads -> Locals]
    <3>1. lastPublished[WaitsFor(t)] \in SequenceNumbers
      BY <1>1
    <3> QED
      BY <1>1, <1>6, <3>1, LocalsOf DEF Check
  <2>2. pc' \in [Threads -> Labels] /\ Roles'
    BY <1>4, <1>6 DEF Check, BarrierLabels
  <2> QED
    BY <1>1, <1>6, <2>1, <2>2 DEF Check, Typed, RingTypeOK
<1>7. CASE Reacquire(t, WaitsFor(t))
  <2>1. awaiters' \in [Barriers -> Seq(Threads)]
    BY <1>1, <1>7 DEF Reacquire, RingTypeOK
  <2>2. local' \in [Threads -> Locals]
    BY <1>1, <1>7, SplitIs DEF Reacquire, RingTypeOK
  <2>3. pc' \in [Threads -> Labels] /\ Roles'
    BY <1>4, <1>7 DEF Reacquire, BarrierLabels
  <2> QED
    BY <1>1, <1>7, <2>1, <2>2, <2>3 DEF Reacquire, Typed, RingTypeOK
<1>8. CASE Exchange(t)
  <2>1. local' \in [Threads -> Locals]
    BY <1>1, <1>8, LocalsOf DEF Exchange
  <2>2. op' \in [Threads -> Operations]
    BY <1>1, <1>8 DEF Exchange, RingTypeOK, Operations
  <2>3. pc' \in [Threads -> Labels] /\ Roles'
    BY <1>4, <1>8 DEF Exchange
  <2> QED
    BY <1>1, <1>8, <2>1, <2>2, <2>3 DEF Exchange, Typed, RingTypeOK
<1> QED
  BY <1>5, <1>6, <1>7, <1>8 DEF WaitStep


LEMMA TypedPublishing ==
  ASSUME OneConsumer, Typed, NEW t \in Threads,
         PublishStep(t, PublishesTo(t)), UNCHANGED <<published, ringVars>>
  PROVE  Typed'
<1> USE DEF ringVars
<1>1. /\ PublishesTo(t) \in Barriers /\ awaiters[PublishesTo(t)] \in Seq(Threads)
      /\ local[t].requeue \in Seq(Threads) /\ RingTypeOK /\ local[t] \in Locals /\ <<>> \in Seq(Threads)
  BY Parties DEF Typed, RingTypeOK, Locals, PublishesTo, Barriers
<1>2. kind' = kind /\ pc[t] \in BarrierPublishing \cup {"resumePublished"}
  BY DEF PublishStep, LoadAwaiters, Acquire, Requeue, Published, BarrierPublishing
<1>3. /\ t \in Producers => t \in Working
      /\ t \in Producers /\ pc[t] \in BarrierPublishing => kind # "multi"
  BY <1>2, Parties DEF Typed, Roles, BarrierLabels, SequencerPublishing, ProducerLabels, BarrierPublishing
<1>4. \A l : \/ l \in BarrierPublishing \cup {"resumePublished"} /\ pc[t] \in BarrierPublishing
             \/ l \in {"idle", "resumePublished"}
      => (Goto(t, l) => pc' \in [Threads -> Labels] /\ Roles')
  <2> SUFFICES ASSUME NEW l, Goto(t, l), \/ l \in BarrierPublishing \cup {"resumePublished"} /\ pc[t] \in BarrierPublishing
                                         \/ l \in {"idle", "resumePublished"}
               PROVE  pc' \in [Threads -> Labels] /\ Roles'
    OBVIOUS
  <2>1. t \in Producers => l \in ProducerLabels \cup (IF kind = "multi" THEN SequencerPublishing ELSE BarrierPublishing)
    BY <1>3 DEF ProducerLabels
  <2>2. t = Reader => l \in ReaderLabels \cup BarrierPublishing
    BY DEF ReaderLabels
  <2> QED
    BY <1>2, <1>3, <2>1, <2>2, RolesKept
<1>5. CASE LoadAwaiters(t, PublishesTo(t))
  <2>1. pc' \in [Threads -> Labels] /\ Roles'
    BY <1>4, <1>5 DEF LoadAwaiters, BarrierPublishing
  <2> QED
    BY <1>1, <1>5, <2>1 DEF LoadAwaiters, Typed, RingTypeOK
<1>6. CASE Acquire(t, PublishesTo(t))
  <2>1. awaiters' \in [Barriers -> Seq(Threads)]
    BY <1>1, <1>6 DEF Acquire, RingTypeOK
  <2> DEFINE later == {a \in Threads : Precedes(local[t].seen, op[a].target)}
             q == Among(awaiters[PublishesTo(t)], later)
             r == Among(awaiters[PublishesTo(t)], Threads \ later)
  <2>2. q \in Seq(Threads) /\ r \in Seq(Threads)
    BY <1>1, AmongHas
  <2>3. local' = [local EXCEPT ![t].requeue = q, ![t].resume = r]
    BY <1>6 DEF Acquire
  <2>4. local' \in [Threads -> Locals]
    <3> HIDE DEF q, r
    <3>1. [local[t] EXCEPT !.requeue = q, !.resume = r] \in Locals
      BY <1>1, <2>2 DEF Locals
    <3>2. local' = [local EXCEPT ![t] = [local[t] EXCEPT !.requeue = q, !.resume = r]]
      BY <1>1, <2>3 DEF RingTypeOK
    <3> QED
      BY <1>1, <3>1, <3>2 DEF RingTypeOK
  <2>5. pc' \in [Threads -> Labels] /\ Roles'
    BY <1>4, <1>6 DEF Acquire, BarrierPublishing
  <2> QED
    BY <1>1, <1>6, <2>1, <2>4, <2>5 DEF Acquire, Typed, RingTypeOK
<1>7. CASE Requeue(t, PublishesTo(t))
  <2>1. awaiters' \in [Barriers -> Seq(Threads)]
    BY <1>1, <1>7 DEF Requeue, RingTypeOK
  <2>2. local' \in [Threads -> Locals]
    BY <1>1, <1>7, LocalsOf DEF Requeue
  <2>3. pc' \in [Threads -> Labels] /\ Roles'
    BY <1>4, <1>7 DEF Requeue, BarrierPublishing
  <2> QED
    BY <1>1, <1>7, <2>1, <2>2, <2>3 DEF Requeue, Typed, RingTypeOK
<1>8. CASE Published(t)
  <2>1. local' \in [Threads -> Locals]
    BY <1>1, <1>8, LocalsOf DEF Published
  <2>2. pc' \in [Threads -> Labels] /\ Roles'
    BY <1>4, <1>8 DEF Published
  <2> QED
    BY <1>1, <1>8, <2>1, <2>2 DEF Published, Typed, RingTypeOK
<1> QED
  BY <1>5, <1>6, <1>7, <1>8 DEF PublishStep

\* resume() of a coroutine: what it does to the coroutine.
LEMMA TypedResuming ==
  ASSUME OneConsumer, Typed, NEW t \in Threads,
         ResumeNext(t), UNCHANGED <<published, ringVars>>,
         pc[Head(local[t].resume)] \in {"suspended"} \cup Adding
  PROVE  Typed'
<1> USE DEF ringVars
<1> DEFINE a == Head(local[t].resume)
<1>1. RingTypeOK /\ local[t] \in Locals /\ local[t].resume \in Seq(Threads) /\ local[t].resume # <<>>
  BY DEF Typed, RingTypeOK, Locals, ResumeNext
<1>2. a \in Threads /\ Tail(local[t].resume) \in Seq(Threads) /\ local[t].seen \in SequenceNumbers
  BY <1>1 DEF Locals
<1>3. local' \in [Threads -> Locals]
  <2>1. local' = [local EXCEPT ![t].resume = Tail(local[t].resume)]
    BY <1>1 DEF ResumeNext, RingTypeOK
  <2> QED
    BY <1>1, <1>2, <2>1, LocalsOf
<1>4. op' \in [Threads -> Operations]
  BY <1>1, <1>2 DEF ResumeNext, RingTypeOK, Operations
<1>5. pc' \in [Threads -> Labels] /\ Roles'
  <2>1. CASE UNCHANGED pc
    BY <1>1, <2>1 DEF Typed, Roles, RingTypeOK, Working
  <2>2. CASE Goto(a, "resumed")
    <3>1. a \in Producers => a \in Working
      BY <1>2, Parties DEF Typed, Roles, Adding, BarrierLabels, SequencerLabels
    <3>2. "resumed" \in ProducerLabels /\ "resumed" \in ReaderLabels
      BY DEF ProducerLabels, ReaderLabels
    <3> QED
      BY <1>2, <2>2, <3>1, <3>2, RolesKept
  <2> QED
    BY <2>1, <2>2 DEF ResumeNext
<1> QED
  BY <1>1, <1>3, <1>4, <1>5 DEF ResumeNext, Typed, RingTypeOK

LEMMA TypedInSequencer ==
  ASSUME OneConsumer, Typed, NEW t \in Threads,
         SequencerWaitStep(t), UNCHANGED ringVars
  PROVE  Typed'
<1> USE DEF ringVars
<1>1. /\ RingTypeOK /\ local[t] \in Locals /\ local[t].requeue \in Seq(Threads) /\ <<>> \in Seq(Threads)
      /\ local[t].resume \in Seq(Threads) /\ awaiters["items"] \in Seq(Threads) /\ local[t].seen \in SequenceNumbers
  BY DEF Typed, RingTypeOK, Locals, Barriers
<1>2. kind' = kind /\ t = Reader /\ kind = "multi"
  <2>1. pc[t] \in SequencerLabels
    BY DEF SequencerWaitStep, PutOn, Advance, Retake, SequencerLabels
  <2> QED
    BY <2>1, Parties DEF Typed, Roles, BarrierLabels, SequencerLabels, ReaderLabels, BarrierPublishing,
                         ProducerLabels, SequencerPublishing
<1>3. \A l \in SequencerLabels \cup {"resumeAdded"} : (Goto(t, l) => pc' \in [Threads -> Labels] /\ Roles')
  BY <1>2, Parties, RolesKept DEF ReaderLabels
<1>4. CASE PutOn(t)
  <2>1. awaiters' \in [Barriers -> Seq(Threads)]
    BY <1>1, <1>4 DEF PutOn, RingTypeOK, Barriers
  <2>2. local' \in [Threads -> Locals]
    BY <1>1, <1>4, LocalsOf DEF PutOn
  <2>3. pc' \in [Threads -> Labels] /\ Roles'
    BY <1>3, <1>4 DEF PutOn, SequencerLabels
  <2> QED
    BY <1>1, <1>4, <2>1, <2>2, <2>3 DEF PutOn, Typed, RingTypeOK
<1>5. CASE Advance(t)
  <2>1. local' \in [Threads -> Locals]
    <3>1. Wrap(local[t].seen + 1) \in SequenceNumbers
      BY <1>1, Numbers, WrapType
    <3>2. local' = local \/ local' = [local EXCEPT ![t].seen = Wrap(local[t].seen + 1)]
      BY <1>5 DEF Advance
    <3>3. CASE local' = local
      BY <1>1, <3>3 DEF RingTypeOK
    <3> QED
      BY <1>1, <3>1, <3>2, <3>3, LocalsOf
  <2>2. pc' \in [Threads -> Labels] /\ Roles'
    <3>1. CASE UNCHANGED pc
      BY <1>1, <1>2, <3>1 DEF Typed, Roles, RingTypeOK, Working
    <3>2. CASE pc' # pc
      <4>1. Goto(t, "resumeAdded") \/ Goto(t, "retake")
        BY <1>5, <3>2 DEF Advance
      <4> QED
        BY <1>3, <4>1 DEF SequencerLabels
    <3> QED
      BY <3>1, <3>2
  <2> QED
    BY <1>1, <1>5, <2>1, <2>2 DEF Advance, Typed, RingTypeOK
<1>6. CASE Retake(t)
  <2>1. awaiters' \in [Barriers -> Seq(Threads)]
    BY <1>1, <1>6 DEF Retake, RingTypeOK, Barriers
  <2>2. local' \in [Threads -> Locals]
    <3> DEFINE r == local[t].resume \o awaiters["items"]
    <3>1. r \in Seq(Threads) /\ local' = [local EXCEPT ![t].resume = r]
      BY <1>1, <1>6 DEF Retake, RingTypeOK
    <3> HIDE DEF r
    <3> QED
      BY <1>1, <3>1, LocalsOf
  <2>3. pc' \in [Threads -> Labels] /\ Roles'
    BY <1>3, <1>6 DEF Retake
  <2> QED
    BY <1>1, <1>6, <2>1, <2>2, <2>3 DEF Retake, Typed, RingTypeOK
<1> QED
  BY <1>4, <1>5, <1>6 DEF SequencerWaitStep


LEMMA TypedInSequencerPublishing ==
  ASSUME OneConsumer, Typed, NEW t \in Threads,
         SequencerPublishStep(t), UNCHANGED ringVars
  PROVE  Typed'
<1> USE DEF ringVars
<1>1. /\ RingTypeOK /\ local[t] \in Locals /\ local[t].requeue \in Seq(Threads) /\ <<>> \in Seq(Threads)
      /\ local[t].taken \in Seq(Threads) /\ awaiters["items"] \in Seq(Threads) /\ local[t].seen \in SequenceNumbers
      /\ op \in [Threads -> Operations]
  BY DEF Typed, RingTypeOK, Locals, Barriers
<1>2. kind' = kind /\ t \in Producers /\ kind = "multi" /\ t \in Working
  <2>1. pc[t] \in SequencerPublishing
    BY DEF SequencerPublishStep, Load, Take, Count, PutBack, Verify, SequencerPublishing
  <2> QED
    BY <2>1, Parties DEF Typed, Roles, BarrierLabels, SequencerLabels, ReaderLabels, BarrierPublishing,
                         ProducerLabels, SequencerPublishing
<1>3. \A l \in SequencerPublishing \cup {"resumePublished"} :
         Goto(t, l) => pc' \in [Threads -> Labels] /\ Roles'
  <2> TAKE l \in SequencerPublishing \cup {"resumePublished"}
  <2> HAVE Goto(t, l)
  <2>1. t # Reader
    BY <1>2, Parties
  <2>2. l \in ProducerLabels \cup SequencerPublishing
    BY DEF ProducerLabels
  <2> QED
    BY <1>2, <2>1, <2>2, RolesKept
<1>4. UNCHANGED pc => pc' \in [Threads -> Labels] /\ Roles'
  BY <1>1, <1>2 DEF Typed, Roles, RingTypeOK, Working
<1>5. Wrap(local[t].seen + 1) \in SequenceNumbers
  BY <1>1, Numbers, WrapType
<1>6. CASE Load(t)
  <2>1. pc' \in [Threads -> Labels] /\ Roles'
    BY <1>3, <1>6 DEF Load, SequencerPublishing
  <2> QED
    BY <1>1, <1>6, <2>1 DEF Load, Typed, RingTypeOK
<1>7. CASE Take(t)
  <2>1. pc' \in [Threads -> Labels] /\ Roles'
    BY <1>3, <1>7 DEF Take, SequencerPublishing
  <2>2. CASE awaiters["items"] = <<>>
    BY <1>1, <1>7, <2>1, <2>2 DEF Take, Typed, RingTypeOK
  <2>3. CASE awaiters["items"] # <<>>
    <3> DEFINE a == Head(awaiters["items"])
               k == op[a].known
               q == awaiters["items"]
    <3>1. a \in Threads /\ k \in SequenceNumbers
      BY <1>1, <2>3 DEF Operations
    <3>2. local' = [local EXCEPT ![t].taken = q, ![t].seen = k]
      BY <1>7, <2>3 DEF Take
    <3>3. awaiters' \in [Barriers -> Seq(Threads)]
      BY <1>1, <1>7, <2>3, ZenonT(60) DEF Take, RingTypeOK, Barriers
    <3>4. q \in Seq(Threads) /\ k \in SequenceNumbers
      BY <1>1, <3>1
    <3> HIDE DEF k, q
    <3>5. [local[t] EXCEPT !.taken = q, !.seen = k] \in Locals
      BY <1>1, <3>4 DEF Locals
    <3>6. local' = [local EXCEPT ![t] = [local[t] EXCEPT !.taken = q, !.seen = k]]
      BY <1>1, <3>2 DEF RingTypeOK
    <3>7. local' \in [Threads -> Locals]
      BY <1>1, <3>5, <3>6, LocalsOf
    <3> QED
      BY <1>1, <1>7, <2>1, <2>3, <3>3, <3>7 DEF Take, Typed, RingTypeOK
  <2> QED
    BY <2>2, <2>3
<1>8. CASE Count(t)
  <2>1. CASE IsPublished(Wrap(local[t].seen + 1))
    <3>1. local' = [local EXCEPT ![t].seen = Wrap(local[t].seen + 1)] /\ UNCHANGED <<pc, op, awaiters>>
      BY <1>8, <2>1 DEF Count
    <3>2. local' \in [Threads -> Locals]
      BY <1>1, <1>5, <3>1, LocalsOf
    <3> QED
      BY <1>1, <1>4, <1>8, <3>1, <3>2 DEF Count, Typed, RingTypeOK
  <2>2. CASE ~IsPublished(Wrap(local[t].seen + 1))
    <3>1. pc' \in [Threads -> Labels] /\ Roles'
      BY <1>3, <1>8, <2>2 DEF Count, SequencerPublishing
    <3>2. local' = [local EXCEPT ![t] = Split(t, local[t].taken)]
      BY <1>8, <2>2 DEF Count
    <3>3. Split(t, local[t].taken) \in Locals
      BY <1>1, SplitIs
    <3>4. local' \in [Threads -> Locals]
      BY <1>1, <3>2, <3>3, LocalsOf
    <3>5. op' \in [Threads -> Operations]
      <4>1. op' = [a \in Threads |-> IF a \in ToSet(local[t].taken)
                                     THEN [op[a] EXCEPT !.known = local[t].seen] ELSE op[a]]
        BY <1>8, <2>2 DEF Count
      <4>2. \A a \in Threads : op[a] \in Operations /\ [op[a] EXCEPT !.known = local[t].seen] \in Operations
        BY <1>1 DEF Operations
      <4> QED
        BY <4>1, <4>2
    <3> QED
      BY <1>1, <1>8, <2>2, <3>1, <3>4, <3>5 DEF Count, Typed, RingTypeOK
  <2> QED
    BY <2>1, <2>2
<1>9. CASE PutBack(t)
  <2>1. awaiters' \in [Barriers -> Seq(Threads)]
    BY <1>1, <1>9 DEF PutBack, RingTypeOK, Barriers
  <2>2. local' \in [Threads -> Locals]
    BY <1>1, <1>9, LocalsOf DEF PutBack
  <2>3. pc' \in [Threads -> Labels] /\ Roles'
    BY <1>3, <1>9 DEF PutBack, SequencerPublishing
  <2> QED
    BY <1>1, <1>9, <2>1, <2>2, <2>3 DEF PutBack, Typed, RingTypeOK
<1>10. CASE Verify(t)
  <2>1. pc' \in [Threads -> Labels] /\ Roles'
    <3>1. CASE UNCHANGED pc
      BY <1>4, <3>1
    <3>2. CASE ~UNCHANGED pc
      <4>1. Goto(t, "take") \/ Goto(t, "resumePublished")
        BY <1>10, <3>2 DEF Verify
      <4> QED
        BY <1>3, <4>1 DEF SequencerPublishing
    <3> QED
      BY <3>1, <3>2
  <2>2. local' \in [Threads -> Locals]
    <3>1. CASE local' = local
      BY <1>1, <3>1 DEF RingTypeOK
    <3>2. CASE local' # local
      <4>1. local' = [local EXCEPT ![t].seen = Wrap(local[t].seen + 1)]
        BY <1>10, <3>2 DEF Verify
      <4> QED
        BY <1>1, <1>5, <4>1, LocalsOf
    <3> QED
      BY <3>1, <3>2
  <2> QED
    BY <1>1, <1>10, <2>1, <2>2 DEF Verify, Typed, RingTypeOK
<1> QED
  BY <1>6, <1>7, <1>8, <1>9, <1>10 DEF SequencerPublishStep

LEMMA ClaimSize ==
  ASSUME NEW count \in 1..MaxClaim
  PROVE  LET n == IF kind = "multi" THEN Min({count, BufferSize}) ELSE count
         IN  /\ n \in Int /\ 1 <= n /\ n < Half
             /\ kind = "multi" => n <= BufferSize
BY LeastOfTwo, Sizes, ClaimAssumption

LEMMA TypedInPublication ==
  ASSUME OneConsumer, Typed, NEW t \in Threads, Publish(t) \/ ReleaseSlots(t)
  PROVE  Typed'
<1>1. /\ RingTypeOK /\ local[t] \in Locals /\ local[t].seen \in SequenceNumbers
  BY DEF Typed, RingTypeOK, Locals
<1>2. kind' = kind
  BY DEF Publish, ReleaseSlots, ringVars
<1>3. Wrap(local[t].seen + 1) \in SequenceNumbers
  BY <1>1, Numbers, WrapType
<1>4. \A s \in SequenceNumbers : Slot(s) \in Slots
  <2> TAKE s \in SequenceNumbers
  <2>1. s \in Int /\ Wrap(s) = s
    BY Numbers
  <2>2. Slot(Wrap(s)) \in Slots
    BY <2>1, SlotOf
  <2> QED
    BY <2>1, <2>2
<1>5. UNCHANGED pc => pc' \in [Threads -> Labels] /\ Roles'
  BY <1>1, <1>2 DEF Typed, Roles, RingTypeOK, Working
<1>6. CASE Publish(t)
  <2>1. t \in Producers /\ t # Reader /\ range[t].begin \in SequenceNumbers /\ range[t].end \in SequenceNumbers
    BY <1>1, <1>6, Parties DEF Publish, RingTypeOK
  <2>2. t \in Working
    BY <1>6, <2>1 DEF Publish, PublishRange, Typed, Roles
  <2>3. range' \in [Producers -> [begin : SequenceNumbers, end : SequenceNumbers]]
    BY <1>1, <1>6, <2>1, Numbers DEF Publish, RingTypeOK, NoRange
  <2>4. CASE kind = "multi" /\ PublishRange(t, range[t].begin, range[t].end)
    <3>1. published' \in [Slots -> SequenceNumbers]
      BY <1>1, <1>4, <2>1, <2>4 DEF PublishRange, Store, RingTypeOK
    <3>2. local' \in [Threads -> Locals]
      <4>1. CASE local' = local
        BY <1>1, <4>1 DEF RingTypeOK
      <4>2. CASE local' # local
        <5>1. local' = [local EXCEPT ![t].seen = Wrap(local[t].seen + 1)]
          BY <1>1, <2>4, <4>2 DEF PublishRange, RingTypeOK
        <5> QED
          BY <1>1, <1>3, <5>1, LocalsOf
      <4> QED
        BY <4>1, <4>2
    <3>3. pc' \in [Threads -> Labels] /\ Roles'
      <4>1. CASE Goto(t, "load")
        BY <1>2, <2>1, <2>2, <2>4, <4>1, RolesKept DEF SequencerPublishing
      <4> QED
        BY <1>5, <2>4, <4>1 DEF PublishRange
    <3> QED
      BY <1>1, <1>6, <2>3, <2>4, <3>1, <3>2, <3>3 DEF Publish, PublishRange, Typed, RingTypeOK
  <2>5. CASE kind = "single" /\ PublishSequence(t, "items", Wrap(range[t].end - 1)) /\ UNCHANGED published
    <3> DEFINE s == Wrap(range[t].end - 1)
    <3>1. s \in SequenceNumbers
      BY <2>1, Numbers, WrapType
    <3> HIDE DEF s
    <3>2. local' \in [Threads -> Locals]
      BY <1>1, <2>5, <3>1, LocalsOf DEF PublishSequence, s
    <3>3. lastPublished' \in [Barriers -> SequenceNumbers]
      BY <1>1, <2>5, <3>1 DEF PublishSequence, s, RingTypeOK
    <3>4. pc' \in [Threads -> Labels] /\ Roles'
      BY <1>2, <2>1, <2>2, <2>5, RolesKept DEF PublishSequence, BarrierPublishing
    <3> QED
      BY <1>1, <1>6, <2>3, <2>5, <3>2, <3>3, <3>4 DEF Publish, PublishSequence, Typed, RingTypeOK
  <2> QED
    BY <1>6, <2>4, <2>5 DEF Publish
<1>7. CASE ReleaseSlots(t)
  <2>1. t = Reader /\ t \notin Producers
    BY <1>7, Parties DEF ReleaseSlots, Typed, Roles, ProducerLabels, BarrierLabels, BarrierPublishing,
                         SequencerPublishing
  <2>2. nextToRead[t] \in SequenceNumbers
    BY <1>1, <2>1, Parties DEF RingTypeOK
  <2> DEFINE s == Wrap(nextToRead[t] - 1)
  <2>3. s \in SequenceNumbers
    BY <2>2, Numbers, WrapType
  <2> HIDE DEF s
  <2>4. local' \in [Threads -> Locals]
    BY <1>1, <1>7, <2>3, LocalsOf DEF ReleaseSlots, PublishSequence, s
  <2>5. lastPublished' \in [Barriers -> SequenceNumbers]
    BY <1>1, <1>7, <2>3 DEF ReleaseSlots, PublishSequence, s, RingTypeOK
  <2>6. pc' \in [Threads -> Labels] /\ Roles'
    BY <1>2, <1>7, <2>1, RolesKept DEF ReleaseSlots, PublishSequence, BarrierPublishing
  <2> QED
    BY <1>1, <1>7, <2>4, <2>5, <2>6 DEF ReleaseSlots, PublishSequence, ringVars, Typed, RingTypeOK
<1> QED
  BY <1>6, <1>7


\* The locals of a thread that begins to wait.
WaiterLocals(q, s, e) == [NoLocals EXCEPT !.requeue = q, !.seen = s, !.earliest = e]

LEMMA LocalsOfWaiter ==
  ASSUME NEW q, NEW s, NEW e
  PROVE  WaiterLocals(q, s, e) = [taken |-> <<>>, requeue |-> q, resume |-> <<>>, seen |-> s, earliest |-> e]
<1> DEFINE n == NoLocals
<1>1. /\ n.taken = <<>> /\ n.resume = <<>>
      /\ n = [taken |-> n.taken, requeue |-> n.requeue, resume |-> n.resume,
              seen |-> n.seen, earliest |-> n.earliest]
  BY DEF NoLocals
<1>2. WaiterLocals(q, s, e) = [n EXCEPT !.requeue = q, !.seen = s, !.earliest = e]
  BY DEF WaiterLocals
<1> HIDE DEF n
<1>3. WaiterLocals(q, s, e) = [taken |-> n.taken, requeue |-> q, resume |-> n.resume, seen |-> s, earliest |-> e]
  BY <1>1, <1>2
<1> QED
  BY <1>1, <1>3

LEMMA AwaitTyped ==
  ASSUME OneConsumer, Typed, NEW t \in Threads,
         NEW target \in SequenceNumbers, NEW known \in SequenceNumbers, NEW label \in Labels,
         Await(t, target, known, label), kind' = kind,
         t \in Producers => t \in Working /\ label \in BarrierLabels,
         t = Reader => label \in (IF kind = "multi" THEN SequencerLabels ELSE BarrierLabels)
  PROVE  /\ pc' \in [Threads -> Labels] /\ Roles'
         /\ op' \in [Threads -> Operations] /\ local' \in [Threads -> Locals]
<1>1. RingTypeOK /\ op' \in [Threads -> Operations]
  BY DEF Await, Typed, RingTypeOK, Operations
<1>2. local' \in [Threads -> Locals]
  <2>1. CASE Precedes(known, target)
    <3> DEFINE r == WaiterLocals(<<t>>, known, target)
    <3>1. <<>> \in Seq(Threads) /\ <<t>> \in Seq(Threads) /\ local' = [local EXCEPT ![t] = r]
      BY <2>1 DEF Await, WaiterLocals
    <3>2. r = [taken |-> <<>>, requeue |-> <<t>>, resume |-> <<>>, seen |-> known, earliest |-> target]
      BY LocalsOfWaiter
    <3> HIDE DEF r
    <3>3. r \in Locals
      BY <3>1, <3>2 DEF Locals
    <3> QED
      BY <1>1, <3>1, <3>3, LocalsOf
  <2>2. CASE ~Precedes(known, target)
    BY <1>1, <2>2 DEF Await, RingTypeOK
  <2> QED
    BY <2>1, <2>2
<1>3. Goto(t, label) \/ Goto(t, "resumed")
  BY DEF Await
<1> QED
  BY <1>1, <1>2, <1>3, RolesKept DEF ProducerLabels, ReaderLabels

LEMMA WorkingProduce == Working \subseteq Producers
BY KindAssumption DEF Working

LEMMA TypedInClaim ==
  ASSUME OneConsumer, Typed, NEW t \in Threads, Claim(t)
  PROVE  Typed'
<1>1. /\ RingTypeOK /\ t \in Producers /\ t \in Working /\ t # Reader /\ kind' = kind
  BY Parties, WorkingProduce DEF Claim, Typed
<1>2. PICK count \in 1..MaxClaim :
        LET n == IF kind = "multi" THEN Min({count, BufferSize}) ELSE count
            end == Wrap(nextToClaim + n)
        IN /\ range' = [range EXCEPT ![t] = [begin |-> nextToClaim, end |-> end]]
           /\ nextToClaim' = IF kind = "multi" THEN end ELSE nextToClaim
  BY DEF Claim
<1> DEFINE n == IF kind = "multi" THEN Min({count, BufferSize}) ELSE count
           end == Wrap(nextToClaim + n)
<1>3. n \in Int
  BY ClaimSize
<1> HIDE DEF n
<1>4. end \in SequenceNumbers
  BY <1>1, <1>3, Numbers, WrapType DEF RingTypeOK
<1>5. /\ range' = [range EXCEPT ![t] = [begin |-> nextToClaim, end |-> end]]
      /\ nextToClaim' = IF kind = "multi" THEN end ELSE nextToClaim
  BY <1>2 DEF n
<1> HIDE DEF end
<1>6. /\ range' \in [Producers -> [begin : SequenceNumbers, end : SequenceNumbers]]
      /\ nextToClaim' \in SequenceNumbers
  BY <1>1, <1>4, <1>5 DEF RingTypeOK
<1>7. pc' \in [Threads -> Labels] /\ Roles'
  BY <1>1, RolesKept DEF Claim, ProducerLabels
<1> QED
  BY <1>1, <1>6, <1>7 DEF Claim, Typed, RingTypeOK

LEMMA TypedInAwaits ==
  ASSUME OneConsumer, Typed, NEW t \in Threads, AwaitClaim(t) \/ AwaitItem(t)
  PROVE  Typed'
<1> USE DEF ringVars
<1>1. RingTypeOK /\ Gate \in SequenceNumbers /\ Items \in SequenceNumbers
  BY DEF Typed, RingTypeOK, Gate, Items, Barriers
<1>2. "enqueue" \in Labels /\ "queue" \in Labels
  BY DEF Labels, Adding, BarrierLabels, SequencerLabels
<1>3. CASE AwaitClaim(t)
  <2>1. t \in Producers /\ t \in Working /\ t # Reader
    BY <1>3, Parties DEF AwaitClaim, Typed, Roles, ReaderLabels, BarrierLabels, SequencerLabels,
                         BarrierPublishing
  <2>2. range[t].begin \in Int /\ range[t].end \in Int
    BY <1>1, <2>1, Numbers DEF RingTypeOK
  <2>3. ClaimTarget(t) \in SequenceNumbers
    BY <2>2, Sizes, WrapType DEF ClaimTarget
  <2>4. Await(t, ClaimTarget(t), Gate, "enqueue") /\ kind' = kind
    BY <1>3 DEF AwaitClaim, Gate
  <2>5. /\ pc' \in [Threads -> Labels] /\ Roles'
        /\ op' \in [Threads -> Operations] /\ local' \in [Threads -> Locals]
    BY <1>1, <1>2, <2>1, <2>3, <2>4, AwaitTyped DEF BarrierLabels
  <2> QED
    BY <1>1, <1>3, <2>5 DEF AwaitClaim, Typed, RingTypeOK
<1>4. CASE AwaitItem(t)
  <2>1. t = Reader /\ t \notin Producers
    BY <1>4, Parties DEF AwaitItem
  <2>2. nextToRead[t] \in SequenceNumbers
    BY <1>1, <2>1, Parties DEF RingTypeOK
  <2>3. Wrap(nextToRead[t] - 1) \in SequenceNumbers
    BY <2>2, Numbers, WrapType
  <2>4. kind' = kind
    BY <1>4 DEF AwaitItem
  <2>5. /\ pc' \in [Threads -> Labels] /\ Roles'
        /\ op' \in [Threads -> Operations] /\ local' \in [Threads -> Locals]
    <3>1. CASE kind = "multi"
      <4>1. Await(t, nextToRead[t], Wrap(nextToRead[t] - 1), "queue")
        BY <1>4, <3>1 DEF AwaitItem
      <4> QED
        BY <1>1, <1>2, <2>1, <2>2, <2>3, <2>4, <3>1, <4>1, AwaitTyped DEF SequencerLabels
    <3>2. CASE kind # "multi"
      <4>1. Await(t, nextToRead[t], Items, "enqueue")
        BY <1>4, <3>2 DEF AwaitItem, Items
      <4> QED
        BY <1>1, <1>2, <2>1, <2>2, <2>3, <2>4, <3>2, <4>1, AwaitTyped DEF BarrierLabels
    <3> QED
      BY <3>1, <3>2
  <2> QED
    BY <1>1, <1>4, <2>5 DEF AwaitItem, Typed, RingTypeOK
<1> QED
  BY <1>3, <1>4

LEMMA TypedInWriteAndRead ==
  ASSUME OneConsumer, Typed, NEW t \in Threads, Write(t) \/ Read(t)
  PROVE  Typed'
<1>1. RingTypeOK /\ op' \in [Threads -> Operations] /\ kind' = kind
  <2>1. NoOp \in Operations
    BY Numbers DEF NoOp, Operations
  <2>2. op' = [op EXCEPT ![t] = NoOp] /\ kind' = kind
    BY DEF Write, Read
  <2> QED
    BY <2>1, <2>2 DEF Typed, RingTypeOK
<1>2. t \in Producers => t \in Working
  BY DEF Write, Read, Typed, Roles
<1>3. CASE Write(t)
  <2>1. t \in Producers /\ t # Reader /\ range[t].begin \in SequenceNumbers /\ range[t].end \in SequenceNumbers
    BY <1>1, <1>3, Parties DEF Write, RingTypeOK
  <2> DEFINE r == Claimed(t)
  <2>2. r \in [begin : SequenceNumbers, end : SequenceNumbers]
    <3>1. CASE kind = "multi"
      BY <1>1, <2>1, <3>1 DEF Claimed, RingTypeOK
    <3>2. CASE kind # "multi"
      <4> DEFINE begin == range[t].begin
                 available == Wrap(op[t].known + BufferSize - begin) + 1
                 asked == Wrap(range[t].end - begin)
                 least == Min({asked, available})
      <4>1. begin \in Int /\ op[t].known \in Int /\ range[t].end \in Int
        BY <1>1, <2>1, Numbers DEF RingTypeOK, Operations
      <4>2. asked \in Int /\ available \in Int
        BY <4>1, Sizes, WrapType
      <4> HIDE DEF asked, available
      <4>3. least \in Int
        BY <4>2, LeastOfTwo
      <4>4. r = [begin |-> begin, end |-> Wrap(begin + least)]
        BY <3>2 DEF Claimed, asked, available
      <4> HIDE DEF least, r
      <4>5. Wrap(begin + least) \in SequenceNumbers
        BY <4>1, <4>3, WrapType
      <4> QED
        BY <2>1, <4>4, <4>5
    <3> QED
      BY <3>1, <3>2
  <2> HIDE DEF r
  <2>3. /\ range' = [range EXCEPT ![t] = r]
        /\ nextToClaim' = IF kind = "single" THEN r.end ELSE nextToClaim
        /\ local' = [local EXCEPT ![t].seen = Wrap(r.begin + 1)]
    BY <1>3 DEF Write, r
  <2>4. /\ range' \in [Producers -> [begin : SequenceNumbers, end : SequenceNumbers]]
        /\ nextToClaim' \in SequenceNumbers
    BY <1>1, <2>2, <2>3 DEF RingTypeOK
  <2>5. Wrap(r.begin + 1) \in SequenceNumbers
    BY <2>2, Numbers, WrapType
  <2>6. local' \in [Threads -> Locals]
    BY <1>1, <2>3, <2>5, LocalsOf
  <2>7. buffer' \in [Slots -> SequenceNumbers \cup {Nothing}]
    <3> DEFINE written(i) == {s \in SequenceNumbers :
                                Slot(s) = i /\ Wrap(s - r.begin) < Wrap(r.end - r.begin)}
    <3>1. buffer' = [i \in Slots |-> IF written(i) = {} THEN buffer[i] ELSE CHOOSE s \in written(i) : TRUE]
      BY <1>3 DEF Write, r
    <3>2. \A i \in Slots : written(i) # {} => (CHOOSE s \in written(i) : TRUE) \in SequenceNumbers
      OBVIOUS
    <3> HIDE DEF written
    <3> QED
      BY <1>1, <3>1, <3>2 DEF RingTypeOK
  <2>8. pc' \in [Threads -> Labels] /\ Roles'
    BY <1>1, <1>2, <1>3, <2>1, RolesKept DEF Write, ProducerLabels
  <2> QED
    BY <1>1, <1>3, <2>4, <2>6, <2>7, <2>8 DEF Write, Typed, RingTypeOK
<1>4. CASE Read(t)
  <2>1. t = Reader /\ t \notin Producers /\ t \in Gating
    BY <1>4, Parties DEF Read
  <2>2. op[t].known \in SequenceNumbers
    BY <1>1 DEF RingTypeOK, Operations
  <2>3. Wrap(op[t].known + 1) \in SequenceNumbers
    BY <2>2, Numbers, WrapType
  <2>4. nextToRead' \in [Consumers -> SequenceNumbers]
    BY <1>1, <1>4, <2>3 DEF Read, RingTypeOK
  <2>5. pc' \in [Threads -> Labels] /\ Roles'
    BY <1>1, <1>4, <2>1, RolesKept DEF Read, ReaderLabels
  <2> QED
    BY <1>1, <1>4, <2>4, <2>5 DEF Read, Typed, RingTypeOK
<1> QED
  BY <1>3, <1>4


\* The first numbers of the slots are those of the round before the first one.
LEMMA FirstNumbers ==
  ASSUME NEW i \in Slots
  PROVE  LET s == CHOOSE s \in SequenceNumbers : Slot(s) = i /\ Modulus - s \in 1..BufferSize
         IN  s \in SequenceNumbers /\ Slot(s) = i /\ Modulus - s \in 1..BufferSize
<1>1. PICK f \in Nat \ {0} : Modulus = BufferSize * f
  BY Sizes
<1> DEFINE q == f - 1
           m == BufferSize * q
           s == m + i
<1>2. q \in Int /\ i \in 0..(BufferSize - 1) /\ f = q + 1 /\ m \in Int
  BY <1>1, Sizes DEF Slots
<1>3. Modulus = m + BufferSize
  BY <1>1, <1>2, Sizes
<1>4. BufferSize <= Modulus
  BY Sizes
<1> HIDE DEF m, q
<1>5. s \in SequenceNumbers /\ Modulus - s \in 1..BufferSize /\ s \in Int
  BY <1>2, <1>3, <1>4, Sizes DEF SequenceNumbers
<1>6. s = (BufferSize * q) + i
  BY DEF m
<1> HIDE DEF s
<1>7. Slot(s) = i
  BY <1>2, <1>5, <1>6, Sizes, RemainderIs DEF Slot
<1> QED
  BY <1>5, <1>7

LEMMA FirstTyped ==
  ASSUME OneConsumer, Init
  PROVE  Typed
<1>1. /\ InitialSequence \in SequenceNumbers /\ 0 \in SequenceNumbers
      /\ Wrap(InitialSequence + 1) \in SequenceNumbers
  BY Numbers, WrapType
<1>2. <<>> \in Seq(Threads) /\ NoOp \in Operations /\ NoLocals \in Locals /\ "idle" \in Labels
  BY <1>1 DEF NoOp, Operations, NoLocals, Locals, Labels
<1>3. published \in [Slots -> SequenceNumbers]
  BY FirstNumbers DEF Init, SequencerInit
<1>4. NoRange \in [begin : SequenceNumbers, end : SequenceNumbers]
  BY <1>1 DEF NoRange
<1>5. RingTypeOK
  <2>1. lastPublished \in [Barriers -> SequenceNumbers] /\ awaiters \in [Barriers -> Seq(Threads)]
    BY <1>1, <1>2 DEF Init, BarrierInit
  <2>2. pc \in [Threads -> Labels] /\ op \in [Threads -> Operations] /\ local \in [Threads -> Locals]
    BY <1>2 DEF Init, BarrierInit
  <2>3. kind \in {"single", "multi"}
    BY KindAssumption DEF Init
  <2>4. /\ nextToClaim \in SequenceNumbers
        /\ range \in [Producers -> [begin : SequenceNumbers, end : SequenceNumbers]]
        /\ nextToRead \in [Consumers -> SequenceNumbers]
        /\ buffer \in [Slots -> SequenceNumbers \cup {Nothing}]
    BY <1>1, <1>4 DEF Init
  <2> QED
    BY <1>3, <2>1, <2>2, <2>3, <2>4 DEF RingTypeOK
<1>6. \A t \in Threads : pc[t] = "idle"
  BY DEF Init, BarrierInit
<1>7. Roles
  BY <1>6, Parties DEF Roles, ProducerLabels, ReaderLabels
<1> QED
  BY <1>5, <1>7 DEF Typed


-----------------------------------------------------------------------------
(* Places.                                                                 *)

LEMMA Served ==
  ASSUME OneConsumer, NEW t \in Threads
  PROVE  Serves(t) \in Barriers /\ WaitsFor(t) \in Barriers /\ PublishesTo(t) \in Barriers
BY DEF Serves, WaitsFor, PublishesTo, Barriers

\* A thread arranges anew who is in the stack it serves and on its own lists.
LEMMA HandoverAt ==
  ASSUME OneConsumer, Places, NEW t \in Threads, NEW s \in Barriers,
         \A a \in Threads : (Keeps(t, a) => Serves(t) = s) /\ (Keeps(t, a)' => Serves(t)' = s),
         Tidy(t)', Once(awaiters'[s]),
         \A u \in Threads : u # t => local'[u] = local[u] /\ pc'[u] = pc[u],
         \A a \in Threads : (Waits(a)' <=> Waits(a)) /\ (pc'[a] = "suspended" => op'[a].ready),
         \A b \in Barriers : b # s => awaiters'[b] = awaiters[b],
         \A a \in Threads : /\ Has(awaiters'[s], a) \/ Keeps(t, a)'
                                 <=> Has(awaiters[s], a) \/ Keeps(t, a)
                            /\ ~(Has(awaiters'[s], a) /\ Keeps(t, a)')
  PROVE  Places'
<1>2. \A u \in Threads : u # t => /\ Serves(u)' = Serves(u)
                                  /\ \A a \in Threads : Keeps(u, a)' <=> Keeps(u, a)
                                  /\ Tidy(u)'
  <2> SUFFICES ASSUME NEW u \in Threads, u # t
               PROVE  /\ Serves(u)' = Serves(u)
                      /\ \A a \in Threads : Keeps(u, a)' <=> Keeps(u, a)
                      /\ Tidy(u)'
    OBVIOUS
  <2>1. local'[u] = local[u] /\ pc'[u] = pc[u] /\ Tidy(u)
    BY DEF Places
  <2>2. Serves(u)' = Serves(u)
    BY <2>1 DEF Serves, WaitsFor, PublishesTo
  <2>3. \A a \in Threads : Keeps(u, a)' <=> Keeps(u, a)
    BY <2>1 DEF Keeps
  <2>4. Tidy(u)'
    BY <2>1 DEF Tidy
  <2> QED
    BY <2>2, <2>3, <2>4
<1>3. \A b \in Barriers : Once(awaiters'[b])
  BY DEF Places
<1>4. /\ \A a \in Threads : /\ Has(awaiters'[s], a) \/ Keeps(t, a)'
                                 <=> Has(awaiters[s], a) \/ Keeps(t, a)
                            /\ ~(Has(awaiters'[s], a) /\ Keeps(t, a)')
                            /\ (Keeps(t, a) => Serves(t) = s) /\ (Keeps(t, a)' => Serves(t)' = s)
      /\ \A b \in Barriers : b # s => awaiters'[b] = awaiters[b]
  OBVIOUS
<1>5. ASSUME NEW a \in Threads
      PROVE  Placed(a)'
  <2>1. Placed(a) /\ (Waits(a)' <=> Waits(a)) /\ (pc'[a] = "suspended" => op'[a].ready)
        /\ WaitsFor(a)' = WaitsFor(a) /\ WaitsFor(a) \in Barriers
    BY Served DEF Places, WaitsFor
  <2>2. ASSUME NEW b \in Barriers, Has(awaiters'[b], a)
        PROVE  Waits(a) /\ b = WaitsFor(a) /\ \A u \in Threads : ~Keeps(u, a)'
    <3>1. CASE b # s
      <4>1. Has(awaiters[b], a)
        BY <1>4, <2>2, <3>1
      <4>2. Waits(a) /\ b = WaitsFor(a) /\ \A u \in Threads : ~Keeps(u, a)
        BY <2>1, <4>1 DEF Placed
      <4>3. ~Has(awaiters[s], a)
        BY <2>1, <3>1, <4>2 DEF Placed
      <4> QED
        BY <1>2, <1>4, <4>2, <4>3
    <3>2. CASE b = s
      <4>1. ~Keeps(t, a)' /\ (Has(awaiters[s], a) \/ Keeps(t, a))
        BY <1>4, <2>2, <3>2
      <4>2. CASE Has(awaiters[s], a)
        BY <1>2, <2>1, <3>2, <4>1, <4>2 DEF Placed
      <4>3. CASE Keeps(t, a)
        <5>1. Waits(a) /\ s = WaitsFor(a) /\ \A u \in Threads : Keeps(u, a) => u = t
          BY <1>4, <2>1, <4>3 DEF Placed
        <5> QED
          BY <1>2, <3>2, <4>1, <5>1
      <4> QED
        BY <4>1, <4>2, <4>3
    <3> QED
      BY <3>1, <3>2
  <2>3. ASSUME NEW u \in Threads, Keeps(u, a)'
        PROVE  Waits(a) /\ Serves(u)' = WaitsFor(a) /\ \A v \in Threads : Keeps(v, a)' => v = u
    <3>1. CASE u # t
      <4>1. Keeps(u, a) /\ Serves(u)' = Serves(u)
        BY <1>2, <2>3, <3>1
      <4>2. Waits(a) /\ Serves(u) = WaitsFor(a) /\ \A v \in Threads : Keeps(v, a) => v = u
        BY <2>1, <4>1 DEF Placed
      <4>3. ~Has(awaiters[s], a) /\ ~Keeps(t, a)
        BY <2>1, <3>1, <4>1, <4>2 DEF Placed
      <4> QED
        BY <1>2, <1>4, <3>1, <4>1, <4>2, <4>3
    <3>2. CASE u = t
      <4>1. Has(awaiters[s], a) \/ Keeps(t, a)
        BY <1>4, <2>3, <3>2
      <4>2. Waits(a) /\ s = WaitsFor(a) /\ \A v \in Threads : Keeps(v, a) => v = t
        BY <1>4, <2>1, <4>1 DEF Placed
      <4> QED
        BY <1>2, <1>4, <2>3, <3>2, <4>2
    <3> QED
      BY <3>1, <3>2
  <2>4. ASSUME Waits(a)
        PROVE  Has(awaiters'[WaitsFor(a)], a) \/ \E u \in Threads : Keeps(u, a)'
    <3>1. CASE \E u \in Threads : Keeps(u, a)
      <4>1. PICK u \in Threads : Keeps(u, a)
        BY <3>1
      <4>2. CASE u # t
        BY <1>2, <4>1, <4>2
      <4>3. CASE u = t
        <5>1. s = WaitsFor(a)
          BY <1>4, <2>1, <4>1, <4>3 DEF Placed
        <5> QED
          BY <1>4, <4>1, <4>3, <5>1
      <4> QED
        BY <4>2, <4>3
    <3>2. CASE Has(awaiters[WaitsFor(a)], a)
      BY <1>4, <2>1, <3>2
    <3> QED
      BY <2>1, <2>4, <3>1, <3>2 DEF Placed
  <2> QED
    BY <2>1, <2>2, <2>3, <2>4 DEF Placed
<1> QED
  BY <1>2, <1>3, <1>5 DEF Places

LEMMA Handover ==
  ASSUME OneConsumer, Places, NEW t \in Threads,
         Serves(t)' = Serves(t), Tidy(t)', Once(awaiters[Serves(t)])',
         \A u \in Threads : u # t => local'[u] = local[u] /\ pc'[u] = pc[u],
         \A a \in Threads : (Waits(a)' <=> Waits(a)) /\ (pc'[a] = "suspended" => op'[a].ready),
         \A b \in Barriers : b # Serves(t) => awaiters'[b] = awaiters[b],
         \A a \in Threads : /\ Has(awaiters'[Serves(t)], a) \/ Keeps(t, a)'
                                 <=> Has(awaiters[Serves(t)], a) \/ Keeps(t, a)
                            /\ ~(Has(awaiters'[Serves(t)], a) /\ Keeps(t, a)')
  PROVE  Places'
<1> DEFINE s == Serves(t)
<1>1. s \in Barriers /\ Serves(t)' = s /\ Serves(t) = s
  BY Served
<1> HIDE DEF s
<1>2. Once(awaiters'[s])
  BY <1>1
<1>3. \A a \in Threads : (Keeps(t, a) => Serves(t) = s) /\ (Keeps(t, a)' => Serves(t)' = s)
  BY <1>1
<1> QED
  BY <1>1, <1>2, <1>3, HandoverAt

-----------------------------------------------------------------------------
(* What the steps of the library's calls do.                               *)

\* Nothing changes but the thread's own label and locals, which become these,
\* and the stack of a barrier.
OnlyOf(t) == \A u \in Threads : u # t => pc'[u] = pc[u] /\ local'[u] = local[u]
Moved(t, from, to) == pc[t] = from /\ pc'[t] = to /\ OnlyOf(t)
Lists(t, taken, requeue, resume) ==
    local'[t].taken = taken /\ local'[t].requeue = requeue /\ local'[t].resume = resume
Sees(t, seen, earliest) == local'[t].seen = seen /\ local'[t].earliest = earliest
Stack(b, list) == awaiters'[b] = list /\ \A c \in Barriers : c # b => awaiters'[c] = awaiters[c]
Same(t) == Lists(t, local[t].taken, local[t].requeue, local[t].resume)

LEMMA LocalStep ==
  ASSUME Typed, NEW t \in Threads
  PROVE  /\ \A l : Goto(t, l) => pc'[t] = l /\ \A u \in Threads : u # t => pc'[u] = pc[u]
         /\ \A q : local' = [local EXCEPT ![t].requeue = q]
               => /\ \A u \in Threads : u # t => local'[u] = local[u]
                  /\ Lists(t, local[t].taken, q, local[t].resume) /\ Sees(t, local[t].seen, local[t].earliest)
         /\ \A q : local' = [local EXCEPT ![t].resume = q]
               => /\ \A u \in Threads : u # t => local'[u] = local[u]
                  /\ Lists(t, local[t].taken, local[t].requeue, q) /\ Sees(t, local[t].seen, local[t].earliest)
         /\ \A s : local' = [local EXCEPT ![t].seen = s]
               => /\ \A u \in Threads : u # t => local'[u] = local[u]
                  /\ Same(t) /\ Sees(t, s, local[t].earliest)
         /\ local' = local => (\A u \in Threads : u # t => local'[u] = local[u])
                  /\ Same(t) /\ Sees(t, local[t].seen, local[t].earliest)
         /\ local' = [local EXCEPT ![t] = NoLocals]
               => /\ \A u \in Threads : u # t => local'[u] = local[u]
                  /\ Lists(t, <<>>, <<>>, <<>>)
         /\ \A r : local' = [local EXCEPT ![t] = r]
               => /\ \A u \in Threads : u # t => local'[u] = local[u]
                  /\ local'[t] = r
<1>1. pc \in [Threads -> Labels] /\ local \in [Threads -> Locals] /\ local[t] \in Locals
  BY DEF Typed, RingTypeOK
<1> USE DEF Lists, Sees, Same
<1>2. \A l : Goto(t, l) => pc'[t] = l /\ \A u \in Threads : u # t => pc'[u] = pc[u]
  BY <1>1 DEF Goto
<1>3. \A q : local' = [local EXCEPT ![t].requeue = q]
               => /\ \A u \in Threads : u # t => local'[u] = local[u]
                  /\ Lists(t, local[t].taken, q, local[t].resume) /\ Sees(t, local[t].seen, local[t].earliest)
  BY <1>1 DEF Locals
<1>4. \A q : local' = [local EXCEPT ![t].resume = q]
               => /\ \A u \in Threads : u # t => local'[u] = local[u]
                  /\ Lists(t, local[t].taken, local[t].requeue, q) /\ Sees(t, local[t].seen, local[t].earliest)
  BY <1>1 DEF Locals
<1>5. \A s : local' = [local EXCEPT ![t].seen = s]
               => /\ \A u \in Threads : u # t => local'[u] = local[u]
                  /\ Same(t) /\ Sees(t, s, local[t].earliest)
  BY <1>1 DEF Locals
<1>6. \A r : local' = [local EXCEPT ![t] = r]
               => /\ \A u \in Threads : u # t => local'[u] = local[u]
                  /\ local'[t] = r
  BY <1>1
<1>7. local' = [local EXCEPT ![t] = NoLocals]
               => /\ \A u \in Threads : u # t => local'[u] = local[u]
                  /\ Lists(t, <<>>, <<>>, <<>>)
  BY <1>1 DEF NoLocals
<1> QED
  BY <1>2, <1>3, <1>4, <1>5, <1>6, <1>7

LEMMA StackStep ==
  ASSUME Typed, NEW b \in Barriers, NEW q, awaiters' = [awaiters EXCEPT ![b] = q]
  PROVE  Stack(b, q)
BY DEF Typed, RingTypeOK, Stack

\* Lists are put on a stack.
LEMMA PutIs ==
  ASSUME Typed, NEW t \in Threads, NEW b \in Barriers,
         Enqueue(t, b) \/ Requeue(t, b) \/ (b = "items" /\ (PutOn(t) \/ PutBack(t)))
  PROVE  /\ Stack(b, local[t].requeue \o awaiters[b]) /\ op' = op /\ lastPublished' = lastPublished
         /\ Lists(t, local[t].taken, <<>>, local[t].resume) /\ Sees(t, local[t].seen, local[t].earliest)
         /\ \/ Enqueue(t, b) /\ Moved(t, "enqueue", "check")
            \/ Requeue(t, b) /\ Moved(t, "requeue", "resumePublished")
            \/ PutOn(t) /\ Moved(t, "queue", "advance")
            \/ PutBack(t) /\ Moved(t, "putBack", "verify")
<1>1. /\ awaiters' = [awaiters EXCEPT ![b] = local[t].requeue \o awaiters[b]]
      /\ local' = [local EXCEPT ![t].requeue = <<>>]
      /\ op' = op /\ lastPublished' = lastPublished
  BY DEF Enqueue, Requeue, PutOn, PutBack, Typed, RingTypeOK
<1>2. \/ Enqueue(t, b) /\ pc[t] = "enqueue" /\ Goto(t, "check")
      \/ Requeue(t, b) /\ pc[t] = "requeue" /\ Goto(t, "resumePublished")
      \/ PutOn(t) /\ pc[t] = "queue" /\ Goto(t, "advance")
      \/ PutBack(t) /\ pc[t] = "putBack" /\ Goto(t, "verify")
  BY DEF Enqueue, Requeue, PutOn, PutBack
<1> QED
  BY <1>1, <1>2, LocalStep, StackStep DEF Moved, OnlyOf

\* A stack is taken.
LEMMA ReacquireIs ==
  ASSUME Typed, NEW t \in Threads, NEW b \in Barriers, Reacquire(t, b)
  PROVE  /\ Stack(b, <<>>) /\ op' = op /\ lastPublished' = lastPublished
         /\ local'[t] = Split(t, awaiters[b])
         /\ Moved(t, "reacquire", IF local'[t].requeue = <<>> THEN "resumeAdded" ELSE "enqueue")
BY LocalStep, StackStep, ZenonT(60) DEF Reacquire, Moved, OnlyOf

LEMMA AcquireIs ==
  ASSUME Typed, NEW t \in Threads, NEW b \in Barriers, Acquire(t, b)
  PROVE  /\ Stack(b, <<>>) /\ op' = op /\ lastPublished' = lastPublished
         /\ LET later == {a \in Threads : Precedes(local[t].seen, op[a].target)} IN
              Lists(t, local[t].taken, Among(awaiters[b], later), Among(awaiters[b], Threads \ later))
         /\ Sees(t, local[t].seen, local[t].earliest)
         /\ Moved(t, "acquire", IF local'[t].requeue = <<>> THEN "resumePublished" ELSE "requeue")
<1> DEFINE later == {a \in Threads : Precedes(local[t].seen, op[a].target)}
           q == Among(awaiters[b], later)
           r == Among(awaiters[b], Threads \ later)
<1>1. local' = [local EXCEPT ![t].requeue = q, ![t].resume = r]
  BY DEF Acquire
<1> HIDE DEF q, r
<1>2. /\ \A u \in Threads : u # t => local'[u] = local[u]
      /\ Lists(t, local[t].taken, q, r) /\ Sees(t, local[t].seen, local[t].earliest)
  <2>1. local \in [Threads -> Locals] /\ local[t] \in Locals
    BY DEF Typed, RingTypeOK
  <2> QED
    BY <1>1, <2>1 DEF Lists, Sees, Locals
<1>3. Goto(t, IF local'[t].requeue = <<>> THEN "resumePublished" ELSE "requeue") /\ pc[t] = "acquire"
      /\ op' = op /\ lastPublished' = lastPublished /\ awaiters' = [awaiters EXCEPT ![b] = <<>>]
  BY DEF Acquire
<1>4. Stack(b, <<>>)
  BY <1>3, StackStep
<1>5. Moved(t, "acquire", IF local'[t].requeue = <<>> THEN "resumePublished" ELSE "requeue")
  BY <1>2, <1>3, LocalStep DEF Moved, OnlyOf
<1> QED
  BY <1>2, <1>3, <1>4, <1>5 DEF q, r

LEMMA RetakeIs ==
  ASSUME Typed, NEW t \in Threads, Retake(t)
  PROVE  /\ Stack("items", <<>>) /\ op' = op /\ lastPublished' = lastPublished /\ published' = published
         /\ Lists(t, local[t].taken, local[t].requeue, local[t].resume \o awaiters["items"])
         /\ Sees(t, local[t].seen, local[t].earliest)
         /\ Moved(t, "retake", "resumeAdded")
<1> DEFINE r == local[t].resume \o awaiters["items"]
<1>1. local' = [local EXCEPT ![t].resume = r]
  BY DEF Retake, Typed, RingTypeOK
<1> HIDE DEF r
<1>2. /\ \A u \in Threads : u # t => local'[u] = local[u]
      /\ Lists(t, local[t].taken, local[t].requeue, r) /\ Sees(t, local[t].seen, local[t].earliest)
  BY <1>1, LocalStep
<1>3. "items" \in Barriers /\ awaiters' = [awaiters EXCEPT !["items"] = <<>>]
      /\ op' = op /\ lastPublished' = lastPublished /\ published' = published
      /\ pc[t] = "retake" /\ Goto(t, "resumeAdded")
  BY DEF Retake, Barriers
<1>4. Stack("items", <<>>)
  BY <1>3, StackStep
<1> QED
  BY <1>2, <1>3, <1>4, LocalStep DEF Moved, OnlyOf, r

LEMMA TakeIs ==
  ASSUME Typed, NEW t \in Threads, Take(t)
  PROVE  /\ op' = op /\ lastPublished' = lastPublished /\ published' = published
         /\ awaiters["items"] = <<>> =>
              /\ awaiters' = awaiters /\ Same(t) /\ Sees(t, local[t].seen, local[t].earliest)
              /\ Moved(t, "take", "resumePublished")
         /\ awaiters["items"] # <<>> =>
              /\ Stack("items", <<>>) /\ Lists(t, awaiters["items"], local[t].requeue, local[t].resume)
              /\ Sees(t, op[Head(awaiters["items"])].known, local[t].earliest)
              /\ Moved(t, "take", "count")
<1>1. op' = op /\ lastPublished' = lastPublished /\ published' = published /\ pc[t] = "take"
  BY DEF Take
<1>2. CASE awaiters["items"] = <<>>
  <2>1. awaiters' = awaiters /\ local' = local /\ Goto(t, "resumePublished")
    BY <1>2 DEF Take
  <2>2. Same(t) /\ Sees(t, local[t].seen, local[t].earliest) /\ Moved(t, "take", "resumePublished")
    BY <1>1, <2>1, LocalStep DEF Moved, OnlyOf
  <2> QED
    BY <1>1, <1>2, <2>1, <2>2
<1>3. CASE awaiters["items"] # <<>>
  <2> DEFINE q == awaiters["items"]
             k == op[Head(awaiters["items"])].known
  <2>1. /\ local' = [local EXCEPT ![t].taken = q, ![t].seen = k] /\ Goto(t, "count")
        /\ "items" \in Barriers /\ awaiters' = [awaiters EXCEPT !["items"] = <<>>]
    BY <1>3 DEF Take, Barriers
  <2> HIDE DEF q, k
  <2>2. /\ \A u \in Threads : u # t => local'[u] = local[u]
        /\ Lists(t, q, local[t].requeue, local[t].resume) /\ Sees(t, k, local[t].earliest)
    <3>1. local \in [Threads -> Locals] /\ local[t] \in Locals
      BY DEF Typed, RingTypeOK
    <3> QED
      BY <2>1, <3>1 DEF Lists, Sees, Locals
  <2>3. Stack("items", <<>>)
    BY <2>1, StackStep
  <2>4. Moved(t, "take", "count")
    BY <1>1, <2>1, <2>2, LocalStep DEF Moved, OnlyOf
  <2> QED
    BY <1>1, <1>3, <2>2, <2>3, <2>4 DEF q, k
<1> QED
  BY <1>2, <1>3


LEMMA CountIs ==
  ASSUME Typed, NEW t \in Threads, Count(t)
  PROVE  /\ awaiters' = awaiters /\ lastPublished' = lastPublished /\ published' = published
         /\ IsPublished(Wrap(local[t].seen + 1)) =>
              /\ op' = op /\ Same(t) /\ Sees(t, Wrap(local[t].seen + 1), local[t].earliest)
              /\ Moved(t, "count", "count")
         /\ ~IsPublished(Wrap(local[t].seen + 1)) =>
              /\ \A a \in Threads : /\ op'[a].target = op[a].target /\ op'[a].ready = op[a].ready
                                    /\ op'[a].known = IF Has(local[t].taken, a) THEN local[t].seen ELSE op[a].known
              /\ local'[t] = Split(t, local[t].taken)
              /\ Moved(t, "count", IF local'[t].requeue = <<>> THEN "resumePublished" ELSE "putBack")
<1>1. awaiters' = awaiters /\ lastPublished' = lastPublished /\ published' = published /\ pc[t] = "count"
  BY DEF Count
<1>2. CASE IsPublished(Wrap(local[t].seen + 1))
  <2>1. op' = op /\ pc' = pc /\ local' = [local EXCEPT ![t].seen = Wrap(local[t].seen + 1)]
    BY <1>2 DEF Count
  <2>2. Same(t) /\ Sees(t, Wrap(local[t].seen + 1), local[t].earliest) /\ Moved(t, "count", "count")
    BY <1>1, <2>1, LocalStep DEF Moved, OnlyOf
  <2> QED
    BY <1>1, <1>2, <2>1, <2>2
<1>3. CASE ~IsPublished(Wrap(local[t].seen + 1))
  <2>1. /\ local' = [local EXCEPT ![t] = Split(t, local[t].taken)]
        /\ op' = [a \in Threads |-> IF a \in ToSet(local[t].taken)
                            THEN [op[a] EXCEPT !.known = local[t].seen] ELSE op[a]]
        /\ Goto(t, IF local'[t].requeue = <<>> THEN "resumePublished" ELSE "putBack")
    BY <1>3 DEF Count
  <2>2. local'[t] = Split(t, local[t].taken)
        /\ Moved(t, "count", IF local'[t].requeue = <<>> THEN "resumePublished" ELSE "putBack")
    BY <1>1, <2>1, LocalStep DEF Moved, OnlyOf
  <2>3. ASSUME NEW a \in Threads
        PROVE  /\ op'[a].target = op[a].target /\ op'[a].ready = op[a].ready
               /\ op'[a].known = IF Has(local[t].taken, a) THEN local[t].seen ELSE op[a].known
    <3>1. op[a] \in Operations /\ local[t].taken \in Seq(Threads)
      BY DEF Typed, RingTypeOK, Locals
    <3>2. a \in ToSet(local[t].taken) <=> Has(local[t].taken, a)
      BY <3>1, HasIsInSet
    <3>3. op'[a] = IF Has(local[t].taken, a) THEN [op[a] EXCEPT !.known = local[t].seen] ELSE op[a]
      BY <2>1, <3>2
    <3> QED
      BY <3>1, <3>3 DEF Operations
  <2> QED
    BY <1>1, <1>3, <2>2, <2>3
<1> QED
  BY <1>2, <1>3

\* The steps that only look or move on.
LEMMA CheckIs ==
  ASSUME Typed, NEW t \in Threads, NEW b \in Barriers, Check(t, b)
  PROVE  /\ awaiters' = awaiters /\ op' = op /\ lastPublished' = lastPublished
         /\ Same(t) /\ Sees(t, lastPublished[b], local[t].earliest)
         /\ Moved(t, "check", IF Precedes(lastPublished[b], local[t].earliest) THEN "resumeAdded" ELSE "reacquire")
BY LocalStep DEF Check, Moved, OnlyOf

LEMMA ExchangeIs ==
  ASSUME Typed, NEW t \in Threads, Exchange(t)
  PROVE  /\ awaiters' = awaiters /\ lastPublished' = lastPublished
         /\ \A a \in Threads : /\ op'[a].target = op[a].target /\ op'[a].known = op[a].known
                               /\ a # t => op'[a].ready = op[a].ready
         /\ op'[t].ready /\ local[t].resume = <<>> /\ Lists(t, <<>>, <<>>, <<>>)
         /\ Moved(t, "resumeAdded", IF op[t].ready THEN "resumed" ELSE "suspended")
<1>1. op \in [Threads -> Operations]
  BY DEF Typed, RingTypeOK
<1>2. \A a \in Threads : /\ op'[a].target = op[a].target /\ op'[a].known = op[a].known
                         /\ a # t => op'[a].ready = op[a].ready
                         /\ op'[t].ready
  BY <1>1 DEF Exchange, Operations
<1> QED
  BY <1>2, LocalStep, ZenonT(60) DEF Exchange, Moved, OnlyOf

LEMMA PublishedIs ==
  ASSUME Typed, NEW t \in Threads, Published(t)
  PROVE  /\ awaiters' = awaiters /\ op' = op /\ lastPublished' = lastPublished
         /\ local[t].resume = <<>> /\ Lists(t, <<>>, <<>>, <<>>) /\ Moved(t, "resumePublished", "idle")
BY LocalStep DEF Published, Moved, OnlyOf

LEMMA LoadIs ==
  ASSUME Typed, NEW t \in Threads, NEW b \in Barriers,
         LoadAwaiters(t, b) \/ (b = "items" /\ Load(t))
  PROVE  /\ awaiters' = awaiters /\ op' = op /\ lastPublished' = lastPublished
         /\ Same(t) /\ Sees(t, local[t].seen, local[t].earliest)
         /\ \/ LoadAwaiters(t, b) /\ Moved(t, "loadAwaiters", IF awaiters[b] = <<>> THEN "resumePublished" ELSE "acquire")
            \/ Load(t) /\ Moved(t, "load", IF awaiters[b] = <<>> THEN "resumePublished" ELSE "take")
BY LocalStep DEF LoadAwaiters, Load, Moved, OnlyOf

LEMMA AdvanceIs ==
  ASSUME Typed, NEW t \in Threads, Advance(t)
  PROVE  /\ awaiters' = awaiters /\ op' = op /\ lastPublished' = lastPublished /\ published' = published
         /\ Same(t)
         /\ IsPublished(Wrap(local[t].seen + 1)) =>
              Sees(t, Wrap(local[t].seen + 1), local[t].earliest) /\ Moved(t, "advance", "advance")
         /\ ~IsPublished(Wrap(local[t].seen + 1)) =>
              /\ Sees(t, local[t].seen, local[t].earliest)
              /\ Moved(t, "advance", IF Precedes(local[t].seen, local[t].earliest) THEN "resumeAdded" ELSE "retake")
BY LocalStep DEF Advance, Moved, OnlyOf

LEMMA VerifyIs ==
  ASSUME Typed, NEW t \in Threads, Verify(t)
  PROVE  /\ awaiters' = awaiters /\ op' = op /\ lastPublished' = lastPublished /\ published' = published
         /\ Same(t)
         /\ IsPublished(Wrap(local[t].seen + 1)) =>
              /\ Sees(t, Wrap(local[t].seen + 1), local[t].earliest)
              /\ Moved(t, "verify", IF Wrap(local[t].seen + 1) = local[t].earliest THEN "take" ELSE "verify")
         /\ ~IsPublished(Wrap(local[t].seen + 1)) =>
              Sees(t, local[t].seen, local[t].earliest) /\ Moved(t, "verify", "resumePublished")
BY LocalStep DEF Verify, Moved, OnlyOf

\* resume(): the coroutine goes on, or has not been suspended yet.
LEMMA ResumeNextIs ==
  ASSUME Typed, NEW t \in Threads, ResumeNext(t)
  PROVE  /\ awaiters' = awaiters /\ lastPublished' = lastPublished
         /\ pc[t] \in {"resumeAdded", "resumePublished"} /\ local[t].resume # <<>>
         /\ \A u \in Threads : u # t => local'[u] = local[u]
         /\ Lists(t, local[t].taken, local[t].requeue, Tail(local[t].resume))
         /\ Sees(t, local[t].seen, local[t].earliest)
         /\ LET a == Head(local[t].resume) IN
              /\ a \in Threads
              /\ \A u \in Threads : /\ op'[u].target = op[u].target
                                    /\ u # a => op'[u] = op[u] /\ pc'[u] = pc[u]
              /\ op'[a].known = local[t].seen /\ op'[a].ready
              /\ pc'[a] = IF op[a].ready THEN "resumed" ELSE pc[a]
<1> DEFINE a == Head(local[t].resume)
           r == Tail(local[t].resume)
<1>1. /\ op \in [Threads -> Operations] /\ pc \in [Threads -> Labels]
      /\ local[t].resume \in Seq(Threads) /\ local[t].resume # <<>>
  BY DEF Typed, RingTypeOK, Locals, ResumeNext
<1>2. a \in Threads
  BY <1>1
<1>3. /\ op' = [op EXCEPT ![a].known = local[t].seen, ![a].ready = TRUE]
      /\ pc' = IF op[a].ready THEN [pc EXCEPT ![a] = "resumed"] ELSE pc
      /\ awaiters' = awaiters /\ lastPublished' = lastPublished
      /\ pc[t] \in {"resumeAdded", "resumePublished"}
  BY DEF ResumeNext, Goto
<1>4. local' = [local EXCEPT ![t].resume = r]
  BY DEF ResumeNext, Typed, RingTypeOK
<1> HIDE DEF a, r
<1>5. \A u \in Threads : /\ op'[u].target = op[u].target
                         /\ u # a => op'[u] = op[u] /\ pc'[u] = pc[u]
  BY <1>1, <1>2, <1>3 DEF Operations
<1>6. op'[a].known = local[t].seen /\ op'[a].ready
  BY <1>1, <1>2, <1>3 DEF Operations
<1>7. pc'[a] = IF op[a].ready THEN "resumed" ELSE pc[a]
  BY <1>1, <1>2, <1>3
<1>8. /\ \A u \in Threads : u # t => local'[u] = local[u]
      /\ Lists(t, local[t].taken, local[t].requeue, r) /\ Sees(t, local[t].seen, local[t].earliest)
  BY <1>4, LocalStep
<1> QED
  BY <1>1, <1>2, <1>3, <1>5, <1>6, <1>7, <1>8 DEF a, r


-----------------------------------------------------------------------------
(* A step keeps everybody's place.                                         *)

LEMMA SameWaits ==
  ASSUME Places, NEW t \in Threads,
         \A u \in Threads : u # t => pc'[u] = pc[u] /\ op'[u].ready = op[u].ready,
         pc[t] # "suspended", pc'[t] # "suspended", pc[t] \in Adding <=> pc'[t] \in Adding,
         pc[t] \in Adding => op'[t].ready = op[t].ready
  PROVE  /\ Serves(t)' = Serves(t)
         /\ \A a \in Threads : (Waits(a)' <=> Waits(a)) /\ (pc'[a] = "suspended" => op'[a].ready)
<1>1. Serves(t)' = Serves(t)
  BY DEF Serves, WaitsFor, PublishesTo
<1>2. ASSUME NEW a \in Threads
      PROVE  (Waits(a)' <=> Waits(a)) /\ (pc'[a] = "suspended" => op'[a].ready)
  <2>1. pc[a] = "suspended" => op[a].ready
    BY DEF Places, Placed
  <2>2. CASE a = t
    BY <2>2 DEF Waits
  <2>3. CASE a # t
    BY <2>1, <2>3 DEF Waits
  <2> QED
    BY <2>2, <2>3
<1> QED
  BY <1>1, <1>2

\* The labels of the lists that are in use.
Fits(t) == /\ local[t].taken # <<>> => pc'[t] = "count"
           /\ local[t].requeue # <<>> => pc'[t] \in RequeueLabels
           /\ local[t].resume # <<>> => pc'[t] \in ResumeLabels

LEMMA PlacesKept ==
  ASSUME OneConsumer, Places, NEW t \in Threads, OnlyOf(t), awaiters' = awaiters, Same(t), Fits(t),
         Serves(t)' = Serves(t),
         \A a \in Threads : (Waits(a)' <=> Waits(a)) /\ (pc'[a] = "suspended" => op'[a].ready)
  PROVE  Places'
<1>1. \A a \in Threads : Keeps(t, a)' <=> Keeps(t, a)
  BY DEF Same, Lists, Keeps
<1>2. Serves(t) \in Barriers
  BY Served
<1>3. Once(awaiters[Serves(t)])'
  <2> DEFINE s == Serves(t)
  <2>1. Once(awaiters[s]) /\ Serves(t)' = s
    BY <1>2 DEF Places
  <2> HIDE DEF s
  <2> QED
    BY <2>1
<1>4. Tidy(t)'
  BY DEF Places, Tidy, Same, Lists, Fits
<1>5. \A a \in Threads : ~(Has(awaiters[Serves(t)], a) /\ Keeps(t, a))
  BY <1>2 DEF Places, Placed
<1> QED
  BY <1>1, <1>3, <1>4, <1>5, Handover DEF OnlyOf

LEMMA TidyLists ==
  ASSUME Typed, Places, NEW t \in Threads
  PROVE  /\ pc[t] # "count" => local[t].taken = <<>>
         /\ pc[t] \notin RequeueLabels => local[t].requeue = <<>>
         /\ pc[t] \notin ResumeLabels => local[t].resume = <<>>
         /\ local[t].taken \in Seq(Threads) /\ local[t].requeue \in Seq(Threads)
         /\ local[t].resume \in Seq(Threads)
         /\ \A b \in Barriers : awaiters[b] \in Seq(Threads)
         /\ Once(local[t].taken) /\ Once(local[t].requeue) /\ Once(local[t].resume)
         /\ \A b \in Barriers : Once(awaiters[b])
BY DEF Places, Tidy, Typed, RingTypeOK, Locals

LEMMA EmptyHas == Once(<<>>) /\ \A x : ~Has(<<>>, x)
BY DEF Has, Once

LEMMA PlacesInPut ==
  ASSUME OneConsumer, Typed, Places, NEW t \in Threads, NEW b \in Barriers, b = Serves(t),
         Enqueue(t, b) \/ Requeue(t, b) \/ (b = "items" /\ (PutOn(t) \/ PutBack(t)))
  PROVE  Places'
<1> DEFINE q == local[t].requeue
           w == awaiters[b]
           z == q \o w
<1>1. /\ Stack(b, z) /\ op' = op /\ Lists(t, local[t].taken, <<>>, local[t].resume)
      /\ \/ Moved(t, "enqueue", "check")
         \/ Moved(t, "requeue", "resumePublished")
         \/ Moved(t, "queue", "advance")
         \/ Moved(t, "putBack", "verify")
  BY PutIs
<1>2. /\ q \in Seq(Threads) /\ w \in Seq(Threads) /\ Once(q) /\ Once(w)
      /\ \A a : ~(Has(q, a) /\ Has(w, a))
      /\ local[t].taken = <<>>
  <2>1. \A a \in Threads : ~(Has(q, a) /\ Has(w, a))
    BY DEF Places, Placed, Keeps
  <2>2. \A a : Has(q, a) => a \in Threads
    BY TidyLists DEF Has
  <2> QED
    BY <1>1, <2>1, <2>2, TidyLists DEF Moved
<1> HIDE DEF q, w
<1>3. Once(z) /\ \A a : Has(z, a) <=> Has(q, a) \/ Has(w, a)
  BY <1>2, ConcatHas
<1> HIDE DEF z
<1>4. /\ Serves(t)' = Serves(t)
      /\ \A a \in Threads : (Waits(a)' <=> Waits(a)) /\ (pc'[a] = "suspended" => op'[a].ready)
  <2>1. pc[t] # "suspended" /\ pc'[t] # "suspended" /\ (pc[t] \in Adding <=> pc'[t] \in Adding)
    BY <1>1 DEF Moved, Adding, BarrierLabels, SequencerLabels
  <2> QED
    BY <1>1, <2>1, SameWaits DEF Moved, OnlyOf
<1>5. Tidy(t)'
  <2>1. pc[t] \in ResumeLabels => pc'[t] \in ResumeLabels
    BY <1>1 DEF Moved, ResumeLabels, BarrierLabels
  <2>2. Tidy(t)
    BY DEF Places
  <2> QED
    BY <1>1, <1>2, <2>1, <2>2, EmptyHas DEF Tidy, Lists
<1>6. \A a \in Threads : /\ Keeps(t, a) <=> Has(q, a) \/ Has(local[t].resume, a)
                         /\ Keeps(t, a)' <=> Has(local[t].resume, a)
  BY <1>1, <1>2, EmptyHas DEF Keeps, Lists, q
<1>7. \A a \in Threads : /\ Has(local[t].resume, a) => ~Has(q, a) /\ ~Has(w, a)
  BY DEF Places, Placed, Tidy, Keeps, q, w
<1> QED
  BY <1>1, <1>3, <1>4, <1>5, <1>6, <1>7, Handover DEF Stack, OnlyOf, Moved, w


LEMMA PlacesInReacquire ==
  ASSUME OneConsumer, Typed, Places, NEW t \in Threads, NEW b \in Barriers, b = Serves(t), Reacquire(t, b)
  PROVE  Places'
<1> DEFINE w == awaiters[b]
           r == local[t].resume
           s == Split(t, w)
<1>1. /\ Stack(b, <<>>) /\ op' = op /\ local'[t] = s
      /\ Moved(t, "reacquire", IF s.requeue = <<>> THEN "resumeAdded" ELSE "enqueue")
  BY ReacquireIs
<1>2. w \in Seq(Threads) /\ Once(w) /\ Once(r) /\ local[t].taken = <<>> /\ local[t].requeue = <<>>
  BY <1>1, TidyLists DEF Moved, RequeueLabels
<1>3. /\ s.taken = <<>> /\ Once(s.requeue)
      /\ \A a \in Threads : Has(s.requeue, a) <=> Has(w, a) /\ Difference(op[a].target, local[t].seen) > 0
      /\ \A a \in Threads : Has(s.resume, a) <=>
            Has(r, a) \/ (Has(w, a) /\ ~(Difference(op[a].target, local[t].seen) > 0))
      /\ (\A a : ~(Has(w, a) /\ Has(r, a))) => Once(s.resume)
  <2> HIDE DEF w
  <2> QED
    BY <1>2, SplitIs DEF Typed
<1> HIDE DEF s
<1>4. \A a \in Threads : ~(Has(w, a) /\ Has(r, a))
  BY DEF Places, Placed, Keeps
<1>5. \A a : ~(Has(w, a) /\ Has(r, a))
  <2>1. \A a : Has(w, a) => a \in Threads
    BY <1>2 DEF Has
  <2> QED
    BY <1>4, <2>1
<1>6. /\ Serves(t)' = Serves(t)
      /\ \A a \in Threads : (Waits(a)' <=> Waits(a)) /\ (pc'[a] = "suspended" => op'[a].ready)
  <2>1. pc[t] # "suspended" /\ pc'[t] # "suspended" /\ (pc[t] \in Adding <=> pc'[t] \in Adding)
    BY <1>1 DEF Moved, Adding, BarrierLabels, SequencerLabels
  <2> QED
    BY <1>1, <2>1, SameWaits DEF Moved, OnlyOf
<1>7. Tidy(t)'
  <2>1. pc'[t] \in ResumeLabels /\ (s.requeue # <<>> => pc'[t] \in RequeueLabels)
    BY <1>1 DEF Moved, ResumeLabels, BarrierLabels, RequeueLabels
  <2> QED
    BY <1>1, <1>3, <1>4, <1>5, <2>1, EmptyHas DEF Tidy
<1>8. \A a \in Threads : /\ Keeps(t, a) <=> Has(r, a)
                         /\ Keeps(t, a)' <=> Has(s.requeue, a) \/ Has(s.resume, a)
  BY <1>1, <1>2, <1>3, EmptyHas DEF Keeps
<1> QED
  BY <1>1, <1>3, <1>6, <1>7, <1>8, EmptyHas, Handover DEF Stack, OnlyOf, Moved

LEMMA PlacesInAcquire ==
  ASSUME OneConsumer, Typed, Places, NEW t \in Threads, NEW b \in Barriers, b = Serves(t), Acquire(t, b)
  PROVE  Places'
<1> DEFINE w == awaiters[b]
           later == {a \in Threads : Precedes(local[t].seen, op[a].target)}
           q == Among(w, later)
           r == Among(w, Threads \ later)
<1>1. /\ Stack(b, <<>>) /\ op' = op /\ Lists(t, local[t].taken, q, r)
      /\ Moved(t, "acquire", IF q = <<>> THEN "resumePublished" ELSE "requeue")
  BY AcquireIs DEF Lists
<1>2. w \in Seq(Threads) /\ Once(w) /\ local[t].taken = <<>> /\ local[t].requeue = <<>> /\ local[t].resume = <<>>
  BY <1>1, TidyLists DEF Moved, RequeueLabels, ResumeLabels, BarrierLabels
<1>3. /\ Once(q) /\ \A a \in Threads : Has(q, a) <=> Has(w, a) /\ a \in later
      /\ Once(r) /\ \A a \in Threads : Has(r, a) <=> Has(w, a) /\ a \notin later
  <2> HIDE DEF w, later
  <2> QED
    BY <1>2, AmongHas
<1> HIDE DEF q, r, later, w
<1>4. /\ Serves(t)' = Serves(t)
      /\ \A a \in Threads : (Waits(a)' <=> Waits(a)) /\ (pc'[a] = "suspended" => op'[a].ready)
  <2>1. pc[t] # "suspended" /\ pc'[t] # "suspended" /\ (pc[t] \in Adding <=> pc'[t] \in Adding)
    BY <1>1 DEF Moved, Adding, BarrierLabels, SequencerLabels
  <2> QED
    BY <1>1, <2>1, SameWaits DEF Moved, OnlyOf
<1>5. Tidy(t)'
  <2>1. pc'[t] \in ResumeLabels /\ (q # <<>> => pc'[t] \in RequeueLabels)
    BY <1>1 DEF Moved, ResumeLabels, RequeueLabels
  <2> QED
    BY <1>1, <1>2, <1>3, <2>1, EmptyHas DEF Tidy, Lists
<1>6. \A a \in Threads : /\ ~Keeps(t, a)
                         /\ Keeps(t, a)' <=> Has(q, a) \/ Has(r, a)
  BY <1>1, <1>2, <1>3, EmptyHas DEF Keeps, Lists
<1> QED
  BY <1>1, <1>3, <1>4, <1>5, <1>6, EmptyHas, Handover DEF Stack, OnlyOf, Moved, w

LEMMA PlacesInRetake ==
  ASSUME OneConsumer, Typed, Places, NEW t \in Threads, Serves(t) = "items", Retake(t)
  PROVE  Places'
<1> DEFINE w == awaiters["items"]
           r == local[t].resume
           z == r \o w
<1>1. /\ Stack("items", <<>>) /\ op' = op /\ Lists(t, local[t].taken, local[t].requeue, z)
      /\ Moved(t, "retake", "resumeAdded") /\ "items" \in Barriers
  BY RetakeIs DEF Barriers
<1>2. /\ w \in Seq(Threads) /\ Once(w) /\ r \in Seq(Threads) /\ Once(r)
      /\ local[t].taken = <<>> /\ local[t].requeue = <<>>
  BY <1>1, TidyLists DEF Moved, RequeueLabels
<1>3. \A a : ~(Has(r, a) /\ Has(w, a))
  <2>1. \A a \in Threads : ~(Has(w, a) /\ Has(r, a))
    BY <1>1 DEF Places, Placed, Keeps
  <2>2. \A a : Has(w, a) => a \in Threads
    BY <1>2 DEF Has
  <2> QED
    BY <2>1, <2>2
<1> HIDE DEF r, w
<1>4. Once(z) /\ \A a : Has(z, a) <=> Has(r, a) \/ Has(w, a)
  BY <1>2, <1>3, ConcatHas
<1> HIDE DEF z
<1>5. /\ Serves(t)' = Serves(t)
      /\ \A a \in Threads : (Waits(a)' <=> Waits(a)) /\ (pc'[a] = "suspended" => op'[a].ready)
  <2>1. pc[t] # "suspended" /\ pc'[t] # "suspended" /\ (pc[t] \in Adding <=> pc'[t] \in Adding)
    BY <1>1 DEF Moved, Adding, BarrierLabels, SequencerLabels
  <2> QED
    BY <1>1, <2>1, SameWaits DEF Moved, OnlyOf
<1>6. Tidy(t)'
  <2>1. pc'[t] \in ResumeLabels
    BY <1>1 DEF Moved, ResumeLabels
  <2> QED
    BY <1>1, <1>2, <1>4, <2>1, EmptyHas DEF Tidy, Lists
<1>7. \A a \in Threads : /\ Keeps(t, a) <=> Has(r, a)
                         /\ Keeps(t, a)' <=> Has(z, a)
  BY <1>1, <1>2, EmptyHas DEF Keeps, Lists, r
<1> QED
  BY <1>1, <1>4, <1>5, <1>6, <1>7, EmptyHas, Handover DEF Stack, OnlyOf, Moved, w

LEMMA PlacesInTake ==
  ASSUME OneConsumer, Typed, Places, NEW t \in Threads, Serves(t) = "items", Take(t)
  PROVE  Places'
<1> DEFINE w == awaiters["items"]
<1>1. op' = op /\ "items" \in Barriers /\ pc[t] = "take"
  BY TakeIs DEF Barriers, Take
<1>2. /\ w \in Seq(Threads) /\ Once(w)
      /\ local[t].taken = <<>> /\ local[t].requeue = <<>> /\ local[t].resume = <<>>
  BY <1>1, TidyLists DEF RequeueLabels, ResumeLabels, BarrierLabels
<1>3. Moved(t, "take", "resumePublished") \/ Moved(t, "take", "count")
  BY TakeIs
<1>4. /\ Serves(t)' = Serves(t)
      /\ \A a \in Threads : (Waits(a)' <=> Waits(a)) /\ (pc'[a] = "suspended" => op'[a].ready)
  <2>1. pc[t] # "suspended" /\ pc'[t] # "suspended" /\ (pc[t] \in Adding <=> pc'[t] \in Adding)
    BY <1>3 DEF Moved, Adding, BarrierLabels, SequencerLabels
  <2> QED
    BY <1>1, <1>3, <2>1, SameWaits DEF Moved, OnlyOf
<1>5. CASE w = <<>>
  <2>1. awaiters' = awaiters /\ Same(t) /\ Moved(t, "take", "resumePublished")
    BY <1>5, TakeIs
  <2>2. Fits(t)
    BY <1>2 DEF Fits
  <2> QED
    BY <1>4, <2>1, <2>2, PlacesKept DEF Moved
<1>6. CASE w # <<>>
  <2>1. /\ Stack("items", <<>>) /\ Lists(t, w, local[t].requeue, local[t].resume)
        /\ Moved(t, "take", "count")
    BY <1>6, TakeIs
  <2> HIDE DEF w
  <2>2. Tidy(t)'
    BY <1>2, <2>1, EmptyHas DEF Tidy, Lists, Moved
  <2>3. \A a \in Threads : /\ ~Keeps(t, a)
                           /\ Keeps(t, a)' <=> Has(w, a)
    BY <1>2, <2>1, EmptyHas DEF Keeps, Lists
  <2> QED
    BY <1>1, <1>4, <2>1, <2>2, <2>3, EmptyHas, Handover DEF Stack, OnlyOf, Moved, w
<1> QED
  BY <1>5, <1>6

LEMMA SomeoneIn ==
  ASSUME NEW S, NEW s \in Seq(S), s # <<>>
  PROVE  \E x \in S : Has(s, x)
<1>1. s[1] \in S /\ 1 \in 1..Len(s)
  OBVIOUS
<1> QED
  BY <1>1 DEF Has

\* Only the reader waits for the items.
LEMMA WhoWaits ==
  ASSUME OneConsumer, Places, NEW a \in Threads
  PROVE  /\ Has(awaiters["items"], a) => a = Reader
         /\ \A t \in Threads : Serves(t) = "items" /\ Keeps(t, a) => a = Reader
BY Parties DEF Places, Placed, Barriers, WaitsFor

LEMMA PlacesInCount ==
  ASSUME OneConsumer, Typed, Places, NEW t \in Threads, Serves(t) = "items", Count(t)
  PROVE  Places'
<1> DEFINE w == local[t].taken
           s == Split(t, w)
<1>1. awaiters' = awaiters /\ pc[t] = "count"
  BY CountIs DEF Count
<1>2. /\ w \in Seq(Threads) /\ Once(w) /\ local[t].requeue = <<>> /\ local[t].resume = <<>>
  BY <1>1, TidyLists DEF RequeueLabels, ResumeLabels, BarrierLabels
<1>3. CASE IsPublished(Wrap(local[t].seen + 1))
  <2>1. op' = op /\ Same(t) /\ Moved(t, "count", "count")
    BY <1>3, CountIs
  <2>2. Fits(t)
    BY <1>2, <2>1 DEF Fits, Moved
  <2>3. /\ Serves(t)' = Serves(t)
        /\ \A a \in Threads : (Waits(a)' <=> Waits(a)) /\ (pc'[a] = "suspended" => op'[a].ready)
    BY <2>1, SameWaits DEF Moved, OnlyOf
  <2> QED
    BY <1>1, <2>1, <2>2, <2>3, PlacesKept DEF Moved
<1>4. CASE ~IsPublished(Wrap(local[t].seen + 1))
  <2>1. /\ local'[t] = s /\ \A a \in Threads : op'[a].ready = op[a].ready
        /\ Moved(t, "count", IF s.requeue = <<>> THEN "resumePublished" ELSE "putBack")
    BY <1>4, CountIs
  <2>2. /\ s.taken = <<>> /\ Once(s.requeue)
        /\ \A a \in Threads : Has(s.requeue, a) <=> Has(w, a) /\ Difference(op[a].target, local[t].seen) > 0
        /\ \A a \in Threads : Has(s.resume, a) <=>
              Has(local[t].resume, a) \/ (Has(w, a) /\ ~(Difference(op[a].target, local[t].seen) > 0))
        /\ Once(local[t].resume) /\ (\A a : ~(Has(w, a) /\ Has(local[t].resume, a))) => Once(s.resume)
    <3> HIDE DEF w
    <3> QED
      BY <1>2, SplitIs DEF Typed
  <2> HIDE DEF w, s
  <2>3. Once(s.resume) /\ \A a \in Threads : ~Has(local[t].resume, a)
    BY <1>2, <2>2, EmptyHas
  <2>4. /\ Serves(t)' = Serves(t)
        /\ \A a \in Threads : (Waits(a)' <=> Waits(a)) /\ (pc'[a] = "suspended" => op'[a].ready)
    <3>1. pc[t] # "suspended" /\ pc'[t] # "suspended" /\ (pc[t] \in Adding <=> pc'[t] \in Adding)
      BY <2>1 DEF Moved, Adding, BarrierLabels, SequencerLabels
    <3> QED
      BY <2>1, <3>1, SameWaits DEF Moved, OnlyOf
  <2>5. Tidy(t)'
    <3>1. /\ pc'[t] = IF s.requeue = <<>> THEN "resumePublished" ELSE "putBack"
          /\ s.requeue # <<>> => pc'[t] \in RequeueLabels
      BY <2>1 DEF Moved, RequeueLabels
    <3>2. \A a \in Threads : Has(w, a) => a = Reader
      BY WhoWaits DEF Keeps, w
    <3>3. ASSUME s.requeue # <<>> PROVE s.resume = <<>>
      <4>1. s.requeue \in Seq(Threads) /\ s.resume \in Seq(Threads)
        BY <1>2, SplitIs DEF Typed, Locals, s
      <4>2. PICK a \in Threads : Has(s.requeue, a)
        BY <3>3, <4>1, SomeoneIn
      <4>3. \A x \in Threads : ~Has(s.resume, x)
        BY <2>2, <2>3, <3>2, <4>2
      <4> QED
        BY <4>1, <4>3, SomeoneIn
    <3>4. \A a \in Threads : Has(s.resume, a) => ~Has(s.requeue, a)
      BY <2>2, <2>3
    <3>5. s.resume # <<>> => pc'[t] \in ResumeLabels
      BY <3>1, <3>3 DEF ResumeLabels
    <3> QED
      BY <2>1, <2>2, <2>3, <3>1, <3>4, <3>5, EmptyHas DEF Tidy
  <2>6. \A a \in Threads : /\ Keeps(t, a) <=> Has(w, a)
                           /\ Keeps(t, a)' <=> Has(s.requeue, a) \/ Has(s.resume, a)
    BY <1>2, <2>1, <2>2, EmptyHas DEF Keeps, w
  <2>7. \A a \in Threads : ~(Has(awaiters[Serves(t)], a) /\ Keeps(t, a))
    BY Served DEF Places, Placed
  <2>8. Once(awaiters[Serves(t)])'
    <3> DEFINE b == Serves(t)
    <3>1. Once(awaiters[b]) /\ Serves(t)' = b
      BY <2>4, Served DEF Places
    <3> HIDE DEF b
    <3> QED
      BY <1>1, <3>1
  <2> QED
    BY <1>1, <2>1, <2>2, <2>3, <2>4, <2>5, <2>6, <2>7, <2>8, Handover DEF OnlyOf, Moved
<1> QED
  BY <1>3, <1>4


LEMMA PlacesInExchange ==
  ASSUME OneConsumer, Typed, Places, NEW t \in Threads, Exchange(t)
  PROVE  Places'
<1>1. /\ awaiters' = awaiters /\ op'[t].ready /\ local[t].resume = <<>> /\ Lists(t, <<>>, <<>>, <<>>)
      /\ \A a \in Threads : a # t => op'[a].ready = op[a].ready
      /\ Moved(t, "resumeAdded", IF op[t].ready THEN "resumed" ELSE "suspended")
  BY ExchangeIs
<1>2. \A a \in Threads : ~Keeps(t, a)
  BY <1>1, EmptyHas, TidyLists DEF Keeps, Moved, RequeueLabels
<1>3. \A a \in Threads : ~Keeps(t, a)'
  BY <1>1, EmptyHas DEF Keeps, Lists
<1>4. Tidy(t)'
  BY <1>1, EmptyHas DEF Tidy, Lists
<1>5. ASSUME NEW a \in Threads
      PROVE  (Waits(a)' <=> Waits(a)) /\ (pc'[a] = "suspended" => op'[a].ready)
  <2>1. pc[a] = "suspended" => op[a].ready
    BY DEF Places, Placed
  <2>2. CASE a = t
    <3>1. Waits(t) <=> ~op[t].ready
      BY <1>1 DEF Waits, Moved, Adding
    <3>2. Waits(t)' <=> ~op[t].ready
      BY <1>1 DEF Waits, Moved, Adding, BarrierLabels, SequencerLabels
    <3> QED
      BY <1>1, <2>2, <3>1, <3>2
  <2>3. CASE a # t
    BY <1>1, <2>1, <2>3 DEF Waits, Moved, OnlyOf
  <2> QED
    BY <2>2, <2>3
<1> DEFINE s == Serves(t)
<1>6. s \in Barriers /\ Once(awaiters[s])
  BY Served DEF Places
<1> HIDE DEF s
<1> QED
  BY <1>1, <1>2, <1>3, <1>4, <1>5, <1>6, HandoverAt DEF Moved, OnlyOf

LEMMA PlacesInResumeNext ==
  ASSUME OneConsumer, Typed, Places, NEW t \in Threads, ResumeNext(t)
  PROVE  Places'
<1> DEFINE r == local[t].resume
<1>0. PICK a \in Threads : a = Head(local[t].resume)
  BY ResumeNextIs
<1>1. /\ awaiters' = awaiters /\ r # <<>> /\ pc[t] \in {"resumeAdded", "resumePublished"}
      /\ \A u \in Threads : u # t => local'[u] = local[u]
      /\ Lists(t, local[t].taken, local[t].requeue, Tail(r))
      /\ \A u \in Threads : u # a => op'[u] = op[u] /\ pc'[u] = pc[u]
      /\ op'[a].ready
      /\ pc'[a] = IF op[a].ready THEN "resumed" ELSE pc[a]
  BY <1>0, ResumeNextIs
<1>2. /\ r \in Seq(Threads) /\ Once(r) /\ local[t].taken = <<>> /\ local[t].requeue = <<>>
  BY <1>1, TidyLists DEF RequeueLabels
<1>3. Has(r, a) /\ Once(Tail(r)) /\ \A u \in Threads : Has(Tail(r), u) <=> u # a /\ Has(r, u)
  BY <1>0, <1>1, <1>2, TailHas
<1> HIDE DEF r
<1>4. \A u \in Threads : /\ Keeps(t, u) <=> Has(r, u)
                         /\ Keeps(t, u)' <=> u # a /\ Has(r, u)
  BY <1>1, <1>2, <1>3, EmptyHas DEF Keeps, Lists, r
<1>5. /\ Waits(a) /\ Serves(t) = WaitsFor(a) /\ \A u \in Threads : Keeps(u, a) => u = t
      /\ \A b \in Barriers : ~Has(awaiters[b], a)
  BY <1>1, <1>3, <1>4 DEF Places, Placed
<1>6. ~Waits(a)' /\ (pc'[a] = "suspended" => op'[a].ready)
  <2>1. pc[a] = "suspended" => op[a].ready
    BY <1>1 DEF Places, Placed
  <2> QED
    BY <1>1, <1>5, <2>1 DEF Waits, Adding, BarrierLabels, SequencerLabels
<1>7. \A u \in Threads : u # a => (Waits(u)' <=> Waits(u)) /\ (pc'[u] = "suspended" => op'[u].ready)
  BY <1>1 DEF Waits, Places, Placed
<1>8. \A u \in Threads : Serves(u)' = Serves(u)
  <2> TAKE u \in Threads
  <2>1. CASE pc'[u] = pc[u]
    BY <2>1 DEF Serves, WaitsFor, PublishesTo
  <2>2. CASE pc'[u] # pc[u]
    <3>1. u = a /\ op[a].ready /\ pc'[a] = "resumed"
      BY <1>1, <2>2
    <3>2. pc[a] = "suspended"
      BY <1>5, <3>1 DEF Waits
    <3> QED
      BY <3>1, <3>2 DEF Serves, WaitsFor, PublishesTo, Adding, BarrierLabels, SequencerLabels
  <2> QED
    BY <2>1, <2>2
<1>9. pc'[t] = pc[t]
  <2>1. CASE t = a
    BY <1>1, <1>5, <2>1 DEF Waits
  <2>2. CASE t # a
    BY <1>1, <2>2
  <2> QED
    BY <2>1, <2>2
<1>10. \A u \in Threads : \A x \in Threads : u # t => (Keeps(u, x)' <=> Keeps(u, x))
  BY <1>1 DEF Keeps
<1>11. ASSUME NEW u \in Threads
       PROVE  Tidy(u)'
  <2>1. CASE u = t
    <3>1. pc'[t] \in ResumeLabels
      BY <1>1, <1>9 DEF ResumeLabels
    <3> QED
      BY <1>1, <1>2, <1>3, <2>1, <3>1, EmptyHas DEF Tidy, Lists
  <2>2. CASE u # t
    <3>1. local'[u] = local[u] /\ Tidy(u)
      BY <1>1, <2>2 DEF Places
    <3>2. CASE pc'[u] = pc[u]
      BY <3>1, <3>2 DEF Tidy
    <3>3. CASE pc'[u] # pc[u]
      <4>1. pc[u] = "suspended"
        <5>1. u = a /\ op[a].ready
          BY <1>1, <3>3
        <5> QED
          BY <1>5, <5>1 DEF Waits
      <4> QED
        BY <3>1, <4>1, TidyLists DEF Tidy, RequeueLabels, ResumeLabels, BarrierLabels
    <3> QED
      BY <3>2, <3>3
  <2> QED
    BY <2>1, <2>2
<1>13. Placed(a)'
  <2>1. \A v \in Threads : ~Keeps(v, a)'
    BY <1>1, <1>4, <1>5, <1>10
  <2>2. \A b \in Barriers : ~Has(awaiters'[b], a)
    BY <1>1, <1>5
  <2> QED
    BY <1>6, <2>1, <2>2 DEF Placed
<1>12. ASSUME NEW u \in Threads
       PROVE  Placed(u)'
  <2>1. Placed(u) /\ WaitsFor(u)' = WaitsFor(u)
    BY DEF Places, WaitsFor
  <2>2. CASE u = a
    BY <1>13, <2>2
  <2>3. CASE u # a
    <3>1. /\ \A v \in Threads : Keeps(v, u)' <=> Keeps(v, u)
          /\ Waits(u)' <=> Waits(u)
          /\ pc'[u] = "suspended" => op'[u].ready
      BY <1>4, <1>7, <1>10, <2>3
    <3> QED
      BY <1>1, <1>8, <2>1, <3>1 DEF Placed
  <2> QED
    BY <2>2, <2>3
<1> QED
  BY <1>1, <1>11, <1>12 DEF Places

LEMMA AwaitIs ==
  ASSUME Typed, NEW t \in Threads, NEW target \in SequenceNumbers, NEW known \in SequenceNumbers, NEW label, Await(t, target, known, label)
  PROVE  /\ OnlyOf(t) /\ \A u \in Threads : u # t => op'[u] = op[u]
         /\ op'[t].target = target /\ op'[t].known = known /\ ~op'[t].ready
         /\ Precedes(known, target) =>
               pc'[t] = label /\ Lists(t, <<>>, <<t>>, <<>>) /\ Sees(t, known, target)
         /\ ~Precedes(known, target) =>
               pc'[t] = "resumed" /\ Same(t) /\ Sees(t, local[t].seen, local[t].earliest)
<1>1. op \in [Threads -> Operations] /\ local \in [Threads -> Locals]
  BY DEF Typed, RingTypeOK
<1>2. /\ \A u \in Threads : u # t => op'[u] = op[u]
      /\ op'[t].target = target /\ op'[t].known = known /\ ~op'[t].ready
  BY <1>1 DEF Await
<1>3. CASE Precedes(known, target)
  <2> DEFINE q == <<t>>
             r == [NoLocals EXCEPT !.requeue = q, !.seen = known, !.earliest = target]
  <2>1. local' = [local EXCEPT ![t] = r] /\ Goto(t, label)
    BY <1>3 DEF Await
  <2>2. r = [NoLocals EXCEPT !.requeue = q, !.seen = known, !.earliest = target]
    OBVIOUS
  <2> HIDE DEF q, r
  <2>3. r = [taken |-> <<>>, requeue |-> q, resume |-> <<>>, seen |-> known, earliest |-> target]
    <3> DEFINE n == NoLocals
    <3>1. /\ n.taken = <<>> /\ n.resume = <<>>
          /\ n = [taken |-> n.taken, requeue |-> n.requeue, resume |-> n.resume,
                  seen |-> n.seen, earliest |-> n.earliest]
      BY DEF NoLocals
    <3>2. r = [n EXCEPT !.requeue = q, !.seen = known, !.earliest = target]
      BY <2>2
    <3> HIDE DEF n
    <3>3. r = [taken |-> n.taken, requeue |-> q, resume |-> n.resume, seen |-> known, earliest |-> target]
      BY <3>1, <3>2
    <3> QED
      BY <3>1, <3>3
  <2>4. local'[t] = r /\ OnlyOf(t) /\ pc'[t] = label
    BY <2>1, LocalStep DEF OnlyOf
  <2> QED
    BY <1>2, <1>3, <2>3, <2>4 DEF Lists, Sees, q
<1>4. CASE ~Precedes(known, target)
  <2>1. local' = local /\ Goto(t, "resumed")
    BY <1>4 DEF Await
  <2> QED
    BY <1>2, <1>4, <2>1, LocalStep DEF OnlyOf
<1> QED
  BY <1>3, <1>4

LEMMA AloneHas ==
  ASSUME NEW t
  PROVE  Once(<<t>>) /\ \A x : Has(<<t>>, x) <=> x = t
BY DEF Has, Once

LEMMA PlacesInAwait ==
  ASSUME OneConsumer, Typed, Places, NEW t \in Threads,
         NEW target \in SequenceNumbers, NEW known \in SequenceNumbers, NEW label \in {"enqueue", "queue"}, Await(t, target, known, label),
         pc[t] \in {"idle", "claim"}, awaiters' = awaiters
  PROVE  Places'
<1>1. /\ OnlyOf(t) /\ \A u \in Threads : u # t => op'[u] = op[u]
      /\ ~op'[t].ready
  BY AwaitIs
<1>2. /\ ~Waits(t) /\ label \in Adding /\ label \in RequeueLabels
      /\ local[t].taken = <<>> /\ local[t].requeue = <<>> /\ local[t].resume = <<>>
  BY TidyLists DEF Waits, Adding, BarrierLabels, SequencerLabels, RequeueLabels, ResumeLabels
<1>3. CASE ~Precedes(known, target)
  <2>1. pc'[t] = "resumed" /\ Same(t)
    BY <1>3, AwaitIs
  <2>2. Fits(t)
    BY <1>2 DEF Fits
  <2>3. pc[t] # "suspended" /\ pc'[t] # "suspended" /\ pc[t] \notin Adding /\ pc'[t] \notin Adding
    BY <2>1 DEF Adding, BarrierLabels, SequencerLabels
  <2>4. /\ Serves(t)' = Serves(t)
        /\ \A a \in Threads : (Waits(a)' <=> Waits(a)) /\ (pc'[a] = "suspended" => op'[a].ready)
    BY <1>1, <2>3, SameWaits DEF OnlyOf
  <2> QED
    BY <1>1, <2>1, <2>2, <2>4, PlacesKept
<1>4. CASE Precedes(known, target)
  <2>1. pc'[t] = label /\ Lists(t, <<>>, <<t>>, <<>>)
    BY <1>4, AwaitIs
  <2>2. \A u \in Threads : u # t => /\ Serves(u)' = Serves(u)
                                    /\ \A a \in Threads : Keeps(u, a)' <=> Keeps(u, a)
                                    /\ Tidy(u)'
                                    /\ Waits(u)' <=> Waits(u)
                                    /\ pc'[u] = "suspended" => op'[u].ready
    <3> SUFFICES ASSUME NEW u \in Threads, u # t
                 PROVE  /\ Serves(u)' = Serves(u)
                        /\ \A a \in Threads : Keeps(u, a)' <=> Keeps(u, a)
                        /\ Tidy(u)'
                        /\ Waits(u)' <=> Waits(u)
                        /\ pc'[u] = "suspended" => op'[u].ready
      OBVIOUS
    <3>1. local'[u] = local[u] /\ pc'[u] = pc[u] /\ op'[u] = op[u] /\ Tidy(u) /\ Placed(u)
      BY <1>1 DEF Places, OnlyOf
    <3>2. Serves(u)' = Serves(u)
      BY <3>1 DEF Serves, WaitsFor, PublishesTo
    <3>3. \A a \in Threads : Keeps(u, a)' <=> Keeps(u, a)
      BY <3>1 DEF Keeps
    <3>4. Tidy(u)'
      BY <3>1 DEF Tidy
    <3> QED
      BY <3>1, <3>2, <3>3, <3>4 DEF Waits, Placed
  <2>3. \A a \in Threads : ~Keeps(t, a) /\ (Keeps(t, a)' <=> a = t)
    BY <1>2, <2>1, EmptyHas, AloneHas DEF Keeps, Lists
  <2>4. Waits(t)' /\ Serves(t)' = WaitsFor(t) /\ pc'[t] # "suspended"
    BY <1>1, <1>2, <2>1 DEF Waits, Serves, WaitsFor
  <2>5. Tidy(t)'
    BY <1>2, <2>1, EmptyHas, AloneHas DEF Tidy, Lists
  <2>6. ASSUME NEW a \in Threads
        PROVE  Placed(a)'
    <3>1. Placed(a) /\ WaitsFor(a)' = WaitsFor(a)
      BY DEF Places, WaitsFor
    <3>2. CASE a = t
      <4>1. (\A b \in Barriers : ~Has(awaiters[b], t)) /\ \A u \in Threads : ~Keeps(u, t)
        BY <1>2, <3>1, <3>2 DEF Placed
      <4> QED
        BY <2>2, <2>3, <2>4, <3>1, <3>2, <4>1 DEF Placed
    <3>3. CASE a # t
      BY <2>2, <2>3, <3>1, <3>3 DEF Placed
    <3> QED
      BY <3>2, <3>3
  <2> QED
    BY <2>2, <2>5, <2>6 DEF Places
<1> QED
  BY <1>3, <1>4


LEMMA UserIs ==
  ASSUME OneConsumer, Typed, NEW t \in Threads,
         Claim(t) \/ Write(t) \/ Read(t) \/ Publish(t) \/ ReleaseSlots(t)
  PROVE  /\ OnlyOf(t) /\ awaiters' = awaiters /\ Same(t)
         /\ \A u \in Threads : u # t => op'[u] = op[u]
         /\ \/ Claim(t) /\ pc[t] = "idle" /\ pc'[t] = "claim"
            \/ Write(t) /\ pc[t] = "resumed" /\ pc'[t] = "publish"
            \/ Read(t) /\ pc[t] = "resumed" /\ pc'[t] = "release"
            \/ Publish(t) /\ pc[t] = "publish" /\ pc'[t] \in {"publish", "load", "loadAwaiters"}
            \/ ReleaseSlots(t) /\ pc[t] = "release" /\ pc'[t] = "loadAwaiters"
<1>1. op \in [Threads -> Operations] /\ pc \in [Threads -> Labels]
  BY DEF Typed, RingTypeOK
<1>2. CASE Claim(t)
  BY <1>2, LocalStep DEF Claim, OnlyOf
<1>3. CASE Write(t)
  <2>1. local' = [local EXCEPT ![t].seen = Wrap(Claimed(t).begin + 1)]
    BY <1>3 DEF Write
  <2>2. /\ awaiters' = awaiters /\ op' = [op EXCEPT ![t] = NoOp] /\ Goto(t, "publish") /\ pc[t] = "resumed"
    BY <1>3 DEF Write
  <2> QED
    BY <1>1, <1>3, <2>1, <2>2, LocalStep DEF OnlyOf
<1>4. CASE Read(t)
  <2>1. /\ awaiters' = awaiters /\ op' = [op EXCEPT ![t] = NoOp] /\ Goto(t, "release") /\ pc[t] = "resumed"
        /\ local' = local
    BY <1>4, Parties DEF Read
  <2> QED
    BY <1>1, <1>4, <2>1, LocalStep DEF OnlyOf
<1>5. CASE Publish(t)
  <2>1. pc[t] = "publish" /\ awaiters' = awaiters /\ op' = op
    BY <1>5 DEF Publish, PublishRange, PublishSequence
  <2>2. \/ pc' = pc /\ local' = [local EXCEPT ![t].seen = Wrap(local[t].seen + 1)]
        \/ Goto(t, "load") /\ local' = local
        \/ Goto(t, "loadAwaiters") /\ local' = [local EXCEPT ![t].seen = Wrap(range[t].end - 1)]
    BY <1>5 DEF Publish, PublishRange, PublishSequence, Typed, RingTypeOK
  <2> QED
    BY <1>5, <2>1, <2>2, LocalStep DEF OnlyOf
<1>6. CASE ReleaseSlots(t)
  <2>1. pc[t] = "release" /\ awaiters' = awaiters /\ op' = op /\ Goto(t, "loadAwaiters")
        /\ local' = [local EXCEPT ![t].seen = Wrap(nextToRead[t] - 1)]
    BY <1>6 DEF ReleaseSlots, PublishSequence
  <2> QED
    BY <1>6, <2>1, LocalStep DEF OnlyOf
<1> QED
  BY <1>2, <1>3, <1>4, <1>5, <1>6

\* Which calls a step belongs to, by the thread's role.
LEMMA RolesOf ==
  ASSUME OneConsumer, Typed, NEW t \in Threads
  PROVE  /\ pc[t] \in SequencerLabels => t = Reader /\ kind = "multi"
         /\ pc[t] \in SequencerPublishing => t \in Producers /\ kind = "multi"
         /\ pc[t] \in BarrierPublishing => t = Reader \/ kind = "single"
         /\ pc[t] \in BarrierLabels => t \in Producers \/ kind = "single"
         /\ pc[t] \in {"claim", "publish"} => t \in Producers
         /\ pc[t] = "release" => t = Reader
         /\ t \in Producers /\ pc[t] # "idle" => t \in Working
         /\ kind = "single" \/ kind = "multi"
BY Parties DEF Typed, RingTypeOK, Roles, ProducerLabels, ReaderLabels, BarrierLabels, SequencerLabels,
               BarrierPublishing, SequencerPublishing

LEMMA PlacesInQuiet ==
  ASSUME OneConsumer, Typed, Places, NEW t \in Threads, NEW b \in Barriers,
         \/ Check(t, b) \/ LoadAwaiters(t, b) \/ Published(t) \/ Advance(t) \/ Verify(t)
         \/ b = "items" /\ Load(t)
         \/ Claim(t) \/ Write(t) \/ Read(t) \/ Publish(t) \/ ReleaseSlots(t)
  PROVE  Places'
<1>1. CASE Published(t)
  <2>1. /\ awaiters' = awaiters /\ op' = op /\ local[t].resume = <<>> /\ Lists(t, <<>>, <<>>, <<>>)
        /\ Moved(t, "resumePublished", "idle")
    BY <1>1, PublishedIs
  <2>2. local[t].taken = <<>> /\ local[t].requeue = <<>>
    BY <2>1, TidyLists DEF Moved, RequeueLabels
  <2>3. Same(t) /\ Fits(t)
    BY <2>1, <2>2 DEF Same, Lists, Fits
  <2>4. /\ Serves(t)' = Serves(t)
        /\ \A a \in Threads : (Waits(a)' <=> Waits(a)) /\ (pc'[a] = "suspended" => op'[a].ready)
    BY <2>1, SameWaits DEF Moved, OnlyOf, Adding, BarrierLabels, SequencerLabels
  <2> QED
    BY <2>1, <2>3, <2>4, PlacesKept DEF Moved
<1>2. CASE Check(t, b) \/ LoadAwaiters(t, b) \/ (b = "items" /\ Load(t)) \/ Advance(t) \/ Verify(t)
  <2>1. awaiters' = awaiters /\ op' = op /\ Same(t) /\ OnlyOf(t)
    BY <1>2, CheckIs, LoadIs, AdvanceIs, VerifyIs DEF Moved
  <2>2. \/ pc[t] = "check" /\ pc'[t] \in {"resumeAdded", "reacquire"}
        \/ pc[t] \in {"loadAwaiters", "load"} /\ pc'[t] \in {"resumePublished", "acquire", "take"}
        \/ pc[t] = "advance" /\ pc'[t] \in {"advance", "resumeAdded", "retake"}
        \/ pc[t] = "verify" /\ pc'[t] \in {"take", "verify", "resumePublished"}
    BY <1>2, CheckIs, LoadIs, AdvanceIs, VerifyIs DEF Moved
  <2>3. Fits(t)
    BY <2>2, TidyLists DEF Fits, RequeueLabels, ResumeLabels, BarrierLabels
  <2>4. /\ Serves(t)' = Serves(t)
        /\ \A a \in Threads : (Waits(a)' <=> Waits(a)) /\ (pc'[a] = "suspended" => op'[a].ready)
    <3>1. pc[t] # "suspended" /\ pc'[t] # "suspended" /\ (pc[t] \in Adding <=> pc'[t] \in Adding)
      BY <2>2 DEF Adding, BarrierLabels, SequencerLabels
    <3> QED
      BY <2>1, <3>1, SameWaits DEF OnlyOf
  <2> QED
    BY <2>1, <2>3, <2>4, PlacesKept
<1>3. CASE Claim(t) \/ Write(t) \/ Read(t) \/ Publish(t) \/ ReleaseSlots(t)
  <2>1. /\ OnlyOf(t) /\ awaiters' = awaiters /\ Same(t)
        /\ \A u \in Threads : u # t => op'[u] = op[u]
        /\ pc[t] \in {"idle", "resumed", "publish", "release"}
        /\ pc'[t] \in {"claim", "publish", "release", "load", "loadAwaiters"}
    BY <1>3, UserIs
  <2>2. Fits(t)
    BY <2>1, TidyLists DEF Fits, RequeueLabels, ResumeLabels, BarrierLabels
  <2>3. /\ Serves(t)' = Serves(t)
        /\ \A a \in Threads : (Waits(a)' <=> Waits(a)) /\ (pc'[a] = "suspended" => op'[a].ready)
    <3>1. pc[t] # "suspended" /\ pc'[t] # "suspended" /\ pc[t] \notin Adding /\ pc'[t] \notin Adding
      BY <2>1 DEF Adding, BarrierLabels, SequencerLabels
    <3> QED
      BY <2>1, <3>1, SameWaits DEF OnlyOf
  <2> QED
    BY <2>1, <2>2, <2>3, PlacesKept
<1> QED
  BY <1>1, <1>2, <1>3

\* The arguments of a wait.
LEMMA AwaitArguments ==
  ASSUME OneConsumer, Typed, NEW t \in Threads, AwaitClaim(t) \/ AwaitItem(t)
  PROVE  \E target \in SequenceNumbers, known \in SequenceNumbers, label \in {"enqueue", "queue"} :
           /\ Await(t, target, known, label) /\ target = Target(t)
           /\ \/ AwaitClaim(t) /\ t \in Producers /\ pc[t] = "claim" /\ known = Gate /\ label = "enqueue"
              \/ AwaitItem(t) /\ t = Reader /\ pc[t] = "idle" /\ kind = "single" /\ known = Items /\ label = "enqueue"
              \/ AwaitItem(t) /\ t = Reader /\ pc[t] = "idle" /\ kind = "multi" /\ label = "queue"
                 /\ known = Wrap(nextToRead[t] - 1)
<1>1. RingTypeOK /\ Gate \in SequenceNumbers /\ Items \in SequenceNumbers
  BY DEF Typed, RingTypeOK, Gate, Items, Barriers
<1>2. CASE AwaitClaim(t)
  <2>1. t \in Producers
    BY <1>2, RolesOf DEF AwaitClaim
  <2>2. range[t].begin \in Int /\ range[t].end \in Int
    BY <1>1, <2>1, Numbers DEF RingTypeOK
  <2>3. ClaimTarget(t) \in SequenceNumbers
    BY <2>2, Sizes, WrapType DEF ClaimTarget
  <2>4. Await(t, ClaimTarget(t), Gate, "enqueue") /\ pc[t] = "claim"
    BY <1>2 DEF AwaitClaim, Gate
  <2> QED
    BY <1>1, <1>2, <2>1, <2>3, <2>4 DEF Target
<1>3. CASE AwaitItem(t)
  <2>1. t = Reader /\ t \notin Producers /\ pc[t] = "idle"
    BY <1>3, Parties DEF AwaitItem
  <2>2. nextToRead[t] \in SequenceNumbers
    BY <1>1, <2>1, Parties DEF RingTypeOK
  <2>3. Wrap(nextToRead[t] - 1) \in SequenceNumbers
    BY <2>2, Numbers, WrapType
  <2>4. CASE kind = "multi"
    <3>1. Await(t, nextToRead[t], Wrap(nextToRead[t] - 1), "queue")
      BY <1>3, <2>4 DEF AwaitItem
    <3> QED
      BY <1>3, <2>1, <2>2, <2>3, <2>4, <3>1 DEF Target
  <2>5. CASE kind = "single"
    <3>1. Await(t, nextToRead[t], Items, "enqueue")
      BY <1>3, <2>5 DEF AwaitItem, Items
    <3> QED
      BY <1>1, <1>3, <2>1, <2>2, <2>5, <3>1 DEF Target
  <2> QED
    BY <1>1, <2>4, <2>5 DEF RingTypeOK
<1> QED
  BY <1>2, <1>3

LEMMA PlacesNext ==
  ASSUME OneConsumer, Typed, Places, NEW t \in Threads, InCall(t) \/ User(t)
  PROVE  Places'
<1>1. CASE WaitStep(t, WaitsFor(t))
  <2>1. pc[t] \in Adding => Serves(t) = WaitsFor(t) /\ WaitsFor(t) \in Barriers
    BY Served DEF Serves
  <2>2. CASE Enqueue(t, WaitsFor(t))
    BY <2>1, <2>2, PlacesInPut DEF Enqueue, Adding, BarrierLabels
  <2>3. CASE Check(t, WaitsFor(t))
    BY <2>3, Served, PlacesInQuiet
  <2>4. CASE Reacquire(t, WaitsFor(t))
    BY <2>1, <2>4, PlacesInReacquire DEF Reacquire, Adding, BarrierLabels
  <2>5. CASE Exchange(t)
    BY <2>5, PlacesInExchange
  <2> QED
    BY <1>1, <2>2, <2>3, <2>4, <2>5 DEF WaitStep
<1>2. CASE PublishStep(t, PublishesTo(t))
  <2>1. pc[t] \notin Adding => Serves(t) = PublishesTo(t) /\ PublishesTo(t) \in Barriers
    BY Served DEF Serves
  <2>2. CASE LoadAwaiters(t, PublishesTo(t))
    BY <2>2, Served, PlacesInQuiet
  <2>3. CASE Acquire(t, PublishesTo(t))
    BY <2>1, <2>3, PlacesInAcquire DEF Acquire, Adding, BarrierLabels, SequencerLabels
  <2>4. CASE Requeue(t, PublishesTo(t))
    BY <2>1, <2>4, PlacesInPut DEF Requeue, Adding, BarrierLabels, SequencerLabels
  <2>5. CASE Published(t)
    BY <2>5, Served, PlacesInQuiet
  <2> QED
    BY <1>2, <2>2, <2>3, <2>4, <2>5 DEF PublishStep
<1>3. CASE ResumeNext(t)
  BY <1>3, PlacesInResumeNext
<1>4. CASE SequencerWaitStep(t)
  <2>1. pc[t] \in SequencerLabels
    BY <1>4 DEF SequencerWaitStep, PutOn, Advance, Retake, SequencerLabels
  <2>2. Serves(t) = "items" /\ "items" \in Barriers
    BY <2>1, RolesOf, Parties DEF Serves, Adding, Barriers
  <2> QED
    BY <1>4, <2>2, PlacesInPut, PlacesInQuiet, PlacesInRetake DEF SequencerWaitStep
<1>5. CASE SequencerPublishStep(t)
  <2>1. pc[t] \in SequencerPublishing
    BY <1>5 DEF SequencerPublishStep, Load, Take, Count, PutBack, Verify, SequencerPublishing
  <2>2. Serves(t) = "items" /\ "items" \in Barriers
    BY <2>1, RolesOf, Parties DEF Serves, Adding, Barriers, BarrierLabels, SequencerLabels, SequencerPublishing
  <2> QED
    BY <1>5, <2>2, PlacesInPut, PlacesInQuiet, PlacesInTake, PlacesInCount DEF SequencerPublishStep
<1>6. CASE AwaitClaim(t) \/ AwaitItem(t)
  <2>1. PICK target \in SequenceNumbers, known \in SequenceNumbers, label \in {"enqueue", "queue"} :
           Await(t, target, known, label) /\ pc[t] \in {"idle", "claim"}
    BY <1>6, AwaitArguments
  <2>2. awaiters' = awaiters
    BY <1>6 DEF AwaitClaim, AwaitItem
  <2> QED
    BY <2>1, <2>2, PlacesInAwait
<1>7. CASE Claim(t) \/ Write(t) \/ Read(t) \/ Publish(t) \/ ReleaseSlots(t)
  <2>1. "items" \in Barriers
    BY DEF Barriers
  <2> QED
    BY <1>7, <2>1, PlacesInQuiet
<1> QED
  BY <1>1, <1>2, <1>3, <1>4, <1>5, <1>6, <1>7 DEF InCall, User


-----------------------------------------------------------------------------
(* Counting from the gate.                                                 *)

LEMMA GateType ==
  ASSUME Typed
  PROVE  /\ Gate \in SequenceNumbers /\ Items \in SequenceNumbers /\ Gate \in Int
         /\ \A b \in Barriers : lastPublished[b] \in SequenceNumbers
         /\ lastPublished["gate"] = Gate /\ lastPublished["items"] = Items
BY Numbers DEF Typed, RingTypeOK, Gate, Items, Barriers

LEMMA AtType ==
  ASSUME Typed
  PROVE  \A s \in SequenceNumbers : At(s) \in Int /\ -Half <= At(s) /\ At(s) < Half
BY GateType, DifferenceType DEF At

LEMMA AtNumber ==
  ASSUME Typed, NEW i \in Int, -Half <= i, i < Half
  PROVE  Number(i) \in SequenceNumbers /\ At(Number(i)) = i
BY GateType, Distance DEF At, Number

LEMMA NumberAt ==
  ASSUME Typed, NEW s \in SequenceNumbers
  PROVE  Number(At(s)) = s
BY GateType, WrapDifference DEF At, Number

LEMMA AtFurther ==
  ASSUME Typed, NEW s \in SequenceNumbers, NEW i \in Int, -Half <= At(s) + i, At(s) + i < Half
  PROVE  Wrap(s + i) \in SequenceNumbers /\ At(Wrap(s + i)) = At(s) + i
BY GateType, Further DEF At

LEMMA AtBefore ==
  ASSUME Typed, NEW s \in SequenceNumbers, -Half <= At(s) - 1
  PROVE  Wrap(s - 1) \in SequenceNumbers /\ At(Wrap(s - 1)) = At(s) - 1
<1>1. s + (-1) = s - 1 /\ At(s) + (-1) = At(s) - 1 /\ At(s) + (-1) < Half /\ -1 \in Int
  BY AtType, Numbers, Sizes
<1>2. Wrap(s + (-1)) \in SequenceNumbers /\ At(Wrap(s + (-1))) = At(s) + (-1)
  BY <1>1, AtFurther
<1> QED
  BY <1>1, <1>2

LEMMA Ahead ==
  ASSUME Typed, NEW a \in SequenceNumbers, NEW b \in SequenceNumbers,
         -Half <= At(a) - At(b), At(a) - At(b) < Half
  PROVE  Difference(a, b) = At(a) - At(b) /\ (Precedes(a, b) <=> At(a) < At(b))
<1>1. Difference(a, b) = At(a) - At(b)
  BY GateType, Apart DEF At
<1> QED
  BY <1>1, AtType DEF Precedes

LEMMA AtGate ==
  ASSUME Typed
  PROVE  At(Gate) = 0
BY GateType, NoDistance DEF At

LEMMA SameAt ==
  ASSUME Typed, NEW a \in SequenceNumbers, NEW b \in SequenceNumbers, At(a) = At(b)
  PROVE  a = b
BY GateType, SameNumber DEF At

LEMMA SlotsOfNumbers ==
  ASSUME Typed
  PROVE  /\ \A i \in Int : Slot(Number(i)) \in Slots /\ Slot(Number(i + BufferSize)) = Slot(Number(i))
         /\ \A i, j \in Int : Slot(Number(i)) = Slot(Number(j)) /\ i - j < BufferSize /\ j - i < BufferSize
               => i = j
<1>1. \A i \in Int : Gate + i \in Int
  BY GateType
<1>2. \A i \in Int : Slot(Number(i)) \in Slots
  BY <1>1, SlotOf DEF Number
<1>3. \A i \in Int : Slot(Number(i + BufferSize)) = Slot(Number(i))
  BY GateType, NextRound DEF Number
<1>4. \A i, j \in Int : Slot(Number(i)) = Slot(Number(j)) /\ i - j < BufferSize /\ j - i < BufferSize
               => i = j
  BY GateType, OneSlotEach DEF Number
<1> QED
  BY <1>2, <1>3, <1>4

-----------------------------------------------------------------------------
(* The claims, the reader and the slots.                                   *)

LEMMA RingKept ==
  ASSUME OneConsumer, Ring,
         lastPublished' = lastPublished, kind' = kind, range' = range, nextToClaim' = nextToClaim,
         published' = published, buffer' = buffer, nextToRead' = nextToRead,
         pc'[Reader] = "release" <=> pc[Reader] = "release",
         \A p \in Producers : /\ Holds(p)' => Holds(p)
                              /\ pc'[p] = "publish" <=> pc[p] = "publish"
                              /\ pc[p] = "publish" => local'[p].seen = local[p].seen
  PROVE  Ring'
<1>1. Gate' = Gate /\ Items' = Items
  BY DEF Gate, Items
<1>2. \A p \in Producers : First(p)' = First(p) /\ Final(p)' = Final(p)
  BY <1>1 DEF First, Final, At
<1>3. Top' = Top
  BY <1>1 DEF Top, At
<1>4. \A i : (Come(i)' <=> Come(i)) /\ Number(i)' = Number(i)
  BY <1>1 DEF Come, IsPublished, Number, At
<1>5. \A p \in Producers : Holds(p) /\ ClaimOf(p) => ClaimOf(p)'
  <2> TAKE p \in Producers
  <2>1. First(p)' = First(p) /\ Final(p)' = Final(p) /\ (pc'[p] = "publish" <=> pc[p] = "publish")
    BY <1>2
  <2>2. pc[p] = "publish" => At(local[p].seen)' = At(local[p].seen)
    BY <1>1 DEF At
  <2> QED
    BY <1>1, <1>3, <2>1, <2>2 DEF ClaimOf
<1>6. Claims'
  <2>1. \A p \in Producers : Holds(p)' => ClaimOf(p)'
    BY <1>5 DEF Ring, Claims
  <2>2. kind' = "multi" => \A p, q \in Producers : Holds(p)' /\ Holds(q)' /\ p # q =>
          Final(p)' < First(q)' \/ Final(q)' < First(p)'
    BY <1>2 DEF Ring, Claims
  <2>3. 0 <= Top'
    BY <1>3 DEF Ring, Claims
  <2>4. kind' = "single" =>
          /\ 0 <= At(Items)' /\ At(Items)' <= BufferSize
          /\ (\A p \in Working' : pc'[p] # "publish") => nextToClaim' = Wrap(Items' + 1)
    <3>1. Working' = Working /\ Working \subseteq Producers
      BY WorkingProduce DEF Working
    <3>2. At(Items)' = At(Items)
      BY <1>1 DEF At
    <3> QED
      BY <1>1, <3>1, <3>2 DEF Ring, Claims
  <2> QED
    BY <2>1, <2>2, <2>3, <2>4 DEF Claims
<1>7. Reading'
  <2>1. At(nextToRead[Reader])' = At(nextToRead[Reader])
    BY <1>1 DEF At
  <2> QED
    BY <1>4, <2>1 DEF Ring, Reading
<1>8. Slotted'
  <2>1. kind' = "multi" => \A i \in 1..BufferSize :
          /\ published'[Slot(Number(i)')] \in {Number(i)', Number(i - BufferSize)'}
          /\ IsPublished(Number(i))' =>
                /\ i <= Top'
                /\ \A p \in Producers : Holds(p)' /\ First(p)' <= i /\ i <= Final(p)' =>
                      pc'[p] = "publish" /\ First(p)' < i /\ i < At(local[p].seen)'
    <3> SUFFICES ASSUME kind = "multi", NEW i \in 1..BufferSize
                 PROVE  /\ published'[Slot(Number(i)')] \in {Number(i)', Number(i - BufferSize)'}
                        /\ IsPublished(Number(i))' =>
                              /\ i <= Top'
                              /\ \A p \in Producers : Holds(p)' /\ First(p)' <= i /\ i <= Final(p)' =>
                                    pc'[p] = "publish" /\ First(p)' < i /\ i < At(local[p].seen)'
      OBVIOUS
    <3>1. IsPublished(Number(i))' <=> IsPublished(Number(i))
      BY <1>4 DEF IsPublished
    <3>2. \A p \in Producers : pc[p] = "publish" => At(local[p].seen)' = At(local[p].seen)
      BY <1>1 DEF At
    <3> QED
      BY <1>2, <1>3, <1>4, <3>1, <3>2 DEF Ring, Slotted
  <2>2. \A i \in 1..BufferSize : Written(i)' => buffer'[Slot(Number(i)')] = Number(i)'
    <3>1. \A i : Written(i)' <=> Written(i)
      BY <1>2, <1>4 DEF Written
    <3> QED
      BY <1>4, <3>1 DEF Ring, Slotted
  <2> QED
    BY <2>1, <2>2 DEF Slotted
<1> QED
  BY <1>6, <1>7, <1>8 DEF Ring


LEMMA RangeType ==
  ASSUME Typed
  PROVE  /\ \A p \in Producers : /\ range[p].begin \in SequenceNumbers /\ range[p].end \in SequenceNumbers
                                 /\ Wrap(range[p].end - 1) \in SequenceNumbers
                                 /\ First(p) \in Int /\ -Half <= First(p) /\ First(p) < Half
                                 /\ Final(p) \in Int /\ -Half <= Final(p) /\ Final(p) < Half
         /\ nextToClaim \in SequenceNumbers /\ Wrap(nextToClaim - 1) \in SequenceNumbers
         /\ Top \in Int /\ -Half <= Top /\ Top < Half
         /\ At(Items) \in Int
<1>1. /\ nextToClaim \in SequenceNumbers
      /\ \A p \in Producers : range[p].begin \in SequenceNumbers /\ range[p].end \in SequenceNumbers
  BY DEF Typed, RingTypeOK
<1>2. \A s \in SequenceNumbers : Wrap(s - 1) \in SequenceNumbers
  BY Numbers, WrapType
<1> QED
  BY <1>1, <1>2, AtType, GateType DEF First, Final, Top

\* How a number and the one before it are counted.
LEMMA Before ==
  ASSUME Typed, NEW s \in SequenceNumbers, 0 <= At(Wrap(s - 1)), At(Wrap(s - 1)) < Half - 1
  PROVE  At(s) = At(Wrap(s - 1)) + 1
<1> DEFINE r == Wrap(s - 1)
<1>1. r \in SequenceNumbers /\ s \in Int /\ s - 1 \in Int
  BY Numbers, WrapType
<1>2. Wrap(r + 1) = s
  <2>1. Wrap(r + 1) = Wrap((s - 1) + 1)
    BY <1>1, WrapSum
  <2> QED
    BY <1>1, <2>1, Numbers
<1>3. 0 <= At(r) /\ At(r) < Half - 1
  OBVIOUS
<1> HIDE DEF r
<1>4. At(r) \in Int /\ -Half <= At(r) + 1 /\ At(r) + 1 < Half
  BY <1>1, <1>3, AtType, Sizes
<1>5. At(Wrap(r + 1)) = At(r) + 1
  BY <1>1, <1>4, AtFurther
<1> QED
  BY <1>2, <1>5 DEF r

LEMMA NumbersClaimed ==
  ASSUME OneConsumer, Typed, Ring, NEW n \in Int, 1 <= n, n < Half,
         Wrap(Wrap(nextToClaim + n) - 1 - lastPublished["gate"]) < Half
  PROVE  /\ At(nextToClaim) = Top + 1
         /\ At(Wrap(Wrap(nextToClaim + n) - 1)) = Top + n
         /\ Wrap(nextToClaim + n) \in SequenceNumbers
<1> DEFINE t == Wrap(nextToClaim - 1)
           e == Wrap(nextToClaim + n)
           d == Wrap(e - 1)
<1>1. /\ t \in SequenceNumbers /\ t \in Int /\ nextToClaim \in Int /\ nextToClaim \in SequenceNumbers
      /\ Gate \in SequenceNumbers /\ Gate \in Int /\ lastPublished["gate"] = Gate
      /\ Top = At(t) /\ At(t) \in Int /\ 0 <= At(t) /\ At(t) < Half
  BY RangeType, GateType, Numbers, AtType DEF Top, Ring, Claims
<1>2. e \in SequenceNumbers /\ e \in Int /\ d \in SequenceNumbers /\ d \in Int
  BY <1>1, WrapType
<1>3. d = Wrap(nextToClaim + n - 1)
  <2>1. Wrap(Wrap(nextToClaim + n) + (-1)) = Wrap((nextToClaim + n) + (-1))
    BY <1>1, WrapSum
  <2> QED
    BY <1>1, <1>2, <2>1
<1>4. Wrap(t + n) = d
  <2>1. Wrap(t + n) = Wrap((nextToClaim - 1) + n)
    BY <1>1, WrapSum
  <2>2. (nextToClaim - 1) + n = nextToClaim + n - 1
    BY <1>1
  <2> QED
    BY <1>3, <2>1, <2>2
<1>5. t = Wrap(Gate + At(t))
  BY <1>1, NumberAt DEF Number
<1>6. d = Wrap(Gate + (At(t) + n))
  <2>1. Wrap(Wrap(Gate + At(t)) + n) = Wrap((Gate + At(t)) + n)
    <3> DEFINE k == Gate + At(t)
    <3>1. k \in Int
      BY <1>1
    <3> HIDE DEF k
    <3>2. Wrap(Wrap(k) + n) = Wrap(k + n)
      BY <3>1, WrapSum
    <3> QED
      BY <3>2 DEF k
  <2>2. (Gate + At(t)) + n = Gate + (At(t) + n)
    BY <1>1
  <2> QED
    BY <1>4, <1>5, <2>1, <2>2
<1>7. Wrap(e - 1 - Gate) = Wrap(At(t) + n)
  <2>1. e - 1 \in Int /\ (e - 1) + (-Gate) = e - 1 - Gate /\ d + (-Gate) = d - Gate
    BY <1>1, <1>2
  <2>2. Wrap(Wrap(e - 1) + (-Gate)) = Wrap((e - 1) + (-Gate))
    BY <1>1, <2>1, WrapSum
  <2> DEFINE k == Gate + (At(t) + n)
  <2>3. k \in Int /\ k + (-Gate) = At(t) + n
    BY <1>1
  <2>4. d = Wrap(k)
    BY <1>6
  <2> HIDE DEF k, d
  <2>5. Wrap(Wrap(k) + (-Gate)) = Wrap(k + (-Gate))
    BY <1>1, <2>3, WrapSum
  <2> QED
    BY <2>1, <2>2, <2>3, <2>4, <2>5 DEF d
<1>8. At(t) + n \in 0..(Modulus - 1) /\ Wrap(At(t) + n) < Half
  <2> HIDE DEF t, e
  <2>1. At(t) + n < 2 * Half /\ 0 <= At(t) + n
    BY <1>1, Sizes
  <2> QED
    BY <1>1, <1>7, <2>1, Sizes DEF e
<1>9. At(t) + n < Half
  <2>1. Wrap(At(t) + n) = At(t) + n
    BY <1>8, Sizes DEF Wrap
  <2> QED
    BY <1>8, <2>1
<1>10. At(Wrap(t + n)) = At(t) + n
  BY <1>1, <1>9, Sizes, AtFurther
<1>11. At(nextToClaim) = At(t) + 1
  <2>1. 0 <= At(Wrap(nextToClaim - 1)) /\ At(Wrap(nextToClaim - 1)) < Half - 1
    BY <1>1, <1>9, Sizes
  <2> QED
    BY <1>1, <2>1, Before
<1> QED
  BY <1>1, <1>2, <1>4, <1>10, <1>11


\* What does not change while nothing is published.
LEMMA ComeKept ==
  ASSUME lastPublished' = lastPublished, kind' = kind, published' = published
  PROVE  /\ Gate' = Gate /\ Items' = Items
         /\ \A i : (Come(i)' <=> Come(i)) /\ Number(i)' = Number(i)
                   /\ (IsPublished(Number(i))' <=> IsPublished(Number(i)))
         /\ At(Items)' = At(Items)
<1>1. Gate' = Gate /\ Items' = Items
  BY DEF Gate, Items
<1> QED
  BY <1>1 DEF Come, IsPublished, Number, At

LEMMA WorkingAlone ==
  ASSUME OneConsumer, Typed, NEW p \in Working, kind = "single"
  PROVE  Working = {p} /\ \A q \in Producers : q # p => pc[q] = "idle" /\ ~Holds(q)
<1>1. Working = {p}
  BY DEF Working
<1>2. ASSUME NEW q \in Producers, q # p
      PROVE  pc[q] = "idle" /\ ~Holds(q)
  <2>1. pc[q] = "idle"
    BY <1>1, <1>2 DEF Typed, Roles
  <2> QED
    BY <2>1 DEF Holds, Holding, BarrierLabels
<1> QED
  BY <1>1, <1>2

LEMMA RingInClaim ==
  ASSUME OneConsumer, Typed, Ring, NEW p \in Threads, Claim(p)
  PROVE  Ring'
<1>1. /\ pc[p] = "idle" /\ pc'[p] = "claim" /\ OnlyOf(p)
      /\ p \in Producers /\ p \in Working /\ p # Reader
      /\ lastPublished' = lastPublished /\ kind' = kind /\ published' = published
      /\ nextToRead' = nextToRead /\ buffer' = buffer
  BY UserIs, WorkingProduce, Parties DEF Claim, Write, Read, Publish, ReleaseSlots, PublishRange, PublishSequence
<1>2. PICK count \in 1..MaxClaim :
        LET n == IF kind = "multi" THEN Min({count, BufferSize}) ELSE count
            end == Wrap(nextToClaim + n)
        IN /\ Wrap(end - 1 - lastPublished["gate"]) < Half
           /\ range' = [range EXCEPT ![p] = [begin |-> nextToClaim, end |-> end]]
           /\ nextToClaim' = IF kind = "multi" THEN end ELSE nextToClaim
  BY DEF Claim
<1> DEFINE N == IF kind = "multi" THEN Min({count, BufferSize}) ELSE count
<1>3. PICK n \in Int : n = N
  BY ClaimSize
<1>4. 1 <= n /\ n < Half /\ (kind = "multi" => n <= BufferSize)
  BY <1>3, ClaimSize
<1>5. PICK end : end = Wrap(nextToClaim + n)
  OBVIOUS
<1>6. /\ Wrap(end - 1 - lastPublished["gate"]) < Half
      /\ range' = [range EXCEPT ![p] = [begin |-> nextToClaim, end |-> end]]
      /\ nextToClaim' = IF kind = "multi" THEN end ELSE nextToClaim
  BY <1>2, <1>3, <1>5
<1> HIDE DEF N
<1>7. /\ At(nextToClaim) = Top + 1 /\ At(Wrap(end - 1)) = Top + n /\ end \in SequenceNumbers
  BY <1>4, <1>5, <1>6, NumbersClaimed
<1>8. /\ Gate' = Gate /\ Items' = Items
      /\ \A i : (Come(i)' <=> Come(i)) /\ Number(i)' = Number(i)
                /\ (IsPublished(Number(i))' <=> IsPublished(Number(i)))
      /\ At(Items)' = At(Items)
  BY <1>1, ComeKept
<1>9. range'[p].begin = nextToClaim /\ range'[p].end = end
      /\ \A q \in Producers : q # p => range'[q] = range[q]
  BY <1>1, <1>6 DEF Typed, RingTypeOK
<1>10. First(p)' = Top + 1 /\ Final(p)' = Top + n
       /\ \A q \in Producers : q # p => First(q)' = First(q) /\ Final(q)' = Final(q)
  BY <1>7, <1>8, <1>9 DEF First, Final, At
<1>11. Top' = IF kind = "multi" THEN Top + n ELSE Top
  <2>1. CASE kind = "multi"
    BY <1>6, <1>7, <1>8, <2>1 DEF Top, At
  <2>2. CASE kind # "multi"
    BY <1>6, <1>8, <2>2 DEF Top, At
  <2> QED
    BY <2>1, <2>2
<1>12. Top \in Int /\ 0 <= Top
  BY RangeType DEF Ring, Claims
<1>13. \A q \in Producers : q # p => /\ Holds(q)' <=> Holds(q)
                                     /\ pc'[q] = pc[q] /\ At(local[q].seen)' = At(local[q].seen)
  <2> TAKE q \in Producers
  <2> HAVE q # p
  <2>1. q \in Threads /\ pc'[q] = pc[q] /\ local'[q] = local[q]
    BY <1>1, Parties DEF OnlyOf
  <2> QED
    BY <1>8, <2>1 DEF Holds, At
<1>14. ~Holds(p) /\ Holds(p)'
  BY <1>1 DEF Holds, Holding, BarrierLabels
<1>15. Claims'
  <2>1. ASSUME NEW q \in Producers, Holds(q)'
        PROVE  ClaimOf(q)'
    <3>1. CASE q = p
      <4>1. pc'[p] = "claim" /\ (kind = "single" => range'[p].begin = nextToClaim')
        BY <1>1, <1>6, <1>9
      <4> QED
        BY <1>1, <1>4, <1>10, <1>11, <1>12, <3>1, <4>1, Sizes DEF ClaimOf
    <3>2. CASE q # p
      <4>1. ClaimOf(q) /\ Holds(q)
        BY <1>13, <2>1, <3>2 DEF Ring, Claims
      <4>2. CASE kind = "single"
        BY <1>1, <3>2, <4>1, <4>2, WorkingAlone
      <4>3. CASE kind = "multi"
        <5>1. Final(q) <= Top'
          BY <1>4, <1>11, <1>12, <4>1, <4>3, RangeType DEF ClaimOf
        <5> QED
          BY <1>1, <1>10, <1>13, <3>2, <4>1, <4>3, <5>1 DEF ClaimOf
      <4> QED
        BY <4>2, <4>3, RolesOf
    <3> QED
      BY <3>1, <3>2
  <2>2. ASSUME kind' = "multi", NEW q \in Producers, NEW r \in Producers, Holds(q)', Holds(r)', q # r
        PROVE  Final(q)' < First(r)' \/ Final(r)' < First(q)'
    <3>1. \A x \in Producers : x # p /\ Holds(x) => Final(x) <= Top /\ Final(x) \in Int
      BY <1>1, <2>2, RangeType DEF Ring, Claims, ClaimOf
    <3>2. CASE q = p
      BY <1>10, <1>12, <1>13, <2>2, <3>1, <3>2
    <3>3. CASE r = p
      BY <1>10, <1>12, <1>13, <2>2, <3>1, <3>3
    <3>4. CASE q # p /\ r # p
      BY <1>1, <1>10, <1>13, <2>2, <3>4 DEF Ring, Claims
    <3> QED
      BY <3>2, <3>3, <3>4
  <2>3. 0 <= Top'
    BY <1>4, <1>11, <1>12
  <2>4. kind' = "single" =>
          /\ 0 <= At(Items)' /\ At(Items)' <= BufferSize
          /\ (\A q \in Working' : pc'[q] # "publish") => nextToClaim' = Wrap(Items' + 1)
    <3>1. Working' = Working
      BY <1>1 DEF Working
    <3>2. ASSUME kind = "single" PROVE \A q \in Working : pc[q] # "publish"
      BY <1>1, <3>2, WorkingAlone
    <3> QED
      BY <1>1, <1>6, <1>8, <3>1, <3>2 DEF Ring, Claims
  <2> QED
    BY <2>1, <2>2, <2>3, <2>4 DEF Claims
<1>16. Reading'
  <2>1. At(nextToRead[Reader])' = At(nextToRead[Reader])
    BY <1>1, <1>8 DEF At
  <2>2. pc'[Reader] = pc[Reader]
    BY <1>1, Parties DEF OnlyOf
  <2> QED
    BY <1>8, <2>1, <2>2 DEF Ring, Reading
<1>17. Slotted'
  <2>1. ASSUME kind = "multi", NEW i \in 1..BufferSize
        PROVE  /\ published'[Slot(Number(i)')] \in {Number(i)', Number(i - BufferSize)'}
               /\ IsPublished(Number(i))' =>
                     /\ i <= Top'
                     /\ \A q \in Producers : Holds(q)' /\ First(q)' <= i /\ i <= Final(q)' =>
                           pc'[q] = "publish" /\ First(q)' < i /\ i < At(local[q].seen)'
    <3>1. published'[Slot(Number(i)')] \in {Number(i)', Number(i - BufferSize)'}
      BY <1>1, <1>8, <2>1 DEF Ring, Slotted
    <3>2. ASSUME IsPublished(Number(i))
          PROVE  /\ i <= Top'
                 /\ \A q \in Producers : Holds(q)' /\ First(q)' <= i /\ i <= Final(q)' =>
                           pc'[q] = "publish" /\ First(q)' < i /\ i < At(local[q].seen)'
      <4>1. i <= Top /\ i \in Int
        BY <2>1, <3>2 DEF Ring, Slotted
      <4>2. \A q \in Producers : q # p => (Holds(q)' /\ First(q)' <= i /\ i <= Final(q)' =>
                           pc'[q] = "publish" /\ First(q)' < i /\ i < At(local[q].seen)')
        BY <1>10, <1>13, <2>1, <3>2 DEF Ring, Slotted
      <4>3. ~(First(p)' <= i)
        BY <1>10, <1>12, <4>1
      <4>4. i <= Top'
        BY <1>4, <1>11, <1>12, <4>1
      <4> QED
        BY <4>2, <4>3, <4>4
    <3> QED
      BY <1>8, <3>1, <3>2
  <2>2. \A i \in 1..BufferSize : Written(i)' => buffer'[Slot(Number(i)')] = Number(i)'
    <3>1. \A i : Written(i)' => Written(i)
      BY <1>1, <1>8, <1>10, <1>13 DEF Written
    <3> QED
      BY <1>1, <1>8, <3>1 DEF Ring, Slotted
  <2> QED
    BY <1>1, <2>1, <2>2 DEF Slotted
<1> QED
  BY <1>15, <1>16, <1>17 DEF Ring

LEMMA Resumed ==
  ASSUME OneConsumer, Typed, Places, NEW t \in Threads, ResumeNext(t)
  PROVE  LET a == Head(local[t].resume) IN
           /\ a \in Threads /\ Has(local[t].resume, a) /\ Keeps(t, a) /\ Waits(a)
           /\ pc[a] \in {"suspended"} \cup Adding
           /\ Serves(t) = WaitsFor(a)
           /\ \A x \in Threads : Has(Tail(local[t].resume), x) <=> x # a /\ Has(local[t].resume, x)
<1>1. local[t].resume # <<>> /\ local[t].resume \in Seq(Threads) /\ Once(local[t].resume)
  BY TidyLists, ResumeNextIs
<1> DEFINE a == Head(local[t].resume)
<1>2. /\ a \in Threads /\ Has(local[t].resume, a)
      /\ \A x \in Threads : Has(Tail(local[t].resume), x) <=> x # a /\ Has(local[t].resume, x)
  BY <1>1, TailHas
<1>3. Keeps(t, a)
  BY <1>2 DEF Keeps
<1>4. Waits(a) /\ Serves(t) = WaitsFor(a)
  BY <1>2, <1>3 DEF Places, Placed
<1> QED
  BY <1>2, <1>3, <1>4 DEF Waits

LEMMA TypedNext ==
  ASSUME OneConsumer, Typed, Places, NEW t \in Threads, InCall(t) \/ User(t)
  PROVE  Typed'
<1>1. CASE /\ WaitStep(t, WaitsFor(t)) \/ PublishStep(t, PublishesTo(t))
           /\ UNCHANGED <<published, ringVars>>
  BY <1>1, TypedInList, TypedPublishing
<1>2. CASE ResumeNext(t) /\ UNCHANGED <<published, ringVars>>
  BY <1>2, Resumed, TypedResuming
<1>3. CASE (SequencerWaitStep(t) \/ SequencerPublishStep(t)) /\ UNCHANGED ringVars
  BY <1>3, TypedInSequencer, TypedInSequencerPublishing
<1>4. CASE Publish(t) \/ ReleaseSlots(t)
  BY <1>4, TypedInPublication
<1>5. CASE User(t)
  BY <1>5, TypedInClaim, TypedInAwaits, TypedInWriteAndRead DEF User
<1> QED
  BY <1>1, <1>2, <1>3, <1>4, <1>5 DEF InCall

\* Which numbers a range holds.
LEMMA Within ==
  ASSUME Typed, NEW b \in SequenceNumbers, NEW e \in SequenceNumbers, NEW s \in SequenceNumbers,
         1 <= At(b), At(b) <= At(Wrap(e - 1))
  PROVE  Wrap(s - b) < Wrap(e - b) <=> At(b) <= At(s) /\ At(s) <= At(Wrap(e - 1))
<1>1. b \in Int /\ e \in Int /\ s \in Int /\ Wrap(e - 1) \in SequenceNumbers
  BY Numbers, WrapType
<1>2. PICK x \in Int : x = At(b)
  BY AtType
<1>3. PICK y \in Int : y = At(s)
  BY AtType
<1>4. PICK z \in Int : z = At(Wrap(e - 1))
  BY <1>1, AtType
<1>5. /\ -Half <= x /\ x < Half /\ -Half <= y /\ y < Half /\ -Half <= z /\ z < Half
  BY <1>1, <1>2, <1>3, <1>4, AtType
<1>6. Gate \in SequenceNumbers /\ Gate \in Int
  BY GateType
<1>7. /\ Wrap(Gate + x) = b /\ Wrap(Gate + y) = s /\ Wrap(Gate + z) = Wrap(e - 1)
  BY <1>1, <1>2, <1>3, <1>4, NumberAt DEF Number
<1>8. Wrap(s - b) = Wrap(y - x)
  <2>1. Wrap(s - b) = Wrap(s - (Gate + x))
    <3>1. Gate + x \in Int
      BY <1>2, <1>6
    <3>2. Wrap(s - Wrap(Gate + x)) = Wrap(s - (Gate + x))
      BY <1>1, <3>1, WrapSum
    <3> QED
      BY <1>7, <3>2
  <2>2. Wrap(s - (Gate + x)) = Wrap(Wrap(Gate + y) + (- (Gate + x)))
    <3>1. s - (Gate + x) = s + (- (Gate + x))
      BY <1>1, <1>2, <1>6
    <3> QED
      BY <1>7, <3>1
  <2>3. Wrap(Wrap(Gate + y) + (- (Gate + x))) = Wrap((Gate + y) + (- (Gate + x)))
    <3>1. Gate + y \in Int /\ - (Gate + x) \in Int
      BY <1>2, <1>3, <1>6
    <3> QED
      BY <3>1, WrapSum
  <2>4. (Gate + y) + (- (Gate + x)) = y - x
    BY <1>2, <1>3, <1>6
  <2> QED
    BY <2>1, <2>2, <2>3, <2>4
<1>9. Wrap(e - b) = Wrap((z - x) + 1)
  <2>1. Wrap(e - b) = Wrap(e - (Gate + x))
    <3>1. Gate + x \in Int
      BY <1>2, <1>6
    <3>2. Wrap(e - Wrap(Gate + x)) = Wrap(e - (Gate + x))
      BY <1>1, <3>1, WrapSum
    <3> QED
      BY <1>7, <3>2
  <2>2. e = Wrap(Wrap(e - 1) + 1)
    <3>1. Wrap(Wrap(e - 1) + 1) = Wrap((e - 1) + 1)
      BY <1>1, WrapSum
    <3>2. (e - 1) + 1 = e
      BY <1>1
    <3> QED
      BY <3>1, <3>2, Numbers
  <2>3. e = Wrap((Gate + z) + 1)
    <3>1. Gate + z \in Int
      BY <1>4, <1>6
    <3> QED
      BY <1>7, <2>2, <3>1, WrapSum
  <2>4. Wrap(e - (Gate + x)) = Wrap(Wrap((Gate + z) + 1) + (- (Gate + x)))
    <3>1. e - (Gate + x) = e + (- (Gate + x))
      BY <1>1, <1>2, <1>6
    <3> QED
      BY <2>3, <3>1
  <2>5. Wrap(Wrap((Gate + z) + 1) + (- (Gate + x))) = Wrap(((Gate + z) + 1) + (- (Gate + x)))
    <3>1. (Gate + z) + 1 \in Int /\ - (Gate + x) \in Int
      BY <1>2, <1>4, <1>6
    <3> QED
      BY <3>1, WrapSum
  <2>6. ((Gate + z) + 1) + (- (Gate + x)) = (z - x) + 1
    BY <1>2, <1>4, <1>6
  <2> QED
    BY <2>1, <2>4, <2>5, <2>6
<1>10. Modulus \in Nat \ {0} /\ Modulus = 2 * Half /\ Half \in Nat \ {0}
  BY Sizes
<1>11. Wrap((z - x) + 1) = (z - x) + 1
  <2>1. (z - x) + 1 \in 0..(Modulus - 1)
    BY <1>2, <1>4, <1>5, <1>10
  <2> QED
    BY <1>10, <2>1, RemainderIs DEF Wrap
<1>12. Wrap(y - x) = IF x <= y THEN y - x ELSE (y - x) + Modulus
  <2>1. CASE x <= y
    <3>1. y - x \in 0..(Modulus - 1)
      BY <1>3, <1>2, <1>5, <1>10, <2>1
    <3> QED
      BY <1>10, <2>1, <3>1, RemainderIs DEF Wrap
  <2>2. CASE ~(x <= y)
    <3>1. (y - x) + Modulus \in 0..(Modulus - 1)
      BY <1>3, <1>2, <1>5, <1>10, <2>2
    <3>2. y - x = (Modulus * (-1)) + ((y - x) + Modulus) /\ y - x \in Int
      BY <1>2, <1>3, <1>10
    <3> QED
      BY <1>10, <2>2, <3>1, <3>2, RemainderIs DEF Wrap
  <2> QED
    BY <2>1, <2>2
<1> QED
  BY <1>2, <1>3, <1>4, <1>5, <1>8, <1>9, <1>10, <1>11, <1>12

\* The items of a range are in its slots.
LEMMA BufferWritten ==
  ASSUME Typed, NEW b \in SequenceNumbers, NEW e \in SequenceNumbers,
         1 <= At(b), At(b) <= At(Wrap(e - 1)), At(Wrap(e - 1)) <= BufferSize,
         buffer' = [i \in Slots |->
              LET written == {s \in SequenceNumbers :
                                Slot(s) = i /\ Wrap(s - b) < Wrap(e - b)}
              IN IF written = {} THEN buffer[i] ELSE CHOOSE s \in written : TRUE]
  PROVE  \A j \in 1..BufferSize :
            buffer'[Slot(Number(j))] = IF At(b) <= j /\ j <= At(Wrap(e - 1)) THEN Number(j)
                                       ELSE buffer[Slot(Number(j))]
<1> TAKE j \in 1..BufferSize
<1>1. PICK f \in Int : f = At(b)
  BY AtType
<1>2. PICK l \in Int : l = At(Wrap(e - 1))
  BY AtType, WrapType, Numbers
<1>3. j \in Int /\ 1 <= j /\ j <= BufferSize /\ BufferSize \in Nat /\ BufferSize < Half /\ Half \in Nat
  BY Sizes
<1>4. Number(j) \in SequenceNumbers /\ At(Number(j)) = j /\ Slot(Number(j)) \in Slots
  BY <1>3, AtNumber, SlotsOfNumbers
<1> DEFINE Here == {s \in SequenceNumbers : Slot(s) = Slot(Number(j)) /\ Wrap(s - b) < Wrap(e - b)}
<1>5. \A s : s \in Here <=> s = Number(j) /\ f <= j /\ j <= l
  <2> TAKE s
  <2>1. ASSUME s \in Here PROVE s = Number(j) /\ f <= j /\ j <= l
    <3>1. s \in SequenceNumbers /\ Slot(s) = Slot(Number(j)) /\ f <= At(s) /\ At(s) <= l
      BY <1>1, <1>2, <2>1, Within
    <3>2. At(s) \in Int
      BY <3>1, AtType
    <3>3. At(s) - j < BufferSize /\ j - At(s) < BufferSize
      BY <1>1, <1>2, <1>3, <3>1, <3>2
    <3>4. Slot(Number(At(s))) = Slot(Number(j))
      BY <3>1, NumberAt
    <3>5. At(s) = j
      BY <1>3, <3>2, <3>3, <3>4, SlotsOfNumbers
    <3> QED
      BY <1>4, <3>1, <3>5, SameAt
  <2>2. ASSUME s = Number(j), f <= j, j <= l PROVE s \in Here
    BY <1>1, <1>2, <1>4, <2>2, Within
  <2> QED
    BY <2>1, <2>2
<1>6. buffer'[Slot(Number(j))] = IF Here = {} THEN buffer[Slot(Number(j))] ELSE CHOOSE s \in Here : TRUE
  BY <1>4
<1> HIDE DEF Here
<1> QED
  BY <1>1, <1>2, <1>5, <1>6

\* Writing is waited for: the range fits the slots that have been read.
LEMMA ClaimedIs ==
  ASSUME OneConsumer, Typed, Ring, Known, NEW p \in Producers, pc[p] = "resumed"
  PROVE  /\ Claimed(p).begin = range[p].begin /\ Claimed(p).end \in SequenceNumbers
         /\ Claimed(p) = [begin |-> Claimed(p).begin, end |-> Claimed(p).end]
         /\ First(p) <= At(Wrap(Claimed(p).end - 1)) /\ At(Wrap(Claimed(p).end - 1)) <= BufferSize
         /\ kind = "multi" => Claimed(p).end = range[p].end
         /\ At(Wrap(Claimed(p).end - 1)) \in Int
<1>1. /\ p \in Threads /\ WaitsFor(p) = "gate" /\ Compared("gate")
      /\ op[p].target \in SequenceNumbers /\ op[p].known \in SequenceNumbers
      /\ range[p] = [begin |-> range[p].begin, end |-> range[p].end]
      /\ range[p].begin \in SequenceNumbers /\ range[p].end \in SequenceNumbers
      /\ Wrap(range[p].end - 1) \in SequenceNumbers
      /\ lastPublished["gate"] = Gate
  BY Parties, RangeType DEF Compared, Typed, RingTypeOK, Operations, Gate
<1>2. /\ op[p].target = ClaimTarget(p)
      /\ At(op[p].target) <= At(op[p].known) /\ At(op[p].known) <= At(Gate)
  <2>1. Comparisons(p)
    BY <1>1 DEF Known
  <2>2. pc[p] \in Awaiting
    BY DEF Awaiting
  <2> QED
    BY <1>1, <2>1, <2>2 DEF Comparisons, Target
<1>3. PICK k \in Int : k = At(op[p].known)
  BY <1>1, AtType
<1>4. k <= 0 /\ At(op[p].target) <= k /\ -Half <= k
  BY <1>1, <1>2, <1>3, AtGate, AtType
<1>5. /\ BufferSize \in Nat \ {0} /\ 2 * BufferSize <= Half /\ BufferSize + 1 < Half
      /\ Half \in Nat \ {0} /\ Modulus = 2 * Half
  BY Sizes
<1>6. Holds(p) /\ ClaimOf(p)
  BY DEF Ring, Claims, Holds, Holding
<1>7. PICK f \in Int, l \in Int : f = First(p) /\ l = Final(p) /\ 1 <= f /\ f <= l /\ l < Half
  BY <1>6, RangeType DEF ClaimOf
<1>8. CASE kind = "multi"
  <2>1. Claimed(p) = range[p]
    BY <1>8 DEF Claimed
  <2>2. op[p].target = Wrap(Wrap(range[p].end - 1) + (- BufferSize))
    <3>1. op[p].target = Wrap((range[p].end - 1) - BufferSize)
      BY <1>2, <1>8 DEF ClaimTarget
    <3>2. (range[p].end - 1) - BufferSize = (range[p].end - 1) + (- BufferSize) /\ range[p].end - 1 \in Int
      BY <1>1, <1>5, Numbers
    <3>3. - BufferSize \in Int
      BY <1>5
    <3>4. Wrap(Wrap(range[p].end - 1) + (- BufferSize)) = Wrap((range[p].end - 1) + (- BufferSize))
      BY <3>2, <3>3, WrapSum
    <3> QED
      BY <3>1, <3>2, <3>4
  <2>3. At(op[p].target) = l + (- BufferSize)
    BY <1>1, <1>5, <1>7, <2>2, AtFurther DEF Final
  <2>4. l <= BufferSize
    BY <1>4, <1>5, <2>3
  <2> QED
    BY <1>1, <1>7, <1>8, <2>1, <2>4 DEF Final
<1>9. CASE kind # "multi"
  <2>1. PICK b \in SequenceNumbers : b = range[p].begin
    BY <1>1
  <2>2. op[p].target = Wrap(b + (- BufferSize))
    <3>1. op[p].target = Wrap(b - BufferSize)
      BY <1>2, <1>9, <2>1 DEF ClaimTarget
    <3>2. b - BufferSize = b + (- BufferSize)
      BY <1>5, Numbers
    <3> QED
      BY <3>1, <3>2
  <2>3. At(b) = f
    BY <1>7, <2>1 DEF First
  <2>4. At(op[p].target) = f + (- BufferSize)
    BY <1>5, <1>7, <2>2, <2>3, AtFurther
  <2> DEFINE available == Wrap(op[p].known + BufferSize - b) + 1
             asked == Wrap(range[p].end - b)
  <2>5. Claimed(p) = [begin |-> b, end |-> Wrap(b + Min({asked, available}))]
    BY <1>9, <2>1 DEF Claimed
  <2>6. available = ((k + BufferSize) - f) + 1
    <3>1. PICK a \in SequenceNumbers : a = Wrap(op[p].known + BufferSize)
      BY <1>1, <1>5, Numbers, WrapType
    <3>2. At(a) = k + BufferSize
      BY <1>1, <1>3, <1>4, <1>5, <3>1, AtFurther
    <3>3. Difference(a, b) = (k + BufferSize) - f
      BY <1>3, <1>4, <1>5, <1>7, <2>3, <2>4, <3>2, Ahead
    <3>4. Wrap((k + BufferSize) - f) = Wrap(a - b)
      BY <3>3, WrapDifference
    <3>5. Wrap(a - b) = Wrap(op[p].known + BufferSize - b)
      <4>1. Wrap(Wrap(op[p].known + BufferSize) + (- b)) = Wrap((op[p].known + BufferSize) + (- b))
        <5>1. op[p].known + BufferSize \in Int /\ - b \in Int
          BY <1>1, <1>5, Numbers
        <5> QED
          BY <5>1, WrapSum
      <4>2. a - b = a + (- b) /\ (op[p].known + BufferSize) + (- b) = op[p].known + BufferSize - b
        BY <1>1, <1>5, Numbers
      <4> QED
        BY <3>1, <4>1, <4>2
    <3>6. (k + BufferSize) - f \in 0..(Modulus - 1)
      BY <1>3, <1>4, <1>5, <1>7, <2>4
    <3>7. Wrap((k + BufferSize) - f) = (k + BufferSize) - f
      BY <3>6, Numbers DEF SequenceNumbers
    <3> QED
      BY <3>4, <3>5, <3>7
  <2>7. asked = (l - f) + 1
    <3>1. PICK e \in SequenceNumbers : e = Wrap(range[p].end - 1)
      BY <1>1
    <3>2. At(e) = l
      BY <1>7, <3>1 DEF Final
    <3>3. Difference(e, b) = l - f
      BY <1>5, <1>7, <2>3, <3>2, Ahead
    <3>4. Wrap(l - f) = Wrap(e - b)
      BY <3>3, WrapDifference
    <3>5. Wrap((e - b) + 1) = Wrap(Wrap(l - f) + 1)
      <4>1. e - b \in Int
        BY Numbers
      <4> QED
        BY <3>4, <4>1, WrapSum
    <3>6. Wrap(range[p].end - b) = Wrap((e - b) + 1)
      <4>1. Wrap(Wrap(range[p].end - 1) + (1 - b)) = Wrap((range[p].end - 1) + (1 - b))
        <5>1. range[p].end - 1 \in Int /\ 1 - b \in Int
          BY <1>1, Numbers
        <5> QED
          BY <5>1, WrapSum
      <4>2. e + (1 - b) = (e - b) + 1 /\ (range[p].end - 1) + (1 - b) = range[p].end - b
        BY <1>1, Numbers
      <4> QED
        BY <3>1, <4>1, <4>2
    <3>7. l - f \in 0..(Modulus - 1) /\ (l - f) + 1 \in 0..(Modulus - 1)
      BY <1>5, <1>7
    <3>8. Wrap(l - f) = l - f /\ Wrap((l - f) + 1) = (l - f) + 1
      BY <3>7, Numbers DEF SequenceNumbers
    <3> QED
      BY <3>5, <3>6, <3>8
  <2> HIDE DEF available, asked
  <2>8. PICK n \in Int : n = Min({asked, available})
    BY <1>3, <1>5, <1>7, <2>6, <2>7, LeastOfTwo
  <2>9. 1 <= n /\ (f + n) - 1 <= BufferSize
    <3>1. available \in Int /\ asked \in Int
      BY <1>3, <1>5, <1>7, <2>6, <2>7
    <3>2. n = IF asked <= available THEN asked ELSE available
      BY <2>8, <3>1, LeastOfTwo
    <3> QED
      BY <1>3, <1>4, <1>5, <1>7, <2>4, <2>6, <2>7, <3>1, <3>2
  <2>10. PICK e \in SequenceNumbers : e = Wrap(b + n)
    BY <2>8, Numbers, WrapType
  <2>11. Claimed(p) = [begin |-> b, end |-> e]
    BY <2>5, <2>8, <2>10
  <2>12. At(Wrap(e - 1)) = f + (n - 1)
    <3>1. Wrap(e - 1) = Wrap(b + (n - 1))
      <4>1. Wrap(Wrap(b + n) + (-1)) = Wrap((b + n) + (-1))
        <5>1. b + n \in Int
          BY <2>8, Numbers
        <5> QED
          BY <5>1, WrapSum
      <4>2. e - 1 = e + (-1) /\ (b + n) + (-1) = b + (n - 1)
        BY <2>8, Numbers
      <4> QED
        BY <2>10, <4>1, <4>2
    <3>2. n - 1 \in Int /\ -Half <= f + (n - 1) /\ f + (n - 1) < Half
      BY <1>5, <1>7, <2>8, <2>9
    <3> QED
      BY <2>3, <3>1, <3>2, AtFurther
  <2>13. Claimed(p).begin = b /\ Claimed(p).end = e
    BY <2>11
  <2>14. f <= f + (n - 1) /\ f + (n - 1) <= BufferSize /\ f + (n - 1) \in Int
    BY <1>5, <1>7, <2>8, <2>9
  <2> QED
    BY <1>7, <1>9, <2>1, <2>10, <2>11, <2>12, <2>13, <2>14
<1> QED
  BY <1>8, <1>9

LEMMA RingInWrite ==
  ASSUME OneConsumer, Typed, Ring, Known, NEW p \in Threads, Write(p)
  PROVE  Ring'
<1>1. /\ pc[p] = "resumed" /\ pc'[p] = "publish" /\ OnlyOf(p)
      /\ p \in Producers /\ p # Reader
      /\ lastPublished' = lastPublished /\ kind' = kind /\ published' = published
      /\ nextToRead' = nextToRead
  BY UserIs, Parties DEF Claim, Write, Read, Publish, ReleaseSlots, PublishRange, PublishSequence
<1>2. PICK r : r = Claimed(p)
  OBVIOUS
<1>3. /\ range' = [range EXCEPT ![p] = r]
      /\ nextToClaim' = IF kind = "single" THEN r.end ELSE nextToClaim
      /\ buffer' = [i \in Slots |->
              LET written == {s \in SequenceNumbers :
                                Slot(s) = i /\ Wrap(s - r.begin) < Wrap(r.end - r.begin)}
              IN IF written = {} THEN buffer[i] ELSE CHOOSE s \in written : TRUE]
      /\ local' = [local EXCEPT ![p].seen = Wrap(r.begin + 1)]
  BY <1>2 DEF Write
<1>4. /\ r.begin = range[p].begin /\ r.end \in SequenceNumbers /\ r.begin \in SequenceNumbers
      /\ First(p) <= At(Wrap(r.end - 1)) /\ At(Wrap(r.end - 1)) <= BufferSize
      /\ kind = "multi" => r.end = range[p].end
      /\ At(Wrap(r.end - 1)) \in Int
  BY <1>1, <1>2, ClaimedIs, RangeType
<1>5. /\ Gate' = Gate /\ Items' = Items
      /\ \A i : (Come(i)' <=> Come(i)) /\ Number(i)' = Number(i)
                /\ (IsPublished(Number(i))' <=> IsPublished(Number(i)))
      /\ At(Items)' = At(Items)
  BY <1>1, ComeKept
<1>6. range'[p] = r /\ \A q \in Producers : q # p => range'[q] = range[q]
  BY <1>1, <1>3 DEF Typed, RingTypeOK
<1>7. Holds(p) /\ ClaimOf(p)
  BY <1>1 DEF Ring, Claims, Holds, Holding
<1>8. PICK f \in Int, l \in Int : /\ f = First(p) /\ l = At(Wrap(r.end - 1))
                                  /\ 1 <= f /\ f <= l /\ l <= BufferSize
  BY <1>1, <1>4, <1>7, RangeType DEF ClaimOf
<1>9. First(p)' = f /\ Final(p)' = l
      /\ \A q \in Producers : q # p => First(q)' = First(q) /\ Final(q)' = Final(q)
  BY <1>4, <1>5, <1>6, <1>8 DEF First, Final, At
<1>10. \A q \in Producers : q # p => /\ Holds(q)' <=> Holds(q)
                                     /\ pc'[q] = pc[q] /\ At(local[q].seen)' = At(local[q].seen)
  <2> TAKE q \in Producers
  <2> HAVE q # p
  <2>1. q \in Threads /\ pc'[q] = pc[q] /\ local'[q] = local[q]
    BY <1>1, Parties DEF OnlyOf
  <2> QED
    BY <1>5, <2>1 DEF Holds, At
<1>11. BufferSize \in Nat \ {0} /\ BufferSize + 1 < Half /\ Half \in Nat
  BY Sizes
<1>12. At(local[p].seen)' = f + 1
  <2>1. local'[p].seen = Wrap(r.begin + 1)
    BY <1>3, LocalStep DEF Sees
  <2>2. At(r.begin) = f
    BY <1>4, <1>8 DEF First
  <2>3. At(Wrap(r.begin + 1)) = f + 1
    BY <1>4, <1>8, <1>11, <2>2, AtFurther
  <2> QED
    BY <1>5, <2>1, <2>3 DEF At
<1>13. kind = "multi" => Top' = Top /\ l = Final(p)
  BY <1>3, <1>4, <1>5, <1>8 DEF Top, At, Final
<1>14. ASSUME kind = "single"
       PROVE  /\ p \in Working /\ Working = {p} /\ (\A q \in Producers : q # p => pc[q] = "idle" /\ ~Holds(q))
              /\ nextToClaim = Wrap(Items + 1) /\ range[p].begin = nextToClaim
              /\ Top' = l /\ nextToClaim' = r.end
  <2>1. p \in Working
    BY <1>1, RolesOf
  <2>2. Working = {p} /\ \A q \in Producers : q # p => pc[q] = "idle" /\ ~Holds(q)
    BY <1>14, <2>1, WorkingAlone
  <2>3. nextToClaim = Wrap(Items + 1)
    BY <1>1, <1>14, <2>2 DEF Ring, Claims
  <2>4. range[p].begin = nextToClaim
    BY <1>1, <1>7, <1>14 DEF ClaimOf
  <2>5. Top' = l /\ nextToClaim' = r.end
    BY <1>3, <1>5, <1>8, <1>14 DEF Top, At
  <2> QED
    BY <2>1, <2>2, <2>3, <2>4, <2>5
<1>15. Claims'
  <2>1. ASSUME NEW q \in Producers, Holds(q)'
        PROVE  ClaimOf(q)'
    <3>1. CASE q = p
      <4>1. CASE kind = "multi"
        BY <1>1, <1>7, <1>8, <1>9, <1>12, <1>13, <3>1, <4>1 DEF ClaimOf
      <4>2. CASE kind = "single"
        <5>1. range'[p].end = nextToClaim' /\ range'[p].begin = Wrap(Items' + 1)
          BY <1>4, <1>5, <1>6, <1>14, <4>2
        <5> QED
          BY <1>1, <1>8, <1>9, <3>1, <4>2, <5>1 DEF ClaimOf
      <4> QED
        BY <4>1, <4>2, RolesOf
    <3>2. CASE q # p
      <4>1. ClaimOf(q) /\ Holds(q)
        BY <1>10, <2>1, <3>2 DEF Ring, Claims
      <4>2. kind = "multi"
        BY <1>14, <3>2, <4>1, RolesOf
      <4> QED
        BY <1>1, <1>9, <1>10, <1>13, <3>2, <4>1, <4>2 DEF ClaimOf
    <3> QED
      BY <3>1, <3>2
  <2>2. ASSUME kind' = "multi", NEW q \in Producers, NEW u \in Producers, Holds(q)', Holds(u)', q # u
        PROVE  Final(q)' < First(u)' \/ Final(u)' < First(q)'
    <3>1. First(p)' = First(p) /\ Final(p)' = Final(p)
      BY <1>1, <1>8, <1>9, <1>13, <2>2
    <3>2. \A x \in Producers : First(x)' = First(x) /\ Final(x)' = Final(x) /\ (Holds(x)' => Holds(x))
      BY <1>7, <1>9, <1>10, <3>1
    <3> QED
      BY <1>1, <2>2, <3>2 DEF Ring, Claims
  <2>3. 0 <= Top'
    <3>1. CASE kind = "multi"
      BY <1>13, <3>1 DEF Ring, Claims
    <3>2. CASE kind = "single"
      BY <1>8, <1>14, <3>2
    <3> QED
      BY <3>1, <3>2, RolesOf
  <2>4. kind' = "single" =>
          /\ 0 <= At(Items)' /\ At(Items)' <= BufferSize
          /\ (\A q \in Working' : pc'[q] # "publish") => nextToClaim' = Wrap(Items' + 1)
    <3>1. Working' = Working
      BY <1>1 DEF Working
    <3> QED
      BY <1>1, <1>5, <1>14, <3>1 DEF Ring, Claims
  <2> QED
    BY <2>1, <2>2, <2>3, <2>4 DEF Claims
<1>16. Reading'
  <2>1. At(nextToRead[Reader])' = At(nextToRead[Reader])
    BY <1>1, <1>5 DEF At
  <2>2. pc'[Reader] = pc[Reader]
    BY <1>1, Parties DEF OnlyOf
  <2> QED
    BY <1>5, <2>1, <2>2 DEF Ring, Reading
<1>17. Slotted'
  <2>1. ASSUME kind = "multi", NEW i \in 1..BufferSize
        PROVE  /\ published'[Slot(Number(i)')] \in {Number(i)', Number(i - BufferSize)'}
               /\ IsPublished(Number(i))' =>
                     /\ i <= Top'
                     /\ \A q \in Producers : Holds(q)' /\ First(q)' <= i /\ i <= Final(q)' =>
                           pc'[q] = "publish" /\ First(q)' < i /\ i < At(local[q].seen)'
    <3>1. published'[Slot(Number(i)')] \in {Number(i)', Number(i - BufferSize)'}
      BY <1>1, <1>5, <2>1 DEF Ring, Slotted
    <3>2. ASSUME IsPublished(Number(i))
          PROVE  /\ i <= Top'
                 /\ \A q \in Producers : Holds(q)' /\ First(q)' <= i /\ i <= Final(q)' =>
                           pc'[q] = "publish" /\ First(q)' < i /\ i < At(local[q].seen)'
      <4>1. i <= Top'
        BY <1>13, <2>1, <3>2 DEF Ring, Slotted
      <4>2. \A q \in Producers : Holds(q) /\ First(q) <= i /\ i <= Final(q) =>
                           pc[q] = "publish" /\ First(q) < i /\ i < At(local[q].seen)
        BY <2>1, <3>2 DEF Ring, Slotted
      <4>3. \A q \in Producers : q # p => (Holds(q)' /\ First(q)' <= i /\ i <= Final(q)' =>
                           pc'[q] = "publish" /\ First(q)' < i /\ i < At(local[q].seen)')
        BY <1>9, <1>10, <4>2
      <4>4. ~(First(p)' <= i /\ i <= Final(p)')
        BY <1>1, <1>7, <1>8, <1>9, <1>13, <2>1, <4>2
      <4> QED
        BY <4>1, <4>3, <4>4
    <3> QED
      BY <1>5, <3>1, <3>2
  <2>2. \A j \in 1..BufferSize :
            buffer'[Slot(Number(j))] = IF f <= j /\ j <= l THEN Number(j)
                                       ELSE buffer[Slot(Number(j))]
    <3>1. PICK b \in SequenceNumbers, e \in SequenceNumbers : b = r.begin /\ e = r.end
      BY <1>4
    <3>2. buffer' = [i \in Slots |->
              LET written == {s \in SequenceNumbers :
                                Slot(s) = i /\ Wrap(s - b) < Wrap(e - b)}
              IN IF written = {} THEN buffer[i] ELSE CHOOSE s \in written : TRUE]
      BY <1>3, <3>1
    <3>3. At(b) = f /\ At(Wrap(e - 1)) = l
      BY <1>4, <1>8, <3>1 DEF First
    <3>4. \A j \in 1..BufferSize :
            buffer'[Slot(Number(j))] = IF At(b) <= j /\ j <= At(Wrap(e - 1)) THEN Number(j)
                                       ELSE buffer[Slot(Number(j))]
      BY <1>8, <3>2, <3>3, BufferWritten, ZenonT(60)
    <3> QED
      BY <3>3, <3>4
  <2>3. \A i \in 1..BufferSize : Written(i)' => buffer'[Slot(Number(i)')] = Number(i)'
    <3> SUFFICES ASSUME NEW i \in 1..BufferSize, Written(i)'
                 PROVE  buffer'[Slot(Number(i))] = Number(i)
      BY <1>5
    <3>1. Written(i) \/ (f <= i /\ i <= l)
      BY <1>5, <1>9, <1>10 DEF Written
    <3> QED
      BY <2>2, <3>1 DEF Ring, Slotted
  <2> QED
    BY <1>1, <2>1, <2>3 DEF Slotted
<1> QED
  BY <1>15, <1>16, <1>17 DEF Ring

\* A number is in one slot of the round only, so storing it moves no other.
LEMMA StoreIs ==
  ASSUME Typed, NEW j \in 1..BufferSize, Store(Number(j)), lastPublished' = lastPublished
  PROVE  /\ IsPublished(Number(j))' /\ published'[Slot(Number(j))] = Number(j)
         /\ \A i \in 1..BufferSize : i # j =>
               /\ published'[Slot(Number(i))] = published[Slot(Number(i))]
               /\ IsPublished(Number(i))' <=> IsPublished(Number(i))
<1>1. \A i : Number(i)' = Number(i)
  BY DEF Number, Gate
<1>2. \A i \in 1..BufferSize : i \in Int /\ Slot(Number(i)) \in Slots
  BY SlotsOfNumbers
<1>3. \A i \in 1..BufferSize : i # j => Slot(Number(i)) # Slot(Number(j))
  <2> TAKE i \in 1..BufferSize
  <2>1. BufferSize \in Nat /\ i - j < BufferSize /\ j - i < BufferSize
    BY Sizes
  <2> QED
    BY <1>2, <2>1, SlotsOfNumbers
<1>4. published' = [published EXCEPT ![Slot(Number(j))] = Number(j)]
  BY DEF Store
<1>5. published \in [Slots -> SequenceNumbers]
  BY DEF Typed, RingTypeOK
<1>6. published'[Slot(Number(j))] = Number(j)
  BY <1>2, <1>4, <1>5
<1>7. \A i \in 1..BufferSize : i # j => published'[Slot(Number(i))] = published[Slot(Number(i))]
  BY <1>2, <1>3, <1>4, <1>5
<1>8. \A i : IsPublished(Number(i))' <=> published'[Slot(Number(i))] = Number(i)
  BY <1>1 DEF IsPublished, Slot
<1> QED
  BY <1>6, <1>7, <1>8 DEF IsPublished

\* A producer of many stores one number, or the first one and is done.
LEMMA RingInStore ==
  ASSUME OneConsumer, Typed, Ring, NEW p \in Threads, Publish(p), kind = "multi"
  PROVE  Ring'
<1>1. /\ pc[p] = "publish" /\ OnlyOf(p) /\ p \in Producers /\ p # Reader
      /\ lastPublished' = lastPublished /\ kind' = kind
      /\ nextToRead' = nextToRead /\ buffer' = buffer /\ nextToClaim' = nextToClaim
  BY UserIs, Parties DEF Claim, Write, Read, Publish, ReleaseSlots, PublishRange, PublishSequence
<1>2. PublishRange(p, range[p].begin, range[p].end)
  BY DEF Publish
<1>3. /\ Gate' = Gate /\ Items' = Items
      /\ \A i : Number(i)' = Number(i)
      /\ At(Items)' = At(Items) /\ \A s : At(s)' = Difference(s', Gate)
  BY <1>1 DEF Gate, Items, Number, At
<1>4. Holds(p) /\ ClaimOf(p)
  BY <1>1 DEF Ring, Claims, Holds, Holding
<1>5. PICK f \in Int, l \in Int, n \in Int, top \in Int : 
         /\ f = First(p) /\ l = Final(p) /\ n = At(local[p].seen) /\ top = Top
         /\ 1 <= f /\ f <= l /\ l <= BufferSize /\ f < n /\ n <= l + 1 /\ l <= top
  <2>1. local[p].seen \in SequenceNumbers
    BY <1>1 DEF Typed, RingTypeOK, Locals
  <2> QED
    BY <1>1, <1>4, <2>1, AtType, RangeType DEF ClaimOf
<1>6. BufferSize \in Nat \ {0} /\ BufferSize + 1 < Half /\ Half \in Nat
  BY Sizes
<1>7. \A q \in Producers : q # p => /\ Holds(q)' <=> Holds(q)
                                    /\ pc'[q] = pc[q] /\ local'[q] = local[q] /\ At(local[q].seen)' = At(local[q].seen)
  <2> TAKE q \in Producers
  <2> HAVE q # p
  <2>1. q \in Threads /\ pc'[q] = pc[q] /\ local'[q] = local[q]
    BY <1>1, Parties DEF OnlyOf
  <2> QED
    BY <1>3, <2>1 DEF Holds, At
<1>8. range' = IF pc'[p] = "publish" THEN range ELSE [range EXCEPT ![p] = NoRange]
  BY DEF Publish
<1>9. \A q \in Producers : q # p => range'[q] = range[q] /\ First(q)' = First(q) /\ Final(q)' = Final(q)
  <2> TAKE q \in Producers
  <2> HAVE q # p
  <2>1. range'[q] = range[q]
    BY <1>1, <1>8 DEF Typed, RingTypeOK
  <2> QED
    BY <1>3, <2>1 DEF First, Final, At
<1>10. Top' = Top
  BY <1>1, <1>3 DEF Top, At
<1>11. PICK j \in Int :
         /\ f <= j /\ j <= l /\ Store(Number(j))
         /\ \/ pc'[p] = "publish" /\ j = n /\ First(p)' = f /\ Final(p)' = l /\ At(local[p].seen)' = n + 1
            \/ ~Holds(p)' /\ pc'[p] # "publish"
  <2>1. CASE local[p].seen # range[p].end
    <3>1. /\ Store(local[p].seen) /\ pc' = pc
          /\ local' = [local EXCEPT ![p].seen = Wrap(local[p].seen + 1)]
      BY <1>2, <2>1 DEF PublishRange
    <3>2. pc'[p] = "publish" /\ range' = range
      BY <1>1, <1>8, <3>1
    <3>3. First(p)' = f /\ Final(p)' = l
      BY <1>3, <1>5, <3>2 DEF First, Final, At
    <3>4. local[p].seen \in SequenceNumbers /\ range[p].end \in SequenceNumbers
      BY <1>1 DEF Typed, RingTypeOK, Locals
    <3>5. n # l + 1
      <4>1. At(range[p].end) = l + 1
        BY <1>4, <1>5, <1>6, <3>4, Before DEF Final
      <4> QED
        BY <1>5, <2>1, <3>4, <4>1, SameAt
    <3>6. local[p].seen = Number(n)
      BY <1>5, <3>4, NumberAt
    <3>7. At(local[p].seen)' = n + 1
      <4>1. local'[p].seen = Wrap(local[p].seen + 1)
        BY <3>1, LocalStep DEF Sees
      <4>2. At(Wrap(local[p].seen + 1)) = n + 1
        <5>1. PICK s \in SequenceNumbers : s = local[p].seen
          BY <3>4
        <5>2. At(s) = n /\ -Half <= n + 1 /\ n + 1 < Half
          BY <1>5, <1>6, <3>5, <5>1
        <5>3. At(Wrap(s + 1)) = n + 1
          BY <5>2, AtFurther
        <5> QED
          BY <5>1, <5>3
      <4> QED
        BY <1>3, <4>1, <4>2 DEF At
    <3>8. f <= n /\ n <= l
      BY <1>5, <3>5
    <3> QED
      BY <3>1, <3>2, <3>3, <3>6, <3>7, <3>8
  <2>2. CASE local[p].seen = range[p].end
    <3>1. Store(range[p].begin) /\ Goto(p, "load")
      BY <1>2, <2>2 DEF PublishRange
    <3>2. pc'[p] = "load"
      BY <3>1, LocalStep
    <3>3. range[p].begin = Number(f)
      BY <1>1, <1>5, RangeType, NumberAt DEF First
    <3>4. ~Holds(p)' /\ pc'[p] # "publish"
      BY <3>2 DEF Holds, Holding, BarrierLabels
    <3> QED
      BY <1>5, <3>1, <3>3, <3>4
  <2> QED
    BY <2>1, <2>2
<1>12. j \in 1..BufferSize
  BY <1>5, <1>6, <1>11
<1>13. /\ IsPublished(Number(j))' /\ published'[Slot(Number(j))] = Number(j)
       /\ \A i \in 1..BufferSize : i # j =>
             /\ published'[Slot(Number(i))] = published[Slot(Number(i))]
             /\ IsPublished(Number(i))' <=> IsPublished(Number(i))
  BY <1>1, <1>11, <1>12, StoreIs
<1>14. Claims'
  <2>1. ASSUME NEW q \in Producers, Holds(q)'
        PROVE  ClaimOf(q)'
    <3>1. CASE q = p
      BY <1>1, <1>5, <1>4, <1>10, <1>11, <2>1, <3>1 DEF ClaimOf
    <3>2. CASE q # p
      <4>1. ClaimOf(q) /\ Holds(q)
        BY <1>7, <2>1, <3>2 DEF Ring, Claims
      <4> QED
        BY <1>1, <1>7, <1>9, <1>10, <3>2, <4>1 DEF ClaimOf
    <3> QED
      BY <3>1, <3>2
  <2>2. ASSUME kind' = "multi", NEW q \in Producers, NEW u \in Producers, Holds(q)', Holds(u)', q # u
        PROVE  Final(q)' < First(u)' \/ Final(u)' < First(q)'
    <3>1. \A x \in Producers : Holds(x)' => First(x)' = First(x) /\ Final(x)' = Final(x) /\ Holds(x)
      BY <1>4, <1>5, <1>7, <1>9, <1>11
    <3> QED
      BY <2>2, <3>1 DEF Ring, Claims
  <2>3. 0 <= Top'
    BY <1>10 DEF Ring, Claims
  <2> QED
    BY <1>1, <2>1, <2>2, <2>3 DEF Claims
<1>15. \A i \in 1..BufferSize : Come(i)' <=> Come(i) \/ i = j
  <2>1. \A i : Come(i)' <=> IsPublished(Number(i))'
    BY <1>1 DEF Come
  <2>2. \A i : Come(i) <=> IsPublished(Number(i))
    BY DEF Come
  <2> QED
    BY <1>13, <2>1, <2>2
<1>16. Reading'
  <2>1. At(nextToRead[Reader])' = At(nextToRead[Reader])
    BY <1>1, <1>3 DEF At
  <2>2. pc'[Reader] = pc[Reader]
    BY <1>1, Parties DEF OnlyOf
  <2> QED
    BY <1>15, <2>1, <2>2 DEF Ring, Reading
<1>17. Slotted'
  <2>1. ASSUME NEW i \in 1..BufferSize
        PROVE  /\ published'[Slot(Number(i)')] \in {Number(i)', Number(i - BufferSize)'}
               /\ IsPublished(Number(i))' =>
                     /\ i <= Top'
                     /\ \A q \in Producers : Holds(q)' /\ First(q)' <= i /\ i <= Final(q)' =>
                           pc'[q] = "publish" /\ First(q)' < i /\ i < At(local[q].seen)'
    <3>1. published'[Slot(Number(i))] \in {Number(i), Number(i - BufferSize)}
      BY <1>13, <2>1 DEF Ring, Slotted
    <3>2. CASE i = j
      <4>1. i <= Top'
        BY <1>5, <1>10, <1>11, <3>2
      <4>2. ASSUME NEW q \in Producers, q # p, Holds(q)', First(q)' <= i, i <= Final(q)'
            PROVE  FALSE
        <5>1. Holds(q) /\ First(q) <= i /\ i <= Final(q)
          BY <1>7, <1>9, <4>2
        <5>2. Final(p) < First(q) \/ Final(q) < First(p)
          BY <1>1, <1>4, <4>2, <5>1 DEF Ring, Claims
        <5> QED
          BY <1>5, <1>11, <3>2, <4>2, <5>1, <5>2, RangeType
      <4>3. ASSUME Holds(p)' PROVE pc'[p] = "publish" /\ First(p)' < i /\ i < At(local[p].seen)'
        BY <1>5, <1>11, <3>2, <4>3
      <4> QED
        BY <1>3, <3>1, <4>1, <4>2, <4>3
    <3>3. CASE i # j
      <4>1. ASSUME IsPublished(Number(i))
            PROVE  /\ i <= Top'
                   /\ \A q \in Producers : Holds(q)' /\ First(q)' <= i /\ i <= Final(q)' =>
                           pc'[q] = "publish" /\ First(q)' < i /\ i < At(local[q].seen)'
        <5>1. /\ i <= Top
              /\ \A q \in Producers : Holds(q) /\ First(q) <= i /\ i <= Final(q) =>
                           pc[q] = "publish" /\ First(q) < i /\ i < At(local[q].seen)
          BY <2>1, <4>1 DEF Ring, Slotted
        <5>2. \A q \in Producers : q # p => (Holds(q)' /\ First(q)' <= i /\ i <= Final(q)' =>
                           pc'[q] = "publish" /\ First(q)' < i /\ i < At(local[q].seen)')
          BY <1>7, <1>9, <5>1
        <5>3. Holds(p)' /\ First(p)' <= i /\ i <= Final(p)' =>
                           pc'[p] = "publish" /\ First(p)' < i /\ i < At(local[p].seen)'
          <6>1. ASSUME Holds(p)', First(p)' <= i, i <= Final(p)'
                PROVE  pc'[p] = "publish" /\ First(p)' < i /\ i < At(local[p].seen)'
            <7>1. pc'[p] = "publish" /\ j = n /\ First(p)' = f /\ Final(p)' = l /\ At(local[p].seen)' = n + 1
              BY <1>11, <6>1
            <7>2. f < i /\ i < n
              BY <1>1, <1>4, <1>5, <5>1, <6>1, <7>1
            <7>3. i < n + 1
              BY <7>2
            <7> QED
              BY <7>1, <7>2, <7>3
          <6> QED
            BY <6>1
        <5> QED
          BY <1>10, <5>1, <5>2, <5>3
      <4> QED
        BY <1>3, <1>13, <3>1, <3>3, <4>1
    <3> QED
      BY <3>2, <3>3
  <2>2. \A i \in 1..BufferSize : Written(i)' => buffer'[Slot(Number(i)')] = Number(i)'
    <3> SUFFICES ASSUME NEW i \in 1..BufferSize, Written(i)'
                 PROVE  Written(i)
      BY <1>1, <1>3 DEF Ring, Slotted
    <3>1. CASE Come(i)'
      <4>1. Come(i) \/ i = j
        BY <1>15, <3>1
      <4> QED
        BY <1>1, <1>5, <1>11, <4>1 DEF Written
    <3>2. ASSUME NEW q \in Producers, pc'[q] = "publish", First(q)' <= i, i <= Final(q)'
          PROVE  Written(i)
      <4>1. pc[q] = "publish" /\ First(q) <= i /\ i <= Final(q)
        BY <1>1, <1>5, <1>7, <1>9, <1>11, <3>2
      <4> QED
        BY <4>1 DEF Written
    <3> QED
      BY <3>1, <3>2 DEF Written
  <2> QED
    BY <1>1, <2>1, <2>2 DEF Slotted
<1> QED
  BY <1>14, <1>16, <1>17 DEF Ring

\* The one producer publishes its range.
LEMMA RingInPublish ==
  ASSUME OneConsumer, Typed, Ring, NEW p \in Threads, Publish(p), kind = "single"
  PROVE  Ring'
<1>1. /\ pc[p] = "publish" /\ OnlyOf(p) /\ p \in Producers /\ p # Reader
      /\ kind' = kind /\ published' = published
      /\ nextToRead' = nextToRead /\ buffer' = buffer /\ nextToClaim' = nextToClaim
      /\ lastPublished' = [lastPublished EXCEPT !["items"] = Wrap(range[p].end - 1)]
      /\ pc'[p] = "loadAwaiters" /\ range' = [range EXCEPT ![p] = NoRange]
  <2>1. OnlyOf(p) /\ pc[p] = "publish"
    BY UserIs, Parties DEF Claim, Write, Read, ReleaseSlots, Publish
  <2>2. /\ PublishSequence(p, "items", Wrap(range[p].end - 1)) /\ published' = published /\ p \in Producers
        /\ kind' = kind /\ nextToRead' = nextToRead /\ buffer' = buffer /\ nextToClaim' = nextToClaim
        /\ range' = IF pc'[p] = "publish" THEN range ELSE [range EXCEPT ![p] = NoRange]
    BY DEF Publish
  <2>3. pc'[p] = "loadAwaiters"
    BY <2>2, LocalStep DEF PublishSequence
  <2> QED
    BY <2>1, <2>2, <2>3, Parties DEF PublishSequence
<1>2. /\ Wrap(range[p].end - 1) \in SequenceNumbers
      /\ Gate' = Gate /\ Items' = Wrap(range[p].end - 1)
  BY <1>1, RangeType DEF Gate, Items, Typed, RingTypeOK, Barriers
<1>3. /\ \A i : Number(i)' = Number(i)
      /\ At(Items)' = Final(p)
  BY <1>2 DEF Number, At, Final
<1>4. Holds(p) /\ ClaimOf(p)
  BY <1>1 DEF Ring, Claims, Holds, Holding
<1>5. p \in Working /\ Working = {p} /\ \A q \in Producers : q # p => pc[q] = "idle" /\ ~Holds(q)
  BY <1>1, RolesOf, WorkingAlone
<1>6. BufferSize \in Nat \ {0} /\ BufferSize + 1 < Half /\ Half \in Nat
  BY Sizes
<1>7. PICK f \in Int, l \in Int, n \in Int :
         /\ f = First(p) /\ l = Final(p) /\ n = At(Items) /\ Top = l
         /\ 1 <= f /\ f <= l /\ l <= BufferSize /\ f = n + 1 /\ 0 <= n
         /\ range[p].end = nextToClaim
  <2>1. range[p].end = nextToClaim /\ range[p].begin = Wrap(Items + 1)
    BY <1>1, <1>4 DEF ClaimOf
  <2>2. Top = Final(p)
    BY <2>1 DEF Top, Final
  <2>3. 0 <= At(Items) /\ At(Items) <= BufferSize /\ At(Items) \in Int
    BY RangeType DEF Ring, Claims
  <2>4. First(p) = At(Items) + 1
    BY <1>6, <2>1, <2>3, GateType, AtFurther DEF First
  <2> QED
    BY <1>1, <1>4, <2>1, <2>2, <2>3, <2>4, RangeType DEF ClaimOf
<1>8. \A q \in Producers : ~Holds(q)' /\ pc'[q] # "publish"
  <2> TAKE q \in Producers
  <2>1. CASE q = p
    BY <1>1, <2>1 DEF Holds, Holding, BarrierLabels
  <2>2. CASE q # p
    <3>1. q \in Threads /\ pc'[q] = "idle"
      BY <1>1, <1>5, <2>2, Parties DEF OnlyOf
    <3> QED
      BY <3>1 DEF Holds, Holding, BarrierLabels
  <2> QED
    BY <2>1, <2>2
<1>9. Claims'
  <2>1. Top' = l
    BY <1>1, <1>2, <1>7 DEF Top, At
  <2>2. nextToClaim' = Wrap(Items' + 1)
    <3>1. PICK e \in SequenceNumbers : e = range[p].end
      BY <1>1, RangeType
    <3>2. e \in Int /\ e - 1 \in Int /\ (e - 1) + 1 = e /\ Wrap(e) = e
      BY Numbers
    <3>3. Wrap(Wrap(e - 1) + 1) = Wrap((e - 1) + 1)
      BY <3>2, WrapSum
    <3> QED
      BY <1>1, <1>2, <1>7, <3>1, <3>2, <3>3
  <2>3. 0 <= At(Items)' /\ At(Items)' <= BufferSize /\ 0 <= Top'
    BY <1>3, <1>7, <2>1
  <2> QED
    BY <1>1, <1>8, <2>2, <2>3 DEF Claims
<1>10. \A i \in 1..BufferSize : (Come(i)' <=> i <= l) /\ (Come(i) <=> i <= n)
  BY <1>1, <1>3, <1>7 DEF Come
<1>11. Reading'
  <2>1. At(nextToRead[Reader])' = At(nextToRead[Reader])
    BY <1>1, <1>2 DEF At
  <2>2. pc'[Reader] = pc[Reader]
    BY <1>1, Parties DEF OnlyOf
  <2>3. \A i \in 1..BufferSize : Come(i) => Come(i)'
    BY <1>7, <1>10
  <2> QED
    BY <2>1, <2>2, <2>3 DEF Ring, Reading
<1>12. Slotted'
  <2>1. \A i \in 1..BufferSize : Written(i)' => buffer'[Slot(Number(i)')] = Number(i)'
    <3> SUFFICES ASSUME NEW i \in 1..BufferSize, Written(i)'
                 PROVE  Written(i)
      BY <1>1, <1>3 DEF Ring, Slotted
    <3>1. Come(i)'
      BY <1>8 DEF Written
    <3>2. i <= n \/ (f <= i /\ i <= l)
      BY <1>7, <1>10, <3>1
    <3> QED
      BY <1>1, <1>7, <1>10, <3>2 DEF Written
  <2> QED
    BY <1>1, <2>1 DEF Slotted
<1> QED
  BY <1>9, <1>11, <1>12 DEF Ring

\* The consumer goes on behind the number it learned.
LEMMA RingInRead ==
  ASSUME OneConsumer, Typed, Ring, Known, NEW c \in Threads, Read(c)
  PROVE  Ring'
<1>1. /\ c = Reader /\ pc[c] = "resumed" /\ pc'[c] = "release" /\ OnlyOf(c)
      /\ lastPublished' = lastPublished /\ kind' = kind /\ published' = published
      /\ range' = range /\ nextToClaim' = nextToClaim /\ buffer' = buffer
      /\ nextToRead' = [nextToRead EXCEPT ![c] = Wrap(op[c].known + 1)]
  <2>1. OnlyOf(c) /\ pc[c] = "resumed" /\ pc'[c] = "release" /\ c \in Consumers
    BY UserIs, Parties DEF Claim, Write, Read, Publish, ReleaseSlots
  <2> QED
    BY <2>1, Parties DEF Read
<1>2. nextToRead'[c] = Wrap(op[c].known + 1) /\ op[c].known \in SequenceNumbers /\ op[c].target \in SequenceNumbers
  BY <1>1, Parties DEF Typed, RingTypeOK, Operations
<1>3. /\ Gate' = Gate /\ Items' = Items
      /\ \A i : (Come(i)' <=> Come(i)) /\ Number(i)' = Number(i)
                /\ (IsPublished(Number(i))' <=> IsPublished(Number(i)))
      /\ At(Items)' = At(Items)
  BY <1>1, ComeKept
<1>4. /\ op[c].target = nextToRead[Reader] /\ At(nextToRead[Reader]) = 1
      /\ At(op[c].target) <= At(op[c].known) /\ At(op[c].known) <= BufferSize
      /\ kind = "single" => At(op[c].known) <= At(Items)
      /\ kind = "multi" => UpTo(op[c].known)
  <2>1. Comparisons(c) /\ Counting(c)
    BY DEF Known
  <2>2. pc[c] \in Awaiting /\ pc[c] # "release"
    BY <1>1 DEF Awaiting
  <2>3. WaitsFor(c) = "items" /\ c \notin Producers /\ lastPublished["items"] = Items
    BY <1>1, Parties DEF Items
  <2> QED
    BY <1>1, <2>1, <2>2, <2>3 DEF Comparisons, Counting, Target, Compared, Ring, Reading
<1>5. PICK k \in Int : k = At(op[c].known) /\ 1 <= k /\ k <= BufferSize
  BY <1>2, <1>4, AtType
<1>6. BufferSize \in Nat \ {0} /\ BufferSize + 1 < Half /\ Half \in Nat
  BY Sizes
<1>7. At(nextToRead[Reader])' = k + 1
  <2>1. At(Wrap(op[c].known + 1)) = k + 1
    BY <1>2, <1>5, <1>6, AtFurther
  <2> QED
    BY <1>1, <1>2, <1>3, <2>1 DEF At
<1>8. \A q \in Producers : /\ q \in Threads /\ q # c /\ pc'[q] = pc[q] /\ local'[q] = local[q]
  BY <1>1, Parties DEF OnlyOf
<1>9. \A q \in Producers : /\ Holds(q)' <=> Holds(q)
                           /\ First(q)' = First(q) /\ Final(q)' = Final(q)
                           /\ At(local[q].seen)' = At(local[q].seen)
  BY <1>1, <1>3, <1>8 DEF Holds, First, Final, At
<1>10. Top' = Top
  BY <1>1, <1>3 DEF Top, At
<1>11. Claims'
  <2>1. ASSUME NEW q \in Producers, Holds(q)'
        PROVE  ClaimOf(q)'
    <3>1. ClaimOf(q)
      BY <1>9, <2>1 DEF Ring, Claims
    <3> QED
      BY <1>1, <1>3, <1>8, <1>9, <1>10, <3>1 DEF ClaimOf
  <2>2. kind' = "multi" => \A q, u \in Producers : Holds(q)' /\ Holds(u)' /\ q # u =>
        Final(q)' < First(u)' \/ Final(u)' < First(q)'
    BY <1>1, <1>9 DEF Ring, Claims
  <2>3. kind' = "single" =>
          /\ 0 <= At(Items)' /\ At(Items)' <= BufferSize
          /\ (\A q \in Working' : pc'[q] # "publish") => nextToClaim' = Wrap(Items' + 1)
    <3>1. Working' = Working /\ Working \subseteq Producers
      BY <1>1, WorkingProduce DEF Working
    <3> QED
      BY <1>1, <1>3, <1>8, <3>1 DEF Ring, Claims
  <2> QED
    BY <1>10, <2>1, <2>2, <2>3 DEF Ring, Claims
<1>12. Reading'
  <2>1. \A i \in 1..BufferSize : i < k + 1 => Come(i)'
    <3> TAKE i \in 1..BufferSize
    <3> HAVE i < k + 1
    <3>1. i <= k
      BY <1>5
    <3>2. CASE kind = "multi"
      BY <1>3, <1>4, <1>5, <3>1, <3>2 DEF UpTo, Come
    <3>3. CASE kind = "single"
      BY <1>3, <1>4, <1>5, <3>1, <3>3, RangeType DEF Come
    <3> QED
      BY <3>2, <3>3, RolesOf
  <2> QED
    BY <1>1, <1>5, <1>6, <1>7, <2>1 DEF Reading
<1>13. Slotted'
  <2>1. \A i : Written(i)' <=> Written(i)
    BY <1>3, <1>8, <1>9 DEF Written
  <2>2. \A i \in 1..BufferSize : Written(i)' => buffer'[Slot(Number(i)')] = Number(i)'
    BY <1>1, <1>3, <2>1 DEF Ring, Slotted
  <2>3. kind' = "multi" => \A i \in 1..BufferSize :
          /\ published'[Slot(Number(i)')] \in {Number(i)', Number(i - BufferSize)'}
          /\ IsPublished(Number(i))' =>
                /\ i <= Top'
                /\ \A p \in Producers : Holds(p)' /\ First(p)' <= i /\ i <= Final(p)' =>
                      pc'[p] = "publish" /\ First(p)' < i /\ i < At(local[p].seen)'
    BY <1>1, <1>3, <1>8, <1>9, <1>10 DEF Ring, Slotted
  <2> QED
    BY <2>2, <2>3 DEF Slotted
<1> QED
  BY <1>11, <1>12, <1>13 DEF Ring

\* Numbers that are less than the width apart.
LEMMA NumbersDiffer ==
  ASSUME Typed, NEW i \in Int, NEW j \in Int, Number(i) = Number(j), i - j < Modulus, j - i < Modulus
  PROVE  i = j
<1>1. Gate \in Int /\ Modulus \in Nat \ {0}
  BY GateType, Sizes
<1>2. PICK a \in Int, b \in Int : a = Gate + i /\ b = Gate + j
  BY <1>1
<1>3. a % Modulus = b % Modulus
  BY <1>2 DEF Number, Wrap
<1>4. a - b < Modulus /\ b - a < Modulus
  BY <1>1, <1>2
<1>5. a = b
  BY <1>1, <1>3, <1>4, EqualRemainders
<1> QED
  BY <1>1, <1>2, <1>5

\* The gate moves: how everything is counted from there.
LEMMA GateMoves ==
  ASSUME Typed, Typed', NEW d \in Int, 0 <= d, d < Half, Gate' = Number(d)
  PROVE  /\ \A s \in SequenceNumbers : -Half <= At(s) - d => Difference(s, Gate') = At(s) - d
         /\ \A i \in Int : Number(i)' = Number(i + d)
<1>1. Half \in Nat /\ Gate \in SequenceNumbers /\ Gate \in Int /\ Gate' \in SequenceNumbers
  BY Sizes, GateType DEF Typed, RingTypeOK, Gate, Barriers
<1>2. At(Gate') = d
  BY <1>1, AtNumber
<1>3. ASSUME NEW s \in SequenceNumbers, -Half <= At(s) - d
      PROVE  Difference(s, Gate') = At(s) - d
  <2>1. At(s) \in Int /\ At(s) < Half
    BY AtType
  <2>2. PICK g \in SequenceNumbers : g = Gate'
    BY <1>1
  <2>3. At(s) - At(g) < Half /\ -Half <= At(s) - At(g)
    BY <1>1, <1>2, <1>3, <2>1, <2>2
  <2>4. Difference(s, g) = At(s) - At(g)
    BY <2>2, <2>3, Ahead
  <2> QED
    BY <1>2, <2>2, <2>4
<1>4. ASSUME NEW i \in Int
      PROVE  Number(i)' = Number(i + d)
  <2>1. Number(i)' = Wrap(Wrap(Gate + d) + i)
    BY DEF Number
  <2>2. Wrap(Wrap(Gate + d) + i) = Wrap((Gate + d) + i)
    <3>1. Gate + d \in Int
      BY <1>1
    <3> QED
      BY <3>1, WrapSum
  <2>3. (Gate + d) + i = Gate + (i + d)
    BY <1>1
  <2> QED
    BY <2>1, <2>2, <2>3 DEF Number
<1> QED
  BY <1>3, <1>4

\* What the reader read is behind all claims.
LEMMA ReadIsBehind ==
  ASSUME OneConsumer, Typed, Ring, NEW d \in Int, d = At(nextToRead[Reader]) - 1
  PROVE  /\ \A p \in Producers : Holds(p) => d < First(p)
         /\ d <= Top /\ d \in 0..BufferSize
         /\ kind = "single" => d <= At(Items)
         /\ \A i \in 1..d : Come(i)
<1>1. BufferSize \in Nat \ {0} /\ BufferSize + 1 < Half /\ Half \in Nat
  BY Sizes
<1>2. PICK n \in Int : n = At(nextToRead[Reader]) /\ 1 <= n /\ n <= BufferSize + 1 /\ d = n - 1
  <2>1. nextToRead[Reader] \in SequenceNumbers
    BY Parties DEF Typed, RingTypeOK
  <2> QED
    BY <2>1, AtType DEF Ring, Reading
<1>3. \A i \in 1..d : i \in 1..BufferSize /\ Come(i)
  BY <1>1, <1>2 DEF Ring, Reading
<1>4. At(Items) \in Int /\ Top \in Int
  BY RangeType
<1>5. kind = "single" => d <= At(Items) /\ 0 <= At(Items) /\ At(Items) <= BufferSize
  <2> HAVE kind = "single"
  <2>1. 0 <= At(Items) /\ At(Items) <= BufferSize
    BY DEF Ring, Claims
  <2>2. CASE d = 0
    BY <2>1, <2>2
  <2>3. CASE d # 0
    <3>1. Come(d)
      BY <1>2, <1>3, <2>3
    <3> QED
      BY <2>1, <3>1 DEF Come
  <2> QED
    BY <2>1, <2>2, <2>3
<1>6. ASSUME NEW p \in Producers, Holds(p)
      PROVE  d < First(p) /\ First(p) <= Final(p) /\ First(p) \in Int /\ Final(p) \in Int
  <2>1. ClaimOf(p) /\ First(p) \in Int /\ Final(p) \in Int
    BY <1>6, RangeType DEF Ring, Claims
  <2>2. CASE kind = "multi"
    <3>1. SUFFICES ASSUME First(p) <= d PROVE FALSE
      BY <1>2, <2>1 DEF ClaimOf
    <3>2. First(p) \in 1..d /\ First(p) <= Final(p)
      BY <1>2, <2>1, <3>1 DEF ClaimOf
    <3>3. IsPublished(Number(First(p))) /\ First(p) \in 1..BufferSize
      BY <1>3, <2>2, <3>2 DEF Come
    <3>4. First(p) < First(p)
      BY <1>6, <2>2, <3>2, <3>3 DEF Ring, Slotted
    <3> QED
      BY <2>1, <3>4
  <2>3. CASE kind = "single"
    <3>1. range[p].begin = Wrap(Items + 1)
      <4>1. CASE pc[p] = "publish"
        BY <2>1, <2>3, <4>1 DEF ClaimOf
      <4>2. CASE pc[p] # "publish"
        <5>1. pc[p] # "idle" /\ p \in Threads
          BY <1>6, Parties DEF Holds, Holding, BarrierLabels
        <5>2. p \in Working
          BY <5>1, RolesOf
        <5>3. \A q \in Working : pc[q] # "publish"
          BY <2>3, <4>2, <5>2, WorkingAlone
        <5> QED
          BY <2>1, <2>3, <4>2, <5>3 DEF ClaimOf, Ring, Claims
      <4> QED
        BY <4>1, <4>2
    <3>2. First(p) = At(Items) + 1
      BY <1>1, <1>4, <1>5, <2>3, <3>1, GateType, AtFurther DEF First
    <3> QED
      BY <1>2, <1>4, <1>5, <2>1, <2>3, <3>2 DEF ClaimOf
  <2> QED
    BY <2>2, <2>3, RolesOf, Parties
<1>7. d <= Top
  <2>1. CASE kind = "multi"
    <3>1. CASE d = 0
      BY <3>1 DEF Ring, Claims
    <3>2. CASE d # 0
      <4>1. d \in 1..d
        BY <1>2, <3>2
      <4>2. IsPublished(Number(d)) /\ d \in 1..BufferSize
        BY <1>3, <2>1, <4>1 DEF Come
      <4> QED
        BY <2>1, <4>2 DEF Ring, Slotted
    <3> QED
      BY <3>1, <3>2
  <2>2. CASE kind = "single"
    <3>1. CASE \E p \in Working : pc[p] = "publish"
      <4>1. PICK p \in Producers : pc[p] = "publish"
        BY <3>1, WorkingProduce
      <4>2. Holds(p)
        BY <4>1 DEF Holds, Holding
      <4>3. range[p].end = nextToClaim
        BY <2>2, <4>1, <4>2 DEF Ring, Claims, ClaimOf
      <4>4. Top = Final(p)
        BY <4>3 DEF Top, Final
      <4> QED
        BY <1>2, <1>6, <4>2, <4>4
    <3>2. CASE \A p \in Working : pc[p] # "publish"
      <4>1. nextToClaim = Wrap(Items + 1)
        BY <2>2, <3>2 DEF Ring, Claims
      <4>2. PICK i \in SequenceNumbers : i = Items
        BY GateType
      <4>3. i \in Int /\ i + 1 \in Int /\ (i + 1) + (-1) = i
        BY Numbers
      <4>4. Wrap(Wrap(i + 1) + (-1)) = Wrap((i + 1) + (-1))
        BY <4>3, WrapSum
      <4>5. Wrap(i + 1) - 1 = Wrap(i + 1) + (-1) /\ Wrap(i) = i
        BY <4>3, WrapType, Numbers
      <4>6. Wrap(nextToClaim - 1) = Items
        BY <4>1, <4>2, <4>3, <4>4, <4>5
      <4>7. Top = At(Items)
        BY <4>6 DEF Top
      <4> QED
        BY <1>5, <2>2, <4>7
    <3> QED
      BY <3>1, <3>2
  <2> QED
    BY <2>1, <2>2, RolesOf, Parties
<1> QED
  BY <1>1, <1>2, <1>3, <1>5, <1>6, <1>7

\* Everything after the release, counted from the new gate.
Shifted(d) ==
    /\ \A p \in Producers : Holds(p) => First(p)' = First(p) - d /\ Final(p)' = Final(p) - d
    /\ \A p \in Producers : Holds(p) /\ kind = "multi" /\ pc[p] = "publish" =>
          At(local[p].seen)' = At(local[p].seen) - d
    /\ Top' = Top - d
    /\ kind = "single" => At(Items)' = At(Items) - d
    /\ At(nextToRead[Reader])' = 1
    /\ \A i \in Int : Number(i)' = Number(i + d)

LEMMA ReleaseIs ==
  ASSUME OneConsumer, Typed, Typed', NEW c \in Threads, ReleaseSlots(c)
  PROVE  /\ c = Reader /\ pc[c] = "release" /\ pc'[c] = "loadAwaiters" /\ OnlyOf(c)
         /\ kind' = kind /\ published' = published /\ Items' = Items /\ op' = op /\ awaiters' = awaiters
         /\ range' = range /\ nextToClaim' = nextToClaim /\ buffer' = buffer /\ nextToRead' = nextToRead
         /\ Same(c) /\ Sees(c, Gate', local[c].earliest)
         /\ Gate' = Wrap(nextToRead[c] - 1)
<1>1. PublishSequence(c, "gate", Wrap(nextToRead[c] - 1)) /\ UNCHANGED <<published, ringVars>>
  BY DEF ReleaseSlots
<1>2. pc[c] = "release"
  BY DEF ReleaseSlots
<1>3. c = Reader
  BY <1>2, RolesOf
<1>4. pc'[c] = "loadAwaiters" /\ OnlyOf(c) /\ Same(c) /\ Sees(c, Wrap(nextToRead[c] - 1), local[c].earliest)
  BY <1>1, LocalStep DEF PublishSequence, OnlyOf
<1>5. Gate' = Wrap(nextToRead[c] - 1) /\ Items' = Items
  BY <1>1 DEF PublishSequence, Gate, Items, Typed, RingTypeOK, Barriers
<1> QED
  BY <1>1, <1>2, <1>3, <1>4, <1>5 DEF PublishSequence, ringVars

LEMMA ReleaseShifts ==
  ASSUME OneConsumer, Typed, Typed', Ring, NEW c \in Threads, ReleaseSlots(c),
         NEW d \in Int, d = At(nextToRead[Reader]) - 1
  PROVE  Shifted(d) /\ 0 <= d /\ d <= BufferSize
         /\ \A s \in SequenceNumbers : -Half <= At(s) - d => Difference(s, Gate') = At(s) - d
<1>1. BufferSize \in Nat \ {0} /\ BufferSize + 1 < Half /\ Half \in Nat
  BY Sizes
<1>2. /\ \A p \in Producers : Holds(p) => d < First(p)
      /\ d <= Top /\ d \in 0..BufferSize
      /\ kind = "single" => d <= At(Items)
  BY ReadIsBehind
<1>3. PICK n \in SequenceNumbers : n = nextToRead[Reader]
  BY Parties DEF Typed, RingTypeOK
<1>4. At(n) = d + 1
  BY <1>3, AtType
<1>5. Gate' = Number(d)
  <2>1. Gate' = Wrap(n - 1)
    BY <1>3, ReleaseIs
  <2>2. At(Wrap(n - 1)) = d /\ Wrap(n - 1) \in SequenceNumbers
    <3>1. -Half <= At(n) - 1 /\ At(n) - 1 = d
      BY <1>1, <1>2, <1>4
    <3> QED
      BY <3>1, AtBefore
  <2> QED
    BY <2>1, <2>2, NumberAt
<1>6. /\ \A s \in SequenceNumbers : -Half <= At(s) - d => Difference(s, Gate') = At(s) - d
      /\ \A i \in Int : Number(i)' = Number(i + d)
  BY <1>1, <1>2, <1>5, GateMoves
<1>7. \A s \in SequenceNumbers : 0 <= At(s) => Difference(s, Gate') = At(s) - d
  BY <1>1, <1>2, <1>6, AtType
<1>8. range' = range /\ nextToClaim' = nextToClaim /\ nextToRead' = nextToRead /\ Items' = Items
  BY ReleaseIs
<1>9. ASSUME NEW p \in Producers, Holds(p)
      PROVE  First(p)' = First(p) - d /\ Final(p)' = Final(p) - d
  <2>1. ClaimOf(p)
    BY <1>9 DEF Ring, Claims
  <2>2. 0 <= First(p) /\ 0 <= Final(p)
    BY <2>1, RangeType DEF ClaimOf
  <2>3. First(p)' = Difference(range[p].begin, Gate') /\ Final(p)' = Difference(Wrap(range[p].end - 1), Gate')
    BY <1>8 DEF First, Final, At
  <2> QED
    BY <1>7, <2>2, <2>3, RangeType DEF First, Final
<1>10. ASSUME NEW p \in Producers, Holds(p), kind = "multi", pc[p] = "publish"
       PROVE  At(local[p].seen)' = At(local[p].seen) - d
  <2>1. ClaimOf(p) /\ local[p].seen \in SequenceNumbers /\ p \in Threads
    BY <1>10, Parties DEF Ring, Claims, Typed, RingTypeOK, Locals
  <2>2. 0 <= At(local[p].seen)
    BY <1>10, <2>1, RangeType, AtType DEF ClaimOf
  <2>3. local'[p] = local[p]
    BY <2>1, Parties, ReleaseIs DEF OnlyOf
  <2> QED
    BY <1>7, <2>1, <2>2, <2>3 DEF At
<1>11. Top' = Top - d
  <2>1. 0 <= Top /\ Wrap(nextToClaim - 1) \in SequenceNumbers
    BY RangeType DEF Ring, Claims
  <2>2. Top' = Difference(Wrap(nextToClaim - 1), Gate')
    BY <1>8 DEF Top, At
  <2> QED
    BY <1>7, <2>1, <2>2 DEF Top
<1>12. kind = "single" => At(Items)' = At(Items) - d
  <2> HAVE kind = "single"
  <2>1. 0 <= At(Items) /\ Items \in SequenceNumbers
    BY GateType DEF Ring, Claims
  <2>2. At(Items)' = Difference(Items, Gate')
    BY <1>8 DEF At
  <2> QED
    BY <1>7, <2>1, <2>2
<1>13. At(nextToRead[Reader])' = 1
  <2>1. At(nextToRead[Reader])' = Difference(n, Gate')
    BY <1>3, <1>8 DEF At
  <2>2. 0 <= At(n) /\ At(n) - d = 1
    BY <1>2, <1>4
  <2> QED
    BY <1>7, <2>1, <2>2
<1> QED
  BY <1>2, <1>6, <1>9, <1>10, <1>11, <1>12, <1>13 DEF Shifted

LEMMA RingInRelease ==
  ASSUME OneConsumer, Typed, Typed', Ring, NEW c \in Threads, ReleaseSlots(c)
  PROVE  Ring'
<1>1. /\ c = Reader /\ pc[c] = "release" /\ pc'[c] = "loadAwaiters" /\ OnlyOf(c)
      /\ kind' = kind /\ published' = published /\ Items' = Items
      /\ range' = range /\ nextToClaim' = nextToClaim /\ buffer' = buffer /\ nextToRead' = nextToRead
  BY ReleaseIs
<1>2. nextToRead[Reader] \in SequenceNumbers
  BY Parties DEF Typed, RingTypeOK
<1>3. PICK d \in Int : d = At(nextToRead[Reader]) - 1
  BY <1>2, AtType
<1>4. /\ \A p \in Producers : Holds(p) => d < First(p)
      /\ d <= Top /\ d \in 0..BufferSize
      /\ kind = "single" => d <= At(Items)
      /\ \A i \in 1..d : Come(i)
  BY <1>3, ReadIsBehind
<1>5. Shifted(d)
  BY <1>3, ReleaseShifts
<1>6. /\ BufferSize \in Nat \ {0} /\ BufferSize + 1 < Half /\ Half \in Nat /\ Modulus = 2 * Half
      /\ Modulus \in Nat
  BY Sizes
<1>7. \A q \in Producers : /\ q \in Threads /\ q # c /\ pc'[q] = pc[q] /\ local'[q] = local[q]
                           /\ Holds(q)' <=> Holds(q)
  <2> TAKE q \in Producers
  <2>1. q \in Threads /\ q # c /\ pc'[q] = pc[q] /\ local'[q] = local[q]
    BY <1>1, Parties DEF OnlyOf
  <2> QED
    BY <2>1 DEF Holds
<1>8. Claims'
  <2>1. ASSUME NEW q \in Producers, Holds(q)'
        PROVE  ClaimOf(q)'
    <3>1. ClaimOf(q) /\ Holds(q)
      BY <1>7, <2>1 DEF Ring, Claims
    <3>2. First(q)' = First(q) - d /\ Final(q)' = Final(q) - d /\ Top' = Top - d /\ d < First(q)
      BY <1>4, <1>5, <3>1 DEF Shifted
    <3>3. kind = "multi" /\ pc[q] = "publish" => At(local[q].seen)' = At(local[q].seen) - d
      BY <1>5, <3>1 DEF Shifted
    <3>4. First(q) \in Int /\ Final(q) \in Int /\ Top \in Int /\ At(local[q].seen) \in Int
      <4>1. local[q].seen \in SequenceNumbers
        BY <1>7 DEF Typed, RingTypeOK, Locals
      <4> QED
        BY <4>1, RangeType, AtType
    <3>5. 1 <= First(q)' /\ First(q)' <= Final(q)'
      BY <1>3, <3>1, <3>2, <3>4 DEF ClaimOf
    <3>6. kind' = "multi" => Final(q)' <= Top' /\ Final(q)' - First(q)' < BufferSize
      BY <1>1, <1>3, <3>1, <3>2, <3>4 DEF ClaimOf
    <3>7. kind' = "single" => IF pc'[q] = "publish"
                          THEN range'[q].end = nextToClaim' /\ range'[q].begin = Wrap(Items' + 1)
                          ELSE range'[q].begin = nextToClaim'
      BY <1>1, <1>7, <3>1 DEF ClaimOf
    <3>8. pc'[q] = "publish" =>
          /\ Final(q)' <= BufferSize
          /\ kind' = "multi" => First(q)' < At(local[q].seen)' /\ At(local[q].seen)' <= Final(q)' + 1
      BY <1>1, <1>3, <1>4, <1>6, <1>7, <3>1, <3>2, <3>3, <3>4 DEF ClaimOf
    <3> QED
      BY <3>5, <3>6, <3>7, <3>8 DEF ClaimOf
  <2>2. kind' = "multi" => \A q, u \in Producers : Holds(q)' /\ Holds(u)' /\ q # u =>
        Final(q)' < First(u)' \/ Final(u)' < First(q)'
    <3> SUFFICES ASSUME kind = "multi", NEW q \in Producers, NEW u \in Producers, Holds(q), Holds(u), q # u
                 PROVE  Final(q)' < First(u)' \/ Final(u)' < First(q)'
      BY <1>1, <1>7
    <3>1. First(q)' = First(q) - d /\ Final(q)' = Final(q) - d /\ First(u)' = First(u) - d /\ Final(u)' = Final(u) - d
      BY <1>5 DEF Shifted
    <3>2. Final(q) < First(u) \/ Final(u) < First(q)
      BY DEF Ring, Claims
    <3> QED
      BY <1>3, <3>1, <3>2, RangeType
  <2>3. 0 <= Top'
    BY <1>3, <1>4, <1>5, RangeType DEF Shifted
  <2>4. kind' = "single" =>
          /\ 0 <= At(Items)' /\ At(Items)' <= BufferSize
          /\ (\A q \in Working' : pc'[q] # "publish") => nextToClaim' = Wrap(Items' + 1)
    <3>1. Working' = Working /\ Working \subseteq Producers
      BY <1>1, WorkingProduce DEF Working
    <3>2. kind = "single" => At(Items)' = At(Items) - d /\ d <= At(Items) /\ At(Items) \in Int /\ At(Items) <= BufferSize
      BY <1>4, <1>5, RangeType DEF Shifted, Ring, Claims
    <3>3. kind' = "single" => 0 <= At(Items)' /\ At(Items)' <= BufferSize
      BY <1>1, <1>3, <1>4, <1>6, <3>2
    <3>4. kind' = "single" /\ (\A q \in Working' : pc'[q] # "publish") => nextToClaim' = Wrap(Items' + 1)
      BY <1>1, <1>7, <3>1 DEF Ring, Claims
    <3> QED
      BY <3>3, <3>4
  <2> QED
    BY <2>1, <2>2, <2>3, <2>4 DEF Claims
<1>9. Reading'
  BY <1>1, <1>5, <1>6 DEF Reading, Shifted
<1>10. ASSUME NEW i \in 1..BufferSize
       PROVE  /\ i + d \in Int /\ 1 <= i + d /\ Number(i)' = Number(i + d) /\ i \in Int /\ i - BufferSize \in Int
              /\ i + d <= BufferSize => i + d \in 1..BufferSize
              /\ kind = "multi" => (Come(i)' <=> published[Slot(Number(i + d))] = Number(i + d))
              /\ kind = "single" => (Come(i)' <=> i + d <= At(Items))
              /\ Number(i - BufferSize)' = Number((i + d) - BufferSize)
  <2>1. i + d \in Int /\ 1 <= i + d /\ i \in Int /\ i - BufferSize \in Int /\ (i - BufferSize) + d = (i + d) - BufferSize
    BY <1>4, <1>6
  <2>2. Number(i)' = Number(i + d) /\ Number(i - BufferSize)' = Number((i - BufferSize) + d)
    BY <1>5, <2>1 DEF Shifted
  <2>3. kind = "multi" => (Come(i)' <=> published'[Slot(Number(i)')] = Number(i)')
    BY <1>1 DEF Come, IsPublished, Slot
  <2>4. kind = "single" => (Come(i)' <=> i + d <= At(Items))
    <3> HAVE kind = "single"
    <3>1. At(Items)' = At(Items) - d /\ At(Items) \in Int
      BY <1>5, RangeType DEF Shifted
    <3>2. Come(i)' <=> i <= At(Items)'
      BY <1>1 DEF Come
    <3> QED
      BY <1>3, <2>1, <3>1, <3>2
  <2> QED
    BY <1>1, <2>1, <2>2, <2>3, <2>4
<1>11. Slotted'
  <2>1. ASSUME kind = "multi", NEW i \in 1..BufferSize
        PROVE  /\ published'[Slot(Number(i)')] \in {Number(i)', Number(i - BufferSize)'}
               /\ IsPublished(Number(i))' =>
                     /\ i <= Top'
                     /\ \A q \in Producers : Holds(q)' /\ First(q)' <= i /\ i <= Final(q)' =>
                           pc'[q] = "publish" /\ First(q)' < i /\ i < At(local[q].seen)'
    <3>1. IsPublished(Number(i))' <=> published[Slot(Number(i + d))] = Number(i + d)
      BY <1>1, <1>10, <2>1 DEF Come
    <3>2. CASE i + d <= BufferSize
      <4>1. /\ published[Slot(Number(i + d))] \in {Number(i + d), Number((i + d) - BufferSize)}
            /\ IsPublished(Number(i + d)) =>
                  /\ i + d <= Top
                  /\ \A q \in Producers : Holds(q) /\ First(q) <= i + d /\ i + d <= Final(q) =>
                        pc[q] = "publish" /\ First(q) < i + d /\ i + d < At(local[q].seen)
        BY <1>10, <2>1, <3>2 DEF Ring, Slotted
      <4>2. published'[Slot(Number(i)')] \in {Number(i)', Number(i - BufferSize)'}
        BY <1>1, <1>10, <4>1
      <4>3. ASSUME IsPublished(Number(i + d))
            PROVE  i <= Top'
        BY <1>3, <1>5, <2>1, <4>1, <4>3, RangeType DEF Shifted
      <4>4. ASSUME IsPublished(Number(i + d)), NEW q \in Producers, Holds(q)', First(q)' <= i, i <= Final(q)'
            PROVE  pc'[q] = "publish" /\ First(q)' < i /\ i < At(local[q].seen)'
        <5>1. Holds(q) /\ First(q)' = First(q) - d /\ Final(q)' = Final(q) - d
          BY <1>5, <1>7, <4>4 DEF Shifted
        <5>2. First(q) \in Int /\ Final(q) \in Int /\ First(q) <= i + d /\ i + d <= Final(q)
          BY <1>3, <1>10, <4>4, <5>1, RangeType
        <5>3. pc[q] = "publish" /\ First(q) < i + d /\ i + d < At(local[q].seen)
          BY <4>1, <4>4, <5>1, <5>2
        <5>4. At(local[q].seen)' = At(local[q].seen) - d /\ At(local[q].seen) \in Int
          <6>1. local[q].seen \in SequenceNumbers
            BY <1>7 DEF Typed, RingTypeOK, Locals
          <6> QED
            BY <1>5, <2>1, <5>1, <5>3, <6>1, AtType DEF Shifted
        <5>5. First(q) - d < i /\ i < At(local[q].seen) - d
          BY <1>3, <1>10, <5>2, <5>3, <5>4
        <5> QED
          BY <1>7, <5>1, <5>3, <5>4, <5>5
      <4> QED
        BY <3>1, <4>2, <4>3, <4>4 DEF IsPublished
    <3>3. CASE ~(i + d <= BufferSize)
      <4>1. PICK j \in 1..d : j = (i + d) - BufferSize /\ j \in 1..BufferSize
        BY <1>3, <1>4, <1>6, <1>10, <3>3
      <4>2. Come(j)
        BY <1>4, <4>1
      <4>3. published[Slot(Number(j))] = Number(j)
        BY <2>1, <4>2 DEF Come, IsPublished
      <4>4. Slot(Number(j)) = Slot(Number(i + d))
        <5>1. j \in Int /\ i + d = j + BufferSize
          BY <1>6, <1>10, <4>1
        <5> QED
          BY <5>1, SlotsOfNumbers
      <4>5. published'[Slot(Number(i)')] = Number(i - BufferSize)'
        BY <1>1, <1>10, <4>1, <4>3, <4>4
      <4>6. Number(j) # Number(i + d)
        <5>1. j - (i + d) < Modulus /\ (i + d) - j < Modulus /\ j # i + d /\ j \in Int
          BY <1>6, <1>10, <4>1
        <5> QED
          BY <1>10, <5>1, NumbersDiffer
      <4>7. ~IsPublished(Number(i))'
        BY <3>1, <4>3, <4>4, <4>6
      <4> QED
        BY <4>5, <4>7
    <3> QED
      BY <3>2, <3>3
  <2>2. ASSUME NEW i \in 1..BufferSize, Written(i)'
        PROVE  buffer'[Slot(Number(i)')] = Number(i)'
    <3>1. i + d <= BufferSize /\ Written(i + d)
      <4>1. CASE Come(i)'
        <5>1. CASE kind = "single"
          <6>1. i + d <= At(Items) /\ At(Items) <= BufferSize
            BY <1>10, <4>1, <5>1 DEF Ring, Claims
          <6> QED
            BY <1>6, <1>10, <5>1, <6>1, RangeType DEF Come, Written
        <5>2. CASE kind = "multi"
          <6>1. published[Slot(Number(i + d))] = Number(i + d)
            BY <1>10, <4>1, <5>2
          <6>2. i + d <= BufferSize
            <7> SUFFICES ASSUME ~(i + d <= BufferSize) PROVE FALSE
              OBVIOUS
            <7>1. PICK j \in 1..d : j = (i + d) - BufferSize /\ j \in 1..BufferSize
              BY <1>3, <1>4, <1>6, <1>10
            <7>2. Come(j)
              BY <1>4, <7>1
            <7>3. published[Slot(Number(j))] = Number(j)
              BY <5>2, <7>2 DEF Come, IsPublished
            <7>4. Slot(Number(j)) = Slot(Number(i + d))
              <8>1. j \in Int /\ i + d = j + BufferSize
                BY <1>6, <1>10, <7>1
              <8> QED
                BY <8>1, SlotsOfNumbers
            <7>5. j - (i + d) < Modulus /\ (i + d) - j < Modulus /\ j # i + d /\ j \in Int
              BY <1>6, <1>10, <7>1
            <7> QED
              BY <1>10, <6>1, <7>3, <7>4, <7>5, NumbersDiffer
          <6> QED
            BY <5>2, <6>1, <6>2 DEF Written, Come, IsPublished
        <5> QED
          BY <5>1, <5>2, RolesOf
      <4>2. ASSUME NEW q \in Producers, pc'[q] = "publish", First(q)' <= i, i <= Final(q)'
            PROVE  i + d <= BufferSize /\ Written(i + d)
        <5>1. pc[q] = "publish" /\ Holds(q)
          BY <1>7, <4>2 DEF Holds, Holding
        <5>2. First(q)' = First(q) - d /\ Final(q)' = Final(q) - d /\ Final(q) <= BufferSize
          BY <1>5, <5>1 DEF Shifted, Ring, Claims, ClaimOf
        <5>3. First(q) <= i + d /\ i + d <= Final(q) /\ i + d <= BufferSize
          BY <1>3, <1>6, <1>10, <4>2, <5>2, RangeType
        <5> QED
          BY <5>1, <5>3 DEF Written
      <4> QED
        BY <2>2, <4>1, <4>2 DEF Written
    <3>2. i + d \in 1..BufferSize
      BY <1>10, <2>2, <3>1
    <3>3. buffer[Slot(Number(i + d))] = Number(i + d)
      BY <3>1, <3>2 DEF Ring, Slotted
    <3> QED
      BY <1>1, <1>10, <2>2, <3>3
  <2> QED
    BY <1>1, <2>1, <2>2 DEF Slotted
<1> QED
  BY <1>8, <1>9, <1>11 DEF Ring

\* A step within a call, or a wait that begins, publishes nothing and claims nothing.
LEMMA RingQuiet ==
  ASSUME OneConsumer, Typed, Ring, NEW t \in Threads, OnlyOf(t),
         lastPublished' = lastPublished, UNCHANGED <<published, ringVars>>,
         pc[t] \notin {"publish", "release"}, pc'[t] \notin {"publish", "release"},
         t \in Producers /\ pc'[t] \in Holding => pc[t] \in Holding
  PROVE  Ring'
<1>1. \A p \in Producers : /\ Holds(p)' => Holds(p)
                           /\ pc'[p] = "publish" <=> pc[p] = "publish"
                           /\ pc[p] = "publish" => local'[p].seen = local[p].seen
  <2> TAKE p \in Producers
  <2>1. CASE p = t
    BY <2>1 DEF Holds
  <2>2. CASE p # t
    <3>1. pc'[p] = pc[p] /\ local'[p] = local[p]
      BY <2>2, Parties DEF OnlyOf
    <3> QED
      BY <3>1 DEF Holds
  <2> QED
    BY <2>1, <2>2
<1>2. pc'[Reader] = "release" <=> pc[Reader] = "release"
  BY Parties DEF OnlyOf
<1> QED
  BY <1>1, <1>2, RingKept DEF ringVars

LEMMA RingInResumeNext ==
  ASSUME OneConsumer, Typed, Places, Ring, NEW t \in Threads, ResumeNext(t), UNCHANGED <<published, ringVars>>
  PROVE  Ring'
<1> DEFINE b == Head(local[t].resume)
<1>1. PICK a \in Threads : a = b
  BY Resumed
<1>2. pc[a] \in {"suspended"} \cup Adding
  BY <1>1, Resumed
<1>3. /\ lastPublished' = lastPublished
      /\ \A u \in Threads : u # t => local'[u] = local[u]
      /\ \A u \in Threads : u # a => pc'[u] = pc[u]
      /\ pc'[a] \in {"resumed", pc[a]}
      /\ pc[t] \in {"resumeAdded", "resumePublished"}
  BY <1>1, ResumeNextIs
<1> HIDE DEF b
<1>4. \A p \in Producers : /\ Holds(p)' => Holds(p)
                           /\ pc'[p] = "publish" <=> pc[p] = "publish"
                           /\ pc[p] = "publish" => local'[p].seen = local[p].seen
  <2> TAKE p \in Producers
  <2>1. p \in Threads
    BY Parties
  <2>2. pc[p] = "publish" => local'[p].seen = local[p].seen
    BY <1>3, <2>1
  <2>3. pc'[p] = "publish" <=> pc[p] = "publish"
    BY <1>2, <1>3, <2>1 DEF Adding, BarrierLabels, SequencerLabels
  <2>4. Holds(p)' => Holds(p)
    <3>1. CASE p = a
      <4>1. pc[p] \notin SequencerLabels
        BY <2>1, RolesOf, Parties
      <4> QED
        BY <1>2, <3>1, <4>1 DEF Adding, Holds, Holding
    <3>2. CASE p # a
      BY <1>3, <2>1, <3>2 DEF Holds
    <3> QED
      BY <3>1, <3>2
  <2> QED
    BY <2>2, <2>3, <2>4
<1>5. pc'[Reader] = "release" <=> pc[Reader] = "release"
  BY <1>2, <1>3, Parties DEF Adding, BarrierLabels, SequencerLabels
<1> QED
  BY <1>3, <1>4, <1>5, RingKept DEF ringVars

LEMMA RingNext ==
  ASSUME OneConsumer, Typed, Typed', Places, Ring, Known, NEW t \in Threads, InCall(t) \/ User(t)
  PROVE  Ring'
<1> DEFINE Quiet(from, to) ==
       /\ Moved(t, from, to) /\ lastPublished' = lastPublished /\ UNCHANGED <<published, ringVars>>
       /\ from \notin {"publish", "release"} /\ to \notin {"publish", "release"}
       /\ to \in Holding => from \in Holding \/ t = Reader
<1>0. ASSUME \E from, to : Quiet(from, to) PROVE Ring'
  <2>1. PICK from, to : Quiet(from, to)
    BY <1>0
  <2>2. t \in Producers => t # Reader
    BY Parties
  <2> QED
    BY <2>1, <2>2, RingQuiet DEF Moved
<1>1. CASE WaitStep(t, WaitsFor(t)) /\ UNCHANGED <<published, ringVars>>
  <2>0. WaitsFor(t) \in Barriers
    BY Served
  <2>1. CASE Enqueue(t, WaitsFor(t))
    <3>1. Moved(t, "enqueue", "check") /\ lastPublished' = lastPublished
      BY <2>0, <2>1, PutIs DEF Enqueue, Requeue, PutOn, PutBack
    <3>2. Quiet("enqueue", "check")
      BY <1>1, <3>1 DEF Holding, BarrierLabels
    <3> HIDE DEF Quiet
    <3> QED
      BY <1>0, <3>2
  <2>2. CASE Check(t, WaitsFor(t))
    <3>1. PICK l \in {"resumeAdded", "reacquire"} : Moved(t, "check", l) /\ lastPublished' = lastPublished
      BY <2>0, <2>2, CheckIs
    <3>2. Quiet("check", l)
      BY <1>1, <3>1 DEF Holding, BarrierLabels
    <3> HIDE DEF Quiet
    <3> QED
      BY <1>0, <3>2
  <2>3. CASE Reacquire(t, WaitsFor(t))
    <3>1. PICK l \in {"resumeAdded", "enqueue"} : Moved(t, "reacquire", l) /\ lastPublished' = lastPublished
      BY <2>0, <2>3, ReacquireIs
    <3>2. Quiet("reacquire", l)
      BY <1>1, <3>1 DEF Holding, BarrierLabels
    <3> HIDE DEF Quiet
    <3> QED
      BY <1>0, <3>2
  <2>4. CASE Exchange(t)
    <3>1. PICK l \in {"resumed", "suspended"} : Moved(t, "resumeAdded", l) /\ lastPublished' = lastPublished
      BY <2>4, ExchangeIs
    <3>2. Quiet("resumeAdded", l)
      BY <1>1, <3>1 DEF Holding, BarrierLabels
    <3> HIDE DEF Quiet
    <3> QED
      BY <1>0, <3>2
  <2> QED
    BY <1>1, <2>1, <2>2, <2>3, <2>4 DEF WaitStep
<1>2. CASE PublishStep(t, PublishesTo(t)) /\ UNCHANGED <<published, ringVars>>
  <2>0. PublishesTo(t) \in Barriers
    BY Served
  <2>1. CASE LoadAwaiters(t, PublishesTo(t))
    <3>1. PICK l \in {"resumePublished", "acquire"} : Moved(t, "loadAwaiters", l) /\ lastPublished' = lastPublished
      BY <2>0, <2>1, LoadIs DEF LoadAwaiters, Load
    <3>2. Quiet("loadAwaiters", l)
      BY <1>2, <3>1 DEF Holding, BarrierLabels
    <3> HIDE DEF Quiet
    <3> QED
      BY <1>0, <3>2
  <2>2. CASE Acquire(t, PublishesTo(t))
    <3>1. PICK l \in {"resumePublished", "requeue"} : Moved(t, "acquire", l) /\ lastPublished' = lastPublished
      BY <2>0, <2>2, AcquireIs
    <3>2. Quiet("acquire", l)
      BY <1>2, <3>1 DEF Holding, BarrierLabels
    <3> HIDE DEF Quiet
    <3> QED
      BY <1>0, <3>2
  <2>3. CASE Requeue(t, PublishesTo(t))
    <3>1. Moved(t, "requeue", "resumePublished") /\ lastPublished' = lastPublished
      BY <2>0, <2>3, PutIs DEF Enqueue, Requeue, PutOn, PutBack
    <3>2. Quiet("requeue", "resumePublished")
      BY <1>2, <3>1 DEF Holding, BarrierLabels
    <3> HIDE DEF Quiet
    <3> QED
      BY <1>0, <3>2
  <2>4. CASE Published(t)
    <3>1. Moved(t, "resumePublished", "idle") /\ lastPublished' = lastPublished
      BY <2>4, PublishedIs
    <3>2. Quiet("resumePublished", "idle")
      BY <1>2, <3>1 DEF Holding, BarrierLabels
    <3> HIDE DEF Quiet
    <3> QED
      BY <1>0, <3>2
  <2> QED
    BY <1>2, <2>1, <2>2, <2>3, <2>4 DEF PublishStep
<1>3. CASE ResumeNext(t) /\ UNCHANGED <<published, ringVars>>
  BY <1>3, RingInResumeNext
<1>4. CASE SequencerWaitStep(t) /\ UNCHANGED ringVars
  <2>0. "items" \in Barriers /\ t = Reader
    <3>1. pc[t] \in SequencerLabels
      BY <1>4 DEF SequencerWaitStep, PutOn, Advance, Retake, SequencerLabels
    <3> QED
      BY <3>1, RolesOf DEF Barriers
  <2>1. CASE PutOn(t)
    <3>1. Moved(t, "queue", "advance") /\ lastPublished' = lastPublished /\ published' = published
      BY <2>0, <2>1, PutIs DEF Enqueue, Requeue, PutOn, PutBack
    <3>2. Quiet("queue", "advance")
      BY <1>4, <3>1 DEF Holding, BarrierLabels
    <3> HIDE DEF Quiet
    <3> QED
      BY <1>0, <3>2
  <2>2. CASE Advance(t)
    <3>1. PICK l \in {"advance", "resumeAdded", "retake"} :
             Moved(t, "advance", l) /\ lastPublished' = lastPublished /\ published' = published
      BY <2>2, AdvanceIs
    <3>2. Quiet("advance", l)
      BY <1>4, <2>0, <3>1 DEF Holding, BarrierLabels
    <3> HIDE DEF Quiet
    <3> QED
      BY <1>0, <3>2
  <2>3. CASE Retake(t)
    <3>1. Moved(t, "retake", "resumeAdded") /\ lastPublished' = lastPublished /\ published' = published
      BY <2>3, RetakeIs
    <3>2. Quiet("retake", "resumeAdded")
      BY <1>4, <2>0, <3>1 DEF Holding, BarrierLabels
    <3> HIDE DEF Quiet
    <3> QED
      BY <1>0, <3>2
  <2> QED
    BY <1>4, <2>1, <2>2, <2>3 DEF SequencerWaitStep
<1>5. CASE SequencerPublishStep(t) /\ UNCHANGED ringVars
  <2>0. "items" \in Barriers
    BY DEF Barriers
  <2>1. CASE Load(t)
    <3>1. PICK l \in {"resumePublished", "take"} :
             Moved(t, "load", l) /\ lastPublished' = lastPublished /\ published' = published
      BY <2>0, <2>1, LoadIs DEF LoadAwaiters, Load
    <3>2. Quiet("load", l)
      BY <1>5, <3>1 DEF Holding, BarrierLabels
    <3> HIDE DEF Quiet
    <3> QED
      BY <1>0, <3>2
  <2>2. CASE Take(t)
    <3>1. PICK l \in {"resumePublished", "count"} :
             Moved(t, "take", l) /\ lastPublished' = lastPublished /\ published' = published
      BY <2>2, TakeIs
    <3>2. Quiet("take", l)
      BY <1>5, <3>1 DEF Holding, BarrierLabels
    <3> HIDE DEF Quiet
    <3> QED
      BY <1>0, <3>2
  <2>3. CASE Count(t)
    <3>1. PICK l \in {"count", "resumePublished", "putBack"} :
             Moved(t, "count", l) /\ lastPublished' = lastPublished /\ published' = published
      BY <2>3, CountIs
    <3>2. Quiet("count", l)
      BY <1>5, <3>1 DEF Holding, BarrierLabels
    <3> HIDE DEF Quiet
    <3> QED
      BY <1>0, <3>2
  <2>4. CASE PutBack(t)
    <3>1. Moved(t, "putBack", "verify") /\ lastPublished' = lastPublished /\ published' = published
      BY <2>0, <2>4, PutIs DEF Enqueue, Requeue, PutOn, PutBack
    <3>2. Quiet("putBack", "verify")
      BY <1>5, <3>1 DEF Holding, BarrierLabels
    <3> HIDE DEF Quiet
    <3> QED
      BY <1>0, <3>2
  <2>5. CASE Verify(t)
    <3>1. PICK l \in {"take", "verify", "resumePublished"} :
             Moved(t, "verify", l) /\ lastPublished' = lastPublished /\ published' = published
      BY <2>5, VerifyIs
    <3>2. Quiet("verify", l)
      BY <1>5, <3>1 DEF Holding, BarrierLabels
    <3> HIDE DEF Quiet
    <3> QED
      BY <1>0, <3>2
  <2> QED
    BY <1>5, <2>1, <2>2, <2>3, <2>4, <2>5 DEF SequencerPublishStep
<1>6. CASE AwaitClaim(t) \/ AwaitItem(t)
  <2>1. PICK target \in SequenceNumbers, known \in SequenceNumbers, label \in {"enqueue", "queue"} :
           Await(t, target, known, label) /\ (pc[t] = "claim" \/ (pc[t] = "idle" /\ t = Reader))
    BY <1>6, AwaitArguments
  <2>2. lastPublished' = lastPublished /\ UNCHANGED <<published, ringVars>>
    BY <1>6 DEF AwaitClaim, AwaitItem
  <2>3. OnlyOf(t) /\ pc'[t] \in {label, "resumed"}
    <3>1. Await(t, target, known, label)
      BY <2>1
    <3>2. OnlyOf(t) /\ (Precedes(known, target) => pc'[t] = label) /\ (~Precedes(known, target) => pc'[t] = "resumed")
      BY <3>1, AwaitIs, ZenonT(60)
    <3> QED
      BY <3>2
  <2>4. t \in Producers => t # Reader
    BY Parties
  <2>5. pc[t] \notin {"publish", "release"} /\ pc'[t] \notin {"publish", "release"}
    BY <2>1, <2>3
  <2>6. t \in Producers /\ pc'[t] \in Holding => pc[t] \in Holding
    BY <2>1, <2>4 DEF Holding
  <2> QED
    BY <2>2, <2>3, <2>5, <2>6, RingQuiet
<1>7. CASE Claim(t)
  BY <1>7, RingInClaim
<1>8. CASE Write(t)
  BY <1>8, RingInWrite
<1>9. CASE Read(t)
  BY <1>9, RingInRead
<1>10. CASE Publish(t)
  BY <1>10, RingInStore, RingInPublish DEF Publish
<1>11. CASE ReleaseSlots(t)
  BY <1>11, RingInRelease
<1> QED
  BY <1>1, <1>2, <1>3, <1>4, <1>5, <1>6, <1>7, <1>8, <1>9, <1>10, <1>11 DEF InCall, User

-----------------------------------------------------------------------------
(* What a thread knows stays true while others go on.                      *)

\* Only more is published.
Surroundings ==
    /\ Gate' = Gate /\ kind' = kind
    /\ kind = "single" => At(Items) <= At(Items)'
    /\ \A i \in 1..BufferSize : IsPublished(Number(i)) => IsPublished(Number(i))'

Unmoved(u) ==
    /\ pc'[u] = pc[u] /\ op'[u] = op[u] /\ local'[u] = local[u] /\ Target(u)' = Target(u)
    /\ \A a \in Threads : Keeps(u, a) => op'[a].target = op[a].target
    /\ nextToRead' = nextToRead \/ (~Keeps(u, Reader) /\ pc[u] \notin SequencerLabels)
    /\ pc[u] \in BarrierPublishing /\ PublishesTo(u) = "items" => Items' = Items

LEMMA Counted ==
  ASSUME Surroundings
  PROVE  /\ \A s : Difference(s, Gate') = At(s)
         /\ \A i : Number(i)' = Number(i)
         /\ lastPublished'["gate"] = lastPublished["gate"]
         /\ kind = "single" => Difference(lastPublished["items"], Gate) <= Difference(lastPublished'["items"], Gate)
BY DEF Surroundings, At, Number, Gate, Items

LEMMA ComparedLast ==
  ASSUME OneConsumer, Typed, Typed', Surroundings, NEW a \in Threads, Compared(WaitsFor(a))
  PROVE  /\ Difference(lastPublished[WaitsFor(a)], Gate) <= Difference(lastPublished'[WaitsFor(a)], Gate)
         /\ Difference(lastPublished[WaitsFor(a)], Gate) \in Int
         /\ Difference(lastPublished'[WaitsFor(a)], Gate) \in Int
         /\ Compared(WaitsFor(a))'
<1>1. WaitsFor(a) \in Barriers
  BY Served
<1>2. /\ lastPublished[WaitsFor(a)] \in SequenceNumbers /\ lastPublished'[WaitsFor(a)] \in SequenceNumbers
      /\ Gate \in SequenceNumbers
  BY <1>1, GateType DEF Typed, RingTypeOK
<1>3. /\ Difference(lastPublished[WaitsFor(a)], Gate) \in Int
      /\ Difference(lastPublished'[WaitsFor(a)], Gate) \in Int
  BY <1>2, DifferenceType
<1>4. Compared(WaitsFor(a))'
  BY DEF Compared, WaitsFor, Surroundings
<1>5. WaitsFor(a) = "gate" \/ (WaitsFor(a) = "items" /\ kind = "single")
  BY <1>1 DEF Compared, Barriers
<1>6. Difference(lastPublished[WaitsFor(a)], Gate) <= Difference(lastPublished'[WaitsFor(a)], Gate)
  <2>1. CASE WaitsFor(a) = "gate"
    BY <1>3, <2>1, Counted
  <2>2. CASE WaitsFor(a) = "items" /\ kind = "single"
    BY <2>2, Counted
  <2> QED
    BY <1>5, <2>1, <2>2
<1> QED
  BY <1>3, <1>4, <1>6

LEMMA KnownKept ==
  ASSUME OneConsumer, Typed, Typed', Surroundings, NEW u \in Threads, Comparisons(u), Counting(u), Unmoved(u)
  PROVE  Comparisons(u)' /\ Counting(u)'
<1>1. /\ Gate' = Gate /\ kind' = kind
      /\ pc'[u] = pc[u] /\ op'[u] = op[u] /\ local'[u] = local[u] /\ Target(u)' = Target(u)
  BY DEF Surroundings, Unmoved
<1>2. Comparisons(u)'
  <2>1. pc'[u] \in Awaiting => op'[u].target = Target(u)'
    BY <1>1 DEF Comparisons
  <2>2. pc'[u] = "resumed" \/ (pc'[u] \in Adding /\ op'[u].ready) =>
          /\ At(op[u].target)' <= At(op[u].known)' /\ At(op[u].known)' <= BufferSize
          /\ Compared(WaitsFor(u))' => At(op[u].known)' <= At(lastPublished[WaitsFor(u)])'
    <3>1. SUFFICES ASSUME pc[u] = "resumed" \/ (pc[u] \in Adding /\ op[u].ready)
                   PROVE  /\ At(op[u].target)' <= At(op[u].known)' /\ At(op[u].known)' <= BufferSize
                          /\ Compared(WaitsFor(u))' => At(op[u].known)' <= At(lastPublished[WaitsFor(u)])'
      BY <1>1
    <3>2. At(op[u].target)' = At(op[u].target) /\ At(op[u].known)' = At(op[u].known)
      BY <1>1 DEF At
    <3>3. /\ At(op[u].target) <= At(op[u].known) /\ At(op[u].known) <= BufferSize
          /\ Compared(WaitsFor(u)) => At(op[u].known) <= At(lastPublished[WaitsFor(u)])
      BY <3>1 DEF Comparisons
    <3>4. Compared(WaitsFor(u)) => At(op[u].known) <= At(lastPublished[WaitsFor(u)])'
      <4> HAVE Compared(WaitsFor(u))
      <4>1. /\ At(lastPublished[WaitsFor(u)]) <= At(lastPublished[WaitsFor(u)])'
            /\ At(lastPublished[WaitsFor(u)]) \in Int /\ At(lastPublished[WaitsFor(u)])' \in Int
        BY <1>1, ComparedLast DEF At
      <4>2. At(op[u].known) \in Int
        BY AtType DEF Typed, RingTypeOK, Operations
      <4> QED
        BY <3>3, <4>1, <4>2
    <3>5. Compared(WaitsFor(u))' <=> Compared(WaitsFor(u))
      BY <1>1 DEF Compared, WaitsFor
    <3> QED
      BY <3>2, <3>3, <3>4, <3>5
  <2>3. pc'[u] \in BarrierLabels => At(op[u].target)' <= At(local[u].earliest)'
    BY <1>1 DEF Comparisons, At
  <2>4. pc'[u] = "enqueue" => \A a \in Threads : Has(local'[u].requeue, a) =>
          At(local[u].earliest)' <= At(op[a].target)'
    BY <1>1 DEF Comparisons, At, Unmoved, Keeps
  <2>5. pc'[u] = "reacquire" => /\ At(op[u].target)' <= At(local[u].seen)'
                                /\ At(local[u].seen)' <= At(lastPublished[WaitsFor(u)])'
    <3> HAVE pc'[u] = "reacquire"
    <3>1. At(op[u].target) <= At(local[u].seen) /\ At(local[u].seen) <= At(lastPublished[WaitsFor(u)])
      BY <1>1 DEF Comparisons
    <3>2. At(op[u].target)' = At(op[u].target) /\ At(local[u].seen)' = At(local[u].seen)
      BY <1>1 DEF At
    <3>3. Compared(WaitsFor(u))
      BY <1>1, RolesOf, Parties DEF BarrierLabels, Compared
    <3>4. /\ At(lastPublished[WaitsFor(u)]) <= At(lastPublished[WaitsFor(u)])'
          /\ At(lastPublished[WaitsFor(u)]) \in Int /\ At(lastPublished[WaitsFor(u)])' \in Int
      BY <1>1, <3>3, ComparedLast DEF At
    <3>5. At(local[u].seen) \in Int
      BY AtType DEF Typed, RingTypeOK, Locals
    <3> QED
      BY <3>1, <3>2, <3>4, <3>5
  <2>6. \A a \in Threads : Compared(WaitsFor(a))' /\ Has(local'[u].resume, a) =>
          /\ At(op[a].target)' <= At(local[u].seen)'
          /\ At(local[u].seen)' <= At(lastPublished[WaitsFor(a)])'
    <3> SUFFICES ASSUME NEW a \in Threads, Compared(WaitsFor(a))', Has(local[u].resume, a)
                 PROVE  /\ At(op[a].target)' <= At(local[u].seen)'
                        /\ At(local[u].seen)' <= At(lastPublished[WaitsFor(a)])'
      BY <1>1
    <3>1. Compared(WaitsFor(a))
      BY <1>1 DEF Compared, WaitsFor
    <3>2. At(op[a].target) <= At(local[u].seen) /\ At(local[u].seen) <= At(lastPublished[WaitsFor(a)])
      BY <3>1 DEF Comparisons
    <3>3. At(op[a].target)' = At(op[a].target) /\ At(local[u].seen)' = At(local[u].seen)
      BY <1>1 DEF At, Unmoved, Keeps
    <3>4. /\ At(lastPublished[WaitsFor(a)]) <= At(lastPublished[WaitsFor(a)])'
          /\ At(lastPublished[WaitsFor(a)]) \in Int /\ At(lastPublished[WaitsFor(a)])' \in Int
      BY <1>1, <3>1, ComparedLast DEF At
    <3>5. At(local[u].seen) \in Int
      BY AtType DEF Typed, RingTypeOK, Locals
    <3> QED
      BY <3>2, <3>3, <3>4, <3>5
  <2>7. pc'[u] \in BarrierPublishing => lastPublished'[PublishesTo(u)] = lastPublished[PublishesTo(u)]
    <3> HAVE pc'[u] \in BarrierPublishing
    <3>1. PublishesTo(u) \in Barriers
      BY Served
    <3> QED
      BY <1>1, <3>1, Counted DEF Barriers, Unmoved, Items
  <2>8. pc'[u] \in BarrierPublishing => local'[u].seen = lastPublished'[PublishesTo(u)]
    BY <1>1, <2>7 DEF Comparisons
  <2>9. pc'[u] = "requeue" => \A a \in Threads : Has(local'[u].requeue, a) =>
          At(lastPublished[PublishesTo(u)])' < At(op[a].target)'
    BY <1>1, <2>7 DEF Comparisons, At, Unmoved, Keeps, BarrierPublishing, PublishesTo
  <2>10. WaitsFor(u)' = WaitsFor(u) /\ PublishesTo(u)' = PublishesTo(u) /\ \A a \in Threads : WaitsFor(a)' = WaitsFor(a)
    BY DEF WaitsFor, PublishesTo
  <2> QED
    BY <2>1, <2>2, <2>3, <2>4, <2>5, <2>6, <2>8, <2>9, <2>10 DEF Comparisons
<1>3. Counting(u)'
  <2> SUFFICES ASSUME kind = "multi" PROVE Counting(u)'
    BY <1>1 DEF Counting
  <2>1. \A s : UpTo(s) => /\ 0 <= Difference(s, Gate') /\ Difference(s, Gate') <= BufferSize
                          /\ \A i \in 1..BufferSize : i <= Difference(s, Gate') => IsPublished(Number(i))'
    BY <1>1 DEF UpTo, At, Surroundings
  <2>2. UpTo(op[u].known) => UpTo(op[u].known)'
    BY <1>1, <2>1 DEF UpTo, At
  <2>3. UpTo(local[u].seen) => UpTo(local[u].seen)'
    BY <1>1, <2>1 DEF UpTo, At
  <2>4. At(local[u].seen)' = At(local[u].seen)
    BY <1>1 DEF At
  <2>5. pc[u] \in SequencerLabels \/ Has(local[u].requeue, Reader) => nextToRead'[Reader] = nextToRead[Reader]
    BY Parties DEF Unmoved, Keeps
  <2> QED
    BY <1>1, <2>2, <2>3, <2>4, <2>5 DEF Counting
<1> QED
  BY <1>2, <1>3

-----------------------------------------------------------------------------
(* What a thread learns.                                                   *)

\* What a thread knows after a step that publishes nothing.
Learned(t) ==
    /\ pc'[t] \in Awaiting => op'[t].target = Target(t)'
    /\ pc'[t] = "resumed" \/ (pc'[t] \in Adding /\ op'[t].ready) =>
          /\ At(op'[t].target) <= At(op'[t].known) /\ At(op'[t].known) <= BufferSize
          /\ Compared(WaitsFor(t)) => At(op'[t].known) <= At(lastPublished[WaitsFor(t)])
    /\ pc'[t] \in BarrierLabels => At(op'[t].target) <= At(local'[t].earliest)
    /\ pc'[t] = "enqueue" => \A a \in Threads : Has(local'[t].requeue, a) =>
          At(local'[t].earliest) <= At(op'[a].target)
    /\ pc'[t] = "reacquire" => /\ At(op'[t].target) <= At(local'[t].seen)
                               /\ At(local'[t].seen) <= At(lastPublished[WaitsFor(t)])
    /\ \A a \in Threads : Compared(WaitsFor(a)) /\ Has(local'[t].resume, a) =>
          /\ At(op'[a].target) <= At(local'[t].seen)
          /\ At(local'[t].seen) <= At(lastPublished[WaitsFor(a)])
    /\ pc'[t] \in BarrierPublishing => local'[t].seen = lastPublished[PublishesTo(t)]
    /\ pc'[t] = "requeue" => \A a \in Threads : Has(local'[t].requeue, a) =>
          At(lastPublished[PublishesTo(t)]) < At(op'[a].target)

Tallied(t) ==
    kind = "multi" =>
      /\ t = Reader /\ pc'[t] \in Awaiting => UpTo(op'[t].known)
      /\ pc'[t] \in SequencerLabels => UpTo(local'[t].seen) /\ local'[t].earliest = nextToRead[Reader]
      /\ pc'[t] = "retake" => 1 <= At(local'[t].seen)
      /\ Has(local'[t].resume, Reader) => UpTo(local'[t].seen) /\ 1 <= At(local'[t].seen)
      /\ pc'[t] = "count" => UpTo(local'[t].seen) /\ Has(local'[t].taken, Reader)
      /\ pc'[t] = "putBack" => /\ local'[t].seen = Gate /\ local'[t].earliest = nextToRead[Reader]
                               /\ Has(local'[t].requeue, Reader)

LEMMA LearnedKnown ==
  ASSUME NEW t, lastPublished' = lastPublished, kind' = kind, published' = published,
         nextToRead' = nextToRead \/ (~Has(local'[t].requeue, Reader) /\ pc'[t] \notin SequencerLabels)
  PROVE  /\ Learned(t) => Comparisons(t)'
         /\ Tallied(t) => Counting(t)'
<1>1. Gate' = Gate /\ Compared("gate") /\ Compared("gate")' /\ (Compared("items")' <=> Compared("items"))
  BY DEF Gate, Compared
<1>2. /\ WaitsFor(t)' = WaitsFor(t) /\ PublishesTo(t)' = PublishesTo(t) /\ \A a \in Threads : WaitsFor(a)' = WaitsFor(a)
      /\ \A b : Compared(b)' <=> Compared(b)
  BY DEF WaitsFor, PublishesTo, Compared
<1>3. Learned(t) => Comparisons(t)'
  BY <1>1, <1>2 DEF Learned, Comparisons, At, Compared
<1>4. Tallied(t) => Counting(t)'
  <2>1. \A i : IsPublished(Number(i))' <=> IsPublished(Number(i))
    BY ComeKept
  <2>2. /\ UpTo(op'[t].known) => UpTo(op[t].known)'
        /\ UpTo(local'[t].seen) => UpTo(local[t].seen)'
    BY <1>1, <2>1 DEF UpTo, At
  <2>3. At(local[t].seen)' = At(local'[t].seen)
    BY <1>1 DEF At
  <2> QED
    BY <1>1, <2>2, <2>3 DEF Tallied, Counting
<1> QED
  BY <1>3, <1>4

\* A thread's step within a call.
LEMMA KnownOf ==
  ASSUME OneConsumer, Typed, Typed', Known, NEW t \in Threads, OnlyOf(t),
         lastPublished' = lastPublished, UNCHANGED <<published, ringVars>>,
         \A u \in Threads : op'[u].target = op[u].target, \A u \in Threads : u # t => op'[u] = op[u],
         Learned(t), Tallied(t)
  PROVE  Known'
<1>1. Surroundings
  BY ComeKept, RangeType DEF Surroundings, ringVars
<1>2. nextToRead' = nextToRead /\ kind' = kind /\ published' = published /\ range' = range
  BY DEF ringVars
<1>3. \A u \in Threads : Target(u)' = Target(u)
  BY <1>2 DEF Target, ClaimTarget
<1>4. Comparisons(t)' /\ Counting(t)'
  BY <1>2, LearnedKnown
<1>5. ASSUME NEW u \in Threads, u # t PROVE Comparisons(u)' /\ Counting(u)'
  <2>1. Unmoved(u)
    BY <1>2, <1>3, <1>5 DEF Unmoved, OnlyOf, Items
  <2> QED
    BY <1>1, <2>1, KnownKept DEF Known
<1> QED
  BY <1>4, <1>5 DEF Known

\* Where the target of a claim is.
LEMMA TargetOfClaim ==
  ASSUME OneConsumer, Typed, Ring, NEW a \in Producers, Holds(a)
  PROVE  /\ ClaimTarget(a) \in SequenceNumbers
         /\ At(ClaimTarget(a)) \in Int
         /\ 1 - BufferSize <= At(ClaimTarget(a)) /\ At(ClaimTarget(a)) < Half - BufferSize
<1>1. BufferSize \in Nat \ {0} /\ Half \in Nat \ {0} /\ 2 * BufferSize <= Half /\ BufferSize + 1 < Half
  BY Sizes
<1>2. ClaimOf(a)
  BY DEF Ring, Claims
<1>3. PICK f \in Int, l \in Int : f = First(a) /\ l = Final(a) /\ 1 <= f /\ f <= l /\ l < Half
  BY <1>2, RangeType DEF ClaimOf
<1>4. CASE kind = "multi"
  <2>1. PICK e \in SequenceNumbers : e = range[a].end
    BY RangeType
  <2>2. ClaimTarget(a) = Wrap((e - 1) - BufferSize)
    BY <1>4, <2>1 DEF ClaimTarget
  <2>3. (e - 1) - BufferSize = (e - 1) + (- BufferSize) /\ e - 1 \in Int /\ - BufferSize \in Int
    BY <1>1, Numbers
  <2>4. Wrap(Wrap(e - 1) + (- BufferSize)) = Wrap((e - 1) + (- BufferSize))
    BY <2>3, WrapSum
  <2>5. Wrap(e - 1) \in SequenceNumbers /\ At(Wrap(e - 1)) = l
    BY <1>3, <2>1, <2>3, WrapType DEF Final
  <2>6. /\ At(Wrap(Wrap(e - 1) + (- BufferSize))) = l + (- BufferSize)
        /\ Wrap(Wrap(e - 1) + (- BufferSize)) \in SequenceNumbers
    BY <1>1, <1>3, <2>3, <2>5, AtFurther
  <2>7. At(ClaimTarget(a)) = l + (- BufferSize) /\ ClaimTarget(a) \in SequenceNumbers
    BY <2>2, <2>3, <2>4, <2>6
  <2> QED
    BY <1>1, <1>3, <2>7
<1>5. CASE kind # "multi"
  <2>1. PICK b \in SequenceNumbers : b = range[a].begin
    BY RangeType
  <2>2. ClaimTarget(a) = Wrap(b - BufferSize)
    BY <1>5, <2>1 DEF ClaimTarget
  <2>3. b - BufferSize = b + (- BufferSize) /\ - BufferSize \in Int
    BY <1>1, Numbers
  <2>4. At(b) = f
    BY <1>3, <2>1 DEF First
  <2>5. At(Wrap(b + (- BufferSize))) = f + (- BufferSize) /\ Wrap(b + (- BufferSize)) \in SequenceNumbers
    BY <1>1, <1>3, <2>3, <2>4, AtFurther
  <2>6. At(ClaimTarget(a)) = f + (- BufferSize) /\ ClaimTarget(a) \in SequenceNumbers
    BY <2>2, <2>3, <2>5
  <2> QED
    BY <1>1, <1>3, <2>6
<1> QED
  BY <1>4, <1>5

\* Where the targets of those that wait are, and the last published numbers.
LEMMA Targets ==
  ASSUME OneConsumer, Typed, Ring, Known, NEW a \in Threads, pc[a] \in Awaiting
  PROVE  /\ op[a].target = Target(a) /\ op[a].target \in SequenceNumbers
         /\ At(op[a].target) \in Int
         /\ 1 - BufferSize <= At(op[a].target) /\ At(op[a].target) < Half - BufferSize
         /\ a = Reader => op[a].target = nextToRead[Reader] /\ At(op[a].target) = 1
<1>1. op[a].target = Target(a) /\ op[a].target \in SequenceNumbers
  BY DEF Known, Comparisons, Typed, RingTypeOK, Operations
<1>2. BufferSize \in Nat \ {0} /\ Half \in Nat \ {0} /\ 2 * BufferSize <= Half /\ BufferSize + 1 < Half
  BY Sizes
<1>3. CASE a = Reader
  <2>1. Target(a) = nextToRead[Reader]
    BY <1>3, Parties DEF Target
  <2>2. pc[Reader] # "release"
    BY <1>3 DEF Awaiting, Adding, BarrierLabels, SequencerLabels
  <2> QED
    BY <1>1, <1>2, <1>3, <2>1, <2>2, AtType DEF Ring, Reading
<1>4. CASE a \in Producers
  <2>1. pc[a] \notin SequencerLabels
    BY <1>4, RolesOf, Parties
  <2>2. Holds(a)
    BY <2>1 DEF Awaiting, Adding, Holds, Holding
  <2> QED
    BY <1>1, <1>4, <2>2, Parties, TargetOfClaim DEF Target
<1> QED
  BY <1>3, <1>4, Parties

LEMMA Lasts ==
  ASSUME OneConsumer, Typed, Ring, NEW a \in Threads, Compared(WaitsFor(a))
  PROVE  /\ lastPublished[WaitsFor(a)] \in SequenceNumbers
         /\ At(lastPublished[WaitsFor(a)]) \in Int
         /\ 0 <= At(lastPublished[WaitsFor(a)]) /\ At(lastPublished[WaitsFor(a)]) <= BufferSize
<1>1. WaitsFor(a) = "gate" \/ (WaitsFor(a) = "items" /\ kind = "single")
  BY Served DEF Compared, Barriers
<1>2. CASE WaitsFor(a) = "gate"
  BY <1>2, GateType, AtGate, Sizes
<1>3. CASE WaitsFor(a) = "items" /\ kind = "single"
  BY <1>3, GateType, RangeType DEF Ring, Claims
<1> QED
  BY <1>1, <1>2, <1>3

LEMMA WaitersAwait ==
  ASSUME NEW a, Waits(a)
  PROVE  pc[a] \in Awaiting /\ ~(pc[a] = "resumed" \/ (pc[a] \in Adding /\ op[a].ready))
BY DEF Waits, Awaiting, Adding, BarrierLabels, SequencerLabels

LEMMA KnownInPut ==
  ASSUME OneConsumer, Typed, Typed', Places, Ring, Known, NEW t \in Threads, NEW b \in Barriers,
         UNCHANGED <<published, ringVars>>,
         Enqueue(t, b) \/ Requeue(t, b) \/ (b = "items" /\ (PutOn(t) \/ PutBack(t)))
  PROVE  Known'
<1>1. /\ OnlyOf(t) /\ op' = op /\ lastPublished' = lastPublished
      /\ local'[t].taken = local[t].taken /\ local'[t].requeue = <<>> /\ local'[t].resume = local[t].resume
      /\ local'[t].seen = local[t].seen /\ local'[t].earliest = local[t].earliest
      /\ \/ pc[t] = "enqueue" /\ pc'[t] = "check"
         \/ pc[t] = "requeue" /\ pc'[t] = "resumePublished"
         \/ pc[t] = "queue" /\ pc'[t] = "advance"
         \/ pc[t] = "putBack" /\ pc'[t] = "verify"
  BY PutIs DEF Moved, Lists, Sees
<1>2. Comparisons(t) /\ Counting(t) /\ \A x : ~Has(<<>>, x)
  BY EmptyHas DEF Known
<1>3. Target(t)' = Target(t) /\ kind' = kind
  BY DEF Target, ClaimTarget, ringVars
<1>4. Learned(t)
  BY <1>1, <1>2, <1>3 DEF Learned, Comparisons, Awaiting, Adding, BarrierLabels, SequencerLabels, BarrierPublishing
<1>5. Tallied(t)
  BY <1>1, <1>2, <1>3 DEF Tallied, Counting, Awaiting, Adding, BarrierLabels, SequencerLabels
<1> QED
  BY <1>1, <1>4, <1>5, KnownOf

LEMMA KnownInCheck ==
  ASSUME OneConsumer, Typed, Typed', Places, Ring, Known, NEW t \in Threads,
         UNCHANGED <<published, ringVars>>, Check(t, WaitsFor(t))
  PROVE  Known'
<1>0. WaitsFor(t) \in Barriers
  BY Served
<1> DEFINE b == WaitsFor(t)
<1>1. /\ OnlyOf(t) /\ op' = op /\ lastPublished' = lastPublished /\ pc[t] = "check"
      /\ local'[t].taken = local[t].taken /\ local'[t].requeue = local[t].requeue /\ local'[t].resume = local[t].resume
      /\ local'[t].seen = lastPublished[b] /\ local'[t].earliest = local[t].earliest
      /\ pc'[t] = IF Precedes(lastPublished[b], local[t].earliest) THEN "resumeAdded" ELSE "reacquire"
  BY <1>0, CheckIs DEF Moved, Lists, Sees, Same
<1>2. Comparisons(t) /\ Counting(t)
  BY DEF Known
<1>3. Target(t)' = Target(t) /\ kind' = kind
  BY DEF Target, ClaimTarget, ringVars
<1>4. pc[t] \in BarrierLabels /\ pc[t] \in Adding /\ pc[t] \in Awaiting
  BY <1>1 DEF BarrierLabels, Adding, Awaiting
<1>5. Compared(b)
  BY <1>4, RolesOf, Parties DEF Compared
<1>6. PICK last \in SequenceNumbers : last = lastPublished[b] /\ At(last) \in Int /\ 0 <= At(last) /\ At(last) <= BufferSize
  BY <1>5, Lasts
<1>7. PICK e \in SequenceNumbers : e = local[t].earliest /\ At(e) \in Int /\ -Half <= At(e) /\ At(e) < Half
  BY AtType DEF Typed, RingTypeOK, Locals
<1>8. /\ At(op[t].target) <= At(e) /\ At(op[t].target) \in Int /\ 1 - BufferSize <= At(op[t].target)
  BY <1>2, <1>4, <1>7, Targets DEF Comparisons
<1>9. Precedes(last, e) <=> At(last) < At(e)
  <2>1. BufferSize \in Nat \ {0} /\ Half \in Nat \ {0} /\ 2 * BufferSize <= Half
    BY Sizes
  <2>2. -Half <= At(last) - At(e) /\ At(last) - At(e) < Half
    BY <1>6, <1>7, <1>8, <2>1
  <2> QED
    BY <2>2, Ahead
<1>10. pc'[t] = "reacquire" => At(op[t].target) <= At(last)
  BY <1>1, <1>6, <1>7, <1>8, <1>9
<1>11. \A a \in Threads : Has(local[t].resume, a) => WaitsFor(a) = b
  BY <1>4 DEF Keeps, Places, Placed, Serves
<1>12. \A a \in Threads : Has(local[t].resume, a) => At(op[a].target) <= At(last)
  <2> SUFFICES ASSUME NEW a \in Threads, Has(local[t].resume, a) PROVE At(op[a].target) <= At(last)
    OBVIOUS
  <2>1. WaitsFor(a) = b
    BY <1>11
  <2>2. At(op[a].target) <= At(local[t].seen) /\ At(local[t].seen) <= At(last)
    BY <1>2, <1>5, <1>6, <2>1 DEF Comparisons
  <2>3. At(op[a].target) \in Int /\ At(local[t].seen) \in Int
    BY AtType DEF Typed, RingTypeOK, Operations, Locals
  <2> QED
    BY <1>6, <2>2, <2>3
<1>13. Learned(t)
  <2>1. pc'[t] \in {"resumeAdded", "reacquire"}
    BY <1>1
  <2>2. pc'[t] \in Awaiting => op'[t].target = Target(t)'
    BY <1>1, <1>2, <1>3, <1>4 DEF Comparisons
  <2>3. pc'[t] \in Adding /\ op'[t].ready =>
          /\ At(op'[t].target) <= At(op'[t].known) /\ At(op'[t].known) <= BufferSize
          /\ Compared(WaitsFor(t)) => At(op'[t].known) <= At(lastPublished[WaitsFor(t)])
    BY <1>1, <1>2, <1>4 DEF Comparisons
  <2>4. pc'[t] \in BarrierLabels => At(op'[t].target) <= At(local'[t].earliest)
    BY <1>1, <1>7, <1>8
  <2>5. pc'[t] = "reacquire" => /\ At(op'[t].target) <= At(local'[t].seen)
                                /\ At(local'[t].seen) <= At(lastPublished[WaitsFor(t)])
    BY <1>1, <1>6, <1>10
  <2>6. \A a \in Threads : Compared(WaitsFor(a)) /\ Has(local'[t].resume, a) =>
          /\ At(op'[a].target) <= At(local'[t].seen)
          /\ At(local'[t].seen) <= At(lastPublished[WaitsFor(a)])
    BY <1>1, <1>6, <1>11, <1>12
  <2> QED
    BY <2>1, <2>2, <2>3, <2>4, <2>5, <2>6 DEF Learned, BarrierPublishing
<1>14. Tallied(t)
  <2> SUFFICES ASSUME kind = "multi" PROVE Tallied(t)
    BY DEF Tallied
  <2>1. t # Reader
    BY <1>4, RolesOf, Parties
  <2>2. b = "gate" /\ WaitsFor(Reader) = "items"
    BY <2>1, Parties
  <2>3. ~Has(local'[t].resume, Reader)
    BY <1>1, <1>11, <2>2, Parties
  <2>4. pc'[t] \in {"resumeAdded", "reacquire"}
    BY <1>1
  <2> QED
    BY <2>1, <2>3, <2>4 DEF Tallied, SequencerLabels
<1> QED
  BY <1>1, <1>13, <1>14, KnownOf

\* Differences between the targets of those that wait and numbers of this round.
LEMMA TargetFrom ==
  ASSUME OneConsumer, Typed, Ring, Known, NEW a \in Threads, pc[a] \in Awaiting,
         NEW s \in SequenceNumbers, 1 - BufferSize <= At(s), At(s) <= BufferSize
  PROVE  /\ Difference(op[a].target, s) = At(op[a].target) - At(s)
         /\ Precedes(s, op[a].target) <=> At(s) < At(op[a].target)
<1>1. BufferSize \in Nat \ {0} /\ Half \in Nat \ {0} /\ 2 * BufferSize <= Half /\ BufferSize + 1 < Half
  BY Sizes
<1>2. At(s) \in Int
  BY AtType
<1>3. /\ op[a].target \in SequenceNumbers /\ At(op[a].target) \in Int
      /\ 1 - BufferSize <= At(op[a].target) /\ At(op[a].target) < Half - BufferSize
  BY Targets
<1>5. PICK x \in Int, y \in Int : x = At(op[a].target) /\ y = At(s)
  BY <1>2, <1>3
<1>6. -Half <= x - y /\ x - y < Half /\ -Half <= y - x /\ y - x < Half
  BY <1>1, <1>3, <1>5
<1>7. Difference(op[a].target, s) = At(op[a].target) - At(s)
  BY <1>3, <1>5, <1>6, Ahead
<1>8. Precedes(s, op[a].target) <=> At(s) < At(op[a].target)
  BY <1>3, <1>5, <1>6, Ahead
<1> QED
  BY <1>7, <1>8

\* A waiting thread takes the stack it waits in.
LEMMA KnownInReacquire ==
  ASSUME OneConsumer, Typed, Typed', Places, Ring, Known, NEW t \in Threads,
         UNCHANGED <<published, ringVars>>, Reacquire(t, WaitsFor(t))
  PROVE  Known'
<1>0. WaitsFor(t) \in Barriers
  BY Served
<1> DEFINE b == WaitsFor(t)
           list == awaiters[b]
           m == Split(t, list)
<1>1. /\ OnlyOf(t) /\ op' = op /\ lastPublished' = lastPublished /\ pc[t] = "reacquire"
      /\ local'[t] = m
      /\ pc'[t] = IF m.requeue = <<>> THEN "resumeAdded" ELSE "enqueue"
  BY <1>0, ReacquireIs DEF Moved
<1>2. Comparisons(t) /\ Counting(t)
  BY DEF Known
<1>3. Target(t)' = Target(t) /\ kind' = kind
  BY DEF Target, ClaimTarget, ringVars
<1>4. pc[t] \in BarrierLabels /\ pc[t] \in Adding /\ pc[t] \in Awaiting
  BY <1>1 DEF BarrierLabels, Adding, Awaiting
<1>5. Compared(b)
  BY <1>4, RolesOf, Parties DEF Compared
<1>6. PICK last \in SequenceNumbers : last = lastPublished[b] /\ At(last) \in Int /\ 0 <= At(last) /\ At(last) <= BufferSize
  BY <1>5, Lasts
<1>7. PICK s \in SequenceNumbers : /\ s = local[t].seen /\ At(s) \in Int
                                   /\ At(op[t].target) <= At(s) /\ At(s) <= At(last)
                                   /\ 1 - BufferSize <= At(s) /\ At(s) <= BufferSize
  <2>1. local[t].seen \in SequenceNumbers /\ At(local[t].seen) \in Int
    BY AtType DEF Typed, RingTypeOK, Locals
  <2>2. At(op[t].target) <= At(local[t].seen) /\ At(local[t].seen) <= At(last)
    BY <1>1, <1>2, <1>6 DEF Comparisons
  <2>3. 1 - BufferSize <= At(op[t].target) /\ At(op[t].target) \in Int
    BY <1>4, Targets
  <2>4. BufferSize \in Nat
    BY Sizes
  <2> QED
    BY <1>6, <2>1, <2>2, <2>3, <2>4
<1>8. list \in Seq(Threads) /\ RingTypeOK
  BY <1>0, TidyLists DEF Typed
<1>9. \A a \in Threads : Has(list, a) => /\ Waits(a) /\ WaitsFor(a) = b /\ op[a].target \in SequenceNumbers
                                         /\ At(op[a].target) \in Int
                                         /\ Difference(op[a].target, s) = At(op[a].target) - At(s)
  <2> TAKE a \in Threads
  <2> HAVE Has(list, a)
  <2>1. Waits(a) /\ WaitsFor(a) = b
    BY <1>0 DEF Places, Placed
  <2>2. pc[a] \in Awaiting
    BY <2>1, WaitersAwait
  <2> QED
    BY <1>7, <2>1, <2>2, Targets, TargetFrom
<1>10. /\ m.seen = s
       /\ \A a : Has(m.requeue, a) <=> Has(list, a) /\ a \in Threads /\ Difference(op[a].target, s) > 0
       /\ \A a : Has(m.resume, a) <=>
                \/ Has(local[t].resume, a)
                \/ Has(list, a) /\ a \in Threads /\ ~(Difference(op[a].target, s) > 0)
       /\ m.earliest = Earliest(s, m.requeue)
       /\ m.requeue \in Seq(Threads)
  <2>1. m \in Locals
    BY <1>8, SplitIs
  <2> QED
    BY <1>7, <1>8, <2>1, SplitIs DEF Locals
<1>11. \A a \in Threads : Has(local[t].resume, a) => WaitsFor(a) = b
  BY <1>4 DEF Keeps, Places, Placed, Serves
<1>12. \A a \in Threads : Has(m.resume, a) => WaitsFor(a) = b /\ At(op[a].target) <= At(s)
  <2> SUFFICES ASSUME NEW a \in Threads, Has(m.resume, a) PROVE WaitsFor(a) = b /\ At(op[a].target) <= At(s)
    OBVIOUS
  <2>1. CASE Has(local[t].resume, a)
    BY <1>2, <1>5, <1>7, <1>11, <2>1 DEF Comparisons
  <2>2. CASE Has(list, a) /\ ~(Difference(op[a].target, s) > 0)
    BY <1>7, <1>9, <2>2
  <2> QED
    BY <1>10, <2>1, <2>2
<1>13. m.requeue # <<>> =>
         /\ At(s) < At(m.earliest) /\ m.earliest \in SequenceNumbers
         /\ \A a \in Threads : Has(m.requeue, a) => At(m.earliest) <= At(op[a].target)
  <2> HAVE m.requeue # <<>>
  <2>1. PICK q \in Seq(Threads) : q = m.requeue
    BY <1>10
  <2>2. Gate \in SequenceNumbers /\ \A a \in Threads : op[a].target \in SequenceNumbers
    BY GateType DEF Typed, RingTypeOK, Operations
  <2>3. \A a \in Threads : Has(q, a) =>
             /\ 0 < Difference(op[a].target, s)
             /\ Difference(op[a].target, s) = Difference(op[a].target, Gate) - Difference(s, Gate)
    <3> TAKE a \in Threads
    <3> HAVE Has(q, a)
    <3>1. Has(list, a) /\ Difference(op[a].target, s) > 0
      BY <1>10, <2>1
    <3>2. Difference(op[a].target, s) \in Int
      BY <2>2, DifferenceType
    <3> QED
      BY <1>9, <3>1, <3>2 DEF At
  <2>4. q # <<>>
    BY <2>1
  <2>5. /\ Earliest(s, q) \in SequenceNumbers
        /\ Difference(s, Gate) < Difference(Earliest(s, q), Gate)
        /\ \A a \in Threads : Has(q, a) =>
                Difference(Earliest(s, q), Gate) <= Difference(op[a].target, Gate)
    <3> HIDE DEF m
    <3> QED
      BY <2>2, <2>3, <2>4, EarliestIs
  <2> QED
    BY <1>10, <2>1, <2>5 DEF At
<1> HIDE DEF m, list
<1>14. pc'[t] \in {"resumeAdded", "enqueue"} /\ (pc'[t] = "enqueue" => m.requeue # <<>>)
  BY <1>1
<1>15. Learned(t)
  <2>2. pc'[t] \in Awaiting => op'[t].target = Target(t)'
    BY <1>1, <1>2, <1>3, <1>4 DEF Comparisons
  <2>3. pc'[t] \in Adding /\ op'[t].ready =>
          /\ At(op'[t].target) <= At(op'[t].known) /\ At(op'[t].known) <= BufferSize
          /\ Compared(WaitsFor(t)) => At(op'[t].known) <= At(lastPublished[WaitsFor(t)])
    BY <1>1, <1>2, <1>4 DEF Comparisons
  <2>4. pc'[t] \in BarrierLabels => At(op'[t].target) <= At(local'[t].earliest)
    <3> HAVE pc'[t] \in BarrierLabels
    <3>1. m.requeue # <<>>
      BY <1>14 DEF BarrierLabels
    <3>2. At(m.earliest) \in Int /\ At(op[t].target) \in Int
      BY <1>4, <1>13, <3>1, AtType, Targets
    <3> QED
      BY <1>1, <1>7, <1>13, <3>1, <3>2
  <2>5. pc'[t] = "enqueue" => \A a \in Threads : Has(local'[t].requeue, a) =>
          At(local'[t].earliest) <= At(op'[a].target)
    BY <1>1, <1>13, <1>14
  <2>6. \A a \in Threads : Compared(WaitsFor(a)) /\ Has(local'[t].resume, a) =>
          /\ At(op'[a].target) <= At(local'[t].seen)
          /\ At(local'[t].seen) <= At(lastPublished[WaitsFor(a)])
    BY <1>1, <1>6, <1>7, <1>10, <1>12
  <2> QED
    BY <1>14, <2>2, <2>3, <2>4, <2>5, <2>6 DEF Learned, BarrierPublishing
<1>16. Tallied(t)
  <2> SUFFICES ASSUME kind = "multi" PROVE Tallied(t)
    BY DEF Tallied
  <2>1. t # Reader
    BY <1>4, RolesOf, Parties
  <2>2. b = "gate" /\ WaitsFor(Reader) = "items"
    BY <2>1, Parties
  <2>3. ~Has(local'[t].resume, Reader)
    BY <1>1, <1>12, <2>2, Parties
  <2> QED
    BY <1>14, <2>1, <2>3 DEF Tallied, SequencerLabels
<1> QED
  BY <1>1, <1>15, <1>16, KnownOf

\* The end of a call.
LEMMA KnownInExchange ==
  ASSUME OneConsumer, Typed, Typed', Places, Ring, Known, NEW t \in Threads,
         UNCHANGED <<published, ringVars>>, Exchange(t)
  PROVE  Known'
<1>1. /\ OnlyOf(t) /\ lastPublished' = lastPublished /\ pc[t] = "resumeAdded"
      /\ \A a \in Threads : op'[a].target = op[a].target /\ op'[a].known = op[a].known
      /\ local'[t].taken = <<>> /\ local'[t].requeue = <<>> /\ local'[t].resume = <<>>
      /\ pc'[t] = IF op[t].ready THEN "resumed" ELSE "suspended"
  BY ExchangeIs DEF Moved, Lists
<1>2. \A a \in Threads : a # t => op'[a] = op[a]
  BY DEF Exchange, Typed, RingTypeOK
<1>3. Comparisons(t) /\ Counting(t) /\ \A x : ~Has(<<>>, x)
  BY EmptyHas DEF Known
<1>4. Target(t)' = Target(t) /\ kind' = kind
  BY DEF Target, ClaimTarget, ringVars
<1>5. pc[t] \in Adding /\ pc[t] \in Awaiting
  BY <1>1 DEF Adding, Awaiting
<1>6. Learned(t)
  BY <1>1, <1>3, <1>4, <1>5 DEF Learned, Comparisons, Adding, BarrierLabels, SequencerLabels, BarrierPublishing
<1>7. Tallied(t)
  BY <1>1, <1>3, <1>5 DEF Tallied, Counting, SequencerLabels
<1> QED
  BY <1>1, <1>2, <1>6, <1>7, KnownOf

\* Steps that leave the thread's operation alone and end in no call of add_awaiter.
LEMMA KnownInIdle ==
  ASSUME OneConsumer, Typed, Typed', Places, Ring, Known, NEW t \in Threads,
         UNCHANGED <<published, ringVars>>, NEW b \in Barriers, b = PublishesTo(t),
         LoadAwaiters(t, b) \/ (b = "items" /\ Load(t)) \/ Published(t) \/ Verify(t)
  PROVE  Known'
<1>1. /\ OnlyOf(t) /\ op' = op /\ lastPublished' = lastPublished
      /\ \/ /\ local'[t].resume = local[t].resume /\ local'[t].requeue = local[t].requeue
            /\ pc[t] \in {"loadAwaiters", "load", "verify"}
         \/ local'[t].resume = <<>> /\ local'[t].requeue = <<>> /\ pc'[t] = "idle"
      /\ pc'[t] \in {"resumePublished", "acquire", "take", "verify", "idle"}
      /\ pc'[t] = "acquire" => pc[t] = "loadAwaiters" /\ local'[t].seen = local[t].seen
  <2>1. CASE LoadAwaiters(t, b) \/ (b = "items" /\ Load(t))
    BY <2>1, LoadIs DEF Moved, Lists, Sees, Same
  <2>2. CASE Published(t)
    BY <2>2, PublishedIs DEF Moved, Lists
  <2>3. CASE Verify(t)
    BY <2>3, VerifyIs DEF Moved, Lists, Same
  <2> QED
    BY <2>1, <2>2, <2>3
<1>2. local'[t].resume = <<>> /\ local'[t].requeue = <<>>
  <2>1. CASE pc[t] \in {"loadAwaiters", "load", "verify"}
    <3>1. pc[t] \notin RequeueLabels /\ pc[t] \notin ResumeLabels
      BY <2>1 DEF RequeueLabels, ResumeLabels, BarrierLabels
    <3>2. local[t].requeue = <<>> /\ local[t].resume = <<>>
      BY <3>1, TidyLists
    <3> QED
      BY <1>1, <3>2
  <2> QED
    BY <1>1, <2>1
<1>3. Comparisons(t) /\ \A x : ~Has(<<>>, x)
  BY EmptyHas DEF Known
<1>4. pc'[t] = "acquire" => local'[t].seen = lastPublished[PublishesTo(t)]
  BY <1>1, <1>3 DEF Comparisons, BarrierPublishing
<1>5. Learned(t)
  BY <1>1, <1>2, <1>3, <1>4 DEF Learned, Awaiting, Adding, BarrierLabels, SequencerLabels, BarrierPublishing
<1>6. Tallied(t)
  BY <1>1, <1>2, <1>3 DEF Tallied, Awaiting, Adding, BarrierLabels, SequencerLabels
<1> QED
  BY <1>1, <1>5, <1>6, KnownOf

\* A publisher takes the stack.
LEMMA KnownInAcquire ==
  ASSUME OneConsumer, Typed, Typed', Places, Ring, Known, NEW t \in Threads,
         UNCHANGED <<published, ringVars>>, Acquire(t, PublishesTo(t))
  PROVE  Known'
<1>0. PublishesTo(t) \in Barriers
  BY Served
<1> DEFINE b == PublishesTo(t)
           list == awaiters[b]
           later == {a \in Threads : Precedes(local[t].seen, op[a].target)}
<1>1. /\ OnlyOf(t) /\ op' = op /\ lastPublished' = lastPublished /\ pc[t] = "acquire"
      /\ local'[t].requeue = Among(list, later) /\ local'[t].resume = Among(list, Threads \ later)
      /\ local'[t].seen = local[t].seen
      /\ pc'[t] \in {"resumePublished", "requeue"}
  BY <1>0, AcquireIs DEF Moved, Lists, Sees
<1>2. Comparisons(t)
  BY DEF Known
<1>3. PICK s \in SequenceNumbers : s = local[t].seen /\ s = lastPublished[b]
  <2>1. local[t].seen \in SequenceNumbers
    BY DEF Typed, RingTypeOK, Locals
  <2>2. local[t].seen = lastPublished[b]
    BY <1>1, <1>2 DEF Comparisons, BarrierPublishing
  <2> QED
    BY <2>1, <2>2
<1>4. list \in Seq(Threads)
  BY <1>0, TidyLists
<1>5. \A a \in Threads : Has(list, a) => Waits(a) /\ WaitsFor(a) = b /\ pc[a] \in Awaiting
  BY <1>0, WaitersAwait DEF Places, Placed
<1>6. /\ \A a : Has(local'[t].requeue, a) => Has(list, a) /\ a \in later
      /\ \A a : Has(local'[t].resume, a) => Has(list, a) /\ a \in Threads \ later
  <2> HIDE DEF list, later
  <2> QED
    BY <1>1, <1>4, AmongHas
<1>7. Compared(b)
  <2>1. pc[t] \in BarrierPublishing
    BY <1>1 DEF BarrierPublishing
  <2> QED
    BY <2>1, RolesOf, Parties DEF Compared
<1>8. ASSUME NEW a \in Threads, Has(list, a)
      PROVE  /\ a \in later => At(s) < At(op[a].target)
             /\ a \notin later => At(op[a].target) <= At(s)
  <2>1. WaitsFor(a) = b /\ pc[a] \in Awaiting
    BY <1>5, <1>8
  <2>2. 0 <= At(s) /\ At(s) <= BufferSize /\ At(s) \in Int
    BY <1>3, <1>7, <2>1, Lasts
  <2>3. 1 - BufferSize <= At(s)
    BY <2>2, Sizes
  <2>4. Precedes(s, op[a].target) <=> At(s) < At(op[a].target)
    BY <2>1, <2>2, <2>3, TargetFrom
  <2>5. At(op[a].target) \in Int
    BY <2>1, Targets
  <2> QED
    BY <1>3, <2>2, <2>4, <2>5
<1> HIDE DEF later
<1>9. Learned(t)
  <2>1. \A a \in Threads : Has(local'[t].resume, a) =>
          /\ At(op'[a].target) <= At(local'[t].seen)
          /\ At(local'[t].seen) <= At(lastPublished[WaitsFor(a)])
    <3> SUFFICES ASSUME NEW a \in Threads, Has(local'[t].resume, a)
                 PROVE  /\ At(op[a].target) <= At(s)
                        /\ At(s) <= At(lastPublished[WaitsFor(a)])
      BY <1>1, <1>3
    <3>1. Has(list, a) /\ a \notin later
      BY <1>6
    <3>2. WaitsFor(a) = b /\ At(s) \in Int
      BY <1>5, <3>1, AtType
    <3> QED
      BY <1>3, <1>8, <3>1, <3>2
  <2>2. \A a \in Threads : Has(local'[t].requeue, a) =>
          At(lastPublished[PublishesTo(t)]) < At(op'[a].target)
    BY <1>1, <1>3, <1>6, <1>8
  <2>3. local'[t].seen = lastPublished[PublishesTo(t)]
    BY <1>1, <1>3
  <2> QED
    BY <1>1, <2>1, <2>2, <2>3 DEF Learned, Awaiting, Adding, BarrierLabels, SequencerLabels
<1>10. Tallied(t)
  <2> SUFFICES ASSUME kind = "multi" PROVE Tallied(t)
    BY DEF Tallied
  <2>1. t = Reader
    <3>1. pc[t] \in BarrierPublishing
      BY <1>1 DEF BarrierPublishing
    <3> QED
      BY <3>1, RolesOf, Parties
  <2>2. b = "gate" /\ WaitsFor(Reader) = "items"
    BY <2>1, Parties
  <2>3. ~Has(local'[t].resume, Reader)
    BY <1>5, <1>6, <2>2, Parties
  <2> QED
    BY <1>1, <2>3 DEF Tallied, Awaiting, Adding, BarrierLabels, SequencerLabels
<1> QED
  BY <1>1, <1>9, <1>10, KnownOf

\* One more number was published: never the one a round ahead.
LEMMA OneMoreCame ==
  ASSUME OneConsumer, Typed, Ring, kind = "multi", NEW s \in SequenceNumbers, UpTo(s), IsPublished(Wrap(s + 1))
  PROVE  UpTo(Wrap(s + 1)) /\ At(Wrap(s + 1)) = At(s) + 1 /\ Wrap(s + 1) \in SequenceNumbers
<1>1. /\ BufferSize \in Nat \ {0} /\ BufferSize + 1 < Half /\ Half \in Nat \ {0} /\ Modulus = 2 * Half
      /\ 2 * BufferSize <= Half
  BY Sizes
<1>2. PICK x \in Int : x = At(s) /\ 0 <= x /\ x <= BufferSize
  BY AtType DEF UpTo
<1>3. At(Wrap(s + 1)) = x + 1 /\ Wrap(s + 1) \in SequenceNumbers
  BY <1>1, <1>2, AtFurther
<1>4. Wrap(s + 1) = Number(x + 1)
  BY <1>3, NumberAt
<1>5. x # BufferSize
  <2> SUFFICES ASSUME x = BufferSize PROVE FALSE
    OBVIOUS
  <2>1. published[Slot(Number(1 + BufferSize))] = Number(1 + BufferSize)
    <3>1. x + 1 = 1 + BufferSize
      BY <1>1
    <3> QED
      BY <1>4, <3>1 DEF IsPublished
  <2>2. Slot(Number(1 + BufferSize)) = Slot(Number(1))
    BY SlotsOfNumbers
  <2>3. published[Slot(Number(1))] \in {Number(1), Number(1 - BufferSize)}
    BY <1>1 DEF Ring, Slotted
  <2>4. Number(1 + BufferSize) = Number(1) \/ Number(1 + BufferSize) = Number(1 - BufferSize)
    BY <2>1, <2>2, <2>3
  <2>5. /\ 1 + BufferSize \in Int /\ 1 - BufferSize \in Int
        /\ (1 + BufferSize) - 1 < Modulus /\ 1 - (1 + BufferSize) < Modulus /\ 1 + BufferSize # 1
        /\ (1 + BufferSize) - (1 - BufferSize) < Modulus /\ (1 - BufferSize) - (1 + BufferSize) < Modulus
        /\ 1 + BufferSize # 1 - BufferSize
    BY <1>1
  <2>6. Number(1 + BufferSize) # Number(1)
    BY <2>5, NumbersDiffer
  <2>7. Number(1 + BufferSize) # Number(1 - BufferSize)
    BY <2>5, NumbersDiffer
  <2> QED
    BY <2>4, <2>6, <2>7
<1>6. ASSUME NEW i \in 1..BufferSize, i <= x + 1 PROVE IsPublished(Number(i))
  <2>1. CASE i = x + 1
    BY <1>4, <2>1
  <2>2. CASE i # x + 1
    <3>1. i <= At(s)
      BY <1>2, <1>6, <2>2
    <3> QED
      BY <3>1 DEF UpTo
  <2> QED
    BY <2>1, <2>2
<1>7. 0 <= x + 1 /\ x + 1 <= BufferSize
  BY <1>1, <1>2, <1>5
<1> QED
  BY <1>2, <1>3, <1>6, <1>7 DEF UpTo

\* The reader waits for the number after the last one it read.
LEMMA ReaderAt ==
  ASSUME OneConsumer, Typed, Ring, pc[Reader] # "release"
  PROVE  /\ nextToRead[Reader] \in SequenceNumbers /\ At(nextToRead[Reader]) = 1
         /\ nextToRead[Reader] = Number(1)
<1>1. nextToRead[Reader] \in SequenceNumbers
  BY Parties DEF Typed, RingTypeOK
<1>2. At(nextToRead[Reader]) = 1
  BY DEF Ring, Reading
<1> QED
  BY <1>1, <1>2, NumberAt

LEMMA KnownInAdvance ==
  ASSUME OneConsumer, Typed, Typed', Places, Ring, Known, NEW t \in Threads,
         UNCHANGED <<published, ringVars>>, Advance(t) \/ Retake(t)
  PROVE  Known'
<1>1. t = Reader /\ kind = "multi" /\ pc[t] \in {"advance", "retake"} /\ pc[t] \in SequencerLabels
  <2>1. pc[t] \in {"advance", "retake"} /\ pc[t] \in SequencerLabels
    BY DEF Advance, Retake, SequencerLabels
  <2> QED
    BY <2>1, RolesOf
<1>2. Comparisons(t) /\ Counting(t)
  BY DEF Known
<1>3. pc[t] \in Awaiting /\ pc[t] \in Adding /\ pc[t] # "release"
  BY <1>1 DEF Awaiting, Adding, SequencerLabels
<1>4. PICK s \in SequenceNumbers : s = local[t].seen
  BY DEF Typed, RingTypeOK, Locals
<1>5. UpTo(s) /\ local[t].earliest = nextToRead[Reader] /\ UpTo(op[t].known) /\ (pc[t] = "retake" => 1 <= At(s))
  BY <1>1, <1>2, <1>3, <1>4 DEF Counting
<1>6. Target(t)' = Target(t) /\ kind' = kind
  BY DEF Target, ClaimTarget, ringVars
<1>7. ~Compared(WaitsFor(Reader))
  BY <1>1, Parties DEF Compared
<1>8. \A a \in Threads : Serves(t) = WaitsFor(Reader) /\ (Keeps(t, a) => a = Reader)
  BY <1>1, <1>3, Parties, WhoWaits DEF Serves
<1>9. /\ OnlyOf(t) /\ op' = op /\ lastPublished' = lastPublished
      /\ local'[t].earliest = local[t].earliest
      /\ pc'[t] \in {"advance", "resumeAdded", "retake"}
      /\ UpTo(local'[t].seen) /\ (pc'[t] = "retake" => 1 <= At(local'[t].seen))
      /\ Has(local'[t].resume, Reader) => 1 <= At(local'[t].seen)
      /\ \A a \in Threads : Has(local'[t].resume, a) => a = Reader
  <2>1. CASE Advance(t)
    <3>0. pc[t] = "advance"
      BY <2>1 DEF Advance
    <3>1. local[t].resume = <<>>
      BY <3>0, TidyLists DEF ResumeLabels, BarrierLabels
    <3>2. \A x : ~Has(<<>>, x)
      BY EmptyHas
    <3>3. CASE IsPublished(Wrap(s + 1))
      <4>1. UpTo(Wrap(s + 1))
        BY <1>1, <1>4, <1>5, <3>3, OneMoreCame
      <4> QED
        BY <1>4, <2>1, <3>1, <3>2, <3>3, <4>1, AdvanceIs DEF Sees, Moved, Same, Lists
    <3>4. CASE ~IsPublished(Wrap(s + 1))
      <4>1. PICK e \in SequenceNumbers : e = local[t].earliest /\ At(e) = 1
        BY <1>1, <1>3, <1>5, ReaderAt
      <4>2. At(s) \in Int /\ 0 <= At(s) /\ At(s) <= BufferSize
        BY AtType, <1>5 DEF UpTo
      <4>3. Precedes(s, e) <=> At(s) < At(e)
        <5>1. BufferSize \in Nat \ {0} /\ Half \in Nat \ {0} /\ BufferSize + 1 < Half
          BY Sizes
        <5>2. -Half <= At(s) - At(e) /\ At(s) - At(e) < Half
          BY <4>1, <4>2, <5>1
        <5> QED
          BY <5>2, Ahead
      <4>4. ~Precedes(s, e) => 1 <= At(s)
        BY <4>1, <4>2, <4>3
      <4> QED
        BY <1>4, <1>5, <2>1, <3>1, <3>2, <3>4, <4>1, <4>4, AdvanceIs DEF Sees, Moved, Same, Lists
    <3> QED
      BY <3>3, <3>4
  <2>2. CASE Retake(t)
    <3>0. pc[t] = "retake"
      BY <2>2 DEF Retake
    <3>1. /\ local'[t].resume = local[t].resume \o awaiters["items"]
          /\ OnlyOf(t) /\ op' = op /\ lastPublished' = lastPublished
          /\ local'[t].earliest = local[t].earliest /\ local'[t].seen = local[t].seen
          /\ pc'[t] = "resumeAdded"
      BY <2>2, RetakeIs DEF Lists, Sees, Moved
    <3>2. local[t].resume \in Seq(Threads) /\ awaiters["items"] \in Seq(Threads)
      BY TidyLists DEF Barriers
    <3>3. \A a : Has(local'[t].resume, a) <=> Has(local[t].resume, a) \/ Has(awaiters["items"], a)
      BY <3>1, <3>2, ConcatHas
    <3>4. \A a \in Threads : Has(local'[t].resume, a) => a = Reader
      BY <1>8, <3>3, WhoWaits DEF Keeps
    <3> QED
      BY <1>4, <1>5, <3>0, <3>1, <3>4
  <2> QED
    BY <2>1, <2>2
<1>10. Learned(t)
  BY <1>1, <1>2, <1>3, <1>6, <1>7, <1>9 DEF Learned, Comparisons, BarrierLabels, BarrierPublishing
<1>11. Tallied(t)
  BY <1>1, <1>5, <1>9 DEF Tallied
<1> QED
  BY <1>9, <1>10, <1>11, KnownOf

LEMMA KnownInTake ==
  ASSUME OneConsumer, Typed, Typed', Places, Ring, Known, NEW t \in Threads,
         UNCHANGED <<published, ringVars>>, Take(t)
  PROVE  Known'
<1>1. t \in Producers /\ kind = "multi" /\ pc[t] = "take"
  <2>1. pc[t] = "take" /\ pc[t] \in SequencerPublishing
    BY DEF Take, SequencerPublishing
  <2> QED
    BY <2>1, RolesOf
<1>2. local[t].resume = <<>> /\ local[t].requeue = <<>> /\ \A x : ~Has(<<>>, x)
  BY <1>1, TidyLists, EmptyHas DEF ResumeLabels, RequeueLabels, BarrierLabels
<1>3. /\ OnlyOf(t) /\ op' = op /\ lastPublished' = lastPublished
      /\ local'[t].resume = <<>> /\ local'[t].requeue = <<>>
      /\ pc'[t] \in {"resumePublished", "count"}
      /\ pc'[t] = "count" => /\ awaiters["items"] # <<>> /\ local'[t].taken = awaiters["items"]
                             /\ local'[t].seen = op[Head(awaiters["items"])].known
  BY <1>2, TakeIs DEF Moved, Lists, Sees, Same
<1>4. ASSUME awaiters["items"] # <<>>
      PROVE  Has(awaiters["items"], Reader) /\ UpTo(op[Head(awaiters["items"])].known)
  <2>1. awaiters["items"] \in Seq(Threads) /\ Once(awaiters["items"]) /\ "items" \in Barriers
    BY TidyLists DEF Barriers
  <2>2. Head(awaiters["items"]) \in Threads /\ Has(awaiters["items"], Head(awaiters["items"]))
    BY <1>4, <2>1, TailHas
  <2>3. Head(awaiters["items"]) = Reader
    BY <2>2, WhoWaits
  <2>4. Waits(Reader)
    BY <2>1, <2>2, <2>3 DEF Places, Placed
  <2>5. pc[Reader] \in Awaiting /\ Counting(Reader)
    BY <2>4, Parties, WaitersAwait DEF Known
  <2> QED
    BY <1>1, <2>2, <2>3, <2>5 DEF Counting
<1>5. Learned(t)
  BY <1>2, <1>3 DEF Learned, Awaiting, Adding, BarrierLabels, SequencerLabels, BarrierPublishing
<1>6. Tallied(t)
  BY <1>2, <1>3, <1>4 DEF Tallied, Awaiting, Adding, BarrierLabels, SequencerLabels
<1> QED
  BY <1>3, <1>5, <1>6, KnownOf

\* A publisher of many counts, and splits the list of the reader alone.
LEMMA KnownInCount ==
  ASSUME OneConsumer, Typed, Typed', Places, Ring, Known, NEW t \in Threads,
         UNCHANGED <<published, ringVars>>, Count(t)
  PROVE  Known'
<1>1. t \in Producers /\ kind = "multi" /\ pc[t] = "count" /\ t # Reader
  <2>1. pc[t] = "count" /\ pc[t] \in SequencerPublishing
    BY DEF Count, SequencerPublishing
  <2> QED
    BY <2>1, RolesOf, Parties
<1>2. Comparisons(t) /\ Counting(t) /\ Comparisons(Reader) /\ Counting(Reader)
  BY Parties DEF Known
<1>3. PICK s \in SequenceNumbers : s = local[t].seen
  BY DEF Typed, RingTypeOK, Locals
<1>4. UpTo(s) /\ Has(local[t].taken, Reader)
  BY <1>1, <1>2, <1>3 DEF Counting
<1>5. local[t].resume = <<>> /\ local[t].requeue = <<>> /\ \A x : ~Has(<<>>, x)
  BY <1>1, TidyLists, EmptyHas DEF ResumeLabels, RequeueLabels, BarrierLabels
<1>6. Keeps(t, Reader) /\ Waits(Reader) /\ pc[Reader] \in Awaiting /\ Reader \in Threads
  BY <1>4, Parties, WaitersAwait DEF Keeps, Places, Placed
<1>7. pc[Reader] # "release" /\ ~(pc[Reader] = "resumed" \/ (pc[Reader] \in Adding /\ op[Reader].ready))
  BY <1>6, WaitersAwait DEF Awaiting, Adding, BarrierLabels, SequencerLabels
<1>8. ~Compared(WaitsFor(Reader))
  BY <1>1, Parties DEF Compared
<1>9. Serves(t) = "items"
  BY <1>1, Parties DEF Serves, Adding, BarrierLabels, SequencerLabels
<1>10. \A a \in Threads : Has(local[t].taken, a) => a = Reader
  BY <1>9, WhoWaits DEF Keeps
<1>11. CASE IsPublished(Wrap(s + 1))
  <2>1. UpTo(Wrap(s + 1))
    BY <1>1, <1>4, <1>11, OneMoreCame
  <2>2. /\ OnlyOf(t) /\ op' = op /\ lastPublished' = lastPublished
        /\ local'[t].resume = <<>> /\ local'[t].requeue = <<>> /\ local'[t].taken = local[t].taken
        /\ pc'[t] = "count" /\ local'[t].seen = Wrap(s + 1)
    BY <1>3, <1>5, <1>11, CountIs DEF Moved, Lists, Sees, Same
  <2>3. Learned(t)
    BY <1>5, <2>2 DEF Learned, Awaiting, Adding, BarrierLabels, SequencerLabels, BarrierPublishing
  <2>4. Tallied(t)
    BY <1>4, <1>5, <2>1, <2>2 DEF Tallied, Awaiting, Adding, BarrierLabels, SequencerLabels
  <2> QED
    BY <2>2, <2>3, <2>4, KnownOf
<1>12. CASE ~IsPublished(Wrap(s + 1))
  <2> DEFINE m == Split(t, local[t].taken)
  <2>1. /\ OnlyOf(t) /\ lastPublished' = lastPublished
        /\ \A a \in Threads : /\ op'[a].target = op[a].target /\ op'[a].ready = op[a].ready
                              /\ op'[a].known = IF Has(local[t].taken, a) THEN s ELSE op[a].known
        /\ local'[t] = m
        /\ pc'[t] = IF m.requeue = <<>> THEN "resumePublished" ELSE "putBack"
    BY <1>3, <1>12, CountIs DEF Moved
  <2>2. \A a \in Threads : a # Reader => op'[a] = op[a]
    <3>1. local[t].taken \in Seq(Threads)
      BY TidyLists
    <3>2. op' = [a \in Threads |-> IF a \in ToSet(local[t].taken)
                            THEN [op[a] EXCEPT !.known = local[t].seen] ELSE op[a]]
      BY <1>3, <1>12 DEF Count
    <3> QED
      BY <1>10, <3>1, <3>2, HasIsInSet
  <2>3. RingTypeOK /\ local[t].taken \in Seq(Threads)
    BY TidyLists DEF Typed
  <2>4. /\ m.seen = s
        /\ \A a : Has(m.requeue, a) <=> Has(local[t].taken, a) /\ a \in Threads /\ Difference(op[a].target, s) > 0
        /\ \A a : Has(m.resume, a) <=>
                 \/ Has(local[t].resume, a)
                 \/ Has(local[t].taken, a) /\ a \in Threads /\ ~(Difference(op[a].target, s) > 0)
        /\ m.earliest = Earliest(s, m.requeue)
        /\ m.requeue \in Seq(Threads)
    <3>1. m \in Locals
      BY <2>3, SplitIs
    <3> QED
      BY <1>3, <2>3, <3>1, SplitIs DEF Locals
  <2>5. /\ At(s) \in Int /\ 0 <= At(s) /\ At(s) <= BufferSize /\ 1 - BufferSize <= At(s)
    BY <1>4, AtType, Sizes DEF UpTo
  <2>6. /\ op[Reader].target = nextToRead[Reader] /\ At(op[Reader].target) = 1
        /\ Difference(op[Reader].target, s) = 1 - At(s)
    BY <1>6, <2>5, Targets, TargetFrom
  <2>7. \A a \in Threads : Has(m.requeue, a) \/ Has(m.resume, a) => a = Reader
    BY <1>5, <1>10, <2>4
  <2>8. Has(m.resume, Reader) => 1 <= At(s)
    BY <1>5, <2>4, <2>5, <2>6
  <2>9. ASSUME m.requeue # <<>>
        PROVE  /\ Has(m.requeue, Reader) /\ s = Gate
               /\ m.earliest = nextToRead[Reader]
    <3>1. PICK q \in Seq(Threads) : q = m.requeue
      BY <2>4
    <3>2. \E x \in Threads : Has(q, x)
      BY <2>9, <3>1, SomeoneIn
    <3>3. Has(q, Reader)
      BY <2>7, <3>1, <3>2
    <3>4. Difference(op[Reader].target, s) > 0
      BY <2>4, <3>1, <3>3
    <3>5. At(s) = 0
      BY <2>5, <2>6, <3>4
    <3>6. s = Gate
      BY <3>5, AtGate, GateType, SameAt
    <3>7. Gate \in SequenceNumbers /\ \A a \in Threads : op[a].target \in SequenceNumbers
      BY GateType DEF Typed, RingTypeOK, Operations
    <3>8. \A a \in Threads : Has(q, a) =>
             /\ 0 < Difference(op[a].target, s)
             /\ Difference(op[a].target, s) = Difference(op[a].target, Gate) - Difference(s, Gate)
      BY <2>6, <2>7, <3>1, <3>4, <3>5 DEF At
    <3>9. /\ Earliest(s, q) \in SequenceNumbers
          /\ Difference(s, Gate) < Difference(Earliest(s, q), Gate)
          /\ \A a \in Threads : Has(q, a) =>
                  Difference(Earliest(s, q), Gate) <= Difference(op[a].target, Gate)
      <4> HIDE DEF m
      <4>1. q # <<>>
        BY <2>9, <3>1
      <4> QED
        BY <3>7, <3>8, <4>1, EarliestIs
    <3>10. PICK e \in SequenceNumbers : e = Earliest(s, q) /\ e = m.earliest /\ 0 < At(e) /\ At(e) <= 1
      BY <1>6, <2>4, <2>6, <3>1, <3>3, <3>5, <3>9 DEF At
    <3>11. At(e) = 1
      BY <3>10, AtType
    <3>12. nextToRead[Reader] \in SequenceNumbers /\ At(nextToRead[Reader]) = 1
      BY <1>7, ReaderAt
    <3>13. e = nextToRead[Reader]
      BY <3>11, <3>12, SameAt
    <3> QED
      BY <3>1, <3>3, <3>6, <3>10, <3>13
  <2> HIDE DEF m
  <2>10. Learned(t)
    BY <1>8, <2>1, <2>7 DEF Learned, Awaiting, Adding, BarrierLabels, SequencerLabels, BarrierPublishing
  <2>11. Tallied(t)
    BY <1>4, <2>1, <2>4, <2>8, <2>9 DEF Tallied, Awaiting, Adding, BarrierLabels, SequencerLabels
  <2>12. pc'[Reader] = pc[Reader] /\ local'[Reader] = local[Reader]
    BY <1>1, <1>6, <2>1 DEF OnlyOf
  <2>13. op'[Reader].target = op[Reader].target /\ op'[Reader].ready = op[Reader].ready /\ op'[Reader].known = s
    BY <1>4, <1>6, <2>1
  <2>14. Target(Reader)' = Target(Reader) /\ kind' = kind /\ published' = published /\ nextToRead' = nextToRead
         /\ range' = range
    BY DEF Target, ClaimTarget, ringVars
  <2>15. Learned(Reader)
    BY <1>2, <1>7, <2>1, <2>12, <2>13, <2>14 DEF Learned, Comparisons
  <2>16. Tallied(Reader)
    BY <1>2, <1>4, <2>12, <2>13 DEF Tallied, Counting
  <2>17. /\ Comparisons(t)' /\ Counting(t)' /\ Comparisons(Reader)' /\ Counting(Reader)'
    BY <2>1, <2>10, <2>11, <2>14, <2>15, <2>16, LearnedKnown
  <2>18. Surroundings
    BY <2>1, <2>14, ComeKept, RangeType DEF Surroundings
  <2>19. ASSUME NEW u \in Threads, u # t, u # Reader PROVE Comparisons(u)' /\ Counting(u)'
    <3>1. Target(u)' = Target(u)
      BY <2>14 DEF Target, ClaimTarget
    <3>2. Unmoved(u)
      BY <2>1, <2>2, <2>14, <2>19, <3>1 DEF Unmoved, OnlyOf, Items
    <3> QED
      BY <2>18, <3>2, KnownKept DEF Known
  <2> QED
    BY <2>17, <2>19 DEF Known
<1> QED
  BY <1>11, <1>12

LEMMA KnownInResumeNext ==
  ASSUME OneConsumer, Typed, Typed', Places, Ring, Known, NEW t \in Threads,
         UNCHANGED <<published, ringVars>>, ResumeNext(t)
  PROVE  Known'
<1> DEFINE h == Head(local[t].resume)
<1>1. PICK a \in Threads : a = h
  BY Resumed
<1>2. /\ Has(local[t].resume, a) /\ Waits(a) /\ Serves(t) = WaitsFor(a)
      /\ \A x \in Threads : Has(Tail(local[t].resume), x) => Has(local[t].resume, x)
  BY <1>1, Resumed
<1>3. PICK s \in SequenceNumbers : s = local[t].seen
  BY DEF Typed, RingTypeOK, Locals
<1>4. /\ lastPublished' = lastPublished
      /\ pc[t] \in {"resumeAdded", "resumePublished"}
      /\ \A u \in Threads : u # t => local'[u] = local[u]
      /\ local'[t].taken = local[t].taken /\ local'[t].requeue = local[t].requeue
      /\ local'[t].resume = Tail(local[t].resume)
      /\ local'[t].seen = s /\ local'[t].earliest = local[t].earliest
      /\ \A u \in Threads : /\ op'[u].target = op[u].target
                            /\ u # a => op'[u] = op[u] /\ pc'[u] = pc[u]
      /\ op'[a].known = s /\ op'[a].ready
      /\ pc'[a] = IF op[a].ready THEN "resumed" ELSE pc[a]
  BY <1>1, <1>3, ResumeNextIs DEF Lists, Sees
<1> HIDE DEF h
<1>5. \A u \in Threads : Comparisons(u) /\ Counting(u)
  BY DEF Known
<1>6. kind' = kind /\ published' = published /\ nextToRead' = nextToRead /\ range' = range
      /\ \A u \in Threads : Target(u)' = Target(u)
  BY DEF ringVars, Target, ClaimTarget
<1>7. pc[a] \in Awaiting /\ (pc'[a] = "resumed" => pc[a] = "suspended") /\ (pc'[a] # "resumed" => pc'[a] = pc[a])
  BY <1>2, <1>4, WaitersAwait DEF Waits
<1>8. /\ At(op[a].target) <= At(s) /\ At(s) <= BufferSize
      /\ Compared(WaitsFor(a)) => At(s) <= At(lastPublished[WaitsFor(a)])
      /\ a = Reader /\ kind = "multi" => UpTo(s)
  <2>1. CASE Compared(WaitsFor(a))
    <3>1. At(op[a].target) <= At(s) /\ At(s) <= At(lastPublished[WaitsFor(a)])
      BY <1>2, <1>3, <1>5, <2>1 DEF Comparisons
    <3>2. At(s) <= BufferSize
      BY <2>1, <3>1, Lasts, AtType, Sizes
    <3>3. ~(a = Reader /\ kind = "multi")
      BY <2>1, Parties DEF Compared
    <3> QED
      BY <3>1, <3>2, <3>3
  <2>2. CASE ~Compared(WaitsFor(a))
    <3>1. a = Reader /\ kind = "multi"
      BY <2>2, Parties, RolesOf DEF Compared
    <3>2. UpTo(s) /\ 1 <= At(s)
      BY <1>2, <1>3, <1>5, <3>1 DEF Counting
    <3>3. At(op[a].target) = 1
      BY <1>7, <3>1, Targets
    <3> QED
      BY <2>2, <3>1, <3>2, <3>3 DEF UpTo
  <2> QED
    BY <2>1, <2>2
<1>9. \A u \in Threads : /\ pc'[u] = pc[u] \/ (u = a /\ pc[u] = "suspended" /\ pc'[u] = "resumed")
                         /\ local'[u].taken = local[u].taken /\ local'[u].requeue = local[u].requeue
                         /\ local'[u].seen = local[u].seen /\ local'[u].earliest = local[u].earliest
                         /\ \A x \in Threads : Has(local'[u].resume, x) => Has(local[u].resume, x)
  BY <1>2, <1>3, <1>4, <1>7
<1>10. ASSUME NEW u \in Threads PROVE Comparisons(u)' /\ Counting(u)'
  <2>1. Comparisons(u) /\ Counting(u)
    BY <1>5
  <2>2. pc'[u] = "resumed" \/ (pc'[u] \in Adding /\ op'[u].ready) =>
          /\ At(op'[u].target) <= At(op'[u].known) /\ At(op'[u].known) <= BufferSize
          /\ Compared(WaitsFor(u)) => At(op'[u].known) <= At(lastPublished[WaitsFor(u)])
    <3>1. CASE u = a
      BY <1>4, <1>8, <3>1
    <3>2. CASE u # a
      BY <1>4, <2>1, <3>2 DEF Comparisons
    <3> QED
      BY <3>1, <3>2
  <2>3. pc'[u] \in Awaiting => op'[u].target = Target(u)'
    BY <1>4, <1>6, <1>9, <2>1 DEF Comparisons, Awaiting
  <2>4. /\ pc'[u] \in BarrierLabels => At(op'[u].target) <= At(local'[u].earliest)
        /\ pc'[u] = "enqueue" => \A x \in Threads : Has(local'[u].requeue, x) =>
              At(local'[u].earliest) <= At(op'[x].target)
        /\ pc'[u] = "reacquire" => /\ At(op'[u].target) <= At(local'[u].seen)
                                   /\ At(local'[u].seen) <= At(lastPublished[WaitsFor(u)])
        /\ pc'[u] \in BarrierPublishing => local'[u].seen = lastPublished[PublishesTo(u)]
        /\ pc'[u] = "requeue" => \A x \in Threads : Has(local'[u].requeue, x) =>
              At(lastPublished[PublishesTo(u)]) < At(op'[x].target)
    BY <1>4, <1>9, <2>1 DEF Comparisons, BarrierLabels, BarrierPublishing
  <2>5. \A x \in Threads : Compared(WaitsFor(x)) /\ Has(local'[u].resume, x) =>
          /\ At(op'[x].target) <= At(local'[u].seen)
          /\ At(local'[u].seen) <= At(lastPublished[WaitsFor(x)])
    BY <1>4, <1>9, <2>1 DEF Comparisons
  <2>6. Learned(u)
    BY <2>2, <2>3, <2>4, <2>5 DEF Learned
  <2>7. kind = "multi" /\ u = Reader /\ pc'[u] \in Awaiting => UpTo(op'[u].known)
    <3>1. CASE u = a
      BY <1>4, <1>8, <3>1
    <3>2. CASE u # a
      BY <1>4, <2>1, <3>2 DEF Counting
    <3> QED
      BY <3>1, <3>2
  <2>8. Tallied(u)
    BY <1>9, <2>1, <2>7, Parties DEF Tallied, Counting, SequencerLabels
  <2> QED
    BY <1>4, <1>6, <2>6, <2>8, LearnedKnown
<1> QED
  BY <1>10 DEF Known

\* Who makes a call of its own accord is nobody's to resume.
CallLabels == {"idle", "claim", "resumed", "publish", "release"}

LEMMA NobodyKeeps ==
  ASSUME Places, NEW t \in Threads, pc[t] \in CallLabels
  PROVE  ~Waits(t) /\ (\A u \in Threads : ~Keeps(u, t)) /\ \A b \in Barriers : ~Has(awaiters[b], t)
<1>1. ~Waits(t)
  BY DEF Waits, CallLabels, Adding, BarrierLabels, SequencerLabels
<1>2. Placed(t)
  BY DEF Places
<1> QED
  BY <1>1, <1>2 DEF Placed

LEMMA KnownOfUser ==
  ASSUME OneConsumer, Typed, Typed', Places, Known, Surroundings, NEW t \in Threads,
         pc[t] \in CallLabels, OnlyOf(t),
         \A u \in Threads : u # t => op'[u] = op[u] /\ Target(u)' = Target(u),
         nextToRead' = nextToRead \/ t = Reader,
         \A u \in Threads : u # t /\ pc[u] \in BarrierPublishing /\ PublishesTo(u) = "items" => Items' = Items,
         Comparisons(t)', Counting(t)'
  PROVE  Known'
<1>1. ASSUME NEW u \in Threads, u # t PROVE Comparisons(u)' /\ Counting(u)'
  <2>1. \A a \in Threads : Keeps(u, a) => op'[a].target = op[a].target
    BY NobodyKeeps
  <2>2. nextToRead' = nextToRead \/ (~Keeps(u, Reader) /\ pc[u] \notin SequencerLabels)
    BY <1>1, NobodyKeeps, RolesOf
  <2>3. Unmoved(u)
    BY <1>1, <2>1, <2>2 DEF Unmoved, OnlyOf
  <2> QED
    BY <2>3, KnownKept DEF Known
<1> QED
  BY <1>1 DEF Known

\* Between two calls, and before a publication, there is nothing to know.
LEMMA KnowsNothing ==
  ASSUME NEW t, pc'[t] \in {"idle", "claim", "publish", "release", "load", "loadAwaiters"},
         \A a \in Threads : ~Has(local'[t].resume, a), Reader \in Threads,
         pc'[t] = "loadAwaiters" => local'[t].seen = lastPublished'[PublishesTo(t)]
  PROVE  Comparisons(t)' /\ Counting(t)'
<1>1. /\ pc'[t] \notin Awaiting /\ pc'[t] \notin Adding /\ pc'[t] \notin BarrierLabels
      /\ pc'[t] \notin SequencerLabels /\ pc'[t] \notin {"resumed", "enqueue", "reacquire", "requeue",
                                                         "retake", "count", "putBack"}
  BY DEF Awaiting, Adding, BarrierLabels, SequencerLabels
<1>2. pc'[t] \in BarrierPublishing => pc'[t] = "loadAwaiters"
  BY DEF BarrierPublishing
<1>3. PublishesTo(t)' = PublishesTo(t)
  BY DEF PublishesTo
<1>4. Comparisons(t)'
  BY <1>1, <1>2, <1>3 DEF Comparisons
<1>5. Counting(t)'
  BY <1>1 DEF Counting
<1> QED
  BY <1>4, <1>5

\* The lists of who makes a call of its own accord are empty.
LEMMA NothingKept ==
  ASSUME OneConsumer, Typed, Places, NEW t \in Threads, pc[t] \in CallLabels, Same(t)
  PROVE  \A a : ~Has(local'[t].resume, a) /\ ~Has(local'[t].requeue, a) /\ ~Has(local'[t].taken, a)
<1>1. /\ pc[t] \notin RequeueLabels /\ pc[t] \notin ResumeLabels /\ pc[t] # "count"
  BY DEF CallLabels, RequeueLabels, ResumeLabels, BarrierLabels
<1> QED
  BY <1>1, TidyLists, EmptyHas DEF Same, Lists

LEMMA KnownInClaimWriteRead ==
  ASSUME OneConsumer, Typed, Typed', Places, Ring, Known, NEW t \in Threads, Claim(t) \/ Write(t) \/ Read(t)
  PROVE  Known'
<1>1. /\ OnlyOf(t) /\ Same(t) /\ \A u \in Threads : u # t => op'[u] = op[u]
      /\ pc[t] \in CallLabels /\ pc'[t] \in {"claim", "publish", "release"}
  BY UserIs DEF CallLabels, Publish, PublishRange, PublishSequence, ReleaseSlots, Claim, Write, Read
<1>2. lastPublished' = lastPublished /\ published' = published /\ kind' = kind
  BY DEF Claim, Write, Read
<1>3. Surroundings
  BY <1>2, ComeKept, RangeType DEF Surroundings
<1>4. nextToRead' = nextToRead \/ t = Reader
  BY Parties DEF Claim, Write, Read
<1>5. \A u \in Threads : u # t => Target(u)' = Target(u)
  <2> TAKE u \in Threads
  <2> HAVE u # t
  <2>1. CASE u \in Producers
    <3>1. range'[u] = range[u]
      BY <2>1 DEF Claim, Write, Read, Typed, RingTypeOK
    <3> QED
      BY <1>2, <2>1, <3>1 DEF Target, ClaimTarget
  <2>2. CASE u \notin Producers
    <3>1. u = Reader /\ nextToRead' = nextToRead
      BY <1>4, <2>2, Parties
    <3> QED
      BY <2>2, <3>1 DEF Target
  <2> QED
    BY <2>1, <2>2
<1>6. Comparisons(t)' /\ Counting(t)'
  <2>1. \A a : ~Has(local'[t].resume, a)
    BY <1>1, NothingKept
  <2> QED
    BY <1>1, <2>1, Parties, KnowsNothing
<1>7. Items' = Items
  BY <1>2 DEF Items
<1> QED
  BY <1>1, <1>3, <1>4, <1>5, <1>6, <1>7, KnownOfUser

\* A producer of many stores a number of its range: the first one at last.
LEMMA StoresOne ==
  ASSUME OneConsumer, Typed, Ring, NEW p \in Threads, Publish(p), kind = "multi"
  PROVE  /\ pc[p] = "publish" /\ p \in Producers /\ OnlyOf(p) /\ Same(p) /\ op' = op
         /\ lastPublished' = lastPublished /\ kind' = kind /\ awaiters' = awaiters /\ nextToRead' = nextToRead
         /\ \E j \in 1..BufferSize : /\ Store(Number(j))
                                     /\ \/ pc'[p] = "publish" /\ 1 < j
                                        \/ pc'[p] = "load"
<1>1. /\ pc[p] = "publish" /\ OnlyOf(p) /\ p \in Producers /\ Same(p) /\ awaiters' = awaiters
  BY UserIs, Parties DEF Claim, Write, Read, Publish, ReleaseSlots, PublishRange, PublishSequence
<1>2. PublishRange(p, range[p].begin, range[p].end)
  BY DEF Publish
<1>3. op' = op /\ lastPublished' = lastPublished /\ kind' = kind /\ nextToRead' = nextToRead
  BY <1>2 DEF Publish, PublishRange
<1>4. Holds(p) /\ ClaimOf(p)
  BY <1>1 DEF Ring, Claims, Holds, Holding
<1>5. BufferSize \in Nat \ {0} /\ BufferSize + 1 < Half /\ Half \in Nat
  BY Sizes
<1>6. local[p].seen \in SequenceNumbers /\ range[p].end \in SequenceNumbers
  BY <1>1 DEF Typed, RingTypeOK, Locals
<1>7. PICK f \in Int, l \in Int, n \in Int :
         /\ f = First(p) /\ l = Final(p) /\ n = At(local[p].seen)
         /\ 1 <= f /\ f <= l /\ l <= BufferSize /\ f < n /\ n <= l + 1
  BY <1>1, <1>4, <1>6, AtType, RangeType DEF ClaimOf
<1>8. CASE local[p].seen # range[p].end
  <2>1. Store(local[p].seen) /\ pc' = pc
    BY <1>2, <1>8 DEF PublishRange
  <2>2. n # l + 1
    <3>1. At(range[p].end) = l + 1
      BY <1>4, <1>5, <1>6, <1>7, Before DEF Final
    <3> QED
      BY <1>6, <1>7, <1>8, <3>1, SameAt
  <2>3. local[p].seen = Number(n)
    BY <1>6, <1>7, NumberAt
  <2>4. n \in 1..BufferSize /\ 1 < n
    BY <1>5, <1>7, <2>2
  <2> QED
    BY <1>1, <1>3, <2>1, <2>3, <2>4
<1>9. CASE local[p].seen = range[p].end
  <2>1. Store(range[p].begin) /\ Goto(p, "load")
    BY <1>2, <1>9 DEF PublishRange
  <2>2. pc'[p] = "load"
    BY <2>1, LocalStep
  <2>3. range[p].begin = Number(f)
    BY <1>1, <1>7, RangeType, NumberAt DEF First
  <2>4. f \in 1..BufferSize
    BY <1>5, <1>7
  <2> QED
    BY <1>1, <1>3, <2>1, <2>2, <2>3, <2>4
<1> QED
  BY <1>8, <1>9

\* The one producer publishes up to the last number of its range.
LEMMA PublishesAll ==
  ASSUME OneConsumer, Typed, Ring, NEW p \in Threads, Publish(p), kind = "single"
  PROVE  /\ pc[p] = "publish" /\ p \in Producers /\ OnlyOf(p) /\ Same(p) /\ op' = op
         /\ kind' = kind /\ awaiters' = awaiters /\ nextToRead' = nextToRead /\ published' = published
         /\ lastPublished'["gate"] = lastPublished["gate"] /\ pc'[p] = "loadAwaiters"
         /\ local'[p].seen = Items' /\ At(Items) <= At(Items')
<1>1. /\ pc[p] = "publish" /\ OnlyOf(p) /\ p \in Producers /\ Same(p) /\ awaiters' = awaiters
  BY UserIs, Parties DEF Claim, Write, Read, Publish, ReleaseSlots, PublishRange, PublishSequence
<1>2. PublishSequence(p, "items", Wrap(range[p].end - 1)) /\ published' = published /\ kind' = kind
      /\ nextToRead' = nextToRead
  BY DEF Publish
<1>3. Items' = Wrap(range[p].end - 1) /\ lastPublished'["gate"] = lastPublished["gate"] /\ op' = op
  BY <1>2 DEF PublishSequence, Typed, RingTypeOK, Items, Barriers
<1>4. pc'[p] = "loadAwaiters" /\ local'[p].seen = Items'
  BY <1>2, <1>3, LocalStep DEF PublishSequence, Sees
<1>5. Holds(p) /\ ClaimOf(p) /\ 0 <= At(Items) /\ At(Items) <= BufferSize
  BY <1>1 DEF Ring, Claims, Holds, Holding
<1>6. PICK i \in SequenceNumbers : i = Items
  BY GateType
<1>7. At(Wrap(i + 1)) = At(i) + 1
  BY <1>5, <1>6, AtType, Sizes, AtFurther
<1>8. First(p) = At(i) + 1
  BY <1>1, <1>5, <1>6, <1>7 DEF ClaimOf, First
<1>9. At(Items) <= At(Items')
  <2>1. At(Items') = Final(p)
    BY <1>3 DEF Final
  <2> QED
    BY <1>1, <1>5, <1>6, <1>8, <2>1, AtType, RangeType DEF ClaimOf
<1> QED
  BY <1>1, <1>2, <1>3, <1>4, <1>9

LEMMA KnownInPublish ==
  ASSUME OneConsumer, Typed, Typed', Places, Ring, Known, NEW t \in Threads, Publish(t)
  PROVE  Known'
<1>1. kind = "single" \/ kind = "multi"
  BY RolesOf
<1>2. \A u \in Threads : u # t => Target(u)' = Target(u)
  <2> TAKE u \in Threads
  <2> HAVE u # t
  <2>1. CASE u \in Producers
    <3>1. range'[u] = range[u] /\ kind' = kind
      BY <2>1 DEF Publish, Typed, RingTypeOK
    <3> QED
      BY <2>1, <3>1 DEF Target, ClaimTarget
  <2>2. CASE u \notin Producers
    BY <2>2 DEF Target, Publish
  <2> QED
    BY <2>1, <2>2
<1>3. CASE kind = "multi"
  <2>1. /\ pc[t] = "publish" /\ OnlyOf(t) /\ Same(t) /\ op' = op
        /\ lastPublished' = lastPublished /\ kind' = kind /\ nextToRead' = nextToRead
    BY <1>3, StoresOne
  <2>2. PICK j \in 1..BufferSize : Store(Number(j)) /\ pc'[t] \in {"publish", "load"}
    BY <1>3, StoresOne
  <2>3. \A i \in 1..BufferSize : IsPublished(Number(i)) => IsPublished(Number(i))'
    BY <2>1, <2>2, StoreIs
  <2>4. Surroundings
    BY <1>3, <2>1, <2>3 DEF Surroundings, Gate
  <2>5. pc[t] \in CallLabels /\ \A a : ~Has(local'[t].resume, a)
    BY <2>1, NothingKept DEF CallLabels
  <2>6. Comparisons(t)' /\ Counting(t)'
    BY <2>2, <2>5, Parties, KnowsNothing
  <2>7. Items' = Items
    BY <2>1 DEF Items
  <2> QED
    BY <1>2, <2>1, <2>4, <2>5, <2>6, <2>7, KnownOfUser
<1>4. CASE kind = "single"
  <2>1. /\ pc[t] = "publish" /\ t \in Producers /\ OnlyOf(t) /\ Same(t) /\ op' = op
        /\ kind' = kind /\ nextToRead' = nextToRead /\ published' = published
        /\ lastPublished'["gate"] = lastPublished["gate"] /\ pc'[t] = "loadAwaiters"
        /\ local'[t].seen = Items' /\ At(Items) <= At(Items')
    BY <1>4, PublishesAll
  <2>2. Gate' = Gate /\ At(Items)' = At(Items')
    BY <2>1 DEF Gate, At
  <2>3. Surroundings
    BY <2>1, <2>2 DEF Surroundings, IsPublished, Number
  <2>4. pc[t] \in CallLabels /\ \A a : ~Has(local'[t].resume, a)
    BY <2>1, NothingKept DEF CallLabels
  <2>5. local'[t].seen = lastPublished'[PublishesTo(t)]
    BY <2>1, Parties DEF Items
  <2>6. Comparisons(t)' /\ Counting(t)'
    BY <2>1, <2>4, <2>5, Parties, KnowsNothing
  <2>7. ASSUME NEW u \in Threads, u # t, pc[u] \in BarrierPublishing, PublishesTo(u) = "items"
        PROVE  Items' = Items
    <3>1. u \in Producers /\ t \in Working
      BY <2>1, <2>7, Parties, RolesOf
    <3>2. pc[u] = "idle"
      BY <1>4, <2>7, <3>1, WorkingAlone
    <3> QED
      BY <2>7, <3>2 DEF BarrierPublishing
  <2> QED
    BY <1>2, <2>1, <2>3, <2>4, <2>6, <2>7, KnownOfUser
<1> QED
  BY <1>1, <1>3, <1>4

\* A wait begins, or is over at once.
LEMMA KnownInAwait ==
  ASSUME OneConsumer, Typed, Typed', Places, Ring, Known, NEW t \in Threads, AwaitClaim(t) \/ AwaitItem(t)
  PROVE  Known'
<1>1. PICK target \in SequenceNumbers, known \in SequenceNumbers, label \in {"enqueue", "queue"} :
         /\ Await(t, target, known, label) /\ target = Target(t)
         /\ \/ t \in Producers /\ pc[t] = "claim" /\ known = Gate /\ label = "enqueue"
            \/ t = Reader /\ pc[t] = "idle" /\ kind = "single" /\ known = Items /\ label = "enqueue"
            \/ t = Reader /\ pc[t] = "idle" /\ kind = "multi" /\ label = "queue"
               /\ known = Wrap(nextToRead[t] - 1)
  BY AwaitArguments
<1>2. /\ OnlyOf(t) /\ \A u \in Threads : u # t => op'[u] = op[u]
      /\ op'[t].target = target /\ op'[t].known = known /\ ~op'[t].ready
      /\ Precedes(known, target) =>
            /\ pc'[t] = label /\ local'[t].taken = <<>> /\ local'[t].requeue = <<t>> /\ local'[t].resume = <<>>
            /\ local'[t].seen = known /\ local'[t].earliest = target
      /\ ~Precedes(known, target) => pc'[t] = "resumed" /\ Same(t)
  BY <1>1, AwaitIs DEF Lists, Sees
<1>3. lastPublished' = lastPublished /\ published' = published /\ kind' = kind /\ nextToRead' = nextToRead
      /\ range' = range /\ awaiters' = awaiters
  BY DEF AwaitClaim, AwaitItem, ringVars
<1>4. \A u \in Threads : Target(u)' = Target(u)
  BY <1>3 DEF Target, ClaimTarget
<1>5. Surroundings
  BY <1>3, ComeKept, RangeType DEF Surroundings
<1>6. pc[t] \in CallLabels /\ Items' = Items
  BY <1>1, <1>3 DEF CallLabels, Items
<1>7. BufferSize \in Nat \ {0} /\ Half \in Nat \ {0} /\ 2 * BufferSize <= Half /\ BufferSize + 1 < Half
  BY Sizes
<1>8. At(target) \in Int /\ 1 - BufferSize <= At(target) /\ At(target) < Half - BufferSize
  <2>1. CASE t \in Producers
    <3>1. Holds(t) /\ target = ClaimTarget(t)
      BY <1>1, <2>1, Parties DEF Holds, Holding, Target
    <3> QED
      BY <2>1, <3>1, TargetOfClaim
  <2>2. CASE t = Reader
    <3>1. At(target) = 1
      BY <1>1, <2>2, Parties, ReaderAt DEF Target
    <3> QED
      BY <1>7, <3>1
  <2> QED
    BY <2>1, <2>2, Parties
<1>9. /\ At(known) \in Int /\ 0 <= At(known) /\ At(known) <= BufferSize
      /\ Compared(WaitsFor(t)) => known = lastPublished[WaitsFor(t)]
      /\ kind = "multi" /\ t = Reader => At(known) = 0 /\ At(target) = 1 /\ target = nextToRead[Reader]
  <2>1. CASE t \in Producers
    BY <1>1, <1>7, <2>1, AtGate, GateType, Parties
  <2>2. CASE t = Reader /\ kind = "single"
    <3>1. known = Items
      BY <1>1, <2>2, Parties
    <3> QED
      BY <2>2, <3>1, GateType, RangeType, Parties DEF Ring, Claims
  <2>3. CASE t = Reader /\ kind = "multi"
    <3>1. PICK n \in SequenceNumbers : n = nextToRead[Reader] /\ At(n) = 1
      BY <1>1, <2>3, Parties, ReaderAt
    <3>2. known = Wrap(n - 1) /\ target = n
      BY <1>1, <2>3, <3>1, Parties DEF Target
    <3>3. -Half <= At(n) - 1
      BY <1>7, <3>1
    <3>4. At(known) = 0
      BY <3>1, <3>2, <3>3, AtBefore
    <3> QED
      BY <1>7, <2>3, <3>1, <3>2, <3>4, Parties DEF Compared
  <2> QED
    BY <2>1, <2>2, <2>3, Parties, RolesOf
<1>10. Precedes(known, target) <=> At(known) < At(target)
  BY <1>7, <1>8, <1>9, Ahead
<1>11. kind = "multi" /\ t = Reader => UpTo(known)
  BY <1>7, <1>9 DEF UpTo
<1>12. Comparisons(t)' /\ Counting(t)'
  <2>1. CASE Precedes(known, target)
    <3>1. /\ pc'[t] = label /\ local'[t].requeue = <<t>> /\ local'[t].resume = <<>>
          /\ local'[t].seen = known /\ local'[t].earliest = target
      BY <1>2, <2>1
    <3>2. \A x : ~Has(<<>>, x)
      BY EmptyHas
    <3>3. \A a : Has(local'[t].requeue, a) => a = t
      BY <3>1, AloneHas
    <3>4. label \in {"enqueue", "queue"} /\ (label = "queue" => t = Reader)
      BY <1>1
    <3>5. Learned(t)
      BY <1>2, <1>4, <1>8, <1>1, <3>1, <3>2, <3>3, <3>4
         DEF Learned, Awaiting, Adding, BarrierLabels, SequencerLabels, BarrierPublishing
    <3>6. Tallied(t)
      BY <1>2, <1>9, <1>11, <3>1, <3>2, <3>4, Parties, RolesOf
         DEF Tallied, Awaiting, Adding, BarrierLabels, SequencerLabels
    <3> QED
      BY <1>3, <3>5, <3>6, LearnedKnown
  <2>2. CASE ~Precedes(known, target)
    <3>1. pc'[t] = "resumed" /\ \A a : ~Has(local'[t].resume, a)
      BY <1>2, <1>6, <2>2, NothingKept
    <3>2. At(op'[t].target) <= At(op'[t].known)
      BY <1>2, <1>8, <1>9, <1>10, <2>2
    <3>3. Learned(t)
      BY <1>1, <1>2, <1>4, <1>9, <3>1, <3>2
         DEF Learned, Awaiting, Adding, BarrierLabels, SequencerLabels, BarrierPublishing
    <3>4. Tallied(t)
      BY <1>2, <1>11, <3>1, Parties DEF Tallied, Awaiting, Adding, BarrierLabels, SequencerLabels
    <3> QED
      BY <1>3, <3>3, <3>4, LearnedKnown
  <2> QED
    BY <2>1, <2>2
<1> QED
  BY <1>2, <1>3, <1>4, <1>5, <1>6, <1>12, KnownOfUser

\* The gate moves on: what the producers know is counted from there.
LEMMA KnownInRelease ==
  ASSUME OneConsumer, Typed, Typed', Places, Ring, Known, NEW c \in Threads, ReleaseSlots(c)
  PROVE  Known'
<1>1. /\ c = Reader /\ pc[c] = "release" /\ pc'[c] = "loadAwaiters" /\ OnlyOf(c) /\ Same(c)
      /\ kind' = kind /\ published' = published /\ Items' = Items /\ op' = op
      /\ range' = range /\ nextToRead' = nextToRead /\ local'[c].seen = Gate'
  BY ReleaseIs DEF Sees
<1>2. BufferSize \in Nat \ {0} /\ Half \in Nat \ {0} /\ 2 * BufferSize <= Half /\ BufferSize + 1 < Half
  BY Sizes
<1>3. PICK d \in Int : d = At(nextToRead[Reader]) - 1
  BY Parties, AtType DEF Typed, RingTypeOK
<1>4. /\ 0 <= d /\ d <= BufferSize
      /\ \A s \in SequenceNumbers : -Half <= At(s) - d => Difference(s, Gate') = At(s) - d
  BY <1>3, ReleaseShifts
<1>5. \A s \in SequenceNumbers : 1 - BufferSize <= At(s) => Difference(s, Gate') = At(s) - d
  BY <1>2, <1>4, AtType
<1>6. pc[c] \in CallLabels
  BY <1>1 DEF CallLabels
<1>7. \A u \in Threads : ~Keeps(u, Reader)
  BY <1>1, <1>6, NobodyKeeps
<1>8. Comparisons(c)' /\ Counting(c)'
  <2>1. \A a : ~Has(local'[c].resume, a)
    BY <1>1, <1>6, NothingKept
  <2>2. local'[c].seen = lastPublished'[PublishesTo(c)]
    BY <1>1, Parties DEF Gate
  <2> QED
    BY <1>1, <2>1, <2>2, Parties, KnowsNothing
<1>9. Difference(Gate', Gate') = 0
  <2>1. Gate' \in SequenceNumbers
    BY DEF Typed, RingTypeOK, Gate, Barriers
  <2> QED
    BY <2>1, NoDistance
<1>10. ASSUME NEW u \in Threads, u # c PROVE Comparisons(u)' /\ Counting(u)'
  <2>1. u \in Producers /\ pc'[u] = pc[u] /\ local'[u] = local[u] /\ op' = op
        /\ WaitsFor(u) = "gate" /\ PublishesTo(u) = "items"
    BY <1>1, <1>10, Parties DEF OnlyOf
  <2>2. Comparisons(u) /\ Counting(u)
    BY DEF Known
  <2>3. \A a \in Threads : Keeps(u, a) =>
           /\ a \in Producers /\ Waits(a) /\ WaitsFor(a) = "gate" /\ Serves(u) = "gate"
           /\ At(op[a].target) \in Int /\ 1 - BufferSize <= At(op[a].target) /\ op[a].target \in SequenceNumbers
    <3> TAKE a \in Threads
    <3> HAVE Keeps(u, a)
    <3>1. a \in Producers /\ WaitsFor(a) = "gate"
      BY <1>7, Parties
    <3>2. Waits(a) /\ Serves(u) = WaitsFor(a)
      BY DEF Places, Placed
    <3>3. pc[a] \in Awaiting
      BY <3>2, WaitersAwait
    <3> QED
      BY <3>1, <3>2, <3>3, Targets
  <2>4. /\ op[u].target \in SequenceNumbers /\ op[u].known \in SequenceNumbers
        /\ local[u].seen \in SequenceNumbers /\ local[u].earliest \in SequenceNumbers
    BY DEF Typed, RingTypeOK, Operations, Locals
  <2>5. pc[u] \in Awaiting => 1 - BufferSize <= At(op[u].target) /\ op[u].target = Target(u)
    BY Targets
  <2>6. Target(u)' = Target(u)
    BY <1>1 DEF Target, ClaimTarget
  <2>7. At(lastPublished["gate"]) = 0 /\ At(lastPublished["gate"])' = 0
    BY <1>9, AtGate DEF At, Gate
  <2>8. /\ At(op[u].target)' = Difference(op[u].target, Gate') /\ At(op[u].known)' = Difference(op[u].known, Gate')
        /\ At(local[u].seen)' = Difference(local[u].seen, Gate')
        /\ At(local[u].earliest)' = Difference(local[u].earliest, Gate')
        /\ \A a \in Threads : At(op[a].target)' = Difference(op[a].target, Gate')
    BY <2>1 DEF At
  <2>9. pc'[u] \in Awaiting => op'[u].target = Target(u)'
    BY <2>1, <2>5, <2>6
  <2>10. pc'[u] = "resumed" \/ (pc'[u] \in Adding /\ op'[u].ready) =>
           /\ At(op[u].target)' <= At(op[u].known)' /\ At(op[u].known)' <= BufferSize
           /\ At(op[u].known)' <= At(lastPublished["gate"])'
    <3> HAVE pc'[u] = "resumed" \/ (pc'[u] \in Adding /\ op'[u].ready)
    <3>1. At(op[u].target) <= At(op[u].known) /\ At(op[u].known) <= At(lastPublished["gate"])
      BY <2>1, <2>2 DEF Comparisons, Compared
    <3>2. pc[u] \in Awaiting
      BY <2>1 DEF Awaiting
    <3>3. PICK x \in Int, y \in Int : x = At(op[u].target) /\ y = At(op[u].known)
      BY <2>4, AtType
    <3>4. 1 - BufferSize <= x /\ x <= y /\ y <= 0
      BY <2>5, <2>7, <3>1, <3>2, <3>3
    <3>5. At(op[u].target)' = x - d /\ At(op[u].known)' = y - d
      BY <1>2, <1>5, <2>4, <2>8, <3>3, <3>4
    <3> QED
      BY <1>2, <1>4, <2>7, <3>4, <3>5
  <2>11. pc'[u] \in BarrierLabels => At(op[u].target)' <= At(local[u].earliest)'
         /\ 1 - BufferSize <= At(local[u].earliest)
    <3> HAVE pc'[u] \in BarrierLabels
    <3>1. At(op[u].target) <= At(local[u].earliest) /\ pc[u] \in Awaiting
      BY <2>1, <2>2 DEF Comparisons, Awaiting, Adding
    <3>2. PICK x \in Int, y \in Int : x = At(op[u].target) /\ y = At(local[u].earliest)
      BY <2>4, AtType
    <3>3. 1 - BufferSize <= x /\ x <= y
      BY <2>5, <3>1, <3>2
    <3>4. At(op[u].target)' = x - d /\ At(local[u].earliest)' = y - d
      BY <1>2, <1>5, <2>4, <2>8, <3>2, <3>3
    <3> QED
      BY <1>2, <1>4, <3>2, <3>3, <3>4
  <2>12. pc'[u] = "enqueue" => \A a \in Threads : Has(local'[u].requeue, a) =>
           At(local[u].earliest)' <= At(op[a].target)'
    <3> HAVE pc'[u] = "enqueue"
    <3> TAKE a \in Threads
    <3> HAVE Has(local'[u].requeue, a)
    <3>1. Keeps(u, a) /\ At(local[u].earliest) <= At(op[a].target)
      BY <2>1, <2>2 DEF Comparisons, Keeps
    <3>2. PICK x \in Int, y \in Int : x = At(local[u].earliest) /\ y = At(op[a].target)
      BY <2>3, <2>4, <3>1, AtType
    <3>3. 1 - BufferSize <= x /\ x <= y
      BY <2>1, <2>11, <3>1, <3>2 DEF BarrierLabels
    <3>4. At(local[u].earliest)' = x - d /\ At(op[a].target)' = y - d
      BY <1>2, <1>5, <2>3, <2>4, <2>8, <3>1, <3>2, <3>3
    <3> QED
      BY <1>2, <1>4, <3>3, <3>4
  <2>13. pc'[u] = "reacquire" => /\ At(op[u].target)' <= At(local[u].seen)'
                                 /\ At(local[u].seen)' <= At(lastPublished["gate"])'
    <3> HAVE pc'[u] = "reacquire"
    <3>1. At(op[u].target) <= At(local[u].seen) /\ At(local[u].seen) <= At(lastPublished["gate"])
      BY <2>1, <2>2 DEF Comparisons
    <3>2. pc[u] \in Awaiting
      BY <2>1 DEF Awaiting, Adding, BarrierLabels
    <3>3. PICK x \in Int, y \in Int : x = At(op[u].target) /\ y = At(local[u].seen)
      BY <2>4, AtType
    <3>4. 1 - BufferSize <= x /\ x <= y /\ y <= 0
      BY <2>5, <2>7, <3>1, <3>2, <3>3
    <3>5. At(op[u].target)' = x - d /\ At(local[u].seen)' = y - d
      BY <1>2, <1>5, <2>4, <2>8, <3>3, <3>4
    <3> QED
      BY <1>2, <1>4, <2>7, <3>4, <3>5
  <2>14. \A a \in Threads : Has(local'[u].resume, a) =>
           /\ At(op[a].target)' <= At(local[u].seen)'
           /\ At(local[u].seen)' <= At(lastPublished["gate"])' /\ WaitsFor(a) = "gate"
    <3> TAKE a \in Threads
    <3> HAVE Has(local'[u].resume, a)
    <3>1. Keeps(u, a)
      BY <2>1 DEF Keeps
    <3>2. At(op[a].target) <= At(local[u].seen) /\ At(local[u].seen) <= At(lastPublished["gate"])
      BY <2>1, <2>2, <2>3, <3>1 DEF Comparisons, Compared
    <3>3. PICK x \in Int, y \in Int : x = At(op[a].target) /\ y = At(local[u].seen)
      BY <2>3, <2>4, <3>1, AtType
    <3>4. 1 - BufferSize <= x /\ x <= y /\ y <= 0
      BY <2>3, <2>7, <3>1, <3>2, <3>3
    <3>5. At(op[a].target)' = x - d /\ At(local[u].seen)' = y - d
      BY <1>2, <1>5, <2>3, <2>4, <2>8, <3>1, <3>3, <3>4
    <3> QED
      BY <1>2, <1>4, <2>3, <2>7, <3>1, <3>4, <3>5
  <2>15. pc'[u] \in BarrierPublishing => local'[u].seen = lastPublished'["items"]
    BY <1>1, <2>1, <2>2 DEF Comparisons, Items
  <2>16. pc'[u] = "requeue" => \A a \in Threads : ~Has(local'[u].requeue, a)
    <3> HAVE pc'[u] = "requeue"
    <3>1. Serves(u) = "items"
      BY <2>1 DEF Serves, Adding, BarrierLabels, SequencerLabels
    <3> QED
      BY <2>1, <2>3, <3>1 DEF Keeps
  <2>17. /\ WaitsFor(u)' = "gate" /\ PublishesTo(u)' = "items"
         /\ \A a \in Threads : WaitsFor(a)' = WaitsFor(a)
    BY <2>1 DEF WaitsFor, PublishesTo
  <2>18. Comparisons(u)'
    BY <2>1, <2>9, <2>10, <2>11, <2>12, <2>13, <2>14, <2>15, <2>16, <2>17 DEF Comparisons
  <2>19. pc[u] \notin SequencerLabels /\ pc[u] # "retake" /\ u # Reader
    BY <2>1, RolesOf, Parties DEF SequencerLabels
  <2>20. kind = "multi" => pc[u] \notin {"count", "putBack"} /\ ~Has(local[u].resume, Reader)
    BY <1>7, <2>2, Parties DEF Counting, Keeps
  <2>21. Counting(u)'
    BY <1>1, <2>1, <2>19, <2>20 DEF Counting
  <2> QED
    BY <2>18, <2>21
<1> QED
  BY <1>8, <1>10 DEF Known

LEMMA KnownNext ==
  ASSUME OneConsumer, Typed, Typed', Places, Ring, Known, NEW t \in Threads, InCall(t) \/ User(t)
  PROVE  Known'
<1>1. CASE WaitStep(t, WaitsFor(t)) /\ UNCHANGED <<published, ringVars>>
  <2>1. WaitsFor(t) \in Barriers
    BY Served
  <2> QED
    BY <1>1, <2>1, KnownInPut, KnownInCheck, KnownInReacquire, KnownInExchange DEF WaitStep
<1>2. CASE PublishStep(t, PublishesTo(t)) /\ UNCHANGED <<published, ringVars>>
  <2>1. PublishesTo(t) \in Barriers
    BY Served
  <2> QED
    BY <1>2, <2>1, KnownInPut, KnownInIdle, KnownInAcquire DEF PublishStep
<1>3. CASE ResumeNext(t) /\ UNCHANGED <<published, ringVars>>
  BY <1>3, KnownInResumeNext
<1>4. CASE SequencerWaitStep(t) /\ UNCHANGED ringVars
  <2>1. UNCHANGED <<published, ringVars>> /\ "items" \in Barriers
    BY <1>4 DEF SequencerWaitStep, PutOn, Advance, Retake, Barriers
  <2> QED
    BY <1>4, <2>1, KnownInPut, KnownInAdvance DEF SequencerWaitStep
<1>5. CASE SequencerPublishStep(t) /\ UNCHANGED ringVars
  <2>1. UNCHANGED <<published, ringVars>> /\ "items" \in Barriers
    BY <1>5 DEF SequencerPublishStep, Load, Take, Count, PutBack, Verify, Barriers
  <2>2. PublishesTo(t) = "items"
    <3>1. pc[t] \in SequencerPublishing
      BY <1>5 DEF SequencerPublishStep, Load, Take, Count, PutBack, Verify, SequencerPublishing
    <3> QED
      BY <3>1, RolesOf, Parties
  <2> QED
    BY <1>5, <2>1, <2>2, KnownInPut, KnownInIdle, KnownInTake, KnownInCount DEF SequencerPublishStep
<1>6. CASE Publish(t) \/ ReleaseSlots(t)
  BY <1>6, KnownInPublish, KnownInRelease
<1>7. CASE User(t)
  BY <1>7, KnownInClaimWriteRead, KnownInAwait DEF User
<1> QED
  BY <1>1, <1>2, <1>3, <1>4, <1>5, <1>6, <1>7 DEF InCall

-----------------------------------------------------------------------------
(* Somebody looks at the stack when a number has come.                     *)

LEMMA LooksKept ==
  ASSUME NEW u, NEW a, Gate' = Gate, pc'[u] = pc[u], local'[u] = local[u], op'[a].target = op[a].target
  PROVE  Looks(u, a) => Looks(u, a)'
<1>1. /\ At(local[u].earliest)' = At(local[u].earliest) /\ At(op[a].target)' = At(op[a].target)
      /\ Number(1)' = Number(1)
  BY DEF At, Number
<1>2. WaitsFor(u)' = WaitsFor(u) /\ WaitsFor(a)' = WaitsFor(a) /\ PublishesTo(u)' = PublishesTo(u)
  BY DEF WaitsFor, PublishesTo
<1> QED
  BY <1>1, <1>2 DEF Looks

LEMMA CameKept ==
  ASSUME NEW a, lastPublished' = lastPublished, published' = published, kind' = kind,
         op'[a].target = op[a].target
  PROVE  CameFor(a)' <=> CameFor(a)
<1>1. At(op[a].target)' = At(op[a].target)
  BY DEF At, Gate
<1> QED
  BY <1>1, ComeKept DEF CameFor

\* The thread looks after its step, or had not looked before it.
LEMMA SeenBy ==
  ASSUME OneConsumer, Seen, NEW t \in Threads, Gate' = Gate, OnlyOf(t),
         \A a \in Threads : Has(awaiters'[WaitsFor(a)], a) => op'[a].target = op[a].target,
         \A a \in Threads : Has(awaiters'[WaitsFor(a)], a) /\ CameFor(a)' =>
            \/ Looks(t, a)'
            \/ Has(awaiters[WaitsFor(a)], a) /\ CameFor(a) /\ ~Looks(t, a)
  PROVE  Seen'
<1>1. ASSUME NEW a \in Threads, Has(awaiters'[WaitsFor(a)], a), CameFor(a)'
      PROVE  \E v \in Threads : Looks(v, a)'
  <2>1. CASE Looks(t, a)'
    BY <2>1
  <2>2. CASE Has(awaiters[WaitsFor(a)], a) /\ CameFor(a) /\ ~Looks(t, a)
    <3>1. PICK v \in Threads : Looks(v, a) /\ v # t
      BY <2>2 DEF Seen
    <3>2. pc'[v] = pc[v] /\ local'[v] = local[v] /\ op'[a].target = op[a].target
      BY <1>1, <3>1 DEF OnlyOf
    <3>3. Looks(v, a)'
      BY <3>1, <3>2, LooksKept
    <3> QED
      BY <3>3
  <2> QED
    BY <1>1, <2>1, <2>2
<1>2. \A a : WaitsFor(a)' = WaitsFor(a)
  BY DEF WaitsFor
<1> QED
  BY <1>1, <1>2 DEF Seen

\* Who is not at one of these labels does not look.
LookLabels == {"check", "reacquire", "retake", "loadAwaiters", "acquire", "load", "take", "advance", "verify"}

LEMMA LooksOnly ==
  ASSUME NEW t, NEW a, Looks(t, a)
  PROVE  pc[t] \in LookLabels
BY DEF Looks, LookLabels

\* The steps that publish nothing and put nobody on a stack.
LEMMA SeenQuiet ==
  ASSUME OneConsumer, Seen, NEW t \in Threads, OnlyOf(t),
         lastPublished' = lastPublished, published' = published, kind' = kind,
         \A a \in Threads : Has(awaiters'[WaitsFor(a)], a) =>
            /\ Has(awaiters[WaitsFor(a)], a) /\ op'[a].target = op[a].target
            /\ Looks(t, a) /\ CameFor(a) => Looks(t, a)'
  PROVE  Seen'
<1>1. Gate' = Gate
  BY DEF Gate
<1>2. \A a \in Threads : Has(awaiters'[WaitsFor(a)], a) /\ CameFor(a)' =>
            \/ Looks(t, a)'
            \/ Has(awaiters[WaitsFor(a)], a) /\ CameFor(a) /\ ~Looks(t, a)
  BY CameKept
<1> QED
  BY <1>1, <1>2, SeenBy

\* Lists are put on a stack, and who did it looks again.
LEMMA SeenInPut ==
  ASSUME OneConsumer, Typed, Places, Ring, Known, Seen, NEW t \in Threads, NEW b \in Barriers, b = Serves(t),
         UNCHANGED <<published, ringVars>>,
         Enqueue(t, b) \/ Requeue(t, b) \/ (b = "items" /\ (PutOn(t) \/ PutBack(t)))
  PROVE  Seen'
<1>1. /\ Stack(b, local[t].requeue \o awaiters[b]) /\ op' = op /\ lastPublished' = lastPublished
      /\ Sees(t, local[t].seen, local[t].earliest) /\ OnlyOf(t)
      /\ \/ Enqueue(t, b) /\ pc[t] = "enqueue" /\ pc'[t] = "check"
         \/ Requeue(t, b) /\ pc[t] = "requeue" /\ pc'[t] = "resumePublished"
         \/ PutOn(t) /\ pc[t] = "queue" /\ pc'[t] = "advance"
         \/ PutBack(t) /\ pc[t] = "putBack" /\ pc'[t] = "verify"
  BY PutIs DEF Moved
<1>2. Gate' = Gate /\ kind' = kind /\ published' = published
  BY <1>1 DEF Gate, ringVars
<1>3. \A a : ~Looks(t, a)
  BY <1>1, LooksOnly DEF LookLabels
<1>4. Comparisons(t) /\ Counting(t)
  BY DEF Known
<1>5. ASSUME NEW a \in Threads, Has(awaiters'[WaitsFor(a)], a), CameFor(a)'
      PROVE  \/ Looks(t, a)'
             \/ Has(awaiters[WaitsFor(a)], a) /\ CameFor(a) /\ ~Looks(t, a)
  <2>1. CameFor(a)
    BY <1>1, <1>2, <1>5, CameKept
  <2>2. CASE Has(awaiters[WaitsFor(a)], a)
    BY <1>3, <2>1, <2>2
  <2>3. CASE ~Has(awaiters[WaitsFor(a)], a)
    <3>1. WaitsFor(a) = b /\ Has(local[t].requeue, a)
      <4>1. WaitsFor(a) \in Barriers
        BY Served
      <4>2. WaitsFor(a) = b
        BY <1>1, <1>5, <2>3, <4>1 DEF Stack
      <4>3. Has(local[t].requeue \o awaiters[b], a)
        BY <1>1, <1>5, <4>2 DEF Stack
      <4> QED
        BY <2>3, <4>2, <4>3, TidyLists, ConcatHas
    <3>2. Keeps(t, a) /\ Waits(a)
      BY <3>1 DEF Keeps, Places, Placed
    <3>3. pc[a] \in Awaiting
      BY <3>2, WaitersAwait
    <3>4. CASE pc[t] = "enqueue"
      <4>1. pc'[t] = "check" /\ At(local[t].earliest) <= At(op[a].target)
        BY <1>1, <1>4, <3>1, <3>4 DEF Comparisons
      <4>2. WaitsFor(t) = WaitsFor(a)
        BY <3>1, <3>4 DEF Serves, Adding, BarrierLabels
      <4>3. At(local[t].earliest)' <= At(op[a].target)'
        BY <1>1, <1>2, <4>1 DEF At, Sees
      <4>4. WaitsFor(t)' = WaitsFor(a)'
        BY <4>2 DEF WaitsFor
      <4> QED
        BY <4>1, <4>3, <4>4 DEF Looks
    <3>5. CASE pc[t] = "requeue"
      <4>1. At(lastPublished[PublishesTo(t)]) < At(op[a].target)
        BY <1>4, <3>1, <3>5 DEF Comparisons
      <4>2. PublishesTo(t) = WaitsFor(a)
        BY <3>1, <3>5 DEF Serves, Adding, BarrierLabels, SequencerLabels
      <4>3. CASE a \in Producers
        <5>1. At(lastPublished[WaitsFor(a)]) = 0
          BY <4>3, Parties, AtGate, GateType
        <5>2. At(op[a].target) \in Int
          BY <3>3, Targets
        <5> QED
          BY <2>1, <4>1, <4>2, <4>3, <5>1, <5>2 DEF CameFor
      <4>4. CASE a = Reader
        <5>1. kind = "single" /\ t \in Producers
          BY <3>5, <4>2, <4>4, RolesOf, Parties DEF BarrierPublishing
        <5>2. At(op[a].target) = 1
          BY <3>3, <4>4, Targets
        <5>3. At(Items) < 1 /\ At(Items) \in Int
          BY <4>1, <4>2, <4>4, <5>2, Parties, GateType, RangeType
        <5>4. Come(1)
          BY <2>1, <4>4, Parties DEF CameFor
        <5> QED
          BY <5>1, <5>3, <5>4 DEF Come
      <4> QED
        BY <4>3, <4>4, Parties
    <3>6. CASE pc[t] = "queue"
      <4>1. t = Reader
        BY <3>6, RolesOf DEF SequencerLabels
      <4>2. a = t
        BY <3>1, <3>6, <4>1, Parties DEF Serves, Adding, SequencerLabels
      <4> QED
        BY <1>1, <3>6, <4>2 DEF Looks
    <3>7. CASE pc[t] = "putBack"
      <4>1. t \in Producers /\ kind = "multi"
        BY <3>7, RolesOf DEF SequencerPublishing
      <4>2. a = Reader
        BY <3>1, <3>7, <4>1, Parties DEF Serves, Adding, SequencerLabels, BarrierLabels
      <4>3. local[t].seen = Gate /\ local[t].earliest = nextToRead[Reader]
        BY <1>4, <3>7, <4>1 DEF Counting
      <4>4. pc[Reader] # "release"
        BY <3>3, <4>2 DEF Awaiting, Adding, BarrierLabels, SequencerLabels
      <4>5. local'[t].seen = Gate' /\ local'[t].earliest = Number(1)'
        BY <1>1, <1>2, <4>3, <4>4, ReaderAt DEF Sees, Number
      <4> QED
        BY <1>1, <3>7, <4>2, <4>5 DEF Looks
    <3> QED
      BY <1>1, <3>4, <3>5, <3>6, <3>7
  <2> QED
    BY <2>2, <2>3
<1> QED
  BY <1>1, <1>2, <1>5, SeenBy

\* Who looks and goes on without taking the stack saw that nothing has come.
LEMMA SeenInCheck ==
  ASSUME OneConsumer, Typed, Places, Ring, Known, Seen, NEW t \in Threads,
         UNCHANGED <<published, ringVars>>, Check(t, WaitsFor(t))
  PROVE  Seen'
<1>1. PICK b \in Barriers : b = WaitsFor(t)
  BY Served
<1>2. /\ awaiters' = awaiters /\ op' = op /\ lastPublished' = lastPublished /\ OnlyOf(t) /\ pc[t] = "check"
      /\ pc'[t] = IF Precedes(lastPublished[b], local[t].earliest) THEN "resumeAdded" ELSE "reacquire"
  BY <1>1, CheckIs DEF Moved
<1>3. kind' = kind
  BY DEF ringVars
<1>4. Comparisons(t)
  BY DEF Known
<1>5. pc[t] \in Awaiting /\ pc[t] \in BarrierLabels
  BY <1>2 DEF Awaiting, Adding, BarrierLabels
<1>6. Compared(b)
  BY <1>1, <1>5, RolesOf, Parties DEF Compared
<1>7. PICK e \in SequenceNumbers : e = local[t].earliest
  BY DEF Typed, RingTypeOK, Locals
<1>8. At(op[t].target) <= At(e) /\ At(op[t].target) \in Int /\ 1 - BufferSize <= At(op[t].target)
      /\ At(e) \in Int /\ At(e) < Half
  BY <1>4, <1>5, <1>7, Targets, AtType DEF Comparisons
<1>9. PICK s \in SequenceNumbers : s = lastPublished[b] /\ At(s) \in Int /\ 0 <= At(s) /\ At(s) <= BufferSize
  BY <1>1, <1>6, Lasts
<1>10. Precedes(s, e) <=> At(s) < At(e)
  <2>1. BufferSize \in Nat \ {0} /\ Half \in Nat \ {0} /\ 2 * BufferSize <= Half /\ BufferSize + 1 < Half
    BY Sizes
  <2>2. -Half <= At(s) - At(e) /\ At(s) - At(e) < Half
    BY <1>8, <1>9, <2>1
  <2> QED
    BY <2>2, Ahead
<1>11. ASSUME NEW a \in Threads, Has(awaiters'[WaitsFor(a)], a), Looks(t, a), CameFor(a)
       PROVE  Looks(t, a)'
  <2>1. WaitsFor(t) = WaitsFor(a) /\ At(e) <= At(op[a].target)
    BY <1>2, <1>7, <1>11 DEF Looks
  <2>2. Waits(a)
    BY <1>2, <1>11, Served DEF Places, Placed
  <2>3. pc[a] \in Awaiting /\ At(op[a].target) \in Int
    BY <2>2, WaitersAwait, Targets
  <2>4. ~Precedes(s, e)
    <3>1. CASE a \in Producers
      <4>1. At(op[a].target) <= 0
        BY <1>11, <3>1 DEF CameFor
      <4> QED
        BY <1>8, <1>9, <1>10, <2>1, <2>3, <4>1
    <3>2. CASE a = Reader
      <4>1. b = "items" /\ kind = "single"
        BY <1>1, <1>6, <2>1, <3>2, Parties DEF Compared
      <4>2. 1 <= At(Items)
        BY <1>11, <3>2, <4>1, Parties DEF CameFor, Come
      <4>3. At(op[a].target) = 1 /\ s = Items
        BY <1>9, <2>3, <3>2, <4>1, Targets, GateType
      <4> QED
        BY <1>8, <1>9, <1>10, <2>1, <4>2, <4>3
    <3> QED
      BY <3>1, <3>2, Parties
  <2>5. pc'[t] = "reacquire"
    BY <1>2, <1>7, <1>9, <2>4
  <2>6. WaitsFor(t)' = WaitsFor(a)'
    BY <2>1 DEF WaitsFor
  <2> QED
    BY <2>5, <2>6 DEF Looks
<1> QED
  BY <1>2, <1>3, <1>11, SeenQuiet

LEMMA SeenInAdvance ==
  ASSUME OneConsumer, Typed, Places, Ring, Known, Seen, NEW t \in Threads,
         UNCHANGED <<published, ringVars>>, Advance(t)
  PROVE  Seen'
<1>1. pc[t] = "advance"
  BY DEF Advance
<1>2. t = Reader /\ kind = "multi" /\ pc[t] # "release"
  BY <1>1, RolesOf DEF SequencerLabels
<1>3. PICK s \in SequenceNumbers : s = local[t].seen
  BY DEF Typed, RingTypeOK, Locals
<1>4. UpTo(s) /\ local[t].earliest = nextToRead[Reader]
  BY <1>1, <1>2, <1>3 DEF Known, Counting, SequencerLabels
<1>5. /\ awaiters' = awaiters /\ op' = op /\ lastPublished' = lastPublished /\ OnlyOf(t)
      /\ IsPublished(Wrap(s + 1)) => pc'[t] = "advance"
      /\ ~IsPublished(Wrap(s + 1)) =>
           pc'[t] = IF Precedes(s, local[t].earliest) THEN "resumeAdded" ELSE "retake"
  BY <1>3, AdvanceIs DEF Moved
<1>6. kind' = kind
  BY DEF ringVars
<1>7. PICK e \in SequenceNumbers : e = local[t].earliest /\ At(e) = 1 /\ e = Number(1)
  BY <1>2, <1>4, ReaderAt
<1>8. PICK x \in Int : x = At(s) /\ 0 <= x /\ x <= BufferSize
  BY <1>3, <1>4, AtType DEF UpTo
<1>9. BufferSize \in Nat \ {0} /\ Half \in Nat \ {0} /\ 2 * BufferSize <= Half /\ BufferSize + 1 < Half
  BY Sizes
<1>10. Precedes(s, e) <=> x < 1
  <2>1. -Half <= At(s) - At(e) /\ At(s) - At(e) < Half
    BY <1>7, <1>8, <1>9
  <2> QED
    BY <1>7, <1>8, <2>1, Ahead
<1>11. ASSUME NEW a \in Threads, Has(awaiters'[WaitsFor(a)], a), Looks(t, a), CameFor(a)
       PROVE  Looks(t, a)'
  <2>1. a = t
    BY <1>1, <1>11 DEF Looks
  <2>2. IsPublished(Number(1))
    BY <1>2, <1>11, <2>1, Parties DEF CameFor, Come
  <2>3. CASE IsPublished(Wrap(s + 1))
    BY <1>5, <2>1, <2>3 DEF Looks
  <2>4. CASE ~IsPublished(Wrap(s + 1))
    <3>1. x # 0
      <4> SUFFICES ASSUME x = 0 PROVE FALSE
        OBVIOUS
      <4>1. s = Gate
        BY <1>8, AtGate, GateType, SameAt
      <4> QED
        BY <2>2, <2>4, <4>1 DEF Number
    <3>2. pc'[t] = "retake"
      BY <1>5, <1>7, <1>8, <1>10, <2>4, <3>1
    <3>3. WaitsFor(t)' = WaitsFor(a)'
      BY <2>1
    <3> QED
      BY <3>2, <3>3 DEF Looks
  <2> QED
    BY <2>3, <2>4
<1> QED
  BY <1>5, <1>6, <1>11, SeenQuiet

LEMMA SeenInVerify ==
  ASSUME OneConsumer, Typed, Places, Ring, Known, Seen, NEW t \in Threads,
         UNCHANGED <<published, ringVars>>, Verify(t)
  PROVE  Seen'
<1>1. pc[t] = "verify"
  BY DEF Verify
<1>2. t \in Producers /\ kind = "multi"
  BY <1>1, RolesOf DEF SequencerPublishing
<1>3. /\ awaiters' = awaiters /\ op' = op /\ lastPublished' = lastPublished /\ OnlyOf(t)
      /\ IsPublished(Wrap(local[t].seen + 1)) =>
           pc'[t] = IF Wrap(local[t].seen + 1) = local[t].earliest THEN "take" ELSE "verify"
  BY VerifyIs DEF Moved
<1>4. kind' = kind
  BY DEF ringVars
<1>5. ASSUME NEW a \in Threads, Has(awaiters'[WaitsFor(a)], a), Looks(t, a), CameFor(a)
      PROVE  Looks(t, a)'
  <2>1. a = Reader /\ local[t].seen = Gate /\ local[t].earliest = Number(1)
    BY <1>1, <1>5 DEF Looks
  <2>2. IsPublished(Number(1))
    BY <1>2, <1>5, <2>1, Parties DEF CameFor, Come
  <2>3. pc'[t] = "take"
    BY <1>3, <2>1, <2>2 DEF Number
  <2>4. PublishesTo(t)' = WaitsFor(a)'
    BY <1>2, <2>1, Parties DEF PublishesTo, WaitsFor
  <2> QED
    BY <2>3, <2>4 DEF Looks
<1> QED
  BY <1>3, <1>4, <1>5, SeenQuiet

\* Who takes a stack leaves it empty.
LEMMA SeenInTakes ==
  ASSUME OneConsumer, Typed, Places, Seen, NEW t \in Threads, NEW b \in Barriers, b = Serves(t),
         UNCHANGED <<published, ringVars>>,
         Reacquire(t, b) \/ Acquire(t, b) \/ (b = "items" /\ (Retake(t) \/ Take(t)))
  PROVE  Seen'
<1>1. /\ awaiters'[b] = <<>> /\ \A c \in Barriers : c # b => awaiters'[c] = awaiters[c]
      /\ op' = op /\ lastPublished' = lastPublished /\ OnlyOf(t)
      /\ pc[t] \in {"reacquire", "acquire", "retake", "take"}
  <2>1. CASE Reacquire(t, b)
    BY <2>1, ReacquireIs DEF Moved, Stack
  <2>2. CASE Acquire(t, b)
    BY <2>2, AcquireIs DEF Moved, Stack
  <2>3. CASE b = "items" /\ Retake(t)
    BY <2>3, RetakeIs DEF Moved, Stack
  <2>4. CASE b = "items" /\ Take(t)
    BY <2>4, TakeIs DEF Moved, Stack
  <2> QED
    BY <2>1, <2>2, <2>3, <2>4
<1>2. kind' = kind
  BY DEF ringVars
<1>3. ASSUME NEW a \in Threads, Has(awaiters'[WaitsFor(a)], a)
      PROVE  Has(awaiters[WaitsFor(a)], a) /\ ~Looks(t, a)
  <2>1. WaitsFor(a) # b
    BY <1>1, <1>3, EmptyHas
  <2>2. Has(awaiters[WaitsFor(a)], a)
    BY <1>1, <1>3, <2>1, Served
  <2>3. ~Looks(t, a)
    BY <1>1, <2>1 DEF Looks, Serves, Adding, BarrierLabels, SequencerLabels
  <2> QED
    BY <2>2, <2>3
<1> QED
  BY <1>1, <1>2, <1>3, SeenQuiet

\* The steps after which the thread looks as before, or did not look.
LEMMA SeenInLoad ==
  ASSUME OneConsumer, Typed, Places, Seen, NEW t \in Threads, NEW b \in Barriers, b = PublishesTo(t),
         UNCHANGED <<published, ringVars>>, LoadAwaiters(t, b) \/ (b = "items" /\ Load(t))
  PROVE  Seen'
<1>1. /\ awaiters' = awaiters /\ op' = op /\ lastPublished' = lastPublished /\ OnlyOf(t)
      /\ pc[t] \in {"loadAwaiters", "load"}
      /\ awaiters[b] # <<>> => pc'[t] \in {"acquire", "take"}
  BY LoadIs DEF Moved
<1>2. kind' = kind
  BY DEF ringVars
<1>3. ASSUME NEW a \in Threads, Has(awaiters'[WaitsFor(a)], a), Looks(t, a)
      PROVE  Looks(t, a)'
  <2>1. PublishesTo(t) = WaitsFor(a)
    BY <1>1, <1>3 DEF Looks
  <2>2. awaiters[b] # <<>>
    BY <1>1, <1>3, <2>1, EmptyHas
  <2>3. PublishesTo(t)' = WaitsFor(a)'
    BY <2>1 DEF PublishesTo, WaitsFor
  <2> QED
    BY <1>1, <2>2, <2>3 DEF Looks
<1> QED
  BY <1>1, <1>2, <1>3, SeenQuiet

LEMMA SeenInRest ==
  ASSUME OneConsumer, Typed, Places, Seen, NEW t \in Threads,
         UNCHANGED <<published, ringVars>>, Exchange(t) \/ Published(t) \/ Count(t)
  PROVE  Seen'
<1>1. /\ awaiters' = awaiters /\ lastPublished' = lastPublished /\ OnlyOf(t)
      /\ pc[t] \in {"resumeAdded", "resumePublished", "count"}
      /\ \A a \in Threads : op'[a].target = op[a].target
  <2>1. CASE Exchange(t)
    BY <2>1, ExchangeIs DEF Moved
  <2>2. CASE Published(t)
    BY <2>2, PublishedIs DEF Moved
  <2>3. CASE Count(t)
    BY <2>3, CountIs DEF Moved
  <2> QED
    BY <2>1, <2>2, <2>3
<1>2. kind' = kind
  BY DEF ringVars
<1>3. \A a : ~Looks(t, a)
  BY <1>1, LooksOnly DEF LookLabels
<1> QED
  BY <1>1, <1>2, <1>3, SeenQuiet

LEMMA SeenInResumeNext ==
  ASSUME OneConsumer, Typed, Places, Seen, NEW t \in Threads,
         UNCHANGED <<published, ringVars>>, ResumeNext(t)
  PROVE  Seen'
<1>1. PICK h \in Threads : h = Head(local[t].resume) /\ Waits(h)
  BY Resumed
<1>2. /\ awaiters' = awaiters /\ lastPublished' = lastPublished
      /\ pc[t] \in {"resumeAdded", "resumePublished"}
      /\ \A u \in Threads : u # t => local'[u] = local[u]
      /\ \A u \in Threads : op'[u].target = op[u].target /\ (u # h => pc'[u] = pc[u])
      /\ pc'[h] = IF op[h].ready THEN "resumed" ELSE pc[h]
  BY <1>1, ResumeNextIs
<1>3. kind' = kind /\ published' = published /\ Gate' = Gate
  BY <1>2 DEF ringVars, Gate
<1>4. ASSUME NEW a \in Threads, Has(awaiters'[WaitsFor(a)], a), CameFor(a)'
      PROVE  \E v \in Threads : Looks(v, a)'
  <2>1. CameFor(a) /\ Has(awaiters[WaitsFor(a)], a)
    BY <1>2, <1>3, <1>4, CameKept
  <2>2. PICK v \in Threads : Looks(v, a)
    BY <2>1 DEF Seen
  <2>3. pc[v] \in LookLabels
    BY <2>2, LooksOnly
  <2>4. v # t
    BY <1>2, <2>3 DEF LookLabels
  <2>5. pc'[v] = pc[v]
    BY <1>1, <1>2, <2>3 DEF Waits, LookLabels
  <2>6. Looks(v, a)'
    BY <1>2, <1>3, <2>2, <2>4, <2>5, LooksKept
  <2> QED
    BY <2>6
<1>5. \A a : WaitsFor(a)' = WaitsFor(a)
  BY DEF WaitsFor
<1> QED
  BY <1>4, <1>5 DEF Seen

\* Who makes a call of its own accord neither looks nor is in a stack.
LEMMA SeenInClaimWriteRead ==
  ASSUME OneConsumer, Typed, Places, Seen, NEW t \in Threads, Claim(t) \/ Write(t) \/ Read(t)
  PROVE  Seen'
<1>1. /\ OnlyOf(t) /\ awaiters' = awaiters /\ \A u \in Threads : u # t => op'[u] = op[u]
      /\ pc[t] \in CallLabels
  BY UserIs DEF CallLabels, Publish, PublishRange, PublishSequence, ReleaseSlots, Claim, Write, Read
<1>2. lastPublished' = lastPublished /\ published' = published /\ kind' = kind
  BY DEF Claim, Write, Read
<1>3. ASSUME NEW a \in Threads, Has(awaiters'[WaitsFor(a)], a)
      PROVE  /\ Has(awaiters[WaitsFor(a)], a) /\ op'[a].target = op[a].target
             /\ ~Looks(t, a)
  <2>1. a # t
    BY <1>1, <1>3, NobodyKeeps, Served
  <2>2. ~Looks(t, a)
    BY <1>1, LooksOnly DEF CallLabels, LookLabels
  <2> QED
    BY <1>1, <1>3, <2>1, <2>2
<1> QED
  BY <1>1, <1>2, <1>3, SeenQuiet

LEMMA SeenInAwait ==
  ASSUME OneConsumer, Typed, Places, Seen, NEW t \in Threads, AwaitClaim(t) \/ AwaitItem(t)
  PROVE  Seen'
<1>1. PICK target \in SequenceNumbers, known \in SequenceNumbers, label \in {"enqueue", "queue"} :
         Await(t, target, known, label) /\ pc[t] \in {"claim", "idle"}
  BY AwaitArguments
<1>2. OnlyOf(t) /\ \A u \in Threads : u # t => op'[u] = op[u]
  BY <1>1, AwaitIs
<1>3. lastPublished' = lastPublished /\ published' = published /\ kind' = kind /\ awaiters' = awaiters
  BY DEF AwaitClaim, AwaitItem, ringVars
<1>4. pc[t] \in CallLabels
  BY <1>1 DEF CallLabels
<1>5. ASSUME NEW a \in Threads, Has(awaiters'[WaitsFor(a)], a)
      PROVE  /\ Has(awaiters[WaitsFor(a)], a) /\ op'[a].target = op[a].target
             /\ ~Looks(t, a)
  <2>1. a # t
    BY <1>3, <1>4, <1>5, NobodyKeeps, Served
  <2>2. ~Looks(t, a)
    BY <1>4, LooksOnly DEF CallLabels, LookLabels
  <2> QED
    BY <1>2, <1>3, <1>5, <2>1, <2>2
<1> QED
  BY <1>2, <1>3, <1>5, SeenQuiet

\* Who publishes the number that the reader waits for looks at the stack.
LEMMA SeenInPublish ==
  ASSUME OneConsumer, Typed, Places, Ring, Seen, NEW t \in Threads, Publish(t)
  PROVE  Seen'
<1>1. CASE kind = "multi"
  <2>1. /\ pc[t] = "publish" /\ t \in Producers /\ OnlyOf(t) /\ op' = op
        /\ lastPublished' = lastPublished /\ kind' = kind /\ awaiters' = awaiters
    BY <1>1, StoresOne
  <2>2. PICK j \in 1..BufferSize : /\ Store(Number(j))
                                   /\ \/ pc'[t] = "publish" /\ 1 < j
                                      \/ pc'[t] = "load"
    BY <1>1, StoresOne
  <2>3. Gate' = Gate /\ Number(1)' = Number(1) /\ 1 \in 1..BufferSize
    BY <2>1, Sizes DEF Gate, Number
  <2>4. ~Looks(t, Reader) /\ \A a : ~Looks(t, a)
    BY <2>1, LooksOnly DEF LookLabels
  <2>5. ASSUME NEW a \in Threads, Has(awaiters'[WaitsFor(a)], a), CameFor(a)'
        PROVE  \/ Looks(t, a)'
               \/ Has(awaiters[WaitsFor(a)], a) /\ CameFor(a) /\ ~Looks(t, a)
    <3>1. CASE a \in Producers
      <4>1. At(op[a].target)' = At(op[a].target)
        BY <2>1, <2>3 DEF At
      <4> QED
        BY <2>1, <2>4, <2>5, <3>1, <4>1 DEF CameFor
    <3>2. CASE a = Reader
      <4>1. CASE pc'[t] = "load"
        <5>1. PublishesTo(t)' = WaitsFor(a)'
          BY <2>1, <3>2, Parties DEF PublishesTo, WaitsFor
        <5> QED
          BY <4>1, <5>1 DEF Looks
      <4>2. CASE pc'[t] = "publish" /\ 1 < j
        <5>1. IsPublished(Number(1))' <=> IsPublished(Number(1))
          BY <2>1, <2>2, <2>3, <4>2, StoreIs
        <5>2. IsPublished(Number(1))'
          BY <1>1, <2>1, <2>5, <3>2, Parties DEF CameFor, Come
        <5>3. CameFor(a)
          BY <1>1, <3>2, <5>1, <5>2, Parties DEF CameFor, Come
        <5> QED
          BY <2>1, <2>4, <2>5, <5>3
      <4> QED
        BY <2>2, <4>1, <4>2
    <3> QED
      BY <3>1, <3>2, Parties
  <2> QED
    BY <2>1, <2>3, <2>5, SeenBy
<1>2. CASE kind = "single"
  <2>1. /\ pc[t] = "publish" /\ t \in Producers /\ OnlyOf(t) /\ op' = op
        /\ kind' = kind /\ awaiters' = awaiters
        /\ lastPublished'["gate"] = lastPublished["gate"] /\ pc'[t] = "loadAwaiters"
    BY <1>2, PublishesAll
  <2>2. Gate' = Gate
    BY <2>1 DEF Gate
  <2>3. ASSUME NEW a \in Threads, Has(awaiters'[WaitsFor(a)], a), CameFor(a)'
        PROVE  \/ Looks(t, a)'
               \/ Has(awaiters[WaitsFor(a)], a) /\ CameFor(a) /\ ~Looks(t, a)
    <3>1. CASE a \in Producers
      <4>1. At(op[a].target)' = At(op[a].target)
        BY <2>1, <2>2 DEF At
      <4>2. ~Looks(t, a)
        BY <2>1, LooksOnly DEF LookLabels
      <4> QED
        BY <2>1, <2>3, <3>1, <4>1, <4>2 DEF CameFor
    <3>2. CASE a = Reader
      <4>1. PublishesTo(t)' = WaitsFor(a)'
        BY <2>1, <3>2, Parties DEF PublishesTo, WaitsFor
      <4> QED
        BY <2>1, <4>1 DEF Looks
    <3> QED
      BY <3>1, <3>2, Parties
  <2> QED
    BY <2>1, <2>2, <2>3, SeenBy
<1> QED
  BY <1>1, <1>2, RolesOf

\* The reader moves the gate and looks at the stack of the producers.
LEMMA SeenInRelease ==
  ASSUME OneConsumer, Typed, Typed', Places, Seen, NEW t \in Threads, ReleaseSlots(t)
  PROVE  Seen'
<1>1. t = Reader /\ pc[t] = "release" /\ pc'[t] = "loadAwaiters" /\ awaiters' = awaiters
  BY ReleaseIs
<1>2. ASSUME NEW a \in Threads, Has(awaiters'[WaitsFor(a)], a)
      PROVE  \E v \in Threads : Looks(v, a)'
  <2>1. a # Reader
    <3>1. pc[Reader] \in CallLabels
      BY <1>1 DEF CallLabels
    <3> QED
      BY <1>1, <1>2, <3>1, NobodyKeeps, Served
  <2>2. PublishesTo(t)' = WaitsFor(a)'
    BY <1>1, <2>1, Parties DEF PublishesTo, WaitsFor
  <2>3. Looks(t, a)'
    BY <1>1, <2>2 DEF Looks
  <2> QED
    BY <2>3
<1>3. \A a : WaitsFor(a)' = WaitsFor(a)
  BY DEF WaitsFor
<1> QED
  BY <1>2, <1>3 DEF Seen

LEMMA SeenNext ==
  ASSUME OneConsumer, Typed, Typed', Places, Ring, Known, Seen, NEW t \in Threads, InCall(t) \/ User(t)
  PROVE  Seen'
<1>1. CASE WaitStep(t, WaitsFor(t)) /\ UNCHANGED <<published, ringVars>>
  <2>1. WaitsFor(t) \in Barriers
    BY Served
  <2>2. CASE Enqueue(t, WaitsFor(t)) \/ Reacquire(t, WaitsFor(t))
    <3>1. Serves(t) = WaitsFor(t)
      BY <2>2 DEF Enqueue, Reacquire, Serves, Adding, BarrierLabels
    <3> QED
      BY <1>1, <2>1, <2>2, <3>1, SeenInPut, SeenInTakes
  <2> QED
    BY <1>1, <2>1, <2>2, SeenInCheck, SeenInRest DEF WaitStep
<1>2. CASE PublishStep(t, PublishesTo(t)) /\ UNCHANGED <<published, ringVars>>
  <2>1. PublishesTo(t) \in Barriers
    BY Served
  <2>2. CASE Acquire(t, PublishesTo(t)) \/ Requeue(t, PublishesTo(t))
    <3>1. Serves(t) = PublishesTo(t)
      BY <2>2 DEF Acquire, Requeue, Serves, Adding, BarrierLabels, SequencerLabels
    <3> QED
      BY <1>2, <2>1, <2>2, <3>1, SeenInPut, SeenInTakes
  <2> QED
    BY <1>2, <2>1, <2>2, SeenInLoad, SeenInRest DEF PublishStep
<1>3. CASE ResumeNext(t) /\ UNCHANGED <<published, ringVars>>
  BY <1>3, SeenInResumeNext
<1>4. CASE SequencerWaitStep(t) /\ UNCHANGED ringVars
  <2>1. UNCHANGED <<published, ringVars>> /\ "items" \in Barriers
    BY <1>4 DEF SequencerWaitStep, PutOn, Advance, Retake, Barriers
  <2>2. Serves(t) = "items"
    <3>1. pc[t] \in SequencerLabels
      BY <1>4 DEF SequencerWaitStep, PutOn, Advance, Retake, SequencerLabels
    <3> QED
      BY <3>1, RolesOf, Parties DEF Serves, Adding
  <2> QED
    BY <1>4, <2>1, <2>2, SeenInPut, SeenInAdvance, SeenInTakes DEF SequencerWaitStep
<1>5. CASE SequencerPublishStep(t) /\ UNCHANGED ringVars
  <2>1. UNCHANGED <<published, ringVars>> /\ "items" \in Barriers
    BY <1>5 DEF SequencerPublishStep, Load, Take, Count, PutBack, Verify, Barriers
  <2>2. PublishesTo(t) = "items" /\ Serves(t) = "items"
    <3>1. pc[t] \in SequencerPublishing
      BY <1>5 DEF SequencerPublishStep, Load, Take, Count, PutBack, Verify, SequencerPublishing
    <3>2. PublishesTo(t) = "items"
      BY <3>1, RolesOf, Parties
    <3> QED
      BY <3>1, <3>2 DEF Serves, Adding, BarrierLabels, SequencerLabels, SequencerPublishing
  <2> QED
    BY <1>5, <2>1, <2>2, SeenInPut, SeenInLoad, SeenInTakes, SeenInRest, SeenInVerify DEF SequencerPublishStep
<1>6. CASE Publish(t) \/ ReleaseSlots(t)
  BY <1>6, SeenInPublish, SeenInRelease
<1>7. CASE User(t)
  BY <1>7, SeenInClaimWriteRead, SeenInAwait DEF User
<1> QED
  BY <1>1, <1>2, <1>3, <1>4, <1>5, <1>6, <1>7 DEF InCall

-----------------------------------------------------------------------------
(* The invariant, and the properties it is for.                            *)

\* At first nobody has read, claimed or published anything.
LEMMA FirstRing ==
  ASSUME OneConsumer, Init
  PROVE  Ring
<1>1. Typed
  BY FirstTyped
<1>2. /\ BufferSize \in Nat \ {0} /\ BufferSize + 1 < Half /\ Half \in Nat \ {0} /\ Modulus = 2 * Half
      /\ Modulus \in Nat \ {0}
  BY Sizes
<1>3. PICK g \in SequenceNumbers : g = InitialSequence
  BY Numbers
<1>4. Gate = g /\ Items = g
  BY <1>3 DEF Init, BarrierInit, Gate, Items, Barriers
<1>5. \A t \in Threads : pc[t] = "idle"
  BY DEF Init, BarrierInit
<1>6. \A p \in Producers : ~Holds(p) /\ pc[p] # "publish"
  BY <1>5, Parties DEF Holds, Holding, BarrierLabels
<1>7. At(Items) = 0
  BY <1>1, <1>4, AtGate
<1>8. nextToClaim = Number(1) /\ nextToRead[Reader] = Number(1)
  BY <1>3, <1>4, Parties DEF Init, Number
<1>9. At(Number(1)) = 1 /\ Number(1) \in SequenceNumbers
  BY <1>1, <1>2, AtNumber
<1>10. Top = 0
  <2>1. PICK n \in SequenceNumbers : n = nextToClaim
    BY <1>8, <1>9
  <2>2. At(n) = 1 /\ -Half <= At(n) - 1
    BY <1>2, <1>8, <1>9, <2>1
  <2>3. At(Wrap(n - 1)) = 0
    BY <1>1, <2>2, AtBefore
  <2> QED
    BY <2>1, <2>3 DEF Top
<1>11. Claims
  <2>1. nextToClaim = Wrap(Items + 1)
    BY <1>4, <1>8 DEF Number
  <2> QED
    BY <1>2, <1>6, <1>7, <1>10, <2>1 DEF Claims
<1>12. Reading
  BY <1>2, <1>8, <1>9 DEF Reading
<1>13. ASSUME NEW i \in 1..BufferSize
       PROVE  published[Slot(Number(i))] = Number(i - BufferSize) /\ ~IsPublished(Number(i))
  <2>1. i \in Int /\ i - BufferSize \in Int /\ Slot(Number(i)) \in Slots
    BY <1>1, <1>2, SlotsOfNumbers
  <2>2. PICK s \in SequenceNumbers : /\ s = published[Slot(Number(i))]
                                     /\ Slot(s) = Slot(Number(i)) /\ Modulus - s \in 1..BufferSize
    <3>1. published[Slot(Number(i))] = CHOOSE s \in SequenceNumbers :
                    Slot(s) = Slot(Number(i)) /\ Modulus - s \in 1..BufferSize
      BY <2>1 DEF Init, SequencerInit
    <3> QED
      BY <2>1, <3>1, FirstNumbers
  <2>3. PICK k \in Int : k = s - (Modulus - 1) /\ 1 - BufferSize <= k /\ k <= 0
    BY <1>2, <2>2 DEF SequenceNumbers
  <2>4. s = Number(k)
    <3>1. g + k = s
      BY <1>2, <1>3, <2>3, Numbers DEF InitialSequence
    <3> QED
      BY <1>4, <3>1, Numbers DEF Number
  <2>5. Slot(Number(i - BufferSize)) = Slot(Number(i))
    <3>1. (i - BufferSize) + BufferSize = i
      BY <1>2, <2>1
    <3> QED
      BY <1>1, <2>1, <3>1, SlotsOfNumbers
  <2>6. k = i - BufferSize
    <3>1. Slot(Number(k)) = Slot(Number(i - BufferSize))
      BY <2>2, <2>4, <2>5
    <3>2. k - (i - BufferSize) < BufferSize /\ (i - BufferSize) - k < BufferSize
      BY <1>2, <2>3
    <3> QED
      BY <1>1, <2>1, <3>1, <3>2, SlotsOfNumbers
  <2>7. published[Slot(Number(i))] = Number(i - BufferSize)
    BY <2>2, <2>4, <2>6
  <2>8. Number(i) # Number(i - BufferSize)
    <3>1. i - (i - BufferSize) < Modulus /\ (i - BufferSize) - i < Modulus /\ i # i - BufferSize
      BY <1>2
    <3> QED
      BY <1>1, <2>1, <3>1, NumbersDiffer
  <2> QED
    BY <2>7, <2>8 DEF IsPublished
<1>14. \A i \in 1..BufferSize : ~Come(i)
  BY <1>7, <1>13 DEF Come
<1>15. Slotted
  <2>1. \A i \in 1..BufferSize : ~Written(i)
    BY <1>6, <1>14 DEF Written
  <2> QED
    BY <1>13, <2>1 DEF Slotted
<1> QED
  BY <1>11, <1>12, <1>15 DEF Ring

LEMMA FirstPlaces ==
  ASSUME OneConsumer, Init
  PROVE  Places /\ Known /\ Seen
<1>1. \A t \in Threads : /\ pc[t] = "idle" /\ local[t].taken = <<>>
                         /\ local[t].requeue = <<>> /\ local[t].resume = <<>>
  BY DEF Init, BarrierInit, NoLocals
<1>2. \A b \in Barriers : awaiters[b] = <<>>
  BY DEF Init, BarrierInit
<1>3. \A t \in Threads : ~Waits(t) /\ \A a : ~Keeps(t, a)
  BY <1>1, EmptyHas DEF Waits, Keeps, Adding, BarrierLabels, SequencerLabels
<1>4. Places
  <2>1. \A b \in Barriers : Once(awaiters[b]) /\ \A a : ~Has(awaiters[b], a)
    BY <1>2, EmptyHas
  <2>2. \A t \in Threads : Tidy(t)
    BY <1>1, EmptyHas DEF Tidy
  <2>3. \A a \in Threads : Placed(a)
    BY <1>1, <1>3, <2>1 DEF Placed
  <2> QED
    BY <2>1, <2>2, <2>3 DEF Places
<1>5. Known
  <2> SUFFICES ASSUME NEW t \in Threads PROVE Comparisons(t) /\ Counting(t)
    BY DEF Known
  <2>1. pc[t] \notin Awaiting /\ pc[t] \notin Adding /\ pc[t] \notin BarrierLabels
        /\ pc[t] \notin BarrierPublishing /\ pc[t] \notin SequencerLabels
    BY <1>1 DEF Awaiting, Adding, BarrierLabels, BarrierPublishing, SequencerLabels
  <2>2. pc[t] = "idle" /\ \A a : ~Has(local[t].resume, a)
    BY <1>1, EmptyHas
  <2> QED
    BY <2>1, <2>2 DEF Comparisons, Counting
<1>6. Seen
  BY <1>2, EmptyHas, Served DEF Seen
<1> QED
  BY <1>4, <1>5, <1>6

LEMMA FirstInv ==
  ASSUME OneConsumer, Init
  PROVE  RingInv
BY FirstTyped, FirstRing, FirstPlaces DEF RingInv

LEMMA InvStutters ==
  ASSUME OneConsumer, RingInv, UNCHANGED vars
  PROVE  RingInv'
<1>1. /\ lastPublished' = lastPublished /\ awaiters' = awaiters /\ pc' = pc /\ op' = op /\ local' = local
      /\ published' = published /\ kind' = kind /\ nextToClaim' = nextToClaim /\ range' = range
      /\ nextToRead' = nextToRead /\ buffer' = buffer
  BY DEF vars, barrierVars, ringVars
<1>2. Typed'
  BY <1>1 DEF RingInv, Typed, RingTypeOK, Roles, Working
<1>3. Places'
  BY <1>1 DEF RingInv, Places, Tidy, Placed, Waits, Serves, Keeps, WaitsFor, PublishesTo
<1>4. Ring'
  BY <1>1, RingKept DEF RingInv, Holds
<1>5. Typed /\ Surroundings /\ Gate' = Gate
  BY <1>1, ComeKept, RangeType DEF RingInv, Surroundings, Gate
<1>6. \A u \in Threads : Unmoved(u)
  BY <1>1 DEF Unmoved, Target, ClaimTarget, Items
<1>7. Known'
  BY <1>2, <1>5, <1>6, KnownKept DEF RingInv, Known
<1>8. Seen'
  <2>1. \A a \in Threads : (CameFor(a)' <=> CameFor(a)) /\ \A u \in Threads : Looks(u, a) => Looks(u, a)'
    BY <1>1, <1>5, CameKept, LooksKept
  <2>2. \A a : WaitsFor(a)' = WaitsFor(a)
    BY DEF WaitsFor
  <2> QED
    BY <1>1, <2>1, <2>2 DEF RingInv, Seen
<1> QED
  BY <1>2, <1>3, <1>4, <1>7, <1>8 DEF RingInv

LEMMA InvNext ==
  ASSUME OneConsumer, RingInv, Next
  PROVE  RingInv'
<1>1. PICK t \in Threads : InCall(t) \/ User(t)
  BY DEF Next
<1>2. Typed'
  BY <1>1, TypedNext DEF RingInv
<1>3. Places'
  BY <1>1, PlacesNext DEF RingInv
<1>4. Ring'
  BY <1>1, <1>2, RingNext DEF RingInv
<1>5. Known'
  BY <1>1, <1>2, KnownNext DEF RingInv
<1>6. Seen'
  BY <1>1, <1>2, SeenNext DEF RingInv
<1> QED
  BY <1>2, <1>3, <1>4, <1>5, <1>6 DEF RingInv

(* With one consumer, for which the producers wait, every thread is where  *)
(* the code has it, on one list at most; every claimed range lies in the   *)
(* window the gate leaves, and somebody looks at the stack of a coroutine  *)
(* whose number has come (single_producer_sequencer.hpp,                   *)
(* multi_producer_sequencer.hpp, sequence_barrier.hpp).                    *)
THEOREM RingBufferInvariant == OneConsumer => (Spec => []RingInv)
<1> SUFFICES ASSUME OneConsumer PROVE Spec => []RingInv
  OBVIOUS
<1>1. Init => RingInv
  BY FirstInv
<1>2. RingInv /\ [Next]_vars => RingInv'
  BY InvNext, InvStutters
<1> QED
  BY <1>1, <1>2, PTL DEF Spec

\* What a waiting thread waits for has come, counted from the gate.
LEMMA CameIs ==
  ASSUME OneConsumer, RingInv, NEW a \in Threads, pc[a] \in Awaiting
  PROVE  TargetCame(a) <=> CameFor(a)
<1>1. Typed /\ Ring /\ Known
  BY DEF RingInv
<1>2. BufferSize \in Nat \ {0} /\ Half \in Nat \ {0} /\ 2 * BufferSize <= Half /\ BufferSize + 1 < Half
  BY Sizes
<1>3. PICK s \in SequenceNumbers : s = op[a].target
  BY <1>1, Targets
<1>4. /\ At(s) \in Int /\ 1 - BufferSize <= At(s) /\ At(s) < Half - BufferSize
      /\ a = Reader => s = nextToRead[Reader] /\ At(s) = 1
  BY <1>1, <1>3, Targets
<1>5. CASE a \in Producers
  <2>1. At(Gate) = 0 /\ Gate \in SequenceNumbers
    BY <1>1, AtGate, GateType
  <2>2. Precedes(Gate, s) <=> 0 < At(s)
    <3>1. -Half <= At(Gate) - At(s) /\ At(Gate) - At(s) < Half
      BY <1>2, <1>4, <2>1
    <3> QED
      BY <1>1, <2>1, <3>1, Ahead
  <2>3. At(s) <= 0 <=> ~(0 < At(s))
    BY <1>4
  <2> QED
    BY <1>3, <1>5, <2>2, <2>3 DEF TargetCame, CameFor, Gate
<1>6. CASE a = Reader
  <2>1. a \notin Producers /\ s = nextToRead[a] /\ At(s) = 1
    BY <1>4, <1>6, Parties
  <2>2. CASE kind = "single"
    <3>1. /\ Items \in SequenceNumbers /\ At(Items) \in Int /\ 0 <= At(Items) /\ At(Items) <= BufferSize
      BY <1>1, <2>2, GateType, RangeType DEF Ring, Claims
    <3>2. Precedes(Items, s) <=> At(Items) < 1
      <4>1. -Half <= At(Items) - At(s) /\ At(Items) - At(s) < Half
        BY <1>2, <2>1, <3>1
      <4> QED
        BY <1>1, <2>1, <3>1, <4>1, Ahead
    <3>3. 1 <= At(Items) <=> ~(At(Items) < 1)
      BY <3>1
    <3>4. TargetCame(a) <=> ~Precedes(Items, s)
      BY <1>3, <2>1, <2>2 DEF TargetCame, HasCome, Items
    <3>5. CameFor(a) <=> 1 <= At(Items)
      BY <2>1, <2>2 DEF CameFor, Come
    <3> QED
      BY <3>2, <3>3, <3>4, <3>5
  <2>3. CASE kind = "multi"
    <3>1. s = Number(1)
      BY <1>1, <2>1, NumberAt
    <3>2. s \in Int /\ Wrap(s) = s
      BY Numbers
    <3>3. Wrap(s - s) = 0
      <4>1. s - s = 0 /\ Wrap(0) = 0
        BY <3>2, Numbers
      <4> QED
        BY <4>1
    <3>4. \A i \in 0..0 : i = 0 /\ Wrap(s + i) = s
      BY <3>2
    <3>5. (\A i \in 0..0 : IsPublished(Wrap(s + i))) <=> IsPublished(s)
      BY <3>4
    <3>6. TargetCame(a) <=> IsPublished(s)
      BY <1>3, <2>1, <2>3, <3>3, <3>5 DEF TargetCame, HasCome
    <3> QED
      BY <2>1, <2>3, <3>1, <3>6 DEF CameFor, Come
  <2> QED
    BY <1>1, <2>2, <2>3, RolesOf
<1> QED
  BY <1>5, <1>6, Parties

LEMMA InvResumed ==
  ASSUME OneConsumer, RingInv
  PROVE  ResumedOnTarget
<1>1. Typed /\ Ring /\ Known
  BY DEF RingInv
<1>2. BufferSize \in Nat \ {0} /\ Half \in Nat \ {0} /\ 2 * BufferSize <= Half /\ BufferSize + 1 < Half
  BY Sizes
<1>3. SUFFICES ASSUME NEW a \in Threads, pc[a] = "resumed"
               PROVE  ~Precedes(op[a].known, op[a].target) /\ TargetCame(a)
  BY DEF ResumedOnTarget
<1>4. pc[a] \in Awaiting
  BY <1>3 DEF Awaiting
<1>5. PICK s \in SequenceNumbers, k \in SequenceNumbers : s = op[a].target /\ k = op[a].known
  BY <1>1 DEF Typed, RingTypeOK, Operations
<1>6. /\ At(s) \in Int /\ At(k) \in Int /\ 1 - BufferSize <= At(s) /\ At(s) <= At(k) /\ At(k) <= BufferSize
      /\ Compared(WaitsFor(a)) => At(k) <= At(lastPublished[WaitsFor(a)])
      /\ a = Reader => At(s) = 1
  BY <1>1, <1>3, <1>4, <1>5, Targets, AtType DEF Known, Comparisons
<1>7. ~Precedes(k, s)
  <2>1. -Half <= At(k) - At(s) /\ At(k) - At(s) < Half /\ ~(At(k) < At(s))
    BY <1>2, <1>6
  <2> QED
    BY <1>1, <2>1, Ahead
<1>8. CameFor(a)
  <2>1. CASE a \in Producers
    <3>1. At(lastPublished[WaitsFor(a)]) = 0 /\ Compared(WaitsFor(a))
      BY <1>1, <2>1, AtGate, GateType, Parties DEF Compared
    <3> QED
      BY <1>5, <1>6, <2>1, <3>1 DEF CameFor
  <2>2. CASE a = Reader /\ kind = "single"
    <3>1. At(k) <= At(Items) /\ At(Items) \in Int
      BY <1>1, <1>6, <2>2, GateType, RangeType, Parties DEF Compared
    <3> QED
      BY <1>6, <2>2, <3>1, Parties DEF CameFor, Come
  <2>3. CASE a = Reader /\ kind = "multi"
    <3>1. UpTo(k)
      BY <1>1, <1>4, <1>5, <2>3 DEF Known, Counting
    <3>2. 1 \in 1..BufferSize /\ 1 <= At(k)
      BY <1>2, <1>6, <2>3
    <3>3. IsPublished(Number(1))
      BY <3>1, <3>2 DEF UpTo
    <3> QED
      BY <2>3, <3>3, Parties DEF CameFor, Come
  <2> QED
    BY <1>1, <2>1, <2>2, <2>3, RolesOf, Parties
<1> QED
  BY <1>4, <1>5, <1>7, <1>8, CameIs

\* No number of the next round was published.
LEMMA NextRoundIsNot ==
  ASSUME OneConsumer, Typed, Ring, kind = "multi", NEW m \in (BufferSize + 1)..(2 * BufferSize)
  PROVE  ~IsPublished(Number(m))
<1>1. BufferSize \in Nat \ {0} /\ Half \in Nat \ {0} /\ 2 * BufferSize <= Half /\ Modulus = 2 * Half
  BY Sizes
<1>2. PICK i \in 1..BufferSize : m = i + BufferSize
  <2>1. m - BufferSize \in 1..BufferSize /\ m = (m - BufferSize) + BufferSize
    BY <1>1
  <2> QED
    BY <2>1
<1>3. i \in Int /\ i - BufferSize \in Int /\ m \in Int
  BY <1>1
<1>4. Slot(Number(m)) = Slot(Number(i))
  BY <1>2, <1>3, SlotsOfNumbers
<1>5. published[Slot(Number(i))] \in {Number(i), Number(i - BufferSize)}
  BY DEF Ring, Slotted
<1>6. Number(m) # Number(i)
  <2>1. m - i < Modulus /\ i - m < Modulus /\ m # i
    BY <1>1, <1>2
  <2> QED
    BY <1>3, <2>1, NumbersDiffer
<1>7. Number(m) # Number(i - BufferSize)
  <2>1. m - (i - BufferSize) < Modulus /\ (i - BufferSize) - m < Modulus /\ m # i - BufferSize
    BY <1>1, <1>2
  <2> QED
    BY <1>3, <2>1, NumbersDiffer
<1> QED
  BY <1>4, <1>5, <1>6, <1>7 DEF IsPublished

LEMMA NumbersApart ==
  ASSUME Typed, NEW x \in Int, NEW y \in Int, -Half <= x - y, x - y < Half
  PROVE  Difference(Number(x), Number(y)) = x - y
<1>1. PICK g \in SequenceNumbers : g = Gate /\ g \in Int
  BY GateType
<1>2. g + x \in Int /\ g + y \in Int /\ -(g + y) \in Int /\ x - y \in Int
  BY <1>1
<1>3. PICK a \in SequenceNumbers, b \in SequenceNumbers : a = Wrap(g + x) /\ b = Wrap(g + y) /\ a \in Int
  BY <1>2, WrapType, Numbers
<1>4. Wrap(a - Wrap(g + y)) = Wrap(a - (g + y))
  BY <1>2, <1>3, WrapSum
<1>5. Wrap(Wrap(g + x) + (-(g + y))) = Wrap((g + x) + (-(g + y)))
  BY <1>2, WrapSum
<1>6. (g + x) + (-(g + y)) = x - y /\ a - (g + y) = a + (-(g + y))
  BY <1>1, <1>3
<1>7. Wrap(a - b) = Wrap(x - y)
  BY <1>3, <1>4, <1>5, <1>6
<1>8. Difference(a, b) = x - y
  BY <1>2, <1>7, DifferenceIs
<1> QED
  BY <1>1, <1>3, <1>8 DEF Number

LEMMA InvIntact ==
  ASSUME OneConsumer, RingInv
  PROVE  UnreadIsIntact
<1>1. Typed /\ Ring
  BY DEF RingInv
<1>2. BufferSize \in Nat \ {0} /\ Half \in Nat \ {0} /\ 2 * BufferSize <= Half /\ BufferSize + 1 < Half
  BY Sizes
<1>3. SUFFICES ASSUME NEW i \in 0..(BufferSize - 1), HasCome(Wrap(nextToRead[Reader] + i), Reader)
               PROVE  buffer[Slot(Wrap(nextToRead[Reader] + i))] = Wrap(nextToRead[Reader] + i)
  BY DEF OneConsumer, UnreadIsIntact
<1>4. PICK r \in SequenceNumbers : r = nextToRead[Reader]
  BY <1>1, Parties DEF Typed, RingTypeOK
<1>5. PICK n \in Int : n = At(r) /\ 1 <= n /\ n <= BufferSize + 1
  BY <1>1, <1>4, AtType DEF Ring, Reading
<1>6. i \in Int /\ 0 <= i /\ i < BufferSize /\ i < Modulus /\ n + i <= 2 * BufferSize
  BY <1>2, <1>5, Sizes
<1>7. PICK s \in SequenceNumbers : s = Wrap(r + i) /\ s = Number(n + i)
  <2>1. PICK g \in Int : g = Gate
    BY <1>1, GateType
  <2>2. r = Wrap(g + n) /\ g + n \in Int /\ r \in Int /\ r + i \in Int
    BY <1>1, <1>4, <1>5, <1>6, <2>1, NumberAt, Numbers DEF Number
  <2>3. Wrap(Wrap(g + n) + i) = Wrap((g + n) + i)
    BY <1>6, <2>2, WrapSum
  <2>4. (g + n) + i = g + (n + i)
    BY <1>5, <1>6, <2>1
  <2>5. Wrap(r + i) = Number(n + i) /\ Wrap(r + i) \in SequenceNumbers
    BY <2>1, <2>2, <2>3, <2>4, WrapType DEF Number
  <2> QED
    BY <2>5
<1>8. n + i <= BufferSize /\ Come(n + i)
  <2>1. CASE kind = "single"
    <3>1. ~Precedes(Items, s)
      BY <1>3, <1>4, <1>7, <2>1 DEF HasCome, Items
    <3>2. /\ Items \in SequenceNumbers /\ At(Items) \in Int /\ 0 <= At(Items) /\ At(Items) <= BufferSize
      BY <1>1, <2>1, GateType, RangeType DEF Ring, Claims
    <3>3. Precedes(Items, s) <=> At(Items) < n + i
      <4>1. PICK x \in Int : x = At(Items) /\ 0 <= x /\ x <= BufferSize
        BY <3>2
      <4>2. -Half <= x - (n + i) /\ x - (n + i) < Half /\ n + i \in Int
        BY <1>2, <1>5, <1>6, <4>1
      <4>3. Difference(Number(x), Number(n + i)) = x - (n + i) /\ Items = Number(x)
        BY <1>1, <3>2, <4>1, <4>2, NumbersApart, NumberAt
      <4>4. x - (n + i) < 0 <=> x < n + i
        BY <4>1, <4>2
      <4> QED
        BY <1>7, <4>1, <4>3, <4>4 DEF Precedes
    <3>4. n + i <= At(Items)
      BY <1>5, <1>6, <3>1, <3>2, <3>3
    <3> QED
      BY <1>2, <1>5, <1>6, <2>1, <3>2, <3>4 DEF Come
  <2>2. CASE kind = "multi"
    <3>1. Wrap(s - r) = i
      <4>1. r \in Int /\ r + i \in Int /\ -r \in Int
        BY <1>6, Numbers
      <4>2. Wrap(Wrap(r + i) + (-r)) = Wrap((r + i) + (-r))
        BY <4>1, WrapSum
      <4>3. s + (-r) = s - r /\ (r + i) + (-r) = i
        BY <4>1, <1>6, Numbers
      <4>4. i \in SequenceNumbers
        BY <1>6, Sizes DEF SequenceNumbers
      <4> QED
        BY <1>7, <4>2, <4>3, <4>4, Numbers
    <3>2. IsPublished(s)
      <4>1. \A j \in 0..i : IsPublished(Wrap(r + j))
        BY <1>3, <1>4, <1>7, <2>2, <3>1 DEF HasCome
      <4>2. i \in 0..i
        BY <1>6
      <4> QED
        BY <1>7, <4>1, <4>2
    <3>3. n + i <= BufferSize
      <4> SUFFICES ASSUME ~(n + i <= BufferSize) PROVE FALSE
        OBVIOUS
      <4>1. n + i \in (BufferSize + 1)..(2 * BufferSize)
        BY <1>2, <1>5, <1>6
      <4> QED
        BY <1>1, <1>7, <2>2, <3>2, <4>1, NextRoundIsNot
    <3> QED
      BY <1>7, <2>2, <3>2, <3>3 DEF Come
  <2> QED
    BY <1>1, <2>1, <2>2, RolesOf, Parties
<1>9. n + i \in 1..BufferSize
  BY <1>2, <1>5, <1>6, <1>8
<1>10. buffer[Slot(Number(n + i))] = Number(n + i)
  BY <1>1, <1>8, <1>9 DEF Written, Ring, Slotted
<1> QED
  BY <1>4, <1>7, <1>10

LEMMA InvMissed ==
  ASSUME OneConsumer, RingInv
  PROVE  NothingIsMissed
<1>1. SUFFICES ASSUME \A t \in Threads : pc[t] \in OutsideCalls,
                      NEW a \in Threads, pc[a] = "suspended", TargetCame(a)
               PROVE  FALSE
  BY DEF NothingIsMissed
<1>2. Waits(a) /\ pc[a] \in Awaiting
  BY <1>1 DEF Waits, Awaiting
<1>3. CameFor(a)
  BY <1>1, <1>2, CameIs
<1>4. \A t \in Threads : ~Keeps(t, a)
  <2> TAKE t \in Threads
  <2>1. pc[t] # "count" /\ pc[t] \notin RequeueLabels /\ pc[t] \notin ResumeLabels
    BY <1>1 DEF OutsideCalls, RequeueLabels, ResumeLabels, BarrierLabels
  <2> QED
    BY <2>1, TidyLists, EmptyHas DEF RingInv, Keeps
<1>5. Has(awaiters[WaitsFor(a)], a)
  BY <1>2, <1>4 DEF RingInv, Places, Placed
<1>6. PICK v \in Threads : Looks(v, a)
  BY <1>3, <1>5 DEF RingInv, Seen
<1> QED
  BY <1>1, <1>6, LooksOnly DEF LookLabels, OutsideCalls

(* Who goes on has what it waited for, with one consumer and any number of *)
(* producers, of either sequencer, of any size of the ring, over all       *)
(* rounds of the numbers (sequence_barrier.hpp:81-86,                      *)
(* multi_producer_sequencer.hpp:75-79).                                    *)
THEOREM ResumedHaveTheirTarget == OneConsumer => (Spec => []ResumedOnTarget)
<1> SUFFICES ASSUME OneConsumer PROVE Spec => []ResumedOnTarget
  OBVIOUS
<1>1. RingInv => ResumedOnTarget
  BY InvResumed
<1>2. Spec => []RingInv
  BY RingBufferInvariant
<1> QED
  BY <1>1, <1>2, PTL

(* What was published keeps its slot until the consumer has read it        *)
(* (README.md of cppcoro, lines 1003-1160).                                *)
THEOREM UnreadItemsAreIntact == OneConsumer => (Spec => []UnreadIsIntact)
<1> SUFFICES ASSUME OneConsumer PROVE Spec => []UnreadIsIntact
  OBVIOUS
<1>1. RingInv => UnreadIsIntact
  BY InvIntact
<1>2. Spec => []RingInv
  BY RingBufferInvariant
<1> QED
  BY <1>1, <1>2, PTL

(* When no call is under way, nobody is suspended whose number came        *)
(* (sequence_barrier.hpp:406-412, multi_producer_sequencer.hpp:751-755).   *)
THEOREM NoPublicationIsMissed == OneConsumer => (Spec => []NothingIsMissed)
<1> SUFFICES ASSUME OneConsumer PROVE Spec => []NothingIsMissed
  OBVIOUS
<1>1. RingInv => NothingIsMissed
  BY InvMissed
<1>2. Spec => []RingInv
  BY RingBufferInvariant
<1> QED
  BY <1>1, <1>2, PTL
=============================================================================
