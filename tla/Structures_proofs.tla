------------------------- MODULE Structures_proofs -------------------------
(***************************************************************************)
(* The structures that threads share, and the program around one of them.  *)
(* The task queue, for every number of queues, threads and tasks: the      *)
(* order in which tasks are taken, and that no wake-up for a task is lost. *)
(* The auto reset event, for any number of waiters and setters: one thread *)
(* owns the list of waiters while there are sets and waiters, an operation *)
(* is linked once while somebody has to let go of it, and a set lets one   *)
(* await pass.  The program of the first example: it implements            *)
(* straight-line code, hands its baton on from queue to queue, and leaves  *)
(* the queues as it found them.                                            *)
(***************************************************************************)
EXTENDS QueueProgram, AutoResetEvent, ListLemmas

-----------------------------------------------------------------------------
(* The task queue.                                                         *)

(* The variables have their types throughout.                              *)
THEOREM TypeCorrect == Spec => []TypeOK
<1> USE TaskAssumption, ThreadAssumption, SpuriousAssumption
<1>1. Init => TypeOK
  BY DEF Init, TypeOK, WorkerPc
<1>2. TypeOK /\ [Next]_vars => TypeOK'
  <2> SUFFICES ASSUME TypeOK, [Next]_vars PROVE TypeOK'
    OBVIOUS
  <2> USE DEF TypeOK, WorkerPc, Goto
  <2>1. ASSUME NEW q \in Queues, StartWorker(q) \/ RunBegin(q) \/ Lock(q)
                                 \/ EvalPredicate(q) \/ Block(q) \/ TaskEnd(q)
        PROVE TypeOK'
    BY <2>1 DEF StartWorker, RunBegin, Lock, EvalPredicate, Block, TaskEnd
  <2>2. ASSUME NEW q \in Queues, SpuriousWake(q) PROVE TypeOK'
    BY <2>2 DEF SpuriousWake
  <2>3. ASSUME NEW q \in Queues, TakeTask(q) PROVE TypeOK'
    <3>1. Head(tasks[q]) \in Tasks /\ Tail(tasks[q]) \in Seq(Tasks)
      BY <2>3 DEF TakeTask
    <3>2. Append(ran[q], Head(tasks[q])) \in Seq(Tasks)
      BY <3>1
    <3> QED
      BY <2>3, <3>1, <3>2 DEF TakeTask
  <2>4. ASSUME NEW q \in Queues, RunReturn(q) PROVE TypeOK'
    BY <2>4 DEF RunReturn
  <2>5. ASSUME NEW t \in Threads, NEW q \in Queues, NEW task \in Tasks,
               PushTask(t, q, task)
        PROVE TypeOK'
    <3>1. Append(tasks[q], task) \in Seq(Tasks) /\ Append(pushed[q], task) \in Seq(Tasks)
      OBVIOUS
    <3> QED
      BY <2>5, <3>1 DEF PushTask
  <2>6. ASSUME NEW t \in Threads, NEW q \in Queues, SetStop(t, q)
        PROVE TypeOK'
    BY <2>6 DEF SetStop
  <2>7. ASSUME NEW t \in Threads, NEW q \in Queues,
               NotifyOne(t, q) \/ NotifyAll(t, q)
        PROVE TypeOK'
    BY <2>7 DEF NotifyOne, NotifyAll, WakeWorker
  <2>8. CASE UNCHANGED vars
    BY <2>8 DEF vars, queueVars
  <2> QED
    BY <2>1, <2>2, <2>3, <2>4, <2>5, <2>6, <2>7, <2>8
    DEF Next, WorkerStep, Call, Notification
<1> QED
  BY <1>1, <1>2, PTL DEF Spec

(* No wake-up for a task is lost, whoever pushes and however notify_one    *)
(* is delayed after the unlock: the worker holds the mutex from the moment *)
(* it sees the deque empty until it waits.                                 *)
THEOREM TaskWakeups == Spec => []NoLostTaskWakeup
<1> USE TaskAssumption, ThreadAssumption, SpuriousAssumption
<1>1. Init => NoLostTaskWakeup
  BY DEF Init, NoLostTaskWakeup
<1>2. TypeOK /\ NoLostTaskWakeup /\ [Next]_vars => NoLostTaskWakeup'
  <2> SUFFICES ASSUME TypeOK, NoLostTaskWakeup, [Next]_vars
               PROVE NoLostTaskWakeup'
    OBVIOUS
  <2> USE DEF NoLostTaskWakeup, TypeOK, Goto
  <2>1. ASSUME NEW q \in Queues,
               StartWorker(q) \/ RunBegin(q) \/ Lock(q) \/ EvalPredicate(q)
               \/ Block(q) \/ TaskEnd(q) \/ SpuriousWake(q) \/ RunReturn(q)
        PROVE NoLostTaskWakeup'
    BY <2>1 DEF StartWorker, RunBegin, Lock, EvalPredicate, Predicate, Block,
                TaskEnd, SpuriousWake, RunReturn
  <2>2. ASSUME NEW q \in Queues, TakeTask(q) PROVE NoLostTaskWakeup'
    BY <2>2 DEF TakeTask
  <2>3. ASSUME NEW t \in Threads, NEW q \in Queues, NEW task \in Tasks,
               PushTask(t, q, task)
        PROVE NoLostTaskWakeup'
    BY <2>3 DEF PushTask, Locked
  <2>4. ASSUME NEW t \in Threads, NEW q \in Queues, SetStop(t, q)
        PROVE NoLostTaskWakeup'
    BY <2>4 DEF SetStop
  <2>5. ASSUME NEW t \in Threads, NEW q \in Queues,
               NotifyOne(t, q) \/ NotifyAll(t, q)
        PROVE NoLostTaskWakeup'
    BY <2>5 DEF NotifyOne, NotifyAll, WakeWorker
  <2>6. CASE UNCHANGED vars
    BY <2>6 DEF vars, queueVars
  <2> QED
    BY <2>1, <2>2, <2>3, <2>4, <2>5, <2>6 DEF Next, WorkerStep, Call, Notification
<1> QED
  BY <1>1, <1>2, TypeCorrect, PTL DEF Spec

(* Moving the head of a queue to the end of what was taken keeps the whole *)
(* in order.                                                               *)
LEMMA MoveHead ==
  ASSUME NEW S, NEW r \in Seq(S), NEW s \in Seq(S), s # <<>>
  PROVE  Append(r, Head(s)) \o Tail(s) = r \o s
  OBVIOUS

LEMMA AppendToTail ==
  ASSUME NEW S, NEW r \in Seq(S), NEW s \in Seq(S), NEW e \in S
  PROVE  r \o Append(s, e) = Append(r \o s, e)
  OBVIOUS

(* Tasks are taken exactly once and in the order pushed, through restarts  *)
(* of the worker and shutdowns.                                            *)
THEOREM PushOrder == Spec => []TakenInPushOrder
<1> USE TaskAssumption, ThreadAssumption, SpuriousAssumption
<1>1. Init => TakenInPushOrder
  BY DEF Init, TakenInPushOrder
<1>2. TypeOK /\ TakenInPushOrder /\ [Next]_vars => TakenInPushOrder'
  <2> SUFFICES ASSUME TypeOK, TakenInPushOrder, [Next]_vars
               PROVE TakenInPushOrder'
    OBVIOUS
  <2> USE DEF TakenInPushOrder, TypeOK
  <2>1. ASSUME NEW q \in Queues, TakeTask(q) PROVE TakenInPushOrder'
    <3>1. Append(ran[q], Head(tasks[q])) \o Tail(tasks[q]) = ran[q] \o tasks[q]
      BY <2>1, MoveHead DEF TakeTask
    <3> QED
      BY <2>1, <3>1 DEF TakeTask
  <2>2. ASSUME NEW t \in Threads, NEW q \in Queues, NEW task \in Tasks,
               PushTask(t, q, task)
        PROVE TakenInPushOrder'
    <3>1. ran[q] \o Append(tasks[q], task) = Append(ran[q] \o tasks[q], task)
      BY AppendToTail
    <3> QED
      BY <2>2, <3>1 DEF PushTask
  <2>3. CASE UNCHANGED <<tasks, pushed, ran>>
    BY <2>3
  <2> QED
    BY <2>1, <2>2, <2>3
    DEF Next, WorkerStep, Call, Notification, StartWorker, RunBegin, Lock,
        EvalPredicate, Block, TaskEnd, SpuriousWake, RunReturn, SetStop,
        NotifyOne, NotifyAll, vars, queueVars
<1> QED
  BY <1>1, <1>2, TypeCorrect, PTL DEF Spec
LEMMA AppendNonempty ==
  ASSUME NEW S, NEW s \in Seq(S), NEW e \in S
  PROVE  Append(s, e) # <<>>
  BY AppendProperties

(* A worker that leaves the predicate loop has a task or was shut down.    *)
TakeHasReason == \A q \in Queues : pc[q] = "take" => tasks[q] # <<>> \/ stop[q]

LEMMA Reason == Spec => []TakeHasReason
<1>1. Init => TakeHasReason
  BY DEF Init, TakeHasReason
<1>2. TypeOK /\ TakeHasReason /\ [Next]_vars => TakeHasReason'
  <2> SUFFICES ASSUME TypeOK, TakeHasReason, [Next]_vars PROVE TakeHasReason'
    OBVIOUS
  <2> USE DEF TakeHasReason, TypeOK, Goto
  <2>1. ASSUME NEW q \in Queues,
               StartWorker(q) \/ RunBegin(q) \/ Lock(q) \/ EvalPredicate(q)
               \/ Block(q) \/ TaskEnd(q) \/ SpuriousWake(q) \/ RunReturn(q)
               \/ TakeTask(q)
        PROVE TakeHasReason'
    BY <2>1 DEF StartWorker, RunBegin, Lock, EvalPredicate, Predicate, Block,
                TaskEnd, SpuriousWake, RunReturn, TakeTask
  <2>2. ASSUME NEW t \in Threads, NEW q \in Queues, NEW task \in Tasks,
               PushTask(t, q, task)
        PROVE TakeHasReason'
    <3>1. tasks[q] \in Seq(Tasks)
      OBVIOUS
    <3>2. Append(tasks[q], task) # <<>>
      BY <3>1, AppendNonempty
    <3> QED
      BY <2>2, <3>2 DEF PushTask
  <2>3. ASSUME NEW t \in Threads, NEW q \in Queues,
               SetStop(t, q) \/ NotifyOne(t, q) \/ NotifyAll(t, q)
        PROVE TakeHasReason'
    BY <2>3 DEF SetStop, NotifyOne, NotifyAll, WakeWorker
  <2>4. CASE UNCHANGED vars
    BY <2>4 DEF vars, queueVars
  <2> QED
    BY <2>1, <2>2, <2>3, <2>4 DEF Next, WorkerStep, Call, Notification
<1> QED
  BY <1>1, <1>2, TypeCorrect, PTL DEF Spec

(* Run returns only from a queue that was shut down and whose every task   *)
(* was taken.                                                              *)
THEOREM DrainedReturn == Spec => ReturnsOnlyDrained
<1>1. TypeOK /\ TakeHasReason /\ TakenInPushOrder /\ [Next]_vars
      => [\A q \in Queues : (pc'[q] = "returned" /\ pc[q] # "returned")
             => (stop[q] /\ pushed[q] = ran[q])]_vars
  <2> SUFFICES ASSUME TypeOK, TakeHasReason, TakenInPushOrder, Next,
                      NEW q \in Queues, pc'[q] = "returned", pc[q] # "returned"
               PROVE  stop[q] /\ pushed[q] = ran[q]
    OBVIOUS
  <2>1. RunReturn(q)
    BY DEF Next, WorkerStep, Call, Notification, StartWorker, RunBegin, Lock,
           EvalPredicate, Block, TaskEnd, SpuriousWake, TakeTask, RunReturn,
           PushTask, SetStop, NotifyOne, NotifyAll, WakeWorker, Goto, TypeOK
  <2>2. tasks[q] = <<>> /\ pc[q] = "take"
    BY <2>1 DEF RunReturn
  <2>3. pushed[q] = ran[q] \o <<>> /\ ran[q] \in Seq(Tasks)
    BY <2>2 DEF TakenInPushOrder, TypeOK
  <2> QED
    BY <2>2, <2>3 DEF TakeHasReason
<1> QED
  BY <1>1, Reason, TypeCorrect, PushOrder, PTL DEF Spec, ReturnsOnlyDrained

-----------------------------------------------------------------------------
(* The event.                                                              *)

Line == queue \o Reverse(newWaiters)
Queued(w) == Has(Line, w)
HandedBy(t, w) == Has(toResume[t], w)
IsLinked(w) == Queued(w) \/ \E t \in Users : HandedBy(t, w)

InSuspend == {"count", "take", "resume", "release"}
Counting == {w \in Waiters : at[w] = "count"}
Passing == {w \in Waiters : at[w] # "idle" /\ ~Queued(w)}

Types ==
    /\ sets \in Nat /\ waiters \in Nat /\ signals \in Int /\ passes \in Int
    /\ newWaiters \in Seq(Waiters) /\ queue \in Seq(Waiters)
    /\ at \in [Users -> {"idle", "suspended"} \cup InSuspend]
    /\ taking \in [Users -> Nat] /\ taken \in [Users -> Nat]
    /\ toResume \in [Users -> Seq(Waiters)]
    /\ refCount \in [Waiters -> Nat]
    /\ calls \in [Setters -> Nat]

ListIsOwned == sets > 0 /\ waiters > 0

\* The thread that owns the list of waiters: what it takes is there to take.
OneOwner ==
    /\ IF ListIsOwned THEN \E t \in Users : Owners = {t} ELSE Owners = {}
    /\ \A t \in Users :
         IF at[t] = "take"
         THEN taking[t] + taken[t] <= sets /\ taking[t] + taken[t] <= waiters
         ELSE taking[t] = 0 /\ taken[t] = 0

\* A waiter is in the queue, or in what one thread has to resume, or neither.
LinkedOnce ==
    /\ Once(Line)
    /\ \A t \in Users : /\ Once(toResume[t])
                        /\ toResume[t] # <<>> => at[t] \in {"take", "resume"}
    /\ \A t, u \in Users : \A w \in Waiters : HandedBy(t, w) /\ HandedBy(u, w) => t = u
    /\ \A t \in Users : \A w \in Waiters : ~(HandedBy(t, w) /\ Queued(w))

\* Who has still to let go of a waiter.
References == \A w \in Waiters :
    /\ refCount[w] = (IF IsLinked(w) THEN 1 ELSE 0) + (IF at[w] \in InSuspend THEN 1 ELSE 0)
    /\ at[w] = "idle" => ~IsLinked(w)
    /\ at[w] = "suspended" => IsLinked(w)

\* What the counts stand for when n waiters are taken off and not subtracted:
\* a waiter may be taken that is not counted yet.
Balance(n) ==
    /\ Len(Line) = waiters - n + Cardinality(Counting)
    /\ signals = passes + Cardinality(Passing) + sets - n
Counts ==
    /\ IsFiniteSet(Counting) /\ IsFiniteSet(Passing)
    /\ Owners = {} => Balance(0)
    /\ \A t \in Owners : Balance(taken[t])

IInv == Types /\ OneOwner /\ LinkedOnce /\ References /\ Counts
-----------------------------------------------------------------------------

LEMMA LineType ==
  ASSUME Types
  PROVE  /\ Line \in Seq(Waiters) /\ Len(Line) = Len(queue) + Len(newWaiters)
         /\ Len(Line) \in Nat
BY TwoParts DEF Types, Line

LEMMA OwnersAre ==
  ASSUME OneOwner, Types
  PROVE  /\ \A t \in Owners : Owners = {t} /\ ListIsOwned
         /\ \A t \in Users : t \in Owners <=> at[t] = "take"
BY DEF OneOwner, Owners

\* No waiter joins or leaves a list.
ListsKept == Line' = Line /\ toResume' = toResume

LEMMA SameLists ==
  ASSUME UNCHANGED <<newWaiters, queue, toResume>>
  PROVE  ListsKept
BY DEF ListsKept, Line

\* LinkedOnce says nothing more of the places of threads.
LEMMA LinksKept ==
  ASSUME LinkedOnce, ListsKept,
         \A t \in Users : at[t] \in {"take", "resume"} /\ toResume[t] # <<>>
                                => at'[t] \in {"take", "resume"}
  PROVE  LinkedOnce' /\ \A w \in Waiters : IsLinked(w)' <=> IsLinked(w)
BY DEF LinkedOnce, ListsKept, Queued, HandedBy, IsLinked

-----------------------------------------------------------------------------
(* co_await                                                                *)

LEMMA PassAtOnceStep ==
  ASSUME IInv, NEW w \in Waiters, PassAtOnce(w)
  PROVE  IInv'
<1>1. /\ sets > waiters /\ sets' = sets - 1 /\ passes' = passes + 1
      /\ UNCHANGED <<waiters, newWaiters, queue, at, taking, taken, toResume, refCount,
                     calls, signals>>
  BY DEF PassAtOnce, IsSet, lists, owner
<1>2. ListsKept
  BY <1>1, SameLists
<1>3. Types'
  BY <1>1 DEF IInv, Types
<1>4. OneOwner'
  <2>1. Owners' = Owners /\ (ListIsOwned' <=> ListIsOwned)
    BY <1>1 DEF IInv, Types, ListIsOwned, Owners
  <2>2. \A t \in Users : taking[t] \in Nat /\ taken[t] \in Nat
    BY DEF IInv, Types
  <2> QED
    BY <1>1, <2>1, <2>2 DEF IInv, Types, OneOwner
<1>5. LinkedOnce' /\ References'
  BY <1>1, <1>2, LinksKept DEF IInv, References
<1>6. Counts'
  <2>1. /\ Counting' = Counting /\ Passing' = Passing /\ Owners' = Owners /\ taken' = taken
    BY <1>1, <1>2 DEF Counting, Passing, Owners, Queued, ListsKept
  <2>2. ASSUME NEW n \in Nat, Balance(n) PROVE Balance(n)'
    BY <1>1, <1>2, <2>1, <2>2, FS_CardinalityType DEF IInv, Types, Counts, Balance, ListsKept
  <2> QED
    BY <2>1, <2>2 DEF IInv, Types, Counts, Owners
<1> QED
  BY <1>3, <1>4, <1>5, <1>6 DEF IInv

LEMMA PushStep ==
  ASSUME IInv, NEW w \in Waiters, Push(w)
  PROVE  IInv'
<1>1. /\ at[w] = "idle" /\ newWaiters' = <<w>> \o newWaiters
      /\ refCount' = [refCount EXCEPT ![w] = 2] /\ at' = [at EXCEPT ![w] = "count"]
      /\ UNCHANGED <<sets, waiters, queue, taking, taken, toResume, calls, signals, passes>>
  BY DEF Push, Continue, state, owner, history
<1>2. w \in Users /\ ~Queued(w) /\ \A t \in Users : ~HandedBy(t, w)
  BY <1>1 DEF IInv, References, IsLinked, Users
<1>3. /\ newWaiters' \in Seq(Waiters) /\ Line' = Append(Line, w)
      /\ Len(Line') = Len(Line) + 1 /\ Once(Line')
      /\ \A x \in Waiters : Queued(x)' <=> x = w \/ Queued(x)
  <2>1. newWaiters \in Seq(Waiters) /\ queue \in Seq(Waiters) /\ Line \in Seq(Waiters)
    BY LineType DEF IInv, Types
  <2>2. /\ newWaiters' \in Seq(Waiters) /\ Reverse(newWaiters') = Append(Reverse(newWaiters), w)
        /\ Reverse(newWaiters) \in Seq(Waiters)
    BY <1>1, <2>1, PushedStack, ReverseType
  <2>3. Line' = Append(Line, w)
    <3>1. queue \o Append(Reverse(newWaiters), w) = Append(queue \o Reverse(newWaiters), w)
      BY <2>1, <2>2
    <3> QED
      BY <1>1, <2>2, <3>1 DEF Line
  <2>4. Once(Line) /\ ~Has(Line, w)
    BY <1>2 DEF IInv, LinkedOnce, Queued
  <2>5. /\ Once(Append(Line, w)) /\ Len(Append(Line, w)) = Len(Line) + 1
        /\ \A x \in Waiters : Has(Append(Line, w), x) <=> x = w \/ Has(Line, x)
    BY <2>1, <2>4, AppendHas
  <2> QED
    BY <2>2, <2>3, <2>5 DEF Queued
<1>4. Types'
  BY <1>1, <1>3 DEF IInv, Types, InSuspend
<1>5. Owners' = Owners
  BY <1>1 DEF IInv, Types, Owners
<1>6. OneOwner'
  BY <1>1, <1>5 DEF IInv, Types, OneOwner, ListIsOwned
<1>7. \A t \in Users : \A x \in Waiters : HandedBy(t, x)' <=> HandedBy(t, x)
  BY <1>1 DEF HandedBy
<1>8. LinkedOnce'
  BY <1>1, <1>2, <1>3, <1>7 DEF IInv, Types, LinkedOnce
<1>9. References'
  <2>1. /\ IsLinked(w)' /\ refCount'[w] = 2 /\ at'[w] = "count"
        /\ \A x \in Waiters : x # w => /\ IsLinked(x)' <=> IsLinked(x)
                                       /\ refCount'[x] = refCount[x] /\ at'[x] = at[x]
    BY <1>1, <1>2, <1>3, <1>7 DEF IInv, Types, IsLinked, Users
  <2> QED
    BY <2>1 DEF IInv, References, InSuspend
<1>10. Counts'
  <2>1. Counting' = Counting \cup {w} /\ w \notin Counting /\ Passing' = Passing
    BY <1>1, <1>2, <1>3 DEF IInv, Types, Counting, Passing
  <2>2. /\ IsFiniteSet(Counting') /\ Cardinality(Counting) \in Nat
        /\ Cardinality(Counting') = Cardinality(Counting) + 1
    BY <2>1, OneMore DEF IInv, Counts
  <2>3. ASSUME NEW n \in Nat, Balance(n) PROVE Balance(n)'
    BY <1>1, <1>3, <2>1, <2>2, <2>3, LineType DEF IInv, Types, Balance
  <2> QED
    BY <1>1, <1>5, <2>1, <2>2, <2>3 DEF IInv, Types, Counts, Owners
<1> QED
  BY <1>4, <1>6, <1>8, <1>9, <1>10 DEF IInv

\* Whoever makes both counts positive becomes the owner.
LEMMA CountWaiterStep ==
  ASSUME IInv, NEW w \in Waiters, CountWaiter(w)
  PROVE  IInv'
<1>1. /\ at[w] = "count" /\ waiters' = waiters + 1 /\ sets' = sets
      /\ UNCHANGED <<newWaiters, queue, taken, toResume, refCount, calls, signals, passes>>
      /\ \/ /\ waiters = 0 /\ sets > 0 /\ at' = [at EXCEPT ![w] = "take"]
            /\ taking' = [taking EXCEPT ![w] = Smaller(sets', waiters')]
         \/ /\ ~(waiters = 0 /\ sets > 0)
            /\ at' = [at EXCEPT ![w] = "release"] /\ taking' = taking
  BY DEF CountWaiter, Own, Continue, lists, history, IInv, Types
<1>2. ListsKept /\ w \in Users
  BY <1>1, SameLists DEF Users
<1>3. at' \in [Users -> {"idle", "suspended"} \cup InSuspend]
      /\ (\A t \in Users : t # w => at'[t] = at[t]) /\ at'[w] \in {"take", "release"}
  BY <1>1, <1>2 DEF IInv, Types, InSuspend
<1>4. Types'
  <2>1. Smaller(sets', waiters') \in Nat
    BY <1>1 DEF IInv, Types, Smaller
  <2>2. taking' \in [Users -> Nat]
    BY <1>1, <2>1 DEF IInv, Types
  <2> QED
    BY <1>1, <1>3, <2>2 DEF IInv, Types
<1>5. OneOwner' /\ Owners' = IF waiters = 0 /\ sets > 0 THEN {w} ELSE Owners
  <2>1. CASE waiters = 0 /\ sets > 0
    <3>1. Owners = {} /\ Owners' = {w} /\ ListIsOwned' /\ taken[w] = 0 /\ taking'[w] = 1
      BY <1>1, <1>2, <1>3, <2>1 DEF IInv, Types, OneOwner, ListIsOwned, Owners, Smaller
    <3>2. \A t \in Users : t # w => taking'[t] = 0 /\ taken'[t] = 0 /\ at'[t] # "take"
      BY <1>1, <1>3, <3>1 DEF IInv, Types, OneOwner, Owners
    <3>3. at'[w] = "take" /\ taken'[w] = 0 /\ waiters' = 1 /\ sets' >= 1
      BY <1>1, <1>2, <2>1, <3>1 DEF IInv, Types
    <3>4. OneOwner'
      BY <1>2, <3>1, <3>2, <3>3 DEF OneOwner
    <3> QED
      BY <2>1, <3>1, <3>4
  <2>2. CASE ~(waiters = 0 /\ sets > 0)
    <3>1. Owners' = Owners /\ (ListIsOwned' <=> ListIsOwned)
      BY <1>1, <1>3, <2>2 DEF IInv, Types, ListIsOwned, Owners
    <3> QED
      BY <1>1, <1>2, <1>3, <2>2, <3>1 DEF IInv, Types, OneOwner
  <2> QED
    BY <2>1, <2>2
<1>6. LinkedOnce' /\ \A x \in Waiters : IsLinked(x)' <=> IsLinked(x)
  BY <1>1, <1>2, <1>3, LinksKept DEF IInv
<1>7. References'
  BY <1>1, <1>3, <1>6 DEF IInv, References, InSuspend, Users
<1>8. Counts'
  <2>1. Counting' = Counting \ {w} /\ w \in Counting /\ Passing' = Passing
    BY <1>1, <1>2, <1>3 DEF Counting, Passing, Queued, ListsKept, Users
  <2>2. /\ IsFiniteSet(Counting') /\ Cardinality(Counting') \in Nat
        /\ Cardinality(Counting) = Cardinality(Counting') + 1
    BY <2>1, OneFewer DEF IInv, Counts
  <2>3. ASSUME NEW n \in Nat, Balance(n) PROVE Balance(n)'
    BY <1>1, <1>2, <2>1, <2>2, <2>3, LineType DEF IInv, Types, Balance, ListsKept
  <2>4. CASE waiters = 0 /\ sets > 0
    <3>1. Owners = {} /\ taken'[w] = 0
      BY <1>1, <1>2, <2>4 DEF IInv, OneOwner, ListIsOwned
    <3> QED
      BY <1>5, <2>1, <2>2, <2>3, <2>4, <3>1 DEF IInv, Counts
  <2>5. CASE ~(waiters = 0 /\ sets > 0)
    BY <1>1, <1>5, <2>1, <2>2, <2>3, <2>5 DEF IInv, Types, Counts, Owners
  <2> QED
    BY <2>4, <2>5
<1> QED
  BY <1>4, <1>5, <1>6, <1>7, <1>8 DEF IInv

LEMMA ReleaseSelfStep ==
  ASSUME IInv, NEW w \in Waiters, ReleaseSelf(w)
  PROVE  IInv'
<1>1. /\ at[w] = "release" /\ refCount' = [refCount EXCEPT ![w] = @ - 1]
      /\ UNCHANGED <<sets, waiters, newWaiters, queue, taking, taken, toResume, calls, signals>>
      /\ at' = [at EXCEPT ![w] = IF refCount[w] = 1 THEN "idle" ELSE "suspended"]
      /\ passes' = IF refCount[w] = 1 THEN passes + 1 ELSE passes
  BY DEF ReleaseSelf, Continue, state, lists, owner
<1>2. ListsKept /\ w \in Users
  BY <1>1, SameLists DEF Users
<1>3. IF IsLinked(w) THEN refCount[w] = 2 ELSE refCount[w] = 1
  BY <1>1 DEF IInv, References, InSuspend
<1>4. /\ at' \in [Users -> {"idle", "suspended"} \cup InSuspend]
      /\ \A t \in Users : t # w => at'[t] = at[t]
      /\ at'[w] = IF IsLinked(w) THEN "suspended" ELSE "idle"
  BY <1>1, <1>2, <1>3 DEF IInv, Types
<1>5. Types'
  BY <1>1, <1>3, <1>4 DEF IInv, Types
<1>6. Owners' = Owners
  BY <1>1, <1>4 DEF Owners
<1>7. OneOwner'
  BY <1>1, <1>4, <1>6 DEF IInv, OneOwner, ListIsOwned
<1>8. toResume[w] = <<>>
  BY <1>1, <1>2 DEF IInv, LinkedOnce
<1>9. LinkedOnce' /\ \A x \in Waiters : IsLinked(x)' <=> IsLinked(x)
  BY <1>1, <1>2, <1>4, <1>8, LinksKept DEF IInv
<1>10. References'
  <2>1. refCount'[w] = IF IsLinked(w) THEN 1 ELSE 0
    BY <1>1, <1>3 DEF IInv, Types
  <2>2. \A x \in Waiters : x # w => refCount'[x] = refCount[x] /\ at'[x] = at[x]
    BY <1>1, <1>4 DEF IInv, Types, Users
  <2> QED
    BY <1>4, <1>9, <2>1, <2>2 DEF IInv, References, InSuspend
<1>11. Counts'
  <2>1. Counting' = Counting /\ \A x \in Waiters : Queued(x)' <=> Queued(x)
    BY <1>1, <1>2, <1>4 DEF Counting, Queued, ListsKept, Users
  <2>2. CASE IsLinked(w)
    <3>1. Passing' = Passing /\ passes' = passes
      BY <1>1, <1>3, <1>4, <2>1, <2>2 DEF Passing, Users
    <3>2. ASSUME NEW n \in Nat, Balance(n) PROVE Balance(n)'
      BY <1>1, <1>2, <2>1, <3>1, <3>2 DEF Balance, ListsKept
    <3> QED
      BY <1>1, <1>6, <2>1, <3>1, <3>2 DEF IInv, Types, Counts, Owners
  <2>3. CASE ~IsLinked(w)
    <3>1. Passing' = Passing \ {w} /\ w \in Passing /\ passes' = passes + 1
      BY <1>1, <1>3, <1>4, <2>1, <2>3 DEF Passing, Users, IsLinked
    <3>2. /\ IsFiniteSet(Passing') /\ Cardinality(Passing') \in Nat
          /\ Cardinality(Passing) = Cardinality(Passing') + 1
      BY <3>1, OneFewer DEF IInv, Counts
    <3>3. ASSUME NEW n \in Nat, Balance(n) PROVE Balance(n)'
      BY <1>1, <1>2, <2>1, <3>1, <3>2, <3>3 DEF IInv, Types, Balance, ListsKept
    <3> QED
      BY <1>1, <1>6, <2>1, <3>2, <3>3 DEF IInv, Types, Counts, Owners
  <2> QED
    BY <2>2, <2>3
<1> QED
  BY <1>5, <1>7, <1>9, <1>10, <1>11 DEF IInv
-----------------------------------------------------------------------------
(* set and reset: a setter is no waiter.                                   *)

LEMMA SetStep ==
  ASSUME IInv, NEW s \in Setters, Set(s)
  PROVE  IInv'
<1>1. /\ at[s] = "idle" /\ sets <= waiters /\ sets' = sets + 1 /\ signals' = signals + 1
      /\ calls[s] > 0 /\ calls' = [calls EXCEPT ![s] = @ - 1]
      /\ UNCHANGED <<waiters, newWaiters, queue, taken, toResume, refCount, passes>>
      /\ \/ /\ sets = 0 /\ waiters > 0 /\ at' = [at EXCEPT ![s] = "take"]
            /\ taking' = [taking EXCEPT ![s] = Smaller(sets', waiters')]
         \/ /\ ~(sets = 0 /\ waiters > 0)
            /\ at' = [at EXCEPT ![s] = "idle"] /\ taking' = taking
  BY DEF Set, UseCall, IsSet, Own, Continue, lists, IInv, Types
<1>2. ListsKept /\ s \in Users /\ s \notin Waiters
  BY <1>1, SameLists, EventAssumption DEF Users
<1>3. at' \in [Users -> {"idle", "suspended"} \cup InSuspend]
      /\ (\A t \in Users : t # s => at'[t] = at[t]) /\ at'[s] \in {"take", "idle"}
  BY <1>1, <1>2 DEF IInv, Types, InSuspend
<1>4. Types'
  <2>1. Smaller(sets', waiters') \in Nat
    BY <1>1 DEF IInv, Types, Smaller
  <2>2. taking' \in [Users -> Nat]
    BY <1>1, <2>1 DEF IInv, Types
  <2>3. calls' \in [Setters -> Nat]
    BY <1>1 DEF IInv, Types
  <2> QED
    BY <1>1, <1>3, <2>2, <2>3 DEF IInv, Types
<1>5. OneOwner' /\ Owners' = IF sets = 0 /\ waiters > 0 THEN {s} ELSE Owners
  <2>1. CASE sets = 0 /\ waiters > 0
    <3>1. Owners = {} /\ Owners' = {s} /\ ListIsOwned' /\ taken[s] = 0 /\ taking'[s] = 1
      BY <1>1, <1>2, <1>3, <2>1 DEF IInv, Types, OneOwner, ListIsOwned, Owners, Smaller
    <3>2. \A t \in Users : t # s => taking'[t] = 0 /\ taken'[t] = 0 /\ at'[t] # "take"
      BY <1>1, <1>3, <3>1 DEF IInv, Types, OneOwner, Owners
    <3>3. at'[s] = "take" /\ taken'[s] = 0 /\ sets' = 1 /\ waiters' >= 1
      BY <1>1, <1>2, <2>1, <3>1 DEF IInv, Types
    <3>4. OneOwner'
      BY <1>2, <3>1, <3>2, <3>3 DEF OneOwner
    <3> QED
      BY <2>1, <3>1, <3>4
  <2>2. CASE ~(sets = 0 /\ waiters > 0)
    <3>1. Owners' = Owners /\ (ListIsOwned' <=> ListIsOwned)
      BY <1>1, <1>3, <2>2 DEF IInv, Types, ListIsOwned, Owners
    <3> QED
      BY <1>1, <1>2, <1>3, <2>2, <3>1 DEF IInv, Types, OneOwner
  <2> QED
    BY <2>1, <2>2
<1>6. LinkedOnce' /\ \A x \in Waiters : IsLinked(x)' <=> IsLinked(x)
  BY <1>1, <1>2, <1>3, LinksKept DEF IInv
<1>7. References'
  BY <1>1, <1>2, <1>3, <1>6 DEF IInv, References, Users
<1>8. Counts'
  <2>1. Counting' = Counting /\ Passing' = Passing
    BY <1>2, <1>3 DEF Counting, Passing, Queued, ListsKept, Users
  <2>2. ASSUME NEW n \in Nat, Balance(n) PROVE Balance(n)'
    <3>1. Len(Line') = waiters' - n + Cardinality(Counting')
      BY <1>1, <1>2, <2>1, <2>2 DEF Balance, ListsKept
    <3>2. Cardinality(Passing) \in Nat
      BY FS_CardinalityType DEF IInv, Counts
    <3>3. signals' = passes' + Cardinality(Passing') + sets' - n
      <4>1. /\ signals = passes + Cardinality(Passing) + sets - n
            /\ signals \in Int /\ passes \in Int /\ sets \in Nat
        BY <2>2 DEF Balance, IInv, Types
      <4>2. signals' = signals + 1 /\ sets' = sets + 1 /\ passes' = passes
            /\ Passing' = Passing
        BY <1>1, <2>1
      <4> QED
        BY <3>2, <4>1, <4>2
    <3> QED
      BY <3>1, <3>3 DEF Balance
  <2>3. CASE sets = 0 /\ waiters > 0
    <3>1. Owners = {} /\ taken'[s] = 0
      BY <1>1, <1>2, <2>3 DEF IInv, OneOwner, ListIsOwned
    <3> QED
      BY <1>5, <2>1, <2>2, <2>3, <3>1 DEF IInv, Counts
  <2>4. CASE ~(sets = 0 /\ waiters > 0)
    BY <1>1, <1>5, <2>1, <2>2, <2>4 DEF IInv, Types, Counts, Owners
  <2> QED
    BY <2>3, <2>4
<1> QED
  BY <1>4, <1>5, <1>6, <1>7, <1>8 DEF IInv

LEMMA ResetStep ==
  ASSUME IInv, NEW s \in Setters, Reset(s)
  PROVE  IInv'
<1>1. /\ sets > waiters /\ sets' = sets - 1 /\ signals' = signals - 1
      /\ calls[s] > 0 /\ calls' = [calls EXCEPT ![s] = @ - 1]
      /\ UNCHANGED <<waiters, newWaiters, queue, at, taking, taken, toResume, refCount, passes>>
  BY DEF Reset, UseCall, IsSet, lists, owner
<1>2. ListsKept
  BY <1>1, SameLists
<1>3. Types'
  BY <1>1 DEF IInv, Types
<1>4. OneOwner'
  <2>1. Owners' = Owners /\ (ListIsOwned' <=> ListIsOwned)
    BY <1>1 DEF IInv, Types, ListIsOwned, Owners
  <2>2. \A t \in Users : taking[t] \in Nat /\ taken[t] \in Nat
    BY DEF IInv, Types
  <2> QED
    BY <1>1, <2>1, <2>2 DEF IInv, Types, OneOwner
<1>5. LinkedOnce' /\ References'
  BY <1>1, <1>2, LinksKept DEF IInv, References
<1>6. Counts'
  <2>1. /\ Counting' = Counting /\ Passing' = Passing /\ Owners' = Owners /\ taken' = taken
    BY <1>1, <1>2 DEF Counting, Passing, Owners, Queued, ListsKept
  <2>2. ASSUME NEW n \in Nat, Balance(n) PROVE Balance(n)'
    BY <1>1, <1>2, <2>1, <2>2, FS_CardinalityType DEF IInv, Types, Counts, Balance, ListsKept
  <2> QED
    BY <2>1, <2>2 DEF IInv, Types, Counts, Owners
<1> QED
  BY <1>3, <1>4, <1>5, <1>6 DEF IInv

-----------------------------------------------------------------------------
(* resume_waiters                                                          *)

\* The owner takes the oldest waiter, which may not have been counted yet.
LEMMA TakeOneStep ==
  ASSUME IInv, NEW t \in Users, TakeOne(t)
  PROVE  IInv'
<1> DEFINE all == IF queue = <<>> THEN Reverse(newWaiters) ELSE queue
<1>1. /\ at[t] = "take" /\ taking[t] > 0 /\ all # <<>> /\ queue' = Tail(all)
      /\ toResume' = [toResume EXCEPT ![t] = Append(@, Head(all))]
      /\ newWaiters' = IF queue = <<>> THEN <<>> ELSE newWaiters
      /\ taking' = [taking EXCEPT ![t] = @ - 1] /\ taken' = [taken EXCEPT ![t] = @ + 1]
      /\ UNCHANGED <<sets, waiters, at, refCount, calls, signals, passes>>
  BY DEF TakeOne, state, history
<1>2. /\ newWaiters' \in Seq(Waiters) /\ queue' \in Seq(Waiters)
      /\ Line # <<>> /\ Head(Line) = Head(all) /\ Line' = Tail(Line)
  <2>1. queue \in Seq(Waiters) /\ newWaiters \in Seq(Waiters)
    BY DEF IInv, Types
  <2>2. /\ Reverse(newWaiters) \in Seq(Waiters) /\ newWaiters' \in Seq(Waiters)
        /\ all \in Seq(Waiters) /\ Tail(all) \in Seq(Waiters)
    BY <1>1, <2>1, ReverseType
  <2>3. CASE queue = <<>>
    <3>1. all = Reverse(newWaiters) /\ newWaiters' = <<>>
      BY <1>1, <2>3
    <3>2. Line = all /\ Reverse(newWaiters') = <<>>
      BY <2>2, <2>3, <3>1, ReverseEmpty DEF Line
    <3>3. Tail(all) \o <<>> = Tail(all)
      BY <2>2
    <3>4. Line' = Tail(all)
      BY <1>1, <3>2, <3>3, Zenon DEF Line
    <3> QED
      BY <1>1, <2>2, <3>2, <3>4
  <2>4. CASE queue # <<>>
    <3>1. all = queue /\ newWaiters' = newWaiters
      BY <1>1, <2>4
    <3>2. /\ queue \o Reverse(newWaiters) # <<>>
          /\ Head(queue \o Reverse(newWaiters)) = Head(queue)
          /\ Tail(queue \o Reverse(newWaiters)) = Tail(queue) \o Reverse(newWaiters)
      <4>1. Reverse(newWaiters) \in Seq(Waiters)
        BY <2>2
      <4> QED
        BY <2>1, <2>4, <4>1, HeadOfConcat, Zenon
    <3> QED
      BY <1>1, <2>2, <3>1, <3>2 DEF Line
  <2> QED
    BY <1>1, <2>2, <2>3, <2>4
<1> HIDE DEF all
<1>3. PICK h \in Waiters : h = Head(all)
  BY <1>2, LineType DEF IInv
<1>4. /\ Queued(h) /\ Once(Line') /\ Len(Line) = Len(Line') + 1 /\ Len(Line') \in Nat
      /\ \A x \in Waiters : Queued(x)' <=> x # h /\ Queued(x)
  <2>1. Line \in Seq(Waiters) /\ Len(Line) \in Nat /\ Once(Line)
    BY LineType DEF IInv, LinkedOnce
  <2>2. /\ Has(Line, h) /\ Once(Tail(Line))
        /\ \A x \in Waiters : Has(Tail(Line), x) <=> x # h /\ Has(Line, x)
    BY <1>2, <1>3, <2>1, TailHas
  <2>3. Len(Line) = Len(Tail(Line)) + 1 /\ Len(Tail(Line)) \in Nat
    BY <1>2, <2>1
  <2> QED
    BY <1>2, <2>2, <2>3 DEF Queued
<1>5. /\ toResume' \in [Users -> Seq(Waiters)] /\ Once(toResume'[t])
      /\ \A x \in Waiters : HandedBy(t, x)' <=> x = h \/ HandedBy(t, x)
      /\ \A u \in Users : u # t => toResume'[u] = toResume[u]
  <2>1. toResume \in [Users -> Seq(Waiters)] /\ toResume'[t] = Append(toResume[t], h)
    BY <1>1, <1>3 DEF IInv, Types
  <2>2. Once(toResume[t]) /\ ~Has(toResume[t], h)
    BY <1>4 DEF IInv, LinkedOnce, HandedBy
  <2>3. /\ Append(toResume[t], h) \in Seq(Waiters) /\ Once(Append(toResume[t], h))
        /\ \A x \in Waiters : Has(Append(toResume[t], h), x) <=> x = h \/ Has(toResume[t], x)
    BY <2>1, <2>2, AppendHas
  <2> QED
    BY <1>1, <1>3, <2>1, <2>3 DEF HandedBy
<1>6. Types'
  <2>1. taking[t] \in Nat /\ taking[t] - 1 \in Nat /\ taken[t] + 1 \in Nat
    BY SMTT(60), <1>1 DEF IInv, Types
  <2>2. taking' \in [Users -> Nat] /\ taken' \in [Users -> Nat]
    BY <1>1, <2>1 DEF IInv, Types
  <2> QED
    BY <1>1, <1>2, <1>5, <2>2 DEF IInv, Types
<1>7. Owners' = Owners /\ Owners = {t}
  BY <1>1, OwnersAre DEF IInv, Owners
<1>8. OneOwner'
  <2>1. /\ taking[t] \in Nat /\ taken[t] \in Nat
        /\ taking'[t] = taking[t] - 1 /\ taken'[t] = taken[t] + 1
        /\ \A u \in Users : u # t => taking'[u] = taking[u] /\ taken'[u] = taken[u]
    BY <1>1 DEF IInv, Types
  <2>2. ListIsOwned' <=> ListIsOwned
    BY <1>1 DEF ListIsOwned
  <2> QED
    BY <1>1, <1>7, <2>1, <2>2 DEF IInv, OneOwner
<1>9. LinkedOnce'
  <2>1. \A u \in Users : \A x \in Waiters : u # t => (HandedBy(u, x)' <=> HandedBy(u, x))
    BY <1>5 DEF HandedBy
  <2>2. /\ \A u \in Users : Once(toResume'[u])
        /\ \A u \in Users : toResume'[u] # <<>> => at'[u] \in {"take", "resume"}
    BY <1>1, <1>5 DEF IInv, LinkedOnce
  <2>3. \A u, v \in Users : \A x \in Waiters : HandedBy(u, x)' /\ HandedBy(v, x)' => u = v
    BY <1>4, <1>5, <2>1 DEF IInv, LinkedOnce
  <2>4. \A u \in Users : \A x \in Waiters : ~(HandedBy(u, x)' /\ Queued(x)')
    BY <1>4, <1>5, <2>1 DEF IInv, LinkedOnce
  <2> QED
    BY <1>4, <2>2, <2>3, <2>4 DEF LinkedOnce
<1>10. References'
  <2>1. \A u \in Users : \A x \in Waiters : u # t => (HandedBy(u, x)' <=> HandedBy(u, x))
    BY <1>5 DEF HandedBy
  <2>2. \A x \in Waiters : IsLinked(x)' <=> IsLinked(x)
    BY <1>4, <1>5, <2>1 DEF IsLinked
  <2> QED
    BY <1>1, <2>2 DEF IInv, References
<1>11. Counts'
  <2>1. at[h] # "idle"
    BY <1>4 DEF IInv, References, IsLinked
  <2>2. Counting' = Counting /\ Passing' = Passing \cup {h} /\ h \notin Passing
    BY <1>1, <1>4, <2>1 DEF Counting, Passing
  <2>3. /\ IsFiniteSet(Passing') /\ Cardinality(Passing) \in Nat
        /\ Cardinality(Passing') = Cardinality(Passing) + 1
    BY <2>2, OneMore DEF IInv, Counts
  <2>4. taken[t] \in Nat /\ taken'[t] = taken[t] + 1 /\ Balance(taken[t])
    BY <1>1, <1>7 DEF IInv, Types, Counts
  <2>5. Cardinality(Counting) \in Nat
    BY FS_CardinalityType DEF IInv, Counts
  <2>6. Len(Line') = waiters - (taken[t] + 1) + Cardinality(Counting)
    <3>1. Len(Line) = waiters - taken[t] + Cardinality(Counting) /\ waiters \in Nat
      BY <2>4 DEF Balance, IInv, Types
    <3> QED
      BY <1>4, <2>4, <2>5, <3>1
  <2>7. signals = passes + (Cardinality(Passing) + 1) + sets - (taken[t] + 1)
    <3>1. /\ signals = passes + Cardinality(Passing) + sets - taken[t]
          /\ signals \in Int /\ passes \in Int /\ sets \in Nat
      BY <2>4 DEF Balance, IInv, Types
    <3> QED
      BY <2>3, <2>4, <3>1
  <2>8. Balance(taken[t])'
    BY <1>1, <2>2, <2>3, <2>4, <2>6, <2>7 DEF Balance
  <2> QED
    BY <1>7, <2>2, <2>3, <2>8 DEF IInv, Counts
<1> QED
  BY <1>6, <1>8, <1>9, <1>10, <1>11 DEF IInv

\* The lock is given up exactly when one of the counts is used up.
LEMMA SubtractStep ==
  ASSUME IInv, NEW t \in Users, Subtract(t)
  PROVE  IInv'
<1>1. /\ at[t] = "take" /\ taking[t] = 0
      /\ sets' = sets - taken[t] /\ waiters' = waiters - taken[t]
      /\ taken' = [taken EXCEPT ![t] = 0]
      /\ taking' = [taking EXCEPT ![t] = Smaller(sets', waiters')]
      /\ at' = [at EXCEPT ![t] = IF Smaller(sets', waiters') > 0 THEN "take" ELSE "resume"]
      /\ UNCHANGED <<newWaiters, queue, toResume, refCount, calls, signals, passes>>
  BY DEF Subtract, Continue, lists, history
<1>2. ListsKept
  BY <1>1, SameLists
<1>3. Owners = {t} /\ taken[t] \in Nat /\ taken[t] <= sets /\ taken[t] <= waiters
  BY SMTT(60), <1>1, OwnersAre DEF IInv, Types, OneOwner, Owners
<1>4. /\ sets' \in Nat /\ waiters' \in Nat /\ Smaller(sets', waiters') \in Nat
      /\ Smaller(sets', waiters') <= sets' /\ Smaller(sets', waiters') <= waiters'
      /\ Smaller(sets', waiters') > 0 <=> ListIsOwned'
  <2>1. /\ sets \in Nat /\ waiters \in Nat
        /\ sets' \in Nat /\ waiters' \in Nat
    BY <1>1, <1>3 DEF IInv, Types
  <2> QED
    BY <2>1 DEF Smaller, ListIsOwned
<1>5. /\ taken'[t] = 0 /\ taking'[t] = Smaller(sets', waiters')
      /\ at'[t] = IF ListIsOwned' THEN "take" ELSE "resume"
      /\ \A u \in Users : u # t => at'[u] = at[u] /\ taking'[u] = taking[u] /\ taken'[u] = taken[u]
  BY <1>1, <1>4 DEF IInv, Types
<1>6. Types'
  <2>1. /\ at' \in [Users -> {"idle", "suspended"} \cup InSuspend]
        /\ taking' \in [Users -> Nat] /\ taken' \in [Users -> Nat]
    BY <1>1, <1>4 DEF IInv, Types, InSuspend
  <2> QED
    BY <1>1, <1>4, <2>1 DEF IInv, Types
<1>7. Owners' = IF ListIsOwned' THEN {t} ELSE {}
  BY <1>3, <1>5 DEF Owners
<1>8. OneOwner'
  <2>1. \A u \in Users : u # t => at[u] # "take"
    BY <1>3 DEF Owners
  <2>2. \A u \in Users : u # t => at'[u] # "take" /\ taking'[u] = 0 /\ taken'[u] = 0
    BY <1>5, <2>1 DEF IInv, OneOwner
  <2>3. IF at'[t] = "take"
        THEN taking'[t] + taken'[t] <= sets' /\ taking'[t] + taken'[t] <= waiters'
        ELSE taking'[t] = 0 /\ taken'[t] = 0
    BY <1>4, <1>5
  <2> QED
    BY <1>7, <2>2, <2>3 DEF OneOwner
<1>9. LinkedOnce' /\ \A x \in Waiters : IsLinked(x)' <=> IsLinked(x)
  BY <1>1, <1>2, <1>5, LinksKept DEF IInv
<1>10. References'
  BY <1>1, <1>5, <1>9 DEF IInv, References, InSuspend, Users
<1>11. Counts'
  <2>1. Counting' = Counting /\ Passing' = Passing
    BY <1>1, <1>2, <1>5 DEF Counting, Passing, Queued, ListsKept, Users
  <2>2. Balance(taken[t]) /\ Cardinality(Counting) \in Nat /\ Cardinality(Passing) \in Nat
    BY <1>3, FS_CardinalityType DEF IInv, Counts
  <2>3. /\ Len(Line) = (waiters - taken[t]) - 0 + Cardinality(Counting)
        /\ signals = passes + Cardinality(Passing) + (sets - taken[t]) - 0
    BY <1>3, <2>2 DEF IInv, Types, Balance
  <2>4. Balance(0)'
    BY <1>1, <1>2, <2>1, <2>3 DEF Balance, ListsKept
  <2> QED
    BY <1>5, <1>7, <2>1, <2>4 DEF IInv, Counts
<1> QED
  BY <1>6, <1>8, <1>9, <1>10, <1>11 DEF IInv

\* The last one to let go of a waiter resumes it; it was suspended.
LEMMA ResumeOneStep ==
  ASSUME IInv, NEW t \in Users, ResumeOne(t)
  PROVE  IInv'
<1>1. /\ at[t] = "resume" /\ toResume[t] # <<>> /\ toResume[t] \in Seq(Waiters)
      /\ Head(toResume[t]) \in Waiters
  BY DEF ResumeOne, IInv, Types
<1> PICK h \in Waiters : h = Head(toResume[t])
  BY <1>1
<1>2. /\ refCount' = [refCount EXCEPT ![h] = @ - 1]
      /\ IF refCount[h] = 1 THEN at' = [at EXCEPT ![h] = "idle"] /\ passes' = passes + 1
                            ELSE at' = at /\ passes' = passes
      /\ toResume' = [toResume EXCEPT ![t] = Tail(@)]
      /\ UNCHANGED <<sets, waiters, newWaiters, queue, taking, taken, calls, signals>>
  BY DEF ResumeOne, Continue, state, lists
<1>3. /\ toResume' \in [Users -> Seq(Waiters)] /\ Once(toResume'[t])
      /\ HandedBy(t, h) /\ \A x \in Waiters : HandedBy(t, x)' <=> x # h /\ HandedBy(t, x)
      /\ \A u \in Users : u # t => toResume'[u] = toResume[u]
  <2>1. /\ toResume \in [Users -> Seq(Waiters)] /\ toResume'[t] = Tail(toResume[t])
        /\ Tail(toResume[t]) \in Seq(Waiters) /\ Once(toResume[t])
    BY <1>1, <1>2 DEF IInv, Types, LinkedOnce
  <2>2. /\ Has(toResume[t], h) /\ Once(Tail(toResume[t]))
        /\ \A x \in Waiters : Has(Tail(toResume[t]), x) <=> x # h /\ Has(toResume[t], x)
    BY <1>1, <2>1, TailHas
  <2> QED
    BY <1>2, <2>1, <2>2 DEF HandedBy
<1>4. /\ Line' = Line /\ \A x \in Waiters : Queued(x)' <=> Queued(x)
      /\ \A u \in Users : \A x \in Waiters : u # t => (HandedBy(u, x)' <=> HandedBy(u, x))
  BY <1>2, <1>3 DEF Line, Queued, HandedBy
<1>5. /\ IsLinked(h) /\ ~IsLinked(h)' /\ ~Queued(h)
      /\ \A x \in Waiters : x # h => (IsLinked(x)' <=> IsLinked(x))
  BY <1>3, <1>4 DEF IInv, LinkedOnce, IsLinked
<1>6. /\ h \in Users
      /\ refCount[h] = IF at[h] = "suspended" THEN 1 ELSE 2
      /\ at[h] \in InSuspend \/ at[h] = "suspended"
  BY <1>5 DEF IInv, Types, References, InSuspend, Users
<1>7. /\ at' \in [Users -> {"idle", "suspended"} \cup InSuspend]
      /\ at'[h] = IF at[h] = "suspended" THEN "idle" ELSE at[h]
      /\ \A u \in Users : u # h => at'[u] = at[u]
      /\ passes' = IF at[h] = "suspended" THEN passes + 1 ELSE passes
  <2>1. at \in [Users -> {"idle", "suspended"} \cup InSuspend]
    BY DEF IInv, Types
  <2>2. CASE at[h] = "suspended"
    BY <1>2, <1>6, <2>1, <2>2
  <2>3. CASE at[h] # "suspended"
    BY <1>2, <1>6, <2>1, <2>3
  <2> QED
    BY <2>2, <2>3
<1>8. Types'
  <2>1. refCount' \in [Waiters -> Nat]
    BY <1>2, <1>6 DEF IInv, Types
  <2> QED
    BY <1>2, <1>3, <1>7, <2>1 DEF IInv, Types
<1>9. Owners' = Owners
  BY <1>7 DEF Owners
<1>10. OneOwner'
  <2>1. \A u \in Users : at'[u] = "take" <=> at[u] = "take"
    BY <1>7
  <2> QED
    BY <1>2, <1>9, <2>1 DEF IInv, OneOwner, ListIsOwned
<1>11. LinkedOnce'
  <2>1. ASSUME NEW u \in Users, toResume'[u] # <<>> PROVE at'[u] \in {"take", "resume"}
    <3>1. toResume[u] # <<>>
      BY <1>1, <1>3, <2>1
    <3>2. at[u] \in {"take", "resume"}
      BY <3>1 DEF IInv, LinkedOnce
    <3> QED
      BY <1>7, <3>2
  <2>2. \A u \in Users : Once(toResume'[u])
    BY <1>3 DEF IInv, LinkedOnce
  <2>3. \A u, v \in Users : \A x \in Waiters : HandedBy(u, x)' /\ HandedBy(v, x)' => u = v
    BY <1>3, <1>4 DEF IInv, LinkedOnce
  <2>4. \A u \in Users : \A x \in Waiters : ~(HandedBy(u, x)' /\ Queued(x)')
    BY <1>3, <1>4 DEF IInv, LinkedOnce
  <2> QED
    BY <1>4, <2>1, <2>2, <2>3, <2>4 DEF IInv, LinkedOnce
<1>12. References'
  <2>1. refCount'[h] = IF at[h] = "suspended" THEN 0 ELSE 1
    BY <1>2, <1>6 DEF IInv, Types
  <2>2. \A x \in Waiters : x # h => refCount'[x] = refCount[x] /\ at'[x] = at[x]
    BY <1>2, <1>7 DEF IInv, Types, Users
  <2> QED
    BY <1>5, <1>6, <1>7, <2>1, <2>2 DEF IInv, References, InSuspend
<1>13. Counts'
  <2>1. Counting' = Counting
    BY <1>6, <1>7 DEF Counting, Users
  <2>2. CASE at[h] = "suspended"
    <3>1. Passing' = Passing \ {h} /\ h \in Passing /\ passes' = passes + 1
      BY <1>4, <1>5, <1>7, <2>2 DEF Passing, Users
    <3>2. /\ IsFiniteSet(Passing') /\ Cardinality(Passing') \in Nat
          /\ Cardinality(Passing) = Cardinality(Passing') + 1
      BY <3>1, OneFewer DEF IInv, Counts
    <3>3. ASSUME NEW n \in Nat, Balance(n) PROVE Balance(n)'
      BY <1>2, <1>4, <2>1, <3>1, <3>2, <3>3 DEF IInv, Types, Balance
    <3> QED
      BY <1>2, <1>9, <2>1, <3>2, <3>3 DEF IInv, Types, Counts, Owners
  <2>3. CASE at[h] # "suspended"
    <3>1. Passing' = Passing /\ passes' = passes
      BY <1>4, <1>7, <2>3 DEF Passing, Users
    <3>2. ASSUME NEW n \in Nat, Balance(n) PROVE Balance(n)'
      BY <1>2, <1>4, <2>1, <3>1, <3>2 DEF Balance
    <3> QED
      BY <1>2, <1>9, <2>1, <3>1, <3>2 DEF IInv, Types, Counts, Owners
  <2> QED
    BY <2>2, <2>3
<1> QED
  BY <1>8, <1>10, <1>11, <1>12, <1>13 DEF IInv

LEMMA ResumedAllStep ==
  ASSUME IInv, NEW t \in Users, ResumedAll(t)
  PROVE  IInv'
<1>1. /\ at[t] = "resume" /\ toResume[t] = <<>>
      /\ at' = [at EXCEPT ![t] = IF t \in Waiters THEN "release" ELSE "idle"]
      /\ UNCHANGED <<sets, waiters, newWaiters, queue, taking, taken, toResume, refCount,
                     calls, signals, passes>>
  BY DEF ResumedAll, Continue, state, lists, owner, history
<1>2. ListsKept
  BY <1>1, SameLists
<1>3. /\ at' \in [Users -> {"idle", "suspended"} \cup InSuspend]
      /\ at'[t] = IF t \in Waiters THEN "release" ELSE "idle"
      /\ \A u \in Users : u # t => at'[u] = at[u]
  BY <1>1 DEF IInv, Types, InSuspend
<1>4. Types'
  BY <1>1, <1>3 DEF IInv, Types
<1>5. Owners' = Owners
  BY <1>1, <1>3 DEF Owners
<1>6. OneOwner'
  BY <1>1, <1>3, <1>5 DEF IInv, OneOwner, ListIsOwned
<1>7. LinkedOnce' /\ \A x \in Waiters : IsLinked(x)' <=> IsLinked(x)
  BY <1>1, <1>2, <1>3, LinksKept DEF IInv
<1>8. References'
  BY <1>1, <1>3, <1>7 DEF IInv, References, InSuspend, Users
<1>9. Counts'
  <2>1. Counting' = Counting /\ Passing' = Passing
    BY <1>1, <1>2, <1>3 DEF Counting, Passing, Queued, ListsKept, Users
  <2>2. ASSUME NEW n \in Nat, Balance(n) PROVE Balance(n)'
    BY <1>1, <1>2, <2>1, <2>2 DEF Balance, ListsKept
  <2> QED
    BY <1>1, <1>5, <2>1, <2>2 DEF IInv, Types, Counts, Owners
<1> QED
  BY <1>4, <1>6, <1>7, <1>8, <1>9 DEF IInv

-----------------------------------------------------------------------------

LEMMA InitIInv == EventInit => IInv
<1> SUFFICES ASSUME EventInit PROVE IInv
  OBVIOUS
<1>1. /\ sets = 0 /\ waiters = 0 /\ newWaiters = <<>> /\ queue = <<>>
      /\ \A t \in Users : at[t] = "idle" /\ taking[t] = 0 /\ taken[t] = 0 /\ toResume[t] = <<>>
      /\ \A w \in Waiters : at[w] = "idle" /\ refCount[w] = 0
      /\ signals = 0 /\ passes = 0
  BY DEF EventInit, Users
<1>2. Line = <<>> /\ Len(Line) = 0 /\ Owners = {} /\ Counting = {} /\ Passing = {}
  <2>1. <<>> \o <<>> = <<>> /\ Len(<<>>) = 0
    OBVIOUS
  <2> QED
    BY <1>1, <2>1, ReverseEmpty DEF Line, Owners, Counting, Passing
<1>3. Types
  <2>1. newWaiters \in Seq(Waiters) /\ queue \in Seq(Waiters)
    BY DEF EventInit
  <2>2. /\ at \in [Users -> {"idle", "suspended"} \cup InSuspend]
        /\ taking \in [Users -> Nat] /\ taken \in [Users -> Nat]
        /\ refCount \in [Waiters -> Nat]
    BY DEF EventInit
  <2>3. toResume \in [Users -> Seq(Waiters)]
    BY DEF EventInit
  <2>4. calls \in [Setters -> Nat]
    BY EventAssumption DEF EventInit
  <2> QED
    BY <1>1, <2>1, <2>2, <2>3, <2>4 DEF Types
<1>4. OneOwner
  BY <1>1, <1>2 DEF OneOwner, ListIsOwned
<1>5. /\ \A w \in Waiters : ~Queued(w)
      /\ \A t \in Users : Once(toResume[t]) /\ \A w \in Waiters : ~HandedBy(t, w)
      /\ Once(Line)
  BY <1>1, <1>2 DEF Queued, HandedBy, Has, Once
<1>6. LinkedOnce
  BY <1>1, <1>5 DEF LinkedOnce
<1>7. References
  BY <1>1, <1>5 DEF References, IsLinked, InSuspend
<1>8. Counts
  BY <1>1, <1>2, FS_EmptySet DEF Counts, Balance
<1> QED
  BY <1>3, <1>4, <1>6, <1>7, <1>8 DEF IInv

LEMMA NextIInv == IInv /\ [EventNext]_eventVars => IInv'
<1> SUFFICES ASSUME IInv, [EventNext]_eventVars PROVE IInv'
  OBVIOUS
<1>1. ASSUME NEW w \in Waiters, Await(w) PROVE IInv'
  BY <1>1, PassAtOnceStep, PushStep, CountWaiterStep, ReleaseSelfStep DEF Await
<1>2. ASSUME NEW s \in Setters, Set(s) \/ Reset(s) PROVE IInv'
  BY <1>2, SetStep, ResetStep
<1>3. ASSUME NEW t \in Users, ResumeWaiters(t) PROVE IInv'
  BY <1>3, TakeOneStep, SubtractStep, ResumeOneStep, ResumedAllStep DEF ResumeWaiters
<1>4. CASE UNCHANGED eventVars
  <2>1. UNCHANGED <<sets, waiters, newWaiters, queue, at, taking, taken, toResume, refCount,
                    calls, signals, passes>>
    BY <1>4 DEF eventVars, state, lists, owner, history
  <2>2. Types' /\ OneOwner'
    BY <2>1 DEF IInv, Types, OneOwner, Owners, ListIsOwned
  <2>3. /\ Line' = Line /\ Counting' = Counting /\ Passing' = Passing /\ Owners' = Owners
        /\ \A w \in Waiters : IsLinked(w)' <=> IsLinked(w)
    BY <2>1 DEF Line, Counting, Passing, Owners, Queued, IsLinked, HandedBy
  <2>4. LinkedOnce' /\ References'
    BY <2>1, <2>3 DEF IInv, LinkedOnce, Queued, HandedBy, References
  <2>5. Counts'
    BY <2>1, <2>3 DEF IInv, Counts, Balance
  <2> QED
    BY <2>2, <2>4, <2>5 DEF IInv
<1> QED
  BY <1>1, <1>2, <1>3, <1>4 DEF EventNext

(* Whatever the threads do, the parts of the invariant hold together: who owns  *)
(* the list of waiters, where each operation is linked, who has still to let go *)
(* of it, and what the two counts of m_state stand for.                         *)
THEOREM Consistent == EventSpec => []IInv
BY InitIInv, NextIInv, PTL DEF EventSpec

-----------------------------------------------------------------------------

LEMMA LockIsTheCounts == IInv => LockIsBothCounts
<1> SUFFICES ASSUME IInv PROVE LockIsBothCounts
  OBVIOUS
<1>1. Cardinality(Owners) = IF sets > 0 /\ waiters > 0 THEN 1 ELSE 0
  <2>1. CASE ListIsOwned
    BY <2>1, FS_Singleton DEF IInv, OneOwner, ListIsOwned
  <2>2. CASE ~ListIsOwned
    BY <2>2, FS_EmptySet DEF IInv, OneOwner, ListIsOwned
  <2> QED
    BY <2>1, <2>2
<1>2. ASSUME NEW t \in Owners
      PROVE  /\ taking[t] + taken[t] <= Smaller(sets, waiters)
             /\ taking[t] <= Len(queue) + Len(newWaiters)
  <2>1. /\ t \in Users /\ taking[t] + taken[t] <= sets /\ taking[t] + taken[t] <= waiters
        /\ taking[t] \in Nat /\ taken[t] \in Nat
    BY DEF IInv, OneOwner, Owners, Types
  <2>2. /\ Len(Line) = Len(queue) + Len(newWaiters) /\ Cardinality(Counting) \in Nat
        /\ Len(Line) = waiters - taken[t] + Cardinality(Counting)
    BY LineType, FS_CardinalityType DEF IInv, Counts, Balance
  <2>3. taking[t] <= waiters - taken[t] + Cardinality(Counting)
    BY <2>1, <2>2 DEF IInv, Types
  <2> QED
    BY <2>1, <2>2, <2>3 DEF Smaller
<1> QED
  BY <1>1, <1>2 DEF LockIsBothCounts

LEMMA Occurs ==
  ASSUME IInv, NEW w \in Waiters
  PROVE  Occurrences(w, newWaiters) + Occurrences(w, queue) = IF Queued(w) THEN 1 ELSE 0
<1>1. newWaiters \in Seq(Waiters) /\ queue \in Seq(Waiters) /\ Once(Line)
  BY DEF IInv, Types, LinkedOnce
<1>2. /\ Once(queue) /\ Once(newWaiters) /\ ~(Has(queue, w) /\ Has(newWaiters, w))
      /\ Queued(w) <=> Has(queue, w) \/ Has(newWaiters, w)
  BY <1>1, TwoParts DEF Line, Queued
<1>3. /\ Occurrences(w, queue) = IF Has(queue, w) THEN 1 ELSE 0
      /\ Occurrences(w, newWaiters) = IF Has(newWaiters, w) THEN 1 ELSE 0
  BY <1>1, <1>2, OccursOnce DEF Occurrences
<1> QED
  BY <1>2, <1>3

LEMMA LinkedIs ==
  ASSUME IInv, NEW w \in Waiters
  PROVE  Linked(w) = IF IsLinked(w) THEN 1 ELSE 0
<1> DEFINE H == {t \in Users : w \in ToSet(toResume[t])}
<1>1. \A t \in Users : w \in ToSet(toResume[t]) <=> HandedBy(t, w)
  BY HasIsInSet DEF IInv, Types, HandedBy
<1>2. CASE \E t \in Users : HandedBy(t, w)
  <2>1. PICK t \in Users : HandedBy(t, w)
    BY <1>2
  <2>2. \A u \in Users : HandedBy(u, w) => u = t
    BY <2>1 DEF IInv, LinkedOnce
  <2>3. H = {t} /\ ~Queued(w) /\ IsLinked(w)
    BY <1>1, <2>1, <2>2 DEF IInv, LinkedOnce, IsLinked
  <2>4. Cardinality(H) = 1
    BY <2>3, FS_Singleton
  <2>5. Occurrences(w, newWaiters) + Occurrences(w, queue) = 0
    BY <2>3, Occurs
  <2> QED
    BY <2>3, <2>4, <2>5 DEF Linked
<1>3. CASE \A t \in Users : ~HandedBy(t, w)
  <2>1. H = {} /\ (IsLinked(w) <=> Queued(w))
    BY <1>1, <1>3 DEF IsLinked
  <2>2. Cardinality(H) = 0
    BY <2>1, FS_EmptySet
  <2>3. Occurrences(w, newWaiters) + Occurrences(w, queue) = IF Queued(w) THEN 1 ELSE 0
    BY Occurs
  <2> QED
    BY <2>1, <2>2, <2>3 DEF Linked
<1> QED
  BY <1>2, <1>3

LEMMA LinksAreReferences == IInv => WaitersAreLinked
<1> SUFFICES ASSUME IInv, NEW w \in Waiters
             PROVE  /\ refCount[w] = Linked(w) + (IF at[w] \in InSuspend THEN 1 ELSE 0)
                    /\ at[w] = "idle" => Linked(w) = 0
                    /\ at[w] = "suspended" => Linked(w) = 1
  BY DEF WaitersAreLinked, InSuspend
<1>1. Linked(w) = IF IsLinked(w) THEN 1 ELSE 0
  BY LinkedIs
<1> QED
  BY <1>1 DEF IInv, References

(* The event is locked exactly while there are sets and waiters, by one thread, *)
(* which never wants more waiters than are queued; and an operation is linked   *)
(* once, exactly as long as somebody has still to let go of it                  *)
(* (async_auto_reset_event.cpp:92-99, 126-148, 206-224, 267-284).               *)
THEOREM OwnerIsAlone == EventSpec => []OneOwnerOfTheWaiters
<1>1. IInv => OneOwnerOfTheWaiters
  BY LockIsTheCounts, LinksAreReferences DEF OneOwnerOfTheWaiters
<1> QED
  BY <1>1, Consistent, PTL

(* The sets that counted are the awaits that passed, those taken off the list   *)
(* that have still to pass, and the sets that are left: no set is lost and none *)
(* is used twice (async_auto_reset_event.cpp:74-118, 186-198).                  *)
THEOREM SetsAreUsedOnce == EventSpec => []OneAwaitPerSet
<1>1. ASSUME IInv PROVE OneAwaitPerSet
  <2>1. GrantedWaiters = Passing
    BY <1>1, Occurs DEF GrantedWaiters, Passing
  <2>2. CASE Owners = {}
    BY <1>1, <2>1, <2>2 DEF IInv, Counts, Balance, OneAwaitPerSet, Uncounted
  <2>3. CASE Owners # {}
    <3>1. PICK t \in Owners : TRUE
      BY <2>3
    <3>2. Owners = {t}
      BY <1>1, <3>1, OwnersAre DEF IInv
    <3>3. Uncounted = taken[t]
      BY <3>2 DEF Uncounted
    <3>4. signals = passes + Cardinality(Passing) + sets - taken[t]
      BY <1>1, <3>1 DEF IInv, Counts, Balance
    <3> QED
      BY <2>1, <3>3, <3>4 DEF OneAwaitPerSet
  <2> QED
    BY <2>2, <2>3
<1> QED
  BY <1>1, Consistent, PTL

-----------------------------------------------------------------------------
(* The program of the first example.                                       *)

\* The threads of the pieces of both tests.
Path == <<writer, network, ui, writer>>

\* The pieces of this test that have begun.
Reached == Len(trail)

\* Somebody carries the baton, or it waits to be taken.
Active == Carriers # {} \/ Waiting # {}

ProgramTypeOK ==
    /\ test \in 1..2
    /\ mainPc \in {"spawn", "call", "join", "done"}
    /\ made \in [Threads -> 0..3]
    /\ tasks \in [Queues -> Seq(1..4)]
    /\ stop \in [Queues -> BOOLEAN]
    /\ pc \in [Queues -> WorkerPc]
    /\ cur \in [Queues -> 1..4 \cup {NoTask}]
    /\ pendingOne \subseteq Threads \X Queues /\ pendingAll \subseteq Threads \X Queues
    /\ trail \in Seq(Queues)

\* The pieces ran where the script says, so those workers are inside Run.
Along ==
    /\ Reached \in 0..4
    /\ \A i \in 1..Reached : trail[i] = Path[i] /\ pc[Path[i]] # "start"

\* What waits is the next piece, and who has still to hop runs the last one.
OnePiece ==
    /\ \A q \in Queues :
         /\ tasks[q] = <<>> \/ (Reached < 4 /\ tasks[q] = <<Reached + 1>> /\ q = Path[Reached + 1])
         /\ pc[q] = "running" =>
              /\ cur[q] \in 1..Reached /\ Path[cur[q]] = q
              /\ made[q] = 0 => cur[q] = Reached
    /\ mainPc = "call" /\ made[main] = 0 => Reached = 0
    /\ Carriers = {} \/ Waiting = {}

\* Who is inside a call: a worker that runs a piece, or main inside func().
CallsUnderWay ==
    /\ \A t \in Threads, q \in Queues : <<t, q>> \in pendingOne \cup pendingAll =>
          IF t = main THEN mainPc = "call" /\ made[main] = 1 ELSE pc[t] = "running"
    /\ mainPc = "call" => made[main] \in 0..1
    /\ mainPc \in {"join", "done"} => made[main] = 0

\* While the baton is about, no worker leaves: the flags of those inside Run
\* are down, and a worker that stopped to wait has found a task.
Serving ==
    /\ Active => \A q \in Queues :
         /\ pc[q] # "returned"
         /\ stop[q] => pc[q] = "start"
         /\ pc[q] = "take" => tasks[q] # <<>>
         /\ pc[q] = "running" /\ cur[q] = 4 => made[q] = 0
    /\ ~Active /\ mainPc \in {"call", "join"} => Reached = 4

\* Before func() is called nothing is left of the test before.
Resting ==
    /\ mainPc = "spawn" =>
         /\ ~Active /\ Reached = 0
         /\ \A i \in 1..made[main] : pc[SpawnOrder[i]] # "returned"
         /\ \A q \in Queues : /\ pc[q] \notin {"take", "running"}
                              /\ stop[q] => pc[q] \in {"start", "returned"}
    /\ mainPc = "done" => ~Active /\ \A q \in Queues : pc[q] = "returned"

\* The coroutine knows the queue that it is on, or that it is pushed to.
Noted ==
    /\ test = 1 \/ mainPc = "spawn" => currentQueue = NoQueue
    /\ test = 2 /\ Carriers # {} =>
          currentQueue = IF Reached = 0 THEN NoQueue ELSE Path[Reached]
    /\ test = 2 /\ Waiting # {} => currentQueue = Path[Reached + 1]

ProgramInv ==
    ProgramTypeOK /\ Along /\ OnePiece /\ CallsUnderWay /\ Serving /\ Resting /\ Noted

LEMMA ScriptsAre ==
  \A n \in 1..2 : Scripts[n] = Path
<1> DEFINE S == {writer, network, ui}
           front == <<writer>> \o <<network, ui>>
           whole == front \o <<writer>>
<1>1. front \in Seq(S) /\ Len(front) = 3
      /\ front[1] = writer /\ front[2] = network /\ front[3] = ui
  OBVIOUS
<1>2. whole \in Seq(S) /\ Len(whole) = 4 /\ whole[4] = writer
      /\ \A i \in 1..3 : whole[i] = front[i]
  <2> DEFINE end == <<writer>>
  <2>1. end \in Seq(S) /\ Len(end) = 1 /\ end[1] = writer
    OBVIOUS
  <2> HIDE DEF front, end, S
  <2>2. whole = front \o end
    BY DEF end
  <2>3. /\ front \o end \in Seq(S) /\ Len(front \o end) = 4
        /\ \A i \in 1..4 : (front \o end)[i] = IF i <= 3 THEN front[i] ELSE end[i - 3]
    <3>1. /\ front \o end \in Seq(S) /\ Len(front \o end) = Len(front) + Len(end)
          /\ \A i \in 1..Len(front) + Len(end) :
                (front \o end)[i] = IF i <= Len(front) THEN front[i] ELSE end[i - Len(front)]
      BY <1>1, <2>1, ConcatProperties
    <3> QED
      BY <1>1, <2>1, <3>1
  <2> QED
    BY <2>1, <2>2, <2>3
<1>3. Path \in Seq(S) /\ Len(Path) = 4
      /\ Path[1] = writer /\ Path[2] = network /\ Path[3] = ui /\ Path[4] = writer
  BY DEF Path
<1>4. whole = Path
  <2>1. \A i \in 1..4 : whole[i] = Path[i]
    <3> HIDE DEF whole, front
    <3> QED
      BY <1>1, <1>2, <1>3
  <2> HIDE DEF whole, S
  <2> QED
    BY <1>2, <1>3, <2>1, SeqEqual
<1> QED
  BY <1>4 DEF Scripts, NeedNetwork, NetworkHops, NetworkOk

LEMMA PathIs ==
  ASSUME ProgramAssumption
  PROVE  /\ Path \in Seq(Queues) /\ Len(Path) = 4
         /\ Path[1] = writer /\ Path[2] = network /\ Path[3] = ui /\ Path[4] = writer
         /\ \A i \in 1..3 : Path[i] # Path[i + 1]
BY DEF Path, ProgramAssumption

LEMMA ThreadsAre ==
  ASSUME ProgramAssumption
  PROVE  /\ Threads = Queues \cup {main} /\ main \notin Queues
         /\ Queues = {writer, network, ui}
BY ThreadAssumption DEF ProgramAssumption, Threads

(* A worker goes from one place of its loop to another, or is woken: the   *)
(* baton stays where it is.                                                *)
LEMMA WorkerMoves ==
  ASSUME ProgramAssumption, ProgramInv, NEW q \in Queues, NEW l \in WorkerPc,
         pc' = [pc EXCEPT ![q] = l],
         l = "running" <=> pc[q] = "running",
         l = "start" => pc[q] = "start",
         l = "returned" => pc[q] = "returned" \/ (pc[q] = "take" /\ tasks[q] = <<>>),
         pc[q] = "returned" => l = "returned",
         l = "take" => pc[q] = "take" \/ tasks[q] # <<>> \/ (stop[q] /\ pc[q] # "start"),
         stop' \in [Queues -> BOOLEAN],
         \A r \in Queues : stop'[r] => stop[r] /\ (pc[r] = "start" => pc'[r] = "start"),
         cur' \in [Queues -> 1..4 \cup {NoTask}],
         \A r \in Queues : pc[r] = "running" => cur'[r] = cur[r],
         pendingOne' \subseteq pendingOne, pendingAll' \subseteq pendingAll,
         UNCHANGED <<tasks, progVars>>
  PROVE  ProgramInv'
<1> USE ThreadsAre DEF ProgramInv, progVars, Reached
<1>1. /\ pc \in [Queues -> WorkerPc]
      /\ \A r \in Queues : r # q => pc'[r] = pc[r]
      /\ pc'[q] = l
  BY DEF ProgramTypeOK
<1>2. Carriers' = Carriers
  BY <1>1 DEF Carriers
<1>3. Waiting' = Waiting
  BY DEF Waiting
<1>4. Active' <=> Active
  BY <1>2, <1>3 DEF Active
<1>5. ProgramTypeOK'
  BY DEF ProgramTypeOK
<1>6. Along'
  BY <1>1, PathIs DEF Along
<1>7. OnePiece'
  BY <1>1, <1>2, <1>3 DEF OnePiece
<1>8. CallsUnderWay'
  BY <1>1 DEF CallsUnderWay
<1>9. Serving'
  BY <1>1, <1>4 DEF Serving
<1>10. Resting'
  <2>1. ASSUME mainPc = "spawn", NEW r \in Queues
        PROVE  /\ pc'[r] \notin {"take", "running"}
               /\ stop'[r] => pc'[r] \in {"start", "returned"}
    <3>1. tasks[r] = <<>>
      BY <2>1 DEF Resting, Active, Waiting
    <3> QED
      BY <1>1, <2>1, <3>1 DEF Resting
  <2>2. ASSUME mainPc = "spawn", NEW i \in 1..made[main]
        PROVE  pc'[SpawnOrder[i]] # "returned"
    <3>1. pc[SpawnOrder[i]] # "returned" /\ pc[q] # "take"
      BY <2>2 DEF Resting
    <3> QED
      BY <1>1, <3>1
  <2> QED
    BY <1>1, <1>4, <2>1, <2>2 DEF Resting
<1>11. Noted'
  BY <1>2, <1>3 DEF Noted
<1> QED
  BY <1>5, <1>6, <1>7, <1>8, <1>9, <1>10, <1>11

LEMMA LoopKeeps ==
  ASSUME ProgramAssumption, ProgramInv, NEW q \in Queues,
         LoopStep(q) \/ (SpuriousWake(q) /\ UNCHANGED progVars)
  PROVE  ProgramInv'
<1> DEFINE IsMove(l) ==
      /\ pc' = [pc EXCEPT ![q] = l]
      /\ l = "running" <=> pc[q] = "running"
      /\ l = "start" => pc[q] = "start"
      /\ l = "returned" => pc[q] = "returned" \/ (pc[q] = "take" /\ tasks[q] = <<>>)
      /\ pc[q] = "returned" => l = "returned"
      /\ l = "take" => pc[q] = "take" \/ tasks[q] # <<>> \/ (stop[q] /\ pc[q] # "start")
      /\ stop' \in [Queues -> BOOLEAN]
      /\ \A r \in Queues : stop'[r] => stop[r] /\ (pc[r] = "start" => pc'[r] = "start")
      /\ cur' \in [Queues -> 1..4 \cup {NoTask}]
      /\ \A r \in Queues : pc[r] = "running" => cur'[r] = cur[r]
      /\ pendingOne' \subseteq pendingOne /\ pendingAll' \subseteq pendingAll
      /\ UNCHANGED <<tasks, progVars>>
<1>1. /\ pc \in [Queues -> WorkerPc] /\ stop \in [Queues -> BOOLEAN]
      /\ cur \in [Queues -> 1..4 \cup {NoTask}]
  BY DEF ProgramInv, ProgramTypeOK
<1>2. ASSUME NEW l \in WorkerPc, IsMove(l) PROVE ProgramInv'
  BY <1>2, WorkerMoves
<1>3. CASE RunBegin(q) /\ UNCHANGED progVars
  <2>1. IsMove("lock")
    BY <1>1, <1>3 DEF RunBegin, Goto
  <2> QED
    BY <1>2, <2>1 DEF WorkerPc
<1>4. CASE Lock(q) /\ UNCHANGED progVars
  <2>1. IsMove("predicate")
    BY <1>1, <1>4 DEF Lock, Goto
  <2> QED
    BY <1>2, <2>1 DEF WorkerPc
<1>5. CASE EvalPredicate(q) /\ UNCHANGED progVars
  <2>1. IsMove("take") \/ IsMove("block")
    BY <1>1, <1>5 DEF EvalPredicate, Predicate, Goto
  <2> QED
    BY <1>2, <2>1 DEF WorkerPc
<1>6. CASE Block(q) /\ UNCHANGED progVars
  <2>1. IsMove("waiting")
    BY <1>1, <1>6 DEF Block, Goto
  <2> QED
    BY <1>2, <2>1 DEF WorkerPc
<1>7. CASE RunReturn(q) /\ UNCHANGED progVars
  <2>1. IsMove("returned")
    BY <1>1, <1>7 DEF RunReturn, Goto
  <2> QED
    BY <1>2, <2>1 DEF WorkerPc
<1>8. CASE SpuriousWake(q) /\ UNCHANGED progVars
  <2>1. IsMove("woken")
    BY <1>1, <1>8 DEF SpuriousWake, Goto
  <2> QED
    BY <1>2, <2>1 DEF WorkerPc
<1> QED
  BY <1>3, <1>4, <1>5, <1>6, <1>7, <1>8 DEF LoopStep

LEMMA NotifyKeeps ==
  ASSUME ProgramAssumption, ProgramInv, NEW t \in Threads, NotifyStep(t)
  PROVE  ProgramInv'
<1>1. /\ pc \in [Queues -> WorkerPc] /\ stop \in [Queues -> BOOLEAN]
      /\ cur \in [Queues -> 1..4 \cup {NoTask}]
  BY DEF ProgramInv, ProgramTypeOK
<1>2. PICK q \in Queues : NotifyOne(t, q) \/ NotifyAll(t, q)
  BY DEF NotifyStep, Notification
<1> DEFINE l == IF pc[q] = "waiting" THEN "woken" ELSE pc[q]
<1>3. l \in WorkerPc /\ pc' = [pc EXCEPT ![q] = l]
  BY <1>1, <1>2 DEF NotifyOne, NotifyAll, WakeWorker, Goto, WorkerPc
<1>4. /\ UNCHANGED <<tasks, stop, cur, progVars>>
      /\ pendingOne' \subseteq pendingOne /\ pendingAll' \subseteq pendingAll
  BY <1>2 DEF NotifyOne, NotifyAll, NotifyStep
<1>5. \A r \in Queues : pc[r] = "start" => pc'[r] = "start"
  BY <1>1, <1>3
<1> QED
  BY <1>1, <1>3, <1>4, <1>5, WorkerMoves

(* The piece has hopped, or shut down the queues, and carries nothing.     *)
LEMMA PieceReturnsKeeps ==
  ASSUME ProgramAssumption, ProgramInv, NEW q \in Queues, PieceReturns(q)
  PROVE  ProgramInv'
<1> USE ThreadsAre DEF ProgramInv, progVars, Reached
<1>1. /\ pc \in [Queues -> WorkerPc] /\ pc[q] = "running" /\ pc' = [pc EXCEPT ![q] = "lock"]
      /\ Free(q)
      /\ UNCHANGED <<tasks, stop, cur, pendingOne, pendingAll, progVars>>
  BY DEF PieceReturns, TaskEnd, Goto, ProgramTypeOK
<1>2. \A r \in Queues : r # q => pc'[r] = pc[r]
  BY <1>1
<1>3. made[q] # 0
  BY ScriptsAre, PathIs DEF PieceReturns, CallsToMake, ShutdownOrder, Script, ProgramTypeOK
<1>4. Carriers' = Carriers /\ Waiting' = Waiting
  BY <1>1, <1>2, <1>3 DEF Carriers, Waiting
<1>5. Active' <=> Active
  BY <1>4 DEF Active
<1>6. ProgramTypeOK'
  BY <1>1 DEF ProgramTypeOK, WorkerPc
<1>7. Along'
  BY <1>1, <1>2, PathIs DEF Along
<1>8. OnePiece'
  BY <1>1, <1>2, <1>4 DEF OnePiece
<1>9. CallsUnderWay'
  BY <1>1, <1>2 DEF CallsUnderWay, Free
<1>10. Serving'
  BY <1>1, <1>2, <1>5 DEF Serving
<1>11. Resting'
  BY <1>1, <1>2, <1>5 DEF Resting
<1>12. Noted'
  BY <1>1, <1>4 DEF Noted
<1> QED
  BY <1>6, <1>7, <1>8, <1>9, <1>10, <1>11, <1>12

LEMMA SpawnKeeps ==
  ASSUME ProgramAssumption, ProgramInv, SpawnWorker
  PROVE  ProgramInv'
<1> USE ThreadsAre DEF ProgramInv, Reached
<1> DEFINE q == SpawnOrder[made[main] + 1]
<1>1. /\ mainPc = "spawn" /\ made[main] \in 0..2 /\ q \in Queues
      /\ \A i, j \in 1..3 : SpawnOrder[i] = SpawnOrder[j] => i = j
  BY DEF SpawnWorker, SpawnOrder, ProgramTypeOK, ProgramAssumption
<1>2. /\ pc[q] = "returned" /\ pc' = [pc EXCEPT ![q] = "start"]
      /\ made' = [made EXCEPT ![main] = @ + 1]
      /\ UNCHANGED <<tasks, stop, cur, pendingOne, pendingAll, test, mainPc, currentQueue, trail>>
  BY DEF SpawnWorker, StartWorker, Goto
<1> HIDE DEF q
<1>3. ProgramTypeOK'
  BY <1>1, <1>2 DEF ProgramTypeOK, WorkerPc
<1>4. /\ \A r \in Queues : r # q => pc'[r] = pc[r]
      /\ pc'[q] = "start"
      /\ \A r \in Queues : made'[r] = made[r]
      /\ made'[main] = made[main] + 1
  BY <1>1, <1>2 DEF ProgramTypeOK
<1>5. Carriers' = Carriers /\ Waiting' = Waiting
  BY <1>1, <1>2, <1>4 DEF Carriers, Waiting
<1>6. ~Active /\ ~Active' /\ Reached = 0
  BY <1>1, <1>5 DEF Active, Resting
<1>7. Along'
  BY <1>2, <1>6 DEF Along
<1>8. OnePiece'
  BY <1>1, <1>2, <1>4, <1>5 DEF OnePiece
<1>9. CallsUnderWay'
  BY <1>1, <1>2, <1>4 DEF CallsUnderWay
<1>10. Serving'
  BY <1>1, <1>2, <1>6 DEF Serving
<1>11. Resting'
  <2>1. \A i \in 1..made'[main] : pc'[SpawnOrder[i]] # "returned"
    <3>1. \A i \in 1..made[main] : pc[SpawnOrder[i]] # "returned" /\ SpawnOrder[i] \in Queues
      BY <1>1 DEF Resting, SpawnOrder
    <3>2. SpawnOrder[made[main] + 1] = q
      BY DEF q
    <3> QED
      BY <1>1, <1>4, <3>1, <3>2
  <2> QED
    BY <1>1, <1>2, <1>4, <1>6, <2>1 DEF Resting
<1>12. Noted'
  BY <1>2, <1>5 DEF Noted
<1> QED
  BY <1>3, <1>7, <1>8, <1>9, <1>10, <1>11, <1>12

LEMMA EnterKeeps ==
  ASSUME ProgramAssumption, ProgramInv, MainEntersFunc
  PROVE  ProgramInv'
<1> USE ThreadsAre DEF ProgramInv, Reached
<1>1. /\ mainPc = "spawn" /\ mainPc' = "call" /\ made[main] = 3
      /\ made' = [made EXCEPT ![main] = 0]
      /\ UNCHANGED <<tasks, stop, pc, cur, pendingOne, pendingAll, test, currentQueue, trail>>
  BY DEF MainEntersFunc, SpawnOrder, vars, queueVars
<1>2. /\ ~Active /\ Reached = 0
      /\ \A q \in Queues : pc[q] \notin {"take", "running", "returned"}
  <2>1. \A i \in 1..3 : pc[SpawnOrder[i]] # "returned"
    BY <1>1 DEF Resting
  <2>2. Queues = {SpawnOrder[1], SpawnOrder[2], SpawnOrder[3]}
    BY DEF SpawnOrder
  <2> QED
    BY <1>1, <2>1, <2>2 DEF Resting
<1>3. ProgramTypeOK'
  BY <1>1 DEF ProgramTypeOK
<1>4. made'[main] = 0 /\ \A q \in Queues : made'[q] = made[q]
  BY <1>1 DEF ProgramTypeOK
<1>5. Carriers' = {main} /\ Waiting' = {} /\ Waiting = {}
  BY <1>1, <1>2, <1>4 DEF Carriers, Waiting, Active
<1>6. Along'
  BY <1>1, <1>2 DEF Along
<1>7. OnePiece'
  BY <1>1, <1>2, <1>4, <1>5 DEF OnePiece
<1>8. CallsUnderWay'
  BY <1>1, <1>2, <1>4 DEF CallsUnderWay
<1>9. Serving'
  BY <1>1, <1>2, <1>5 DEF Serving, Active, Resting
<1>10. Resting'
  BY <1>1 DEF Resting
<1>11. Noted'
  BY <1>1, <1>2, <1>5 DEF Noted
<1> QED
  BY <1>3, <1>6, <1>7, <1>8, <1>9, <1>10, <1>11

LEMMA FuncReturnsKeeps ==
  ASSUME ProgramAssumption, ProgramInv, MainFuncReturns
  PROVE  ProgramInv'
<1> USE ThreadsAre DEF ProgramInv, Reached
<1>1. /\ mainPc = "call" /\ mainPc' = "join" /\ made[main] = 1 /\ Free(main)
      /\ made' = [made EXCEPT ![main] = 0]
      /\ UNCHANGED <<tasks, stop, pc, cur, pendingOne, pendingAll, test, currentQueue, trail>>
  BY DEF MainFuncReturns, vars, queueVars
<1>2. ProgramTypeOK'
  BY <1>1 DEF ProgramTypeOK
<1>3. made'[main] = 0 /\ \A q \in Queues : made'[q] = made[q]
  BY <1>1 DEF ProgramTypeOK
<1>4. Carriers' = Carriers /\ Waiting' = Waiting
  BY <1>1, <1>3 DEF Carriers, Waiting
<1>5. Active' <=> Active
  BY <1>4 DEF Active
<1>6. Along'
  BY <1>1 DEF Along
<1>7. OnePiece'
  BY <1>1, <1>3, <1>4 DEF OnePiece
<1>8. CallsUnderWay'
  BY <1>1, <1>3 DEF CallsUnderWay, Free
<1>9. Serving'
  BY <1>1, <1>3, <1>5 DEF Serving
<1>10. Resting'
  BY <1>1 DEF Resting
<1>11. Noted'
  BY <1>1, <1>4 DEF Noted
<1> QED
  BY <1>2, <1>6, <1>7, <1>8, <1>9, <1>10, <1>11

(* Nobody is left to run a piece when all have returned, so all have run.  *)
LEMMA JoinEnds ==
  ASSUME ProgramAssumption, ProgramInv, MainJoins
  PROVE  Reached = 4 /\ ~Active /\ pendingOne \cup pendingAll = {}
<1> USE ThreadsAre DEF ProgramInv
<1>1. mainPc = "join" /\ \A q \in Queues : pc[q] = "returned"
  BY DEF MainJoins
<1>2. ~Active
  BY <1>1 DEF Serving, ProgramAssumption
<1>3. Reached = 4
  BY <1>1, <1>2 DEF Serving
<1>4. pendingOne \subseteq Threads \X Queues /\ pendingAll \subseteq Threads \X Queues
  BY DEF ProgramTypeOK
<1> QED
  BY <1>1, <1>2, <1>3, <1>4 DEF CallsUnderWay

LEMMA JoinKeeps ==
  ASSUME ProgramAssumption, ProgramInv, MainJoins
  PROVE  ProgramInv'
<1> USE ThreadsAre DEF ProgramInv, Reached
<1>1. /\ mainPc = "join" /\ made[main] = 0
      /\ \A q \in Queues : pc[q] = "returned"
      /\ UNCHANGED <<tasks, stop, pc, cur, pendingOne, pendingAll, made, currentQueue>>
  BY DEF MainJoins, vars, queueVars, CallsUnderWay
<1>2. ~Active /\ Len(trail) = 4 /\ pendingOne \cup pendingAll = {}
  BY JoinEnds
<1>3. \/ test = 1 /\ mainPc' = "spawn" /\ test' = 2 /\ trail' = <<>>
      \/ test = 2 /\ mainPc' = "done" /\ UNCHANGED <<test, trail>>
  BY DEF MainJoins, ProgramTypeOK
<1>4. Carriers' = {} /\ Waiting' = {} /\ ~Active'
  BY <1>1, <1>2, <1>3 DEF Carriers, Waiting, Active
<1>5. ProgramTypeOK'
  <2>1. test' \in 1..2 /\ mainPc' \in {"spawn", "done"}
    BY <1>3
  <2>2. trail' \in Seq(Queues)
    <3>1. <<>> \in Seq(Queues)
      OBVIOUS
    <3>2. trail \in Seq(Queues)
      BY DEF ProgramTypeOK
    <3> QED
      BY <1>3, <3>1, <3>2
  <2> QED
    BY <1>1, <2>1, <2>2 DEF ProgramTypeOK
<1>6. Along'
  BY <1>1, <1>3 DEF Along
<1>7. OnePiece'
  BY <1>1, <1>2, <1>3, <1>4 DEF OnePiece, Active, Waiting
<1>8. CallsUnderWay'
  BY <1>1, <1>2, <1>3 DEF CallsUnderWay
<1>9. Serving'
  BY <1>1, <1>3, <1>4 DEF Serving
<1>10. Resting'
  BY <1>1, <1>3, <1>4 DEF Resting
<1>11. Noted'
  BY <1>1, <1>3, <1>4 DEF Noted
<1> QED
  BY <1>5, <1>6, <1>7, <1>8, <1>9, <1>10, <1>11

(* Who hops carries the baton, and hands it on to the next queue of the    *)
(* script: that is never the queue it is on.                               *)
LEMMA HopIs ==
  ASSUME ProgramAssumption, ProgramInv, NEW t \in Threads, NEW k \in 1..4,
         t \in Carriers, k = Reached + 1, Hop(t, k)
  PROVE  /\ Path[k] \in Queues
         /\ tasks' = [tasks EXCEPT ![Path[k]] = Append(@, k)]
         /\ pendingOne' = pendingOne \cup {<<t, Path[k]>>}
         /\ made' = [made EXCEPT ![t] = @ + 1]
         /\ currentQueue' = IF test = 1 THEN NoQueue ELSE Path[k]
         /\ UNCHANGED <<stop, pc, cur, pendingAll, test, mainPc, trail>>
<1> USE DEF ProgramInv
<1>1. Script = Path /\ Path[k] \in Queues
  <2>1. Script = Path
    BY ScriptsAre DEF Script, ProgramTypeOK
  <2>2. Path[k] \in Queues
    BY PathIs
  <2> QED
    BY <2>1, <2>2
<1>2. CASE test = 1
  BY <1>1, <1>2 DEF Hop, PushCallback, AwaitQueue, PushTask, Noted
<1>3. CASE test # 1
  <2>1. test = 2 /\ AwaitQueue(t, k)
    BY <1>3 DEF Hop, PushCallback, ProgramTypeOK
  <2>2. currentQueue = IF Reached = 0 THEN NoQueue ELSE Path[Reached]
    BY <2>1 DEF Noted
  <2>3. currentQueue # Path[k]
    BY <1>1, <2>2, PathIs DEF ProgramAssumption, Along
  <2> QED
    BY <1>1, <1>3, <2>1, <2>3 DEF AwaitQueue, PushTask
<1> QED
  BY <1>2, <1>3

LEMMA HopKeeps ==
  ASSUME ProgramAssumption, ProgramInv, NEW t \in Threads, NEW k \in 1..4,
         t \in Carriers, k = Reached + 1, Hop(t, k)
  PROVE  ProgramInv'
<1> USE ThreadsAre DEF ProgramInv
<1>1. /\ Path[k] \in Queues
      /\ tasks' = [tasks EXCEPT ![Path[k]] = Append(@, k)]
      /\ pendingOne' = pendingOne \cup {<<t, Path[k]>>}
      /\ made' = [made EXCEPT ![t] = @ + 1]
      /\ currentQueue' = IF test = 1 THEN NoQueue ELSE Path[k]
      /\ UNCHANGED <<stop, pc, cur, pendingAll, test, mainPc, trail>>
  BY HopIs
<1>2. /\ t = main => mainPc = "call"
      /\ t # main => pc[t] = "running" /\ cur[t] = Reached
      /\ made[t] = 0
      /\ \A q \in Queues : tasks[q] = <<>>
      /\ Active
  BY DEF Carriers, OnePiece, Waiting, Active
<1>3. \A x \in Carriers : x = t
  BY <1>2, PathIs DEF Carriers, OnePiece, Along
<1>4. /\ made'[t] = 1
      /\ \A x \in Threads : x # t => made'[x] = made[x]
  BY <1>1, <1>2 DEF ProgramTypeOK
<1>5. /\ tasks'[Path[k]] = <<k>>
      /\ \A q \in Queues : q # Path[k] => tasks'[q] = <<>>
  <2>1. Append(<<>>, k) = <<k>>
    OBVIOUS
  <2> QED
    BY <1>1, <1>2, <2>1 DEF ProgramTypeOK
<1>6. Carriers' = {} /\ Waiting' = {Path[k]} /\ Active'
  <2>1. Carriers' = {}
    BY <1>1, <1>3, <1>4 DEF Carriers
  <2>2. <<k>> # <<>>
    OBVIOUS
  <2>3. Waiting' = {Path[k]}
    BY <1>1, <1>5, <2>2 DEF Waiting
  <2> QED
    BY <2>1, <2>3 DEF Active
<1>7. Reached' = Reached /\ Reached \in 0..3
  BY <1>1 DEF Reached, Along
<1>8. ProgramTypeOK'
  BY <1>1, <1>2, <1>4, <1>5 DEF ProgramTypeOK
<1>9. Along'
  BY <1>1, <1>7 DEF Along
<1>10. OnePiece'
  BY <1>1, <1>4, <1>5, <1>6, <1>7 DEF OnePiece
<1>11. CallsUnderWay'
  BY <1>1, <1>2, <1>4 DEF CallsUnderWay
<1>12. Serving'
  BY <1>1, <1>2, <1>4, <1>5, <1>6, <1>7 DEF Serving
<1>13. Resting'
  BY <1>1, <1>2 DEF Resting
<1>14. Noted'
  BY <1>1, <1>2, <1>6, <1>7 DEF Noted, Resting, ProgramTypeOK
<1> QED
  BY <1>8, <1>9, <1>10, <1>11, <1>12, <1>13, <1>14

(* The worker takes the next piece of the script, and no other.            *)
LEMMA BeginIs ==
  ASSUME ProgramAssumption, ProgramInv, NEW q \in Queues, BeginPiece(q)
  PROVE  /\ Reached \in 0..3 /\ q = Path[Reached + 1]
         /\ tasks[q] = <<Reached + 1>>
         /\ tasks' = [tasks EXCEPT ![q] = <<>>]
         /\ cur' = [cur EXCEPT ![q] = Reached + 1]
         /\ pc[q] = "take" /\ pc' = [pc EXCEPT ![q] = "running"]
         /\ made' = [made EXCEPT ![q] = 0]
         /\ trail' = Append(trail, q)
         /\ UNCHANGED <<stop, pendingOne, pendingAll, test, mainPc, currentQueue>>
<1> USE DEF ProgramInv
<1>1. Reached \in 0..3 /\ q = Path[Reached + 1] /\ tasks[q] = <<Reached + 1>>
  BY DEF BeginPiece, TakeTask, OnePiece, Along
<1>2. Head(tasks[q]) = Reached + 1 /\ Tail(tasks[q]) = <<>>
  BY <1>1
<1> QED
  BY <1>1, <1>2 DEF BeginPiece, TakeTask, Goto

LEMMA BeginKeeps ==
  ASSUME ProgramAssumption, ProgramInv, NEW q \in Queues, BeginPiece(q)
  PROVE  ProgramInv'
<1> USE ThreadsAre DEF ProgramInv
<1>1. /\ Reached \in 0..3 /\ q = Path[Reached + 1]
      /\ tasks[q] = <<Reached + 1>>
      /\ tasks' = [tasks EXCEPT ![q] = <<>>]
      /\ cur' = [cur EXCEPT ![q] = Reached + 1]
      /\ pc[q] = "take" /\ pc' = [pc EXCEPT ![q] = "running"]
      /\ made' = [made EXCEPT ![q] = 0]
      /\ trail' = Append(trail, q)
      /\ UNCHANGED <<stop, pendingOne, pendingAll, test, mainPc, currentQueue>>
  BY BeginIs
<1>2. /\ pc'[q] = "running" /\ cur'[q] = Reached + 1 /\ made'[q] = 0 /\ tasks'[q] = <<>>
      /\ \A r \in Queues : r # q => pc'[r] = pc[r] /\ cur'[r] = cur[r] /\ tasks'[r] = tasks[r]
      /\ \A t \in Threads : t # q => made'[t] = made[t]
  BY <1>1 DEF ProgramTypeOK
<1>3. <<Reached + 1>> # <<>>
  OBVIOUS
<1>4. q \in Waiting /\ Carriers = {} /\ Active
  BY <1>1, <1>3 DEF Waiting, OnePiece, Active
<1>5. \A r \in Queues : r # q => tasks[r] = <<>>
  BY <1>1 DEF OnePiece
<1>6. Carriers' = {q} /\ Waiting' = {} /\ Active'
  BY <1>1, <1>2, <1>4, <1>5 DEF Carriers, Waiting, Active
<1>7. /\ Reached' = Reached + 1
      /\ trail'[Reached + 1] = q
      /\ \A i \in 1..Reached : trail'[i] = trail[i]
  BY <1>1 DEF Reached, ProgramTypeOK
<1>8. ProgramTypeOK'
  <2>1. trail' \in Seq(Queues) /\ <<>> \in Seq(1..4)
    BY <1>1 DEF ProgramTypeOK
  <2> QED
    BY <1>1, <2>1 DEF ProgramTypeOK, WorkerPc
<1>9. Along'
  BY <1>1, <1>2, <1>7, PathIs DEF Along
<1>10. OnePiece'
  <2>1. ASSUME NEW r \in Queues, pc'[r] = "running"
        PROVE  /\ cur'[r] \in 1..Reached' /\ Path[cur'[r]] = r
               /\ made'[r] = 0 => cur'[r] = Reached'
    <3>1. CASE r = q
      BY <1>1, <1>2, <1>7, <3>1
    <3>2. CASE r # q
      <4>1. r \notin Carriers /\ pc[r] = "running"
        BY <1>2, <1>4, <2>1, <3>2
      <4> QED
        BY <1>1, <1>2, <1>7, <2>1, <3>2, <4>1 DEF OnePiece, Carriers
    <3> QED
      BY <3>1, <3>2
  <2>2. ~(mainPc = "call" /\ made[main] = 0)
    BY <1>4 DEF Carriers
  <2> QED
    BY <1>1, <1>2, <1>5, <1>6, <2>1, <2>2 DEF OnePiece
<1>11. CallsUnderWay'
  BY <1>1, <1>2 DEF CallsUnderWay
<1>12. Serving'
  <2>1. ASSUME NEW r \in Queues, r # q, pc[r] = "running" PROVE cur[r] # 4
    BY <1>1, <2>1 DEF OnePiece
  <2>2. ASSUME NEW r \in Queues PROVE stop'[r] => pc'[r] = "start"
    BY <1>1, <1>2, <1>4, <2>2 DEF Serving
  <2>3. ASSUME NEW r \in Queues PROVE pc'[r] # "take"
    BY <1>1, <1>2, <1>4, <1>5, <2>3 DEF Serving
  <2>4. ASSUME NEW r \in Queues PROVE pc'[r] # "returned"
    BY <1>2, <1>4, <2>4 DEF Serving
  <2> QED
    BY <1>2, <1>6, <2>1, <2>2, <2>3, <2>4 DEF Serving
<1>13. Resting'
  BY <1>1, <1>4 DEF Resting
<1>14. Noted'
  BY <1>1, <1>4, <1>6, <1>7 DEF Noted, Resting
<1> QED
  BY <1>8, <1>9, <1>10, <1>11, <1>12, <1>13, <1>14

LEMMA ShutdownKeeps ==
  ASSUME ProgramAssumption, ProgramInv, NEW q \in Queues, ShutdownAllThreads(q)
  PROVE  ProgramInv' /\ Reached = 4
<1> USE ThreadsAre DEF ProgramInv
<1>1. Len(Script) = 4
  BY ScriptsAre, PathIs DEF Script, ProgramTypeOK
<1>2. Len(ShutdownOrder) = 3 /\ made[q] \in 0..2 /\ ShutdownOrder[made[q] + 1] \in Queues
  BY DEF ShutdownAllThreads, ShutdownOrder, ProgramTypeOK
<1>3. PICK x \in Queues :
         /\ stop' = [stop EXCEPT ![x] = TRUE]
         /\ pendingAll' = pendingAll \cup {<<q, x>>}
  BY <1>2 DEF ShutdownAllThreads, SetStop
<1>4. /\ pc[q] = "running" /\ cur[q] = 4
      /\ made' = [made EXCEPT ![q] = @ + 1]
      /\ UNCHANGED <<tasks, pc, cur, pendingOne, test, mainPc, currentQueue, trail>>
  BY <1>1 DEF ShutdownAllThreads, SetStop
<1>5. /\ made'[q] = made[q] + 1
      /\ \A t \in Threads : t # q => made'[t] = made[t]
  BY <1>4 DEF ProgramTypeOK
<1>6. Reached = 4 /\ Reached' = 4
  BY <1>4 DEF OnePiece, Along, Reached
<1>7. Waiting = {}
  BY <1>6 DEF Waiting, OnePiece
<1>8. Carriers \subseteq {q}
  BY <1>4, <1>6, PathIs DEF Carriers, OnePiece, ProgramAssumption
<1>9. Carriers' = {} /\ Waiting' = {} /\ ~Active'
  BY <1>2, <1>4, <1>5, <1>7, <1>8 DEF Carriers, Waiting, Active
<1>10. ProgramTypeOK'
  BY <1>2, <1>3, <1>4 DEF ProgramTypeOK
<1>11. Along'
  BY <1>4, <1>6 DEF Along
<1>12. OnePiece'
  BY <1>2, <1>4, <1>5, <1>6, <1>9 DEF OnePiece
<1>13. CallsUnderWay'
  BY <1>3, <1>4, <1>5 DEF CallsUnderWay
<1>14. Serving'
  BY <1>6, <1>9 DEF Serving
<1>15. Resting'
  BY <1>4, <1>9 DEF Resting
<1>16. Noted'
  BY <1>4, <1>9 DEF Noted
<1> QED
  BY <1>6, <1>10, <1>11, <1>12, <1>13, <1>14, <1>15, <1>16

LEMMA InitProgramInv ==
  ASSUME ProgramAssumption, ProgramInit
  PROVE  ProgramInv
<1> USE ThreadsAre DEF ProgramInit, Init, Reached
<1>1. Len(trail) = 0 /\ trail \in Seq(Queues) /\ <<>> \in Seq(1..4)
  OBVIOUS
<1>2. Carriers = {} /\ Waiting = {} /\ ~Active
  BY DEF Carriers, Waiting, Active
<1>3. ProgramTypeOK
  BY <1>1 DEF ProgramTypeOK, WorkerPc
<1>4. Along /\ OnePiece
  BY <1>1, <1>2 DEF Along, OnePiece
<1>5. CallsUnderWay /\ Serving
  BY <1>2 DEF CallsUnderWay, Serving
<1>6. Resting /\ Noted
  BY <1>1, <1>2 DEF Resting, Noted
<1> QED
  BY <1>3, <1>4, <1>5, <1>6 DEF ProgramInv

(* A hop, by main or by a worker, is the next one of the script.           *)
LEMMA HopperCarries ==
  ASSUME ProgramAssumption, ProgramInv
  PROVE  /\ MainCallsFunc => main \in Carriers /\ Reached = 0 /\ Hop(main, 1)
         /\ \A q \in Queues : MakeHop(q) =>
              q \in Carriers /\ Reached \in 1..3 /\ Hop(q, Reached + 1)
<1> USE ThreadsAre DEF ProgramInv
<1>1. ASSUME MainCallsFunc PROVE main \in Carriers /\ Reached = 0 /\ Hop(main, 1)
  BY <1>1 DEF MainCallsFunc, Carriers, OnePiece
<1>2. ASSUME NEW q \in Queues, MakeHop(q)
      PROVE  q \in Carriers /\ Reached \in 1..3 /\ Hop(q, Reached + 1)
  <2>1. Len(Script) = 4
    BY ScriptsAre, PathIs DEF Script, ProgramTypeOK
  <2>2. cur[q] = Reached /\ q \in Carriers /\ cur[q] \in 1..Reached
    BY <1>2 DEF MakeHop, OnePiece, Carriers
  <2> QED
    BY <1>2, <2>1, <2>2 DEF MakeHop, Along
<1> QED
  BY <1>1, <1>2

LEMMA NextProgramInv ==
  ASSUME ProgramAssumption, ProgramInv, [ProgramNext]_allVars
  PROVE  ProgramInv'
<1>1. CASE MainThread
  <2>1. CASE MainCallsFunc
    <3>1. main \in Threads /\ main \in Carriers /\ Reached = 0 /\ Hop(main, 1)
      BY <2>1, HopperCarries, ThreadsAre
    <3> QED
      BY <3>1, HopKeeps
  <2> QED
    BY <1>1, <2>1, SpawnKeeps, EnterKeeps, FuncReturnsKeeps, JoinKeeps DEF MainThread
<1>2. ASSUME NEW q \in Queues, WorkerThread(q) PROVE ProgramInv'
  <2>1. CASE MakeHop(q)
    <3>1. q \in Threads /\ q \in Carriers /\ Reached + 1 \in 1..4 /\ Hop(q, Reached + 1)
      BY <2>1, HopperCarries, ThreadsAre
    <3> QED
      BY <3>1, HopKeeps
  <2> QED
    BY <1>2, <2>1, LoopKeeps, BeginKeeps, ShutdownKeeps, PieceReturnsKeeps DEF WorkerThread
<1>3. ASSUME NEW t \in Threads, NotifyStep(t) PROVE ProgramInv'
  BY <1>3, NotifyKeeps
<1>4. ASSUME NEW q \in Queues, SpuriousWake(q) /\ UNCHANGED progVars PROVE ProgramInv'
  BY <1>4, LoopKeeps
<1>5. CASE UNCHANGED allVars
  BY <1>5 DEF allVars, vars, queueVars, progVars, ProgramInv, ProgramTypeOK, Along, OnePiece,
              CallsUnderWay, Serving, Resting, Noted, Active, Carriers, Waiting, Reached
<1> QED
  BY <1>1, <1>2, <1>3, <1>4, <1>5 DEF ProgramNext

(* The invariant of the program: a piece of the script is run, is about to *)
(* be taken from its queue, or has shut all the queues down, and what each *)
(* thread is doing fits to that (main.cpp:10-46, CorutineTask.cpp:8-109).  *)
THEOREM ProgramConsistent == ProgramAssumption => (ProgramSpec => []ProgramInv)
<1> SUFFICES ASSUME ProgramAssumption PROVE ProgramSpec => []ProgramInv
  OBVIOUS
<1>1. ProgramInit => ProgramInv
  BY InitProgramInv
<1>2. ProgramInv /\ [ProgramNext]_allVars => ProgramInv'
  BY NextProgramInv
<1> QED
  BY <1>1, <1>2, PTL DEF ProgramSpec

(* The baton is in one place only: a handle that was pushed is not also    *)
(* being run (CorutineTask.cpp:20-24 and the comment at 102).              *)
THEOREM CarriedByOne == ProgramAssumption => (ProgramSpec => []OneCarrier)
<1> SUFFICES ASSUME ProgramAssumption PROVE ProgramSpec => []OneCarrier
  OBVIOUS
<1>1. ASSUME ProgramInv PROVE OneCarrier
  <2> USE ThreadsAre DEF ProgramInv
  <2>1. ASSUME NEW q \in Queues PROVE Len(tasks[q]) <= 1
    <3>1. tasks[q] = <<>> \/ tasks[q] = <<Reached + 1>>
      BY <1>1 DEF OnePiece
    <3>2. CASE tasks[q] = <<>>
      BY <3>2
    <3>3. CASE tasks[q] = <<Reached + 1>>
      BY <3>3
    <3> QED
      BY <3>1, <3>2, <3>3
  <2>2. \A x, y \in Carriers : x = y
    BY <1>1 DEF Carriers, OnePiece
  <2>3. \A x, y \in Waiting : x = y
    BY <1>1 DEF Waiting, OnePiece
  <2> QED
    BY <1>1, <2>1, <2>2, <2>3 DEF OneCarrier, OnePiece
<1> QED
  BY <1>1, ProgramConsistent, PTL

(* The second test starts on queues the first one left empty, with nobody  *)
(* still inside a call on them: the queues are static (main.cpp:42-45).    *)
THEOREM TestsStartClean == ProgramAssumption => (ProgramSpec => []CleanBetweenTests)
<1> SUFFICES ASSUME ProgramAssumption PROVE ProgramSpec => []CleanBetweenTests
  OBVIOUS
<1>1. ASSUME ProgramInv PROVE CleanBetweenTests
  <2> USE ThreadsAre DEF ProgramInv
  <2> SUFFICES ASSUME (mainPc = "spawn" /\ made[main] = 0) \/ mainPc = "done"
               PROVE  (\A q \in Queues : tasks[q] = <<>>) /\ pendingOne \cup pendingAll = {}
    BY DEF CleanBetweenTests
  <2>1. \A q \in Queues : tasks[q] = <<>>
    BY <1>1 DEF Resting, Active, Waiting
  <2>2. \A q \in Queues : pc[q] # "running"
    BY <1>1 DEF Resting
  <2>3. pendingOne \cup pendingAll = {}
    BY <1>1, <2>2 DEF CallsUnderWay, ProgramTypeOK
  <2> QED
    BY <2>1, <2>3
<1> QED
  BY <1>1, ProgramConsistent, PTL

(* Shutdown never runs before the worker entered Run, which would clear    *)
(* the flag again (WorkQueue.cpp:13, 28): who shuts down runs the last     *)
(* piece, and each queue has run one.                                      *)
THEOREM NoShutdownIsUndone == ProgramAssumption => (ProgramSpec => ShutdownFindsTheLoopRunning)
<1> SUFFICES ASSUME ProgramAssumption PROVE ProgramSpec => ShutdownFindsTheLoopRunning
  OBVIOUS
<1> DEFINE Found == \A t \in Threads, q \in Queues :
                       <<t, q>> \in pendingAll' \ pendingAll => pc[q] # "start"
<1>1. ASSUME ProgramInv, [ProgramNext]_allVars PROVE Found
  <2>1. CASE \E q \in Queues : ShutdownAllThreads(q)
    <3>1. Reached = 4 /\ Along
      BY <1>1, <2>1, ShutdownKeeps DEF ProgramInv
    <3>2. \A q \in Queues : \E i \in 1..4 : Path[i] = q
      BY PathIs, ThreadsAre
    <3> QED
      BY <3>1, <3>2 DEF Along
  <2>2. CASE ~\E q \in Queues : ShutdownAllThreads(q)
    <3>1. pendingAll' \subseteq pendingAll
      BY <1>1, <2>2
      DEF ProgramNext, MainThread, WorkerThread, LoopStep, NotifyStep, Notification, SpuriousWake,
          SpawnWorker, StartWorker, MainEntersFunc, MainCallsFunc, MainFuncReturns, MainJoins,
          MakeHop, Hop, PushCallback, AwaitQueue, PushTask, BeginPiece, TakeTask, PieceReturns,
          TaskEnd, RunBegin, Lock, EvalPredicate, Block, RunReturn, NotifyOne, NotifyAll,
          allVars, vars, queueVars
    <3> QED
      BY <3>1
  <2> QED
    BY <2>1, <2>2
<1> QED
  BY <1>1, ProgramConsistent, PTL DEF ProgramSpec, ShutdownFindsTheLoopRunning

(* The program implements the straight-line code: each piece that begins   *)
(* is the next of the script on the thread the script names, and the       *)
(* second test begins when all pieces of the first have run                *)
(* (TestCodeCallbacks.h:11-38, TestCodeCoroutines.h:12-43).                *)
THEOREM RunsTheScript == ProgramAssumption => (ProgramSpec => StraightLine)
<1> SUFFICES ASSUME ProgramAssumption PROVE ProgramSpec => StraightLine
  OBVIOUS
<1>1. ProgramInit => Sequential!Init
  BY DEF ProgramInit, Sequential!Init
<1>2. ASSUME ProgramInv, [ProgramNext]_allVars
      PROVE  [Sequential!Next]_<<test, trail>>
  <2>1. Sequential!Script = Path
    BY <1>2, ScriptsAre DEF Sequential!Script, ProgramInv, ProgramTypeOK
  <2>2. ASSUME NEW q \in Queues, BeginPiece(q) PROVE Sequential!RunPiece
    <3>1. /\ Reached \in 0..3 /\ q = Path[Reached + 1]
          /\ trail' = Append(trail, q) /\ UNCHANGED test
      BY <1>2, <2>2, BeginIs
    <3> QED
      <4>1. Len(trail) < Len(Sequential!Script)
        <5>1. Reached \in 0..3
          BY <3>1
        <5>2. Reached < 4
          BY <5>1
        <5>3. Len(Sequential!Script) = 4
          BY <2>1, PathIs
        <5> QED
          BY <5>2, <5>3 DEF Reached
      <4>2. trail' = Append(trail, Sequential!Script[Len(trail) + 1])
        BY <2>1, <3>1 DEF Reached
      <4> QED
        BY <3>1, <4>1, <4>2 DEF Sequential!RunPiece
  <2>3. ASSUME MainJoins PROVE Sequential!NextTest \/ UNCHANGED <<test, trail>>
    <3>1. Len(trail) = 4
      BY <1>2, <2>3, JoinEnds DEF Reached
    <3> QED
      BY <2>1, <2>3, <3>1, PathIs DEF MainJoins, Sequential!NextTest
  <2>4. ASSUME MainCallsFunc PROVE UNCHANGED <<test, trail>>
    BY <1>2, <2>4, HopperCarries, HopIs, ThreadsAre
  <2>5. ASSUME NEW q \in Queues, MakeHop(q) PROVE UNCHANGED <<test, trail>>
    <3>1. q \in Threads /\ q \in Carriers /\ Reached + 1 \in 1..4 /\ Hop(q, Reached + 1)
      BY <1>2, <2>5, HopperCarries, ThreadsAre
    <3> QED
      BY <1>2, <3>1, HopIs
  <2>6. CASE \/ \E q \in Queues : BeginPiece(q) \/ MakeHop(q)
             \/ MainJoins \/ MainCallsFunc
    BY <2>2, <2>3, <2>4, <2>5, <2>6 DEF Sequential!Next
  <2>7. CASE ~(\/ \E q \in Queues : BeginPiece(q) \/ MakeHop(q)
               \/ MainJoins \/ MainCallsFunc)
    <3>1. UNCHANGED <<test, trail>>
      BY <1>2, <2>7
      DEF ProgramNext, MainThread, WorkerThread, LoopStep, NotifyStep, progVars,
          SpawnWorker, MainEntersFunc, MainFuncReturns, ShutdownAllThreads, PieceReturns, allVars
    <3> QED
      BY <3>1
  <2> QED
    BY <2>6, <2>7
<1> QED
  BY <1>1, <1>2, ProgramConsistent, PTL DEF ProgramSpec, StraightLine, Sequential!Spec
=============================================================================
