------------------------------ MODULE WorkQueue ------------------------------
(***************************************************************************)
(* The task queue of Example_1_std: a deque, a mutex and a condition       *)
(* variable, emptied by the one worker thread that is inside Run().  The   *)
(* worker of queue q is the thread q.  Any thread, a worker that is        *)
(* running a task included, may push tasks and call Shutdown.              *)
(*                                                                         *)
(* PushTask holds the mutex only to append, so its critical section is one *)
(* step; the worker holds it from the lock in PopTask until it blocks or   *)
(* leaves PopTask, and condition_variable::wait is split where another     *)
(* thread can act: lock, evaluate the predicate, block, be woken, relock.  *)
(***************************************************************************)
EXTENDS Integers, Sequences, SequencesExt

CONSTANTS Queues,        \* work queues, and their worker threads
          Clients,       \* threads that are nobody's worker
          Tasks,
          NoTask,        \* the empty std::function
          MaxSpurious    \* bound: spurious wake-ups of condition variables

ASSUME TaskAssumption == NoTask \notin Tasks
ASSUME ThreadAssumption == Queues \cap Clients = {}
ASSUME SpuriousAssumption == MaxSpurious \in Nat

VARIABLES tasks,       \* WorkQueue::_tasks
          stop,        \* WorkQueue::_stop
          pc,          \* where the worker of the queue is
          cur,         \* the task the worker took last
          pendingOne,  \* <<t, q>>: t is before q's notify_one in PushTask
          pendingAll,  \* <<t, q>>: t is before q's notify_all in Shutdown
          spurious,    \* spurious wake-ups so far
          pushed,      \* history: every task pushed, in order
          ran          \* history: every task taken, in order

queueVars == <<tasks, stop, pc, cur, pendingOne, pendingAll, spurious>>
vars == <<queueVars, pushed, ran>>

Threads == Queues \cup Clients

WorkerPc == {"start", "lock", "predicate", "block", "waiting", "woken",
             "take", "running", "returned"}

Locked(q) == pc[q] \in {"predicate", "block", "take"}

Goto(q, label) == pc' = [pc EXCEPT ![q] = label]

\* A thread is free to make its next call: it is not inside another one.
Free(t) == \A q \in Queues : <<t, q>> \notin pendingOne \cup pendingAll

Init ==
    /\ tasks = [q \in Queues |-> <<>>]
    /\ stop = [q \in Queues |-> FALSE]
    /\ pc = [q \in Queues |-> "returned"]
    /\ cur = [q \in Queues |-> NoTask]
    /\ pendingOne = {}
    /\ pendingAll = {}
    /\ spurious = 0
    /\ pushed = [q \in Queues |-> <<>>]
    /\ ran = [q \in Queues |-> <<>>]

-----------------------------------------------------------------------------
(* The worker: Run and PopTask.                                            *)

\* A thread that will call Run is created; Run may be called again later.
StartWorker(q) ==
    /\ pc[q] = "returned"
    /\ Goto(q, "start")
    /\ UNCHANGED <<tasks, stop, cur, pendingOne, pendingAll, spurious, pushed, ran>>

RunBegin(q) ==
    /\ pc[q] = "start"
    /\ Goto(q, "lock")
    /\ stop' = [stop EXCEPT ![q] = FALSE]
    /\ UNCHANGED <<tasks, cur, pendingOne, pendingAll, spurious, pushed, ran>>

\* Mutant: wait() without its predicate loop, a wake-up counts as a task.
LockWithoutRecheck(q) ==
    /\ pc[q] \in {"lock", "woken"}
    /\ Goto(q, IF pc[q] = "woken" THEN "take" ELSE "predicate")
    /\ UNCHANGED <<tasks, stop, cur, pendingOne, pendingAll, spurious, pushed, ran>>

Lock(q) ==
    /\ pc[q] \in {"lock", "woken"}
    /\ Goto(q, "predicate")
    /\ UNCHANGED <<tasks, stop, cur, pendingOne, pendingAll, spurious, pushed, ran>>

Predicate(q) == tasks[q] # <<>> \/ stop[q]

EvalPredicate(q) ==
    /\ pc[q] = "predicate"
    /\ Goto(q, IF Predicate(q) THEN "take" ELSE "block")
    /\ UNCHANGED <<tasks, stop, cur, pendingOne, pendingAll, spurious, pushed, ran>>

\* wait() releases the mutex and starts to wait in one step.
Block(q) ==
    /\ pc[q] = "block"
    /\ Goto(q, "waiting")
    /\ UNCHANGED <<tasks, stop, cur, pendingOne, pendingAll, spurious, pushed, ran>>

SpuriousWake(q) ==
    /\ pc[q] = "waiting"
    /\ spurious < MaxSpurious
    /\ spurious' = spurious + 1
    /\ Goto(q, "woken")
    /\ UNCHANGED <<tasks, stop, cur, pendingOne, pendingAll, pushed, ran>>

\* Mutant: the worker takes the youngest task.
TakeFromBack(q) ==
    /\ pc[q] = "take"
    /\ tasks[q] # <<>>
    /\ cur' = [cur EXCEPT ![q] = Last(tasks[q])]
    /\ tasks' = [tasks EXCEPT ![q] = Front(@)]
    /\ ran' = [ran EXCEPT ![q] = Append(@, Last(tasks[q]))]
    /\ Goto(q, "running")
    /\ UNCHANGED <<stop, pendingOne, pendingAll, spurious, pushed>>

TakeTask(q) ==
    /\ pc[q] = "take"
    /\ tasks[q] # <<>>
    /\ cur' = [cur EXCEPT ![q] = Head(tasks[q])]
    /\ tasks' = [tasks EXCEPT ![q] = Tail(@)]
    /\ ran' = [ran EXCEPT ![q] = Append(@, Head(tasks[q]))]
    /\ Goto(q, "running")
    /\ UNCHANGED <<stop, pendingOne, pendingAll, spurious, pushed>>

\* PopTask found no task: the empty function makes Run return.
RunReturn(q) ==
    /\ pc[q] = "take"
    /\ tasks[q] = <<>>
    /\ cur' = [cur EXCEPT ![q] = NoTask]
    /\ Goto(q, "returned")
    /\ UNCHANGED <<tasks, stop, pendingOne, pendingAll, spurious, pushed, ran>>

TaskEnd(q) ==
    /\ pc[q] = "running"
    /\ Free(q)
    /\ Goto(q, "lock")
    /\ UNCHANGED <<tasks, stop, cur, pendingOne, pendingAll, spurious, pushed, ran>>

-----------------------------------------------------------------------------
(* The callers: PushTask and Shutdown, each up to its notification.        *)

MayCall(t) == (t \in Queues => pc[t] = "running") /\ Free(t)

\* Mutant: the deque is changed without its mutex.
PushWithoutLock(t, q, task) ==
    /\ MayCall(t)
    /\ tasks' = [tasks EXCEPT ![q] = Append(@, task)]
    /\ pushed' = [pushed EXCEPT ![q] = Append(@, task)]
    /\ pendingOne' = pendingOne \cup {<<t, q>>}
    /\ UNCHANGED <<stop, pc, cur, pendingAll, spurious, ran>>

PushTask(t, q, task) ==
    /\ MayCall(t)
    /\ ~Locked(q)
    /\ tasks' = [tasks EXCEPT ![q] = Append(@, task)]
    /\ pushed' = [pushed EXCEPT ![q] = Append(@, task)]
    /\ pendingOne' = pendingOne \cup {<<t, q>>}
    /\ UNCHANGED <<stop, pc, cur, pendingAll, spurious, ran>>

\* Mutant: notifications reach nobody.
WakeNobody(q) == Goto(q, pc[q])

WakeWorker(q) == Goto(q, IF pc[q] = "waiting" THEN "woken" ELSE pc[q])

NotifyOne(t, q) ==
    /\ <<t, q>> \in pendingOne
    /\ pendingOne' = pendingOne \ {<<t, q>>}
    /\ WakeWorker(q)
    /\ UNCHANGED <<tasks, stop, cur, pendingAll, spurious, pushed, ran>>

\* Shutdown stores the flag without taking the mutex.
SetStop(t, q) ==
    /\ MayCall(t)
    /\ stop' = [stop EXCEPT ![q] = TRUE]
    /\ pendingAll' = pendingAll \cup {<<t, q>>}
    /\ UNCHANGED <<tasks, pc, cur, pendingOne, spurious, pushed, ran>>

NotifyAll(t, q) ==
    /\ <<t, q>> \in pendingAll
    /\ pendingAll' = pendingAll \ {<<t, q>>}
    /\ WakeWorker(q)
    /\ UNCHANGED <<tasks, stop, cur, pendingOne, spurious, pushed, ran>>

WorkerStep(q) ==
    \/ RunBegin(q) \/ Lock(q) \/ EvalPredicate(q) \/ Block(q)
    \/ TakeTask(q) \/ RunReturn(q) \/ TaskEnd(q)

Notification(t) == \E q \in Queues : NotifyOne(t, q) \/ NotifyAll(t, q)

-----------------------------------------------------------------------------
(* The queue in an arbitrary program: every task is pushed at most once    *)
(* and a queue is shut down at most once (the bounds of the model).        *)

Pushed(task) == \E q \in Queues : task \in ToSet(pushed[q])

Call(t) == \E q \in Queues :
    \/ \E task \in Tasks : ~Pushed(task) /\ PushTask(t, q, task)
    \/ ~stop[q] /\ SetStop(t, q)

Next ==
    \/ \E q \in Queues : StartWorker(q) \/ WorkerStep(q) \/ SpuriousWake(q)
    \/ \E t \in Threads : Call(t) \/ Notification(t)

Spec == Init /\ [][Next]_vars

-----------------------------------------------------------------------------
(* Every variable stays in its type, and a thread is inside at most one    *)
(* call of PushTask or Shutdown.                                           *)
TypeOK ==
    /\ tasks \in [Queues -> Seq(Tasks)]
    /\ stop \in [Queues -> BOOLEAN]
    /\ pc \in [Queues -> WorkerPc]
    /\ cur \in [Queues -> Tasks \cup {NoTask}]
    /\ pendingOne \subseteq Threads \X Queues
    /\ pendingAll \subseteq Threads \X Queues
    /\ spurious \in 0..MaxSpurious
    /\ pushed \in [Queues -> Seq(Tasks)]
    /\ ran \in [Queues -> Seq(Tasks)]

(* A worker never sleeps, nor is about to, on a queue with a task in it    *)
(* unless a notify_one for that queue is still to come: PushTask may       *)
(* notify after it unlocks (WorkQueue.cpp:57-63) and no wake-up is lost.   *)
NoLostTaskWakeup ==
    \A q \in Queues :
        /\ pc[q] = "block" => tasks[q] = <<>>
        /\ pc[q] = "waiting" /\ tasks[q] # <<>>
              => \E t \in Threads : <<t, q>> \in pendingOne

(* Every task pushed is taken exactly once and in the order pushed: what   *)
(* was taken and what waits is at all times what was pushed                *)
(* (WorkQueue.cpp:49-51, 59).                                              *)
TakenInPushOrder ==
    \A q \in Queues : pushed[q] = ran[q] \o tasks[q]

(* Run returns only when its queue was shut down and has no task left: a   *)
(* step that makes the worker return leaves the queue drained, even when   *)
(* the flag was already set while tasks were waiting (WorkQueue.cpp:44-47).*)
ReturnsOnlyDrained ==
    [][\A q \in Queues : (pc'[q] = "returned" /\ pc[q] # "returned")
          => (stop[q] /\ pushed[q] = ran[q])]_vars
=============================================================================
