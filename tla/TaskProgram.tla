---------------------------- MODULE TaskProgram ----------------------------
(***************************************************************************)
(* sync_wait(when_all(task, ...)), as the library's tests write it.  Every *)
(* task first awaits an operation of its own, which may complete at once,  *)
(* fail, or complete later on a thread of its own.  Then it awaits a       *)
(* shared_task that each of them has a copy of and that completes on yet   *)
(* another thread.                                                         *)
(***************************************************************************)
EXTENDS SyncWait

CONSTANT ThreadOf         \* the threads that complete the operations

UserAssumption ==
    /\ IsFiniteSet(Users) /\ Users = 1..Cardinality(Users)
    /\ Coros = {Parent, Body} \cup {Wrapper(u) : u \in Users} \cup {User(u) : u \in Users}
    /\ {Main, ThreadOf[Body]} \cup {ThreadOf[User(u)] : u \in Users} \subseteq Threads
    /\ NoResult \notin Outcomes

VARIABLE holds            \* main still has its reference to the shared task

taskVars == <<stackVars, sharedVars, allVars, waitVars, holds>>

TaskInit ==
    /\ stack = [t \in Threads |-> <<>>]
    /\ at = [co \in Coros |-> "created"]
    /\ SharedInit /\ AllInit /\ WaitInit
    /\ holds = TRUE

\* Bound: the operation of a task is one event.
Operation(t, u) ==
    /\ Top(t, User(u), "begin")
    /\ \/ Goto(User(u), "await") /\ UNCHANGED result
       \/ /\ result' = [result EXCEPT ![u] = "exception"]
          /\ Goto(User(u), "release")
       \/ Suspend(t, User(u), "operation") /\ UNCHANGED result
    /\ UNCHANGED <<symmetric, settled, count, next, sharedVars>>

OperationDone(u) ==
    /\ at[User(u)] = "operation"
    /\ ResumeOn(ThreadOf[User(u)], User(u), "await")
    /\ UNCHANGED <<sharedVars, allVars>>

\* await_resume of the shared task returns its value or throws its exception.
SharedResult(t, u) ==
    /\ Top(t, User(u), "result")
    /\ result' = [result EXCEPT ![u] = outcome]
    /\ Goto(User(u), "release")
    /\ UNCHANGED <<symmetric, settled, count, next, sharedVars>>

\* The copy of the shared task goes out of scope.
Release(t, u) ==
    /\ Top(t, User(u), "release")
    /\ Detach
    /\ Goto(User(u), "finish")
    /\ UNCHANGED <<waiters, outcome, oldWaiters, walk, allVars>>

\* main may drop its own reference at any time that it runs.
Drop ==
    /\ holds /\ holds' = FALSE
    /\ mainAt \in {"begin", "returned"}
    /\ Detach
    /\ UNCHANGED <<waiters, outcome, oldWaiters, walk, stackVars, allVars, waitVars>>

-----------------------------------------------------------------------------
TaskStep(t, u) ==
    \/ /\ \/ IsReady(t, u) \/ Load(t, u) \/ Start(t, u) \/ Enqueue(t, u)
       /\ UNCHANGED allVars
    \/ AwaitTask(t, u) \/ TrySetContinuation(t, u) \/ Finish(t, u)
    \/ NotifyCompleted(t, u)
    \/ Operation(t, u) \/ SharedResult(t, u) \/ Release(t, u)

SharedStep(t) ==
    /\ Begin(t) \/ Complete(t) \/ ResumeWaiter(t)
    /\ UNCHANGED allVars

\* A step of what runs on a thread.
Run(t) ==
    \/ /\ \/ \E u \in Users : TaskStep(t, u)
          \/ SharedStep(t)
          \/ StartNext(t) \/ TryAwait(t)
       /\ UNCHANGED <<waitVars, holds>>
    \/ Set(t) /\ UNCHANGED holds
    \/ WakeAll(t) /\ UNCHANGED holds

\* What the tasks await completes.
Completes(u) == OperationDone(u) /\ UNCHANGED <<waitVars, holds>>
SharedCompletes == Continue(ThreadOf[Body]) /\ UNCHANGED <<allVars, waitVars, holds>>

MainStep == WaitStep /\ UNCHANGED holds

TaskNext ==
    \/ \E t \in Threads : Run(t)
    \/ \E u \in Users : Completes(u)
    \/ SharedCompletes \/ MainStep \/ Drop
    \/ SpuriousWakeUp /\ UNCHANGED holds

\* Threads run, and what is awaited completes.
TaskFairness ==
    /\ \A t \in Threads : WF_taskVars(Run(t))
    /\ \A u \in Users : WF_taskVars(Completes(u))
    /\ WF_taskVars(SharedCompletes)
    /\ WF_taskVars(MainStep)

TaskSpec == TaskInit /\ [][TaskNext]_taskVars /\ TaskFairness

-----------------------------------------------------------------------------
(* Properties.                                                             *)

\* A coroutine runs on one thread while it runs and on none while it is
\* suspended: no race of a completion with a suspension resumes it twice or
\* resumes it before it has suspended.
OneActivation ==
    \A co \in Coros : Activations(co) = IF at[co] \in Suspensions THEN 0 ELSE 1

\* Where the frame of the shared task is used.
UsesShared(t) ==
    \/ \E u \in Users, l \in {"await", "load", "reload", "start", "enqueue", "result", "release"} :
         Top(t, User(u), l)
    \/ \E l \in {"begin", "complete"} : Top(t, Body, l)

\* The frame of the shared task outlives everyone who reads it or waits on
\* its list; what sync_wait destroys has been left by every thread, except
\* for the one that still has the futex to wake.
FramesOutliveUsers ==
    /\ Destroyed => /\ \A t \in Threads : ~UsesShared(t)
                    /\ \A u \in Users : at[User(u)] # "queued"
                    /\ at[Body] # "operation"
    /\ mainAt = "returned" =>
         \A t \in Threads : stack[t] \in {<<>>, <<Parent>>} /\ ~Top(t, Parent, "results")

\* The parent goes on when every task has its result, and the tasks that got
\* to the shared one agree on it.
ParentFindsTheResults ==
    at[Parent] \in {"results", "wake", "done"} =>
      \A u \in Users : /\ at[User(u)] = "done" /\ result[u] # NoResult
                       /\ result[u] = "value" => outcome = "value"

\* sync_wait returns: no notification and no wake-up is lost.
Returned == mainAt = "returned"
SyncWaitReturns == <>Returned
=============================================================================
