------------------------------ MODULE WhenAll ------------------------------
(***************************************************************************)
(* task, when_all_ready and when_all of cppcoro.  Every awaitable is       *)
(* wrapped in a coroutine that awaits it, keeps its result and counts      *)
(* down; the parent starts the wrappers and counts down itself, so that    *)
(* whoever is last, on any thread, lets the parent go on.                  *)
(***************************************************************************)
EXTENDS SharedTask

Parent == <<"root", 0>>
Wrapper(u) == <<"wrapper", u>>

VARIABLES symmetric,    \* CPPCORO_COMPILER_SUPPORTS_SYMMETRIC_TRANSFER
          settled,      \* m_state of a task: attached to or complete
          result,       \* what a task has returned or thrown
          count,        \* of the when_all_counter
          next          \* the wrapper that the parent starts next

allVars == <<symmetric, settled, result, count, next>>

AllInit ==
    /\ symmetric \in BOOLEAN
    /\ settled = [u \in Users |-> FALSE]
    /\ result = [u \in Users |-> NoResult]
    /\ count = Cardinality(Users) + 1
    /\ next = 1

-----------------------------------------------------------------------------
(* The parent.                                                             *)

StartNext(t) ==
    /\ Top(t, Parent, "start") /\ next <= Cardinality(Users)
    /\ next' = next + 1
    /\ Call(t, Parent, "start", Wrapper(next), "await")
    /\ UNCHANGED <<symmetric, settled, result, count, sharedVars>>

\* Mutant: goes on without waiting for the wrappers.
TryAwaitNobody(t) ==
    /\ Top(t, Parent, "start") /\ next > Cardinality(Users)
    /\ count' = count - 1
    /\ Goto(Parent, "results")
    /\ UNCHANGED <<symmetric, settled, result, next, sharedVars>>

\* It suspends unless all the wrappers are done.
TryAwait(t) ==
    /\ Top(t, Parent, "start") /\ next > Cardinality(Users)
    /\ count' = count - 1
    /\ IF count > 1 THEN Suspend(t, Parent, "suspended") ELSE Goto(Parent, "results")
    /\ UNCHANGED <<symmetric, settled, result, next, sharedVars>>

-----------------------------------------------------------------------------
(* A wrapper and the task that it awaits.                                  *)

\* With symmetric transfer the continuation is set before the task starts.
AwaitTask(t, u) ==
    /\ Top(t, Wrapper(u), "await")
    /\ IF symmetric
       THEN Transfer(t, Wrapper(u), "suspended", User(u), "begin")
       ELSE Call(t, Wrapper(u), "attach", User(u), "begin")
    /\ UNCHANGED <<allVars, sharedVars>>

\* Otherwise it is set when the task has suspended or completed, and the
\* wrapper goes on at once if the task is found complete.
TrySetContinuation(t, u) ==
    /\ Top(t, Wrapper(u), "attach")
    /\ settled' = [settled EXCEPT ![u] = TRUE]
    /\ IF settled[u] THEN Goto(Wrapper(u), "result") ELSE Suspend(t, Wrapper(u), "suspended")
    /\ UNCHANGED <<symmetric, result, count, next, sharedVars>>

\* Mutant: resumes the continuation without asking whether there is one.
FinishUnasked(t, u) ==
    /\ Top(t, User(u), "finish")
    /\ settled' = [settled EXCEPT ![u] = TRUE]
    /\ Transfer(t, User(u), "done", Wrapper(u), "result")
    /\ UNCHANGED <<symmetric, result, count, next, sharedVars>>

Finish(t, u) ==
    /\ Top(t, User(u), "finish")
    /\ settled' = [settled EXCEPT ![u] = ~symmetric]
    /\ IF symmetric \/ settled[u]
       THEN Transfer(t, User(u), "done", Wrapper(u), "result")
       ELSE Suspend(t, User(u), "done")
    /\ UNCHANGED <<symmetric, result, count, next, sharedVars>>

\* The wrapper keeps where the result is, and the last one resumes the parent.
NotifyCompleted(t, u) ==
    /\ Top(t, Wrapper(u), "result")
    /\ count' = count - 1
    /\ IF count = 1
       THEN Transfer(t, Wrapper(u), "done", Parent, "results")
       ELSE Suspend(t, Wrapper(u), "done")
    /\ UNCHANGED <<symmetric, settled, result, next, sharedVars>>

\* when_all: the first exception in the order of the tasks, or all the values.
Combined == IF \E u \in Users : result[u] = "exception" THEN "exception" ELSE "value"
=============================================================================
