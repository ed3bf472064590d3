----------------------------- MODULE SharedTask -----------------------------
(***************************************************************************)
(* shared_task of cppcoro: a coroutine with several owners, started by the *)
(* first one that awaits it, whose result all of them see.  One atomic     *)
(* pointer says whether it has been started, who waits (a stack) and       *)
(* whether it is ready; a counter holds the references, and the last one   *)
(* to go destroys the frame.                                               *)
(***************************************************************************)
EXTENDS CoroStacks

CONSTANTS Users, NoResult
Body == <<"shared", 0>>
User(u) == <<"body", u>>

VARIABLES waiters,      \* m_waiters
          refCount,     \* m_refCount
          outcome,      \* what the coroutine has returned or thrown
          oldWaiters,   \* of an awaiter, what it last read
          walk          \* of final_suspend, the waiters not resumed yet

sharedVars == <<waiters, refCount, outcome, oldWaiters, walk>>

Outcomes == {"value", "exception"}

NotStarted == [phase |-> "notStarted", list |-> <<>>]
Started(list) == [phase |-> "started", list |-> list]
ValueReady == [phase |-> "ready", list |-> <<>>]

\* Mutant: one copy that does not count as a reference.
CopiesButOne == Cardinality(Users) - 1

\* The copy constructor adds a reference for each user.
Copies == Cardinality(Users)

\* The reference of who made it and those of the copies.
SharedInit ==
    /\ waiters = NotStarted
    /\ refCount = 1 + Copies
    /\ outcome = NoResult
    /\ oldWaiters = [u \in Users |-> NotStarted]
    /\ walk = <<>>

\* await_ready.
IsReady(t, u) ==
    /\ Top(t, User(u), "await")
    /\ Goto(User(u), IF waiters = ValueReady THEN "result" ELSE "load")
    /\ UNCHANGED sharedVars

\* Reads the pointer, before and after the first awaiter starts the task.
Load(t, u) ==
    \E l \in {"load", "reload"} :
       /\ Top(t, User(u), l)
       /\ oldWaiters' = [oldWaiters EXCEPT ![u] = waiters]
       /\ Goto(User(u), IF l = "load" /\ waiters = NotStarted THEN "start" ELSE "enqueue")
       /\ UNCHANGED <<waiters, refCount, outcome, walk>>

\* Of several first awaiters one gets to start the task.
Start(t, u) ==
    /\ Top(t, User(u), "start")
    /\ \/ /\ waiters = NotStarted
          /\ waiters' = Started(<<>>)
          /\ Call(t, User(u), "reload", Body, "begin")
          /\ UNCHANGED oldWaiters
       \/ /\ waiters # NotStarted
          /\ oldWaiters' = [oldWaiters EXCEPT ![u] = waiters]
          /\ Goto(User(u), "enqueue")
          /\ UNCHANGED waiters
    /\ UNCHANGED <<refCount, outcome, walk>>

\* One turn of the loop that adds the awaiter to the list.
Enqueue(t, u) ==
    /\ Top(t, User(u), "enqueue")
    /\ \/ /\ oldWaiters[u] = ValueReady
          /\ Goto(User(u), "result")
          /\ UNCHANGED <<waiters, oldWaiters>>
       \/ /\ oldWaiters[u] # ValueReady /\ waiters = oldWaiters[u]
          /\ waiters' = Started(<<u>> \o oldWaiters[u].list)
          /\ Suspend(t, User(u), "queued")
          /\ UNCHANGED oldWaiters
       \/ /\ oldWaiters[u] # ValueReady /\ waiters # oldWaiters[u]
          /\ oldWaiters' = [oldWaiters EXCEPT ![u] = waiters]
          /\ UNCHANGED <<waiters, stackVars>>
    /\ UNCHANGED <<refCount, outcome, walk>>

-----------------------------------------------------------------------------
(* The coroutine itself.                                                   *)

\* What it awaits is there, or comes later on a thread of its own; Complete
\* is its end.
Begin(t) ==
    /\ Top(t, Body, "begin")
    /\ Goto(Body, "complete") \/ Suspend(t, Body, "operation")
    /\ UNCHANGED sharedVars

Continue(t) ==
    /\ at[Body] = "operation"
    /\ ResumeOn(t, Body, "complete")
    /\ UNCHANGED sharedVars

\* The result is stored, then final_suspend announces it and takes the list.
Complete(t) ==
    /\ Top(t, Body, "complete")
    /\ IF outcome = NoResult
       THEN /\ outcome' \in Outcomes
            /\ UNCHANGED <<waiters, walk, stackVars>>
       ELSE /\ waiters' = ValueReady
            /\ walk' = waiters.list
            /\ IF waiters.list = <<>> THEN Suspend(t, Body, "done") ELSE Goto(Body, "walk")
            /\ UNCHANGED outcome
    /\ UNCHANGED <<refCount, oldWaiters>>

\* The waiters are resumed one after the other, the last one in tail position.
ResumeWaiter(t) ==
    /\ Top(t, Body, "walk")
    /\ walk' = Tail(walk)
    /\ IF Tail(walk) # <<>>
       THEN Call(t, Body, "walk", User(Head(walk)), "result")
       ELSE Transfer(t, Body, "done", User(Head(walk)), "result")
    /\ UNCHANGED <<waiters, refCount, outcome, oldWaiters>>

\* shared_task::destroy: the last reference destroys the frame.
Detach == refCount' = refCount - 1

Destroyed == refCount = 0
=============================================================================
