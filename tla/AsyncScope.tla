----------------------------- MODULE AsyncScope -----------------------------
(***************************************************************************)
(* async_scope of cppcoro: coroutines that nobody awaits one by one, and a *)
(* join() that goes on when the last of them is done.  The scope counts    *)
(* itself until it is joined.                                              *)
(***************************************************************************)
EXTENDS CoroStacks

VARIABLE running      \* m_count

ScopeInit == running = 1

\* spawn() runs the new coroutine on this stack until it suspends first.
Spawn(t, c, afterwards, work, l) ==
    /\ Top(t, c, "spawn")
    /\ running' = running + 1
    /\ Call(t, c, afterwards, work, l)

\* It suspends unless all the work is done.
Join(t, c) ==
    /\ Top(t, c, "join")
    /\ running' = running - 1
    /\ IF running > 1 THEN Suspend(t, c, "joining") ELSE Goto(c, "joined")

\* Mutant: the count is taken before the decrement.
WorkFinishedEarly(t, c, owner) ==
    /\ Top(t, c, "leave")
    /\ running' = running - 1
    /\ IF running <= 2
       THEN Transfer(t, c, "done", owner, "joined")
       ELSE Suspend(t, c, "done")

\* on_work_finished: the last one resumes who joined.
WorkFinished(t, c, owner) ==
    /\ Top(t, c, "leave")
    /\ running' = running - 1
    /\ IF running = 1
       THEN Transfer(t, c, "done", owner, "joined")
       ELSE Suspend(t, c, "done")
=============================================================================
