------------------------------ MODULE SyncWait ------------------------------
(***************************************************************************)
(* sync_wait of cppcoro: a coroutine awaits the awaitable and sets an      *)
(* event of the caller's stack at its end, on whichever thread that is;    *)
(* the caller waits for the event, takes the result and destroys both.     *)
(*                                                                         *)
(* lightweight_manual_reset_event has one implementation for each          *)
(* platform.  "futex" and "address" store the value and wake the waiters   *)
(* in two steps, and the waiter compares before it sleeps; the other two   *)
(* ("kernel"), a Win32 event and a condition variable, set and wake in one *)
(* step.                                                                   *)
(***************************************************************************)
EXTENDS WhenAll

CONSTANTS Main,             \* the thread that calls sync_wait
          Implementations   \* a subset of {"futex", "address", "kernel"}

VARIABLES implementation,
          event,            \* m_value, m_isSet
          mainAt,           \* where Main stands in sync_wait
          returned          \* what sync_wait has returned or thrown

waitVars == <<implementation, event, mainAt, returned>>

WaitInit ==
    /\ implementation \in Implementations
    /\ event = FALSE
    /\ mainAt = "begin"
    /\ returned = NoResult

\* start() runs the coroutine on this stack until it suspends first.
StartWait ==
    /\ mainAt = "begin"
    /\ mainAt' = "load"
    /\ ResumeOn(Main, Parent, "start")
    /\ UNCHANGED <<implementation, event, returned, sharedVars, allVars>>

\* A sleeping waiter is woken and looks again.
Wake == mainAt' = IF mainAt = "sleeping" THEN "load" ELSE mainAt

\* The coroutine has the results: final_suspend sets the event.
Set(t) ==
    /\ Top(t, Parent, "results")
    /\ event' = TRUE
    /\ IF implementation = "kernel"
       THEN Wake /\ Suspend(t, Parent, "done")
       ELSE UNCHANGED mainAt /\ Goto(Parent, "wake")
    /\ UNCHANGED <<implementation, returned, sharedVars, allVars>>

\* The futex or the address is all that it uses from here on.
WakeAll(t) ==
    /\ Top(t, Parent, "wake")
    /\ Wake
    /\ Suspend(t, Parent, "done")
    /\ UNCHANGED <<implementation, event, returned, sharedVars, allVars>>

\* The waiter: a look at the value ...
Look ==
    /\ mainAt = "load" /\ stack[Main] = <<>>
    /\ mainAt' = IF event THEN "return"
                 ELSE IF implementation = "kernel" THEN "sleeping" ELSE "sleep"
    /\ UNCHANGED <<implementation, event, returned, stackVars, sharedVars, allVars>>

\* Mutant: sleeps without another look at the value.
SleepUnchecked ==
    /\ mainAt = "sleep"
    /\ mainAt' = "sleeping"
    /\ UNCHANGED <<implementation, event, returned, stackVars, sharedVars, allVars>>

\* ... and the call that sleeps, which compares the value once more.  A futex
\* that finds it changed ends the wait.
Sleep ==
    /\ mainAt = "sleep"
    /\ mainAt' = IF ~event THEN "sleeping"
                 ELSE IF implementation = "futex" THEN "return" ELSE "load"
    /\ UNCHANGED <<implementation, event, returned, stackVars, sharedVars, allVars>>

SpuriousWakeUp ==
    /\ mainAt = "sleeping"
    /\ mainAt' = "load"
    /\ UNCHANGED <<implementation, event, returned, stackVars, sharedVars, allVars>>

\* The result is taken, then the event and the coroutine, which owns the
\* wrappers and the tasks, are destroyed.
Return ==
    /\ mainAt = "return"
    /\ mainAt' = "returned"
    /\ returned' = Combined
    /\ UNCHANGED <<implementation, event, stackVars, sharedVars, allVars>>

WaitStep == StartWait \/ Look \/ Sleep \/ Return
=============================================================================
