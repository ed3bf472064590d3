------------------------------ MODULE IoProgram ------------------------------
(***************************************************************************)
(* A program over an io_service.  Main starts coroutines, each with a work *)
(* scope of its own; each awaits schedule(), a timer or an operation of a  *)
(* socket, and the last scope to end stops the service.  A thread requests *)
(* cancellation of all of it at any time.  When the coroutines are done    *)
(* and the I/O threads are out of their loops, main may reset the service  *)
(* for another round, and destroys it in the end.                          *)
(***************************************************************************)
EXTENDS OverlappedOperation

CONSTANTS Main,         \* the thread of main
          Scenarios,    \* what the coroutines await, and on which threads
          MaxResets     \* bound: how often main resets the service

ASSUME ScenarioAssumption ==
    Scenarios \subseteq [plan : [Coros -> {"schedule", "timer", "overlapped"}],
                         cancellable : [Coros -> BOOLEAN],
                         dueTime : [Coros -> 0..MaxTime],
                         threads : SUBSET IoThreads]
ASSUME ThreadAssumption == Threads = IoThreads \cup {Main} /\ Main \notin IoThreads
ASSUME FiniteAssumption == IsFiniteSet(Coros) /\ IsFiniteSet(IoThreads)

VARIABLES plan,         \* what each coroutine awaits
          outcome,      \* how that ended
          main,         \* where main stands
          resets,       \* how often it has reset the service
          canceller     \* where the thread that requests cancellation stands

programVars == <<plan, outcome, main, resets, canceller>>
vars == <<stackVars, serviceVars, timerVars, opVars, programVars>>

Init ==
    /\ stack = [t \in Threads |-> <<>>]
    /\ at = [c \in Coros |-> "created"]
    /\ ServiceInit /\ TimersInit /\ OpInit
    /\ \E s \in Scenarios :
          /\ plan = s.plan /\ cancellable = s.cancellable /\ dueTime = s.dueTime
          /\ loop = [t \in IoThreads |-> IF t \in s.threads THEN "out" ELSE "absent"]
    /\ outcome = [c \in Coros |-> "none"]
    /\ main = "start" /\ resets = 0 /\ canceller = "idle"

-----------------------------------------------------------------------------
(* The coroutines.                                                         *)

Resumed(t, c) ==
    /\ Deregister(t, c, "leave")
    /\ outcome' = [outcome EXCEPT ![c] =
           IF plan[c] = "schedule" THEN "success"
           ELSE IF plan[c] = "timer"
                THEN IF cancellable[c] /\ requested THEN "aborted" ELSE "success"
                ELSE errorCode[c]]
    /\ UNCHANGED <<opVars, plan, main, resets, canceller>>

\* The work scope ends, the last one with a stop().
Leave(t, c) ==
    /\ \/ /\ Top(t, c, "leave")
          /\ WorkFinished
          /\ IF workCount = 1 THEN Goto(c, "stop") ELSE Suspend(t, c, "done")
       \/ /\ Top(t, c, "stop")
          /\ Stop
          /\ Goto(c, "wakeUp")
       \/ /\ Top(t, c, "wakeUp")
          /\ PostWakeUp
          /\ IF wakes' = 0 THEN Suspend(t, c, "done") ELSE UNCHANGED stackVars
    /\ UNCHANGED <<timerVars, opVars, programVars>>

CoroutineStep(t, c) ==
    \/ TimerAwait(t, c) /\ UNCHANGED <<opVars, programVars>>
    \/ OperationAwait(t, c) /\ UNCHANGED programVars
    \/ /\ SchedulePost(t, c) \/ SchedulePush(t, c)
       /\ UNCHANGED <<timerVars, opVars, programVars>>
    \/ Resumed(t, c) \/ Leave(t, c)

-----------------------------------------------------------------------------
(* The I/O threads.                                                        *)

IoStep(t) ==
    \/ /\ LoopStep(t) \/ \E c \in Coros : WaitForCoroutine(t, c, "resumed")
       /\ UNCHANGED <<timerVars, opVars, programVars>>
    \/ /\ \E c \in Coros, e \in ErrorCodes : OnCompleted(t, c, e)
       /\ UNCHANGED programVars

-----------------------------------------------------------------------------
(* The thread that requests cancellation.  The callbacks are called one    *)
(* after the other, those of timers and those of operations.               *)

Request ==
    /\ canceller = "idle"
    /\ requested' = TRUE
    /\ canceller' = "notify"
    /\ UNCHANGED <<port, registered, running, cancelFlag, wakeEvent, opVars>>

NextCallback ==
    /\ canceller = "notify"
    /\ \/ \E c \in registered : /\ running' = {c} /\ registered' = registered \ {c}
                                /\ canceller' = plan[c]
       \/ registered = {} /\ canceller' = "ended" /\ UNCHANGED <<running, registered>>
    /\ UNCHANGED <<port, requested, cancelFlag, wakeEvent, opVars>>

\* request_timer_cancellation
TimerCallback ==
    /\ \/ /\ canceller = "timer"
          /\ cancelFlag' = TRUE
          /\ canceller' = IF cancelFlag THEN "called" ELSE "wake"
          /\ UNCHANGED wakeEvent
       \/ /\ canceller = "wake"
          /\ wakeEvent' = TRUE
          /\ canceller' = "called"
          /\ UNCHANGED cancelFlag
    /\ UNCHANGED <<port, requested, registered, running, opVars>>

\* on_cancellation_requested
OperationCallback ==
    \E c \in running :
       /\ \/ /\ canceller = "overlapped"
             /\ opState' = IF opState[c] = "notStarted"
                           THEN [opState EXCEPT ![c] = "cancellationRequested"] ELSE opState
             /\ canceller' = IF opState[c] = "started" THEN "cancelIo" ELSE "called"
             /\ UNCHANGED <<port, kernel>>
          \/ /\ canceller = "cancelIo"
             /\ CancelIo(c)
             /\ canceller' = "called"
             /\ UNCHANGED opState
       /\ UNCHANGED <<requested, registered, running, cancelFlag, wakeEvent, errorCode>>

Called ==
    /\ canceller = "called"
    /\ running' = {} /\ canceller' = "notify"
    /\ UNCHANGED <<port, requested, registered, cancelFlag, wakeEvent, opVars>>

CancellerStep ==
    /\ Request \/ NextCallback \/ TimerCallback \/ OperationCallback \/ Called
    /\ UNCHANGED <<stackVars, countVars, loopVars, overflow, cancellable, now, dueTime, newTimers,
                   refCount, shutDown, threadVars, plan, outcome, main, resets>>

-----------------------------------------------------------------------------
(* Main.                                                                   *)

StartCoroutine(c) ==
    /\ main = "start" /\ at[c] = "created"
    /\ WorkStarted
    /\ ResumeOn(Main, c, plan[c])
    /\ UNCHANGED <<timerVars, opVars, programVars>>

AllOut == \A t \in IoThreads : loop[t] \in {"out", "absent"}
AllDone == \A c \in Coros : at[c] = "done"

MainStep ==
    /\ \/ /\ main = "start" /\ stack[Main] = <<>> /\ \A c \in Coros : at[c] # "created"
          /\ WorkFinished
          /\ main' = IF workCount = 1 THEN "stop" ELSE "join"
          /\ UNCHANGED <<shutDown, wakeEvent, resets>>
       \/ /\ main = "stop"
          /\ Stop
          /\ main' = IF wakes' = 0 THEN "join" ELSE "wakeUp"
          /\ UNCHANGED <<shutDown, wakeEvent, resets>>
       \/ /\ main = "wakeUp"
          /\ PostWakeUp
          /\ main' = IF wakes' = 0 THEN "join" ELSE "wakeUp"
          /\ UNCHANGED <<shutDown, wakeEvent, resets>>
       \/ /\ main = "join" /\ AllDone /\ AllOut /\ stopRequested
          /\ resets < MaxResets /\ resets' = resets + 1
          /\ Reset /\ main' = "stop"
          /\ UNCHANGED <<shutDown, wakeEvent>>
       \/ /\ main = "join" /\ AllDone /\ AllOut /\ stopRequested
          /\ main' = IF timer = "off" THEN "destroyed" ELSE "wakeTimer"
          /\ shutDown' = (timer # "off")
          /\ UNCHANGED <<serviceVars, wakeEvent, resets>>
       \/ /\ main = "wakeTimer"
          /\ wakeEvent' = TRUE /\ main' = "joinTimer"
          /\ UNCHANGED <<serviceVars, shutDown, resets>>
       \/ /\ main = "joinTimer" /\ timer = "ended"
          /\ main' = "destroyed"
          /\ UNCHANGED <<serviceVars, shutDown, wakeEvent, resets>>
    /\ UNCHANGED <<stackVars, tokenVars, now, dueTime, newTimers, cancelFlag, refCount, threadVars,
                   opVars, plan, outcome, canceller>>

-----------------------------------------------------------------------------
Run(t) == \E c \in Coros : CoroutineStep(t, c)
TimerThread == TimerStep /\ UNCHANGED <<opVars, programVars>>
Kernel == (\E c \in Coros : KernelCompletes(c)) /\ UNCHANGED programVars
Time == Tick /\ UNCHANGED <<opVars, programVars>>

Next ==
    \/ \E t \in Threads : Run(t)
    \/ \E t \in IoThreads : IoStep(t)
    \/ \E c \in Coros : StartCoroutine(c)
    \/ TimerThread \/ CancellerStep \/ MainStep \/ Kernel \/ Time

\* Threads run, operations of the system complete, and time passes.
Fairness ==
    /\ \A t \in Threads : WF_vars(Run(t))
    /\ \A t \in IoThreads : WF_vars(IoStep(t))
    /\ \A c \in Coros : WF_vars(StartCoroutine(c))
    /\ WF_vars(TimerThread) /\ WF_vars(MainStep) /\ WF_vars(Kernel) /\ WF_vars(Time)
    /\ WF_vars(CancellerStep /\ ~Request)

Spec == Init /\ [][Next]_vars /\ Fairness

-----------------------------------------------------------------------------
(* Properties.                                                             *)

\* A coroutine is resumed once for what it awaits, and not before it has
\* suspended: start, completion and cancellation of an operation settle it
\* among them, and so do await_suspend and the timer thread.
OneActivation ==
    \A c \in Coros : Activations(c) = IF at[c] \in Suspensions THEN 0 ELSE 1

\* Who may still use the frame of a coroutine, by its timer or its operation.
Referenced(c) ==
    \/ c \in ToSet(newTimers) \cup queue \cup todo \cup ToSet(ready)
    \/ c \in running \cup registered
    \/ kernel[c] # "idle"

\* What a coroutine awaits lives in its frame.  When it goes on from there,
\* the timer thread, the system and the callbacks have let go of it.
NothingUsesAFinishedOperation ==
    /\ \A c \in Coros : at[c] \in {"leave", "stop", "wakeUp", "done"} => ~Referenced(c)
    /\ main = "destroyed" => running = {} /\ overflow = <<>> /\ activeThreads = 0

\* A stop reaches every thread: there is a wake-up, or another packet, for
\* each one that waits or is about to.
StopReachesEveryThread ==
    stopRequested =>
      Cardinality({t \in IoThreads : loop[t] \in {"reschedule", "repost", "wait"} /\ mode[t].waits})
        <= Len(port) + wakes

\* The timer thread does not sleep on a new timer or on a cancellation that
\* nobody is about to wake it for, nor past the time of a timer that it keeps.
TimerThreadIsWoken ==
    timer = "wait" /\ ~wakeEvent =>
      /\ newTimers # <<>> => \E c \in Coros : at[c] = "wake"
      /\ cancelFlag => canceller = "wake" \/ \E c \in Coros : at[c] = "wakeForFlag"
      /\ canceller \in {"called", "notify", "ended"} /\ registered = {} /\ ~cancelFlag =>
           \A c \in queue : ~cancellable[c]
      /\ queue # {} => polls \/ armed <= Earliest(queue)

\* A coroutine that the port refused waits in the list until a thread comes
\* around; when all of them wait already, nobody does.
Stranded == overflow # <<>> /\ port = <<>> /\ \A t \in IoThreads : loop[t] \in {"wait", "absent"}

\* Every coroutine is resumed, the loops end and the service is destroyed.
ServiceEnds == <>(main = "destroyed" \/ Stranded)
=============================================================================
