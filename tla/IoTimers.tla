------------------------------ MODULE IoTimers ------------------------------
(***************************************************************************)
(* schedule_after of cppcoro's io_service.  A coroutine hands its timer to *)
(* the timer thread, which keeps the timers, waits for the next one, for a *)
(* new one or for a cancellation, and gives those that are due or          *)
(* cancelled back to the event loop.  Both the coroutine, which may still  *)
(* be in await_suspend, and the timer thread have to let go of a timer.    *)
(*                                                                         *)
(* The heap of timers and the list that stands in for it when memory is    *)
(* short are one set here: both are asked for the same things.             *)
(***************************************************************************)
EXTENDS IoService

CONSTANT MaxTime        \* bound: the latest time

ASSUME TimeAssumption == MaxTime \in Nat \ {0}

Never == MaxTime + 1    \* time_point::max()

VARIABLES requested,    \* cancellation has been requested
          registered,   \* coroutines with a callback that has not been called
          running,      \* the coroutine whose callback runs, as a set
          now,
          dueTime,      \* m_resumeTime of each coroutine's timer
          cancellable,  \* it has a token that can be cancelled
          refCount,     \* of each timer
          timer,        \* where the timer thread stands
          newTimers,    \* m_newlyQueuedTimers, newest first
          cancelFlag,   \* m_timerCancellationRequested
          shutDown,     \* m_shutDownRequested
          wakeEvent,    \* m_wakeUpEvent is signalled
          armed,        \* when m_waitableTimerEvent fires
          lastSet,      \* lastSetWaitEventTime
          polls,        \* the wait has a timeout, for the timer could not be set
          queue,        \* the timers that it keeps
          todo,         \* timers to look at, for cancellation or as new ones
          ready         \* timersReadyToResume

tokenVars == <<requested, registered, running, cancellable>>
sharedVars == <<newTimers, cancelFlag, wakeEvent, refCount>>
threadVars == <<timer, armed, lastSet, polls, queue, todo, ready>>
timerVars == <<tokenVars, now, dueTime, sharedVars, shutDown, threadVars>>

TimersInit ==
    /\ requested = FALSE /\ registered = {} /\ running = {}
    /\ now = 0
    /\ refCount = [c \in Coros |-> 2]
    /\ timer = "off"
    /\ newTimers = <<>> /\ cancelFlag = FALSE /\ shutDown = FALSE /\ wakeEvent = FALSE
    /\ armed = Never /\ lastSet = Never /\ polls = FALSE
    /\ queue = {} /\ todo = {} /\ ready = <<>>

Tick ==
    /\ now < MaxTime /\ now' = now + 1
    /\ UNCHANGED <<stackVars, serviceVars, tokenVars, dueTime, sharedVars, shutDown, threadVars>>

-----------------------------------------------------------------------------
(* The coroutine: await_suspend of the timer, and await_resume.            *)

\* await_ready, then the first timer of the service starts the timer thread.
AwaitTimer(t, c) ==
    /\ Top(t, c, "timer")
    /\ IF cancellable[c] /\ requested
       THEN Goto(c, "resumed") /\ UNCHANGED timer
       ELSE Goto(c, "register") /\ timer' = IF timer = "off" THEN "check" ELSE timer
    /\ UNCHANGED <<serviceVars, tokenVars, now, dueTime, sharedVars, shutDown,
                   armed, lastSet, polls, queue, todo, ready>>

\* A callback that is registered too late is called by its own constructor.
RegisterTimer(t, c) ==
    /\ Top(t, c, "register")
    /\ registered' = IF cancellable[c] /\ ~requested THEN registered \cup {c} ELSE registered
    /\ Goto(c, IF cancellable[c] /\ requested THEN "flag" ELSE "enqueue")
    /\ UNCHANGED <<serviceVars, requested, running, cancellable, now, dueTime, sharedVars,
                   shutDown, threadVars>>

\* request_timer_cancellation.
CallBackInline(t, c) ==
    /\ \/ /\ Top(t, c, "flag")
          /\ cancelFlag' = TRUE
          /\ Goto(c, IF cancelFlag THEN "enqueue" ELSE "wakeForFlag")
          /\ UNCHANGED wakeEvent
       \/ /\ Top(t, c, "wakeForFlag")
          /\ wakeEvent' = TRUE
          /\ Goto(c, "enqueue")
          /\ UNCHANGED cancelFlag
    /\ UNCHANGED <<serviceVars, tokenVars, now, dueTime, newTimers, refCount, shutDown, threadVars>>

Enqueue(t, c) ==
    /\ Top(t, c, "enqueue")
    /\ newTimers' = <<c>> \o newTimers
    /\ Goto(c, IF newTimers = <<>> THEN "wake" ELSE "letGo")
    /\ UNCHANGED <<serviceVars, tokenVars, now, dueTime, cancelFlag, wakeEvent, refCount,
                   shutDown, threadVars>>

WakeTimerThread(t, c) ==
    /\ Top(t, c, "wake")
    /\ wakeEvent' = TRUE
    /\ Goto(c, "letGo")
    /\ UNCHANGED <<serviceVars, tokenVars, now, dueTime, newTimers, cancelFlag, refCount,
                   shutDown, threadVars>>

\* The last to let go of the timer schedules the coroutine.
LetGo(t, c) ==
    /\ Top(t, c, "letGo")
    /\ refCount' = [refCount EXCEPT ![c] = @ - 1]
    /\ IF refCount[c] = 1 THEN Goto(c, "schedule") ELSE Suspend(t, c, "suspended")
    /\ UNCHANGED <<serviceVars, tokenVars, now, dueTime, newTimers, cancelFlag, wakeEvent,
                   shutDown, threadVars>>

\* Mutant: the coroutine goes on while the callback runs.
DeregisterAtOnce(t, c, l) ==
    /\ Top(t, c, "resumed")
    /\ registered' = registered \ {c}
    /\ Goto(c, l)
    /\ UNCHANGED <<serviceVars, requested, running, cancellable, now, dueTime, sharedVars,
                   shutDown, threadVars>>

\* await_resume: the registration is undone, which waits for a callback that
\* runs; the operation was cancelled if the token says so.
Deregister(t, c, l) ==
    /\ Top(t, c, "resumed") /\ c \notin running
    /\ registered' = registered \ {c}
    /\ Goto(c, l)
    /\ UNCHANGED <<serviceVars, requested, running, cancellable, now, dueTime, sharedVars,
                   shutDown, threadVars>>

-----------------------------------------------------------------------------
(* The timer thread.                                                       *)

CheckShutDown ==
    /\ timer = "check"
    /\ timer' = IF shutDown THEN "ended" ELSE "wait"
    /\ UNCHANGED <<stackVars, serviceVars, tokenVars, now, dueTime, sharedVars, shutDown,
                   armed, lastSet, polls, queue, todo, ready>>

\* Woken up: the flag is taken, and the kept timers are looked through for it.
WokenUp ==
    /\ timer = "wait" /\ wakeEvent
    /\ wakeEvent' = FALSE
    /\ timer' = "cancelled"
    /\ UNCHANGED <<stackVars, serviceVars, tokenVars, now, dueTime, newTimers, cancelFlag,
                   refCount, shutDown, armed, lastSet, polls, queue, todo, ready>>

\* Mutant: the flag is taken back after the timers have been looked through.
TakeFlagLate ==
    /\ timer = "cancelled"
    /\ cancelFlag' = FALSE
    /\ timer' = "takeNew"
    /\ todo' = {}
    /\ UNCHANGED <<stackVars, serviceVars, tokenVars, now, dueTime, newTimers, wakeEvent,
                   refCount, shutDown, armed, lastSet, polls, queue, ready>>

TakeFlag ==
    /\ timer = "cancelled"
    /\ cancelFlag' = FALSE
    /\ IF cancelFlag THEN timer' = "scan" /\ todo' = queue
                     ELSE timer' = "takeNew" /\ UNCHANGED todo
    /\ UNCHANGED <<stackVars, serviceVars, tokenVars, now, dueTime, newTimers, wakeEvent,
                   refCount, shutDown, armed, lastSet, polls, queue, ready>>

\* remove_cancelled_timers reads one token after the other.
Scan ==
    /\ timer = "scan"
    /\ \/ \E c \in todo :
            /\ todo' = todo \ {c}
            /\ IF cancellable[c] /\ requested
               THEN queue' = queue \ {c} /\ ready' = <<c>> \o ready
               ELSE UNCHANGED <<queue, ready>>
            /\ UNCHANGED timer
       \/ todo = {} /\ timer' = "takeNew" /\ UNCHANGED <<queue, todo, ready>>
    /\ UNCHANGED <<stackVars, serviceVars, tokenVars, now, dueTime, sharedVars, shutDown,
                   armed, lastSet, polls>>

TakeNewTimers ==
    /\ timer = "takeNew"
    /\ todo' = ToSet(newTimers)
    /\ newTimers' = <<>>
    /\ timer' = "sort"
    /\ UNCHANGED <<stackVars, serviceVars, tokenVars, now, dueTime, cancelFlag, wakeEvent,
                   refCount, shutDown, armed, lastSet, polls, queue, ready>>

\* A new timer that is cancelled already is not kept.
Sort ==
    /\ timer = "sort"
    /\ \/ \E c \in todo :
            /\ todo' = todo \ {c}
            /\ IF cancellable[c] /\ requested
               THEN ready' = <<c>> \o ready /\ UNCHANGED queue
               ELSE queue' = queue \cup {c} /\ UNCHANGED ready
            /\ UNCHANGED timer
       \/ todo = {} /\ timer' = "due" /\ UNCHANGED <<queue, todo, ready>>
    /\ UNCHANGED <<stackVars, serviceVars, tokenVars, now, dueTime, sharedVars, shutDown,
                   armed, lastSet, polls>>

\* The waitable timer has fired, or the timeout that stands in for it.
TimerFired ==
    /\ timer = "wait" /\ ~wakeEvent
    /\ \/ armed <= now /\ armed' = Never /\ lastSet' = Never
       \/ polls /\ UNCHANGED <<armed, lastSet>>
    /\ timer' = "due"
    /\ UNCHANGED <<stackVars, serviceVars, tokenVars, now, dueTime, sharedVars, shutDown,
                   polls, queue, todo, ready>>

Earliest(timers) == CHOOSE d \in {dueTime[c] : c \in timers} : \A c \in timers : d <= dueTime[c]

\* Takes out what is due and sets the timer for the rest; when that fails the
\* wait gets a timeout.
TakeDue ==
    LET due == {c \in queue : dueTime[c] <= now}
        rest == queue \ due
    IN
    /\ timer = "due"
    /\ queue' = rest
    /\ ready' = SetToSeq(due) \o ready
    /\ IF rest = {} \/ Earliest(rest) = lastSet
       THEN UNCHANGED <<armed, lastSet, polls>>
       ELSE \/ armed' = Earliest(rest) /\ lastSet' = armed' /\ polls' = FALSE
            \/ polls' = TRUE /\ UNCHANGED <<armed, lastSet>>
    /\ timer' = "resume"
    /\ UNCHANGED <<stackVars, serviceVars, tokenVars, now, dueTime, sharedVars, shutDown, todo>>

\* The next pointer is read before the timer is let go of: its coroutine, and
\* the timer with it, may be gone after.
ResumeTimer ==
    /\ timer = "resume"
    /\ IF ready = <<>>
       THEN timer' = "check" /\ UNCHANGED <<refCount, ready>>
       ELSE LET c == Head(ready) IN
            /\ refCount' = [refCount EXCEPT ![c] = @ - 1]
            /\ IF refCount[c] = 1 THEN timer' = "schedule" /\ UNCHANGED ready
                                  ELSE ready' = Tail(ready) /\ UNCHANGED timer
    /\ UNCHANGED <<stackVars, serviceVars, tokenVars, now, dueTime, newTimers, cancelFlag,
                   wakeEvent, shutDown, armed, lastSet, polls, queue, todo>>

\* schedule_impl, as the coroutine itself may call it.
ScheduleTimer ==
    /\ \/ /\ timer = "schedule" /\ ~Refuses
          /\ port' = Append(port, Resume(Head(ready)))
          /\ timer' = "resume" /\ ready' = Tail(ready)
          /\ UNCHANGED overflow
       \/ /\ timer = "schedule" /\ Refuses
          /\ timer' = "push"
          /\ UNCHANGED <<port, overflow, ready>>
       \/ /\ timer = "push"
          /\ overflow' = <<Head(ready)>> \o overflow
          /\ timer' = "resume" /\ ready' = Tail(ready)
          /\ UNCHANGED port
    /\ UNCHANGED <<stackVars, countVars, loopVars, tokenVars, now, dueTime, sharedVars, shutDown,
                   armed, lastSet, polls, queue, todo>>

TimerStep ==
    \/ CheckShutDown \/ WokenUp \/ TakeFlag \/ Scan \/ TakeNewTimers \/ Sort
    \/ TimerFired \/ TakeDue \/ ResumeTimer \/ ScheduleTimer

TimerAwait(t, c) ==
    \/ AwaitTimer(t, c) \/ RegisterTimer(t, c) \/ CallBackInline(t, c)
    \/ Enqueue(t, c) \/ WakeTimerThread(t, c) \/ LetGo(t, c)
=============================================================================
