------------------------------ MODULE IoService ------------------------------
(***************************************************************************)
(* The event loop of cppcoro's io_service.  What is to run is a packet in  *)
(* the completion port of the operating system: a coroutine to resume, an  *)
(* operation that is done, or an empty one that only wakes a thread.  The  *)
(* port may refuse a packet that the library posts: a coroutine then goes  *)
(* to a list, which the loops look at before they wait, and a wake-up is   *)
(* dropped.                                                                *)
(***************************************************************************)
EXTENDS CoroStacks, SequencesExt

CONSTANTS IoThreads,    \* the threads that call process_events() ...
          Pollers       \* ... and those of them that call any of its variants

ASSUME PortAssumption == IoThreads \subseteq Threads /\ Pollers \subseteq IoThreads

VARIABLES stopRequested,    \* m_threadState: the flag ...
          activeThreads,    \* ... and the count
          workCount,        \* m_workCount
          port,             \* the completion port
          overflow,         \* m_scheduleOperations, newest first
          loop,             \* where each I/O thread stands
          mode,             \* which of the four process functions it is in
          batch,            \* operations that it posts again
          wakes             \* wake-ups that stop() has still to post

serviceVars == <<stopRequested, activeThreads, workCount, port, overflow, loop, mode, batch, wakes>>
loopVars == <<loop, mode, batch>>
countVars == <<stopRequested, activeThreads, workCount, wakes>>

Modes == [waits : BOOLEAN, goesOn : BOOLEAN]
ProcessEvents == [waits |-> TRUE, goesOn |-> TRUE]
Resume(c) == <<"resume", c>>
WakeUp == <<"wakeUp">>

ServiceInit ==
    /\ stopRequested = FALSE /\ activeThreads = 0 /\ workCount = 1
    /\ port = <<>> /\ overflow = <<>>
    /\ mode = [t \in IoThreads |-> ProcessEvents]
    /\ batch = [t \in IoThreads |-> <<>>]
    /\ wakes = 0

\* Bound: the port refuses a packet when it holds one for each I/O thread.
Refuses == Len(port) >= Cardinality({t \in IoThreads : loop[t] # "absent"})
At(t, l) == loop' = [loop EXCEPT ![t] = l]

-----------------------------------------------------------------------------
(* schedule                                                                *)

\* schedule_impl, called by the coroutine that suspends with it.
SchedulePost(t, c) ==
    /\ Top(t, c, "schedule")
    /\ IF Refuses THEN Goto(c, "push") /\ UNCHANGED port
                  ELSE port' = Append(port, Resume(c)) /\ Suspend(t, c, "suspended")
    /\ UNCHANGED <<countVars, loopVars, overflow>>

SchedulePush(t, c) ==
    /\ Top(t, c, "push")
    /\ overflow' = <<c>> \o overflow
    /\ Suspend(t, c, "suspended")
    /\ UNCHANGED <<countVars, loopVars, port>>

-----------------------------------------------------------------------------
(* The loop.                                                               *)

\* One of process_events, process_pending_events, process_one_event and
\* process_one_pending_event.
Enter(t) ==
    /\ loop[t] = "out" /\ ~stopRequested
    /\ activeThreads' = activeThreads + 1
    /\ \E m \in IF t \in Pollers THEN Modes ELSE {ProcessEvents} : mode' = [mode EXCEPT ![t] = m]
    /\ At(t, "check")
    /\ UNCHANGED <<stackVars, stopRequested, workCount, port, overflow, batch, wakes>>

Check(t) ==
    /\ loop[t] = "check"
    /\ At(t, IF stopRequested THEN "exit" ELSE "reschedule")
    /\ UNCHANGED <<stackVars, countVars, port, overflow, mode, batch>>

\* try_reschedule_overflow_operations takes the whole list ...
TakeOverflow(t) ==
    /\ loop[t] = "reschedule"
    /\ batch' = [batch EXCEPT ![t] = overflow]
    /\ overflow' = <<>>
    /\ At(t, IF overflow = <<>> THEN "wait" ELSE "repost")
    /\ UNCHANGED <<stackVars, countVars, port, mode>>

\* Mutant: forgets the rest of what it has taken when one is refused.
RepostDrops(t) ==
    /\ loop[t] = "repost"
    /\ IF Refuses
       THEN /\ batch' = [batch EXCEPT ![t] = <<>>]
            /\ At(t, "wait")
            /\ UNCHANGED <<port, overflow>>
       ELSE /\ port' = Append(port, Resume(Head(batch[t])))
            /\ batch' = [batch EXCEPT ![t] = Tail(@)]
            /\ At(t, IF Tail(batch[t]) = <<>> THEN "wait" ELSE "repost")
            /\ UNCHANGED overflow
    /\ UNCHANGED <<stackVars, countVars, mode>>

\* ... posts one after the other, and puts back the rest when one is refused.
Repost(t) ==
    /\ loop[t] = "repost"
    /\ IF Refuses
       THEN /\ overflow' = batch[t] \o overflow
            /\ batch' = [batch EXCEPT ![t] = <<>>]
            /\ At(t, "wait")
            /\ UNCHANGED port
       ELSE /\ port' = Append(port, Resume(Head(batch[t])))
            /\ batch' = [batch EXCEPT ![t] = Tail(@)]
            /\ At(t, IF Tail(batch[t]) = <<>> THEN "wait" ELSE "repost")
            /\ UNCHANGED overflow
    /\ UNCHANGED <<stackVars, countVars, mode>>

\* GetQueuedCompletionStatus: a coroutine that was scheduled is resumed here.
WaitForCoroutine(t, c, l) ==
    /\ loop[t] = "wait" /\ port # <<>> /\ Head(port) = Resume(c)
    /\ port' = Tail(port)
    /\ ResumeOn(t, c, l)
    /\ At(t, "run")
    /\ UNCHANGED <<countVars, overflow, mode, batch>>

\* A wake-up may be left over from an earlier stop().
WaitForWakeUp(t) ==
    /\ loop[t] = "wait" /\ port # <<>> /\ Head(port) = WakeUp
    /\ port' = Tail(port)
    /\ At(t, "woken")
    /\ UNCHANGED <<stackVars, countVars, overflow, mode, batch>>

Woken(t) ==
    /\ loop[t] = "woken"
    /\ At(t, IF stopRequested THEN "exit" ELSE "reschedule")
    /\ UNCHANGED <<stackVars, countVars, port, overflow, mode, batch>>

TimeOut(t) ==
    /\ loop[t] = "wait" /\ port = <<>> /\ ~mode[t].waits
    /\ At(t, "exit")
    /\ UNCHANGED <<stackVars, countVars, port, overflow, mode, batch>>

Processed(t) ==
    /\ loop[t] = "run" /\ stack[t] = <<>>
    /\ At(t, IF mode[t].goesOn THEN "check" ELSE "exit")
    /\ UNCHANGED <<stackVars, countVars, port, overflow, mode, batch>>

\* Leaves the loop; the thread calls one of the four again until it is stopped.
Exit(t) ==
    /\ loop[t] = "exit"
    /\ activeThreads' = activeThreads - 1
    /\ At(t, "out")
    /\ mode' = [mode EXCEPT ![t] = ProcessEvents]
    /\ UNCHANGED <<stackVars, stopRequested, workCount, port, overflow, batch, wakes>>

LoopStep(t) ==
    \/ Enter(t) \/ Check(t) \/ TakeOverflow(t) \/ Repost(t) \/ WaitForWakeUp(t) \/ Woken(t)
    \/ TimeOut(t) \/ Processed(t) \/ Exit(t)

-----------------------------------------------------------------------------
(* stop, reset and the count of work                                       *)

\* Mutant: a wake-up less than there are threads in the loop.
StopWakesButOne ==
    /\ stopRequested' = TRUE
    /\ wakes' = IF stopRequested \/ activeThreads = 0 THEN 0 ELSE activeThreads - 1
    /\ UNCHANGED <<activeThreads, workCount, port, overflow, loopVars>>

\* The first call wakes as many threads as are in the loop.
Stop ==
    /\ stopRequested' = TRUE
    /\ wakes' = IF stopRequested THEN 0 ELSE activeThreads
    /\ UNCHANGED <<activeThreads, workCount, port, overflow, loopVars>>

PostWakeUp ==
    /\ wakes > 0
    /\ wakes' = wakes - 1
    /\ port' = IF Refuses THEN port ELSE Append(port, WakeUp)
    /\ UNCHANGED <<stopRequested, activeThreads, workCount, overflow, loopVars>>

Reset ==
    /\ stopRequested' = FALSE
    /\ UNCHANGED <<activeThreads, workCount, port, overflow, loopVars, wakes>>

\* io_work_scope: its constructor, and the end of its life.
WorkStarted ==
    /\ workCount' = workCount + 1
    /\ UNCHANGED <<stopRequested, activeThreads, port, overflow, loopVars, wakes>>

WorkFinished ==
    /\ workCount' = workCount - 1
    /\ UNCHANGED <<stopRequested, activeThreads, port, overflow, loopVars, wakes>>
=============================================================================
