----------------------------- MODULE ThreadPool -----------------------------
(***************************************************************************)
(* cppcoro's static_thread_pool: how operations are queued, found, stolen  *)
(* and run, and how idle workers go to sleep and are woken.                *)
(*                                                                         *)
(* The thread 0 is the application: it schedules every operation once from *)
(* outside the pool, waits until all of them are finished and destroys the *)
(* pool.  An operation that runs on a worker may schedule itself again, a  *)
(* bounded number of times.  An operation is the coroutine that waits in   *)
(* it.  A local queue is a deque whose operations are atomic here          *)
(* (LocalQueue has its cursors and its mutex); everything that takes part  *)
(* in sleeping and waking is a step of its own.                            *)
(***************************************************************************)
EXTENDS Integers, FiniteSets, Sequences, SequencesExt

CONSTANTS N,            \* m_threadCount
          Ops,          \* operations the application schedules
          NoOp,         \* nullptr
          MaxSchedules  \* bound: times an operation schedules itself again

ASSUME ThreadCountAssumption == N \in Nat \ {0}
ASSUME OpAssumption == NoOp \notin Ops
ASSUME BoundAssumption == MaxSchedules \in Nat

VARIABLES local,        \* thread_state::m_localQueue, oldest first
          globalTail,   \* the stack m_globalQueueTail points to, newest first
          globalHead,   \* the list m_globalQueueHead points to
          sleeping,     \* thread_state::m_isSleeping
          count,        \* m_sleepingThreadCount
          event,        \* thread_state::m_wakeUpEvent is set
          stop,         \* m_stopRequested
          pc, phase,    \* where a thread is; where it called tryGetRemote from
          op, scan,     \* its operation and its loop variable
          schedules,    \* times an operation may still schedule itself
          finished      \* operations that ran to their end

queues == <<local, globalTail, globalHead>>
wakeVars == <<sleeping, count, event, stop>>
threadVars == <<pc, phase, op, scan>>
vars == <<queues, wakeVars, threadVars, schedules, finished>>

Workers == 1..N
Main == 0
Threads == {Main} \cup Workers

Phases == {"normal", "spin", "recheck"}
WorkerPc == {"local", "global", "steal", "spin", "intent", "count",
             "recheckTail", "recheckHead", "recheckLocal", "checkStop", "sleep",
             "clear", "clearSelf", "clearOthers", "run", "exit"}
MainPc == {"schedule", "await", "shutdown", "join", "done"}
WakePc == {"wake", "wakeScan", "setEvent"}

Goto(t, label) == pc' = [pc EXCEPT ![t] = label]
Start(t, label, i) == Goto(t, label) /\ scan' = [scan EXCEPT ![t] = i]

Init ==
    /\ local = [w \in Workers |-> <<>>]
    /\ globalTail = <<>> /\ globalHead = <<>>
    /\ sleeping = [w \in Workers |-> FALSE]
    /\ count = 0
    /\ event = [w \in Workers |-> FALSE]
    /\ stop = FALSE
    /\ pc = [t \in Threads |-> IF t = Main THEN "schedule" ELSE "local"]
    /\ phase = [w \in Workers |-> "normal"]
    /\ op = [t \in Threads |-> NoOp]
    /\ scan = [t \in Threads |-> 1]
    /\ schedules = [o \in Ops |-> MaxSchedules]
    /\ finished = {}

-----------------------------------------------------------------------------
(* Finding work.                                                           *)

\* Where tryGetRemote's caller goes on with, and without, an operation.
OnFound(w) == IF phase[w] = "recheck" THEN "clear" ELSE "run"
OnNothing(w) == IF phase[w] = "recheck" THEN "checkStop" ELSE "spin"

LocalPop(w) ==
    /\ pc[w] = "local"
    /\ IF local[w] # <<>>
       THEN /\ op' = [op EXCEPT ![w] = Last(local[w])]
            /\ local' = [local EXCEPT ![w] = Front(@)]
            /\ Goto(w, "run")
       ELSE Goto(w, "global") /\ UNCHANGED <<op, local>>
    /\ phase' = [phase EXCEPT ![w] = "normal"]
    /\ UNCHANGED <<globalTail, globalHead, wakeVars, scan, schedules, finished>>

\* try_global_dequeue, under m_globalQueueMutex.
GlobalQueue == IF globalHead # <<>> THEN globalHead ELSE Reverse(globalTail)

\* Mutant: the stack is read, not exchanged for an empty one.
DequeueWithoutExchange(w) ==
    /\ pc[w] = "global"
    /\ IF GlobalQueue # <<>>
       THEN /\ op' = [op EXCEPT ![w] = Head(GlobalQueue)]
            /\ globalHead' = Tail(GlobalQueue)
            /\ Goto(w, OnFound(w)) /\ UNCHANGED scan
       ELSE Start(w, "steal", 1) /\ UNCHANGED <<op, globalHead>>
    /\ UNCHANGED <<local, globalTail, wakeVars, phase, schedules, finished>>

GlobalDequeue(w) ==
    /\ pc[w] = "global"
    /\ IF GlobalQueue # <<>>
       THEN /\ op' = [op EXCEPT ![w] = Head(GlobalQueue)]
            /\ globalHead' = Tail(GlobalQueue)
            /\ globalTail' = IF globalHead = <<>> THEN <<>> ELSE globalTail
            /\ Goto(w, OnFound(w)) /\ UNCHANGED scan
       ELSE Start(w, "steal", 1) /\ UNCHANGED <<op, globalHead, globalTail>>
    /\ UNCHANGED <<local, wakeVars, phase, schedules, finished>>

\* One turn of the loop of try_steal_from_other_thread.
Steal(w) ==
    /\ pc[w] = "steal"
    /\ LET v == scan[w] IN
       IF v > N
       THEN Goto(w, OnNothing(w)) /\ UNCHANGED <<op, local, scan>>
       ELSE IF v # w /\ local[v] # <<>>
       THEN /\ op' = [op EXCEPT ![w] = Head(local[v])]
            /\ local' = [local EXCEPT ![v] = Tail(@)]
            /\ Goto(w, OnFound(w)) /\ UNCHANGED scan
       ELSE Start(w, "steal", v + 1) /\ UNCHANGED <<op, local>>
    /\ UNCHANGED <<globalTail, globalHead, wakeVars, phase, schedules, finished>>

-----------------------------------------------------------------------------
(* The spin loop, and going to sleep.                                      *)

\* The unsynchronised look at the queues may be out of date either way.
Spin(w) ==
    /\ pc[w] = "spin"
    /\ \/ stop /\ Goto(w, "exit")
       \/ ~stop /\ pc' \in {[pc EXCEPT ![w] = "global"], [pc EXCEPT ![w] = "intent"]}
    /\ phase' = [phase EXCEPT ![w] = "spin"]
    /\ UNCHANGED <<queues, wakeVars, op, scan, schedules, finished>>

\* Mutant: the flag is not raised.
IntentWithoutFlag(w) ==
    /\ pc[w] = "intent"
    /\ Goto(w, "count")
    /\ UNCHANGED <<queues, wakeVars, phase, op, scan, schedules, finished>>

NotifyIntent(w) ==
    /\ pc[w] = "intent"
    /\ sleeping' = [sleeping EXCEPT ![w] = TRUE]
    /\ Goto(w, "count")
    /\ UNCHANGED <<queues, count, event, stop, phase, op, scan, schedules, finished>>

\* Mutant: the queues are not looked at again after the intent is published.
PublishWithoutRecheck(w) ==
    /\ pc[w] = "count"
    /\ count' = count + 1
    /\ Goto(w, "checkStop")
    /\ phase' = [phase EXCEPT ![w] = "recheck"]
    /\ UNCHANGED <<queues, sleeping, event, stop, op, scan, schedules, finished>>

PublishIntent(w) ==
    /\ pc[w] = "count"
    /\ count' = count + 1
    /\ Goto(w, "recheckTail")
    /\ phase' = [phase EXCEPT ![w] = "recheck"]
    /\ UNCHANGED <<queues, sleeping, event, stop, op, scan, schedules, finished>>

\* has_any_queued_work_for reads the two ends of the global queue and then
\* the other threads' queues, one after the other.
RecheckTail(w) ==
    /\ pc[w] = "recheckTail"
    /\ Goto(w, IF globalTail # <<>> THEN "global" ELSE "recheckHead")
    /\ UNCHANGED <<queues, wakeVars, phase, op, scan, schedules, finished>>

RecheckHead(w) ==
    /\ pc[w] = "recheckHead"
    /\ IF globalHead # <<>> THEN Goto(w, "global") /\ UNCHANGED scan
                            ELSE Start(w, "recheckLocal", 1)
    /\ UNCHANGED <<queues, wakeVars, phase, op, schedules, finished>>

RecheckLocal(w) ==
    /\ pc[w] = "recheckLocal"
    /\ LET v == scan[w] IN
       IF v > N THEN Goto(w, "checkStop") /\ UNCHANGED scan
       ELSE IF v # w /\ local[v] # <<>> THEN Goto(w, "global") /\ UNCHANGED scan
       ELSE Start(w, "recheckLocal", v + 1)
    /\ UNCHANGED <<queues, wakeVars, phase, op, schedules, finished>>

CheckStop(w) ==
    /\ pc[w] = "checkStop"
    /\ Goto(w, IF stop THEN "exit" ELSE "sleep")
    /\ UNCHANGED <<queues, wakeVars, phase, op, scan, schedules, finished>>

\* auto_reset_event::wait
Sleep(w) ==
    /\ pc[w] = "sleep"
    /\ event[w]
    /\ event' = [event EXCEPT ![w] = FALSE]
    /\ Goto(w, "spin")
    /\ UNCHANGED <<queues, sleeping, count, stop, phase, op, scan, schedules, finished>>

-----------------------------------------------------------------------------
(* Waking.  The load and the compare_exchange loop on the count are one    *)
(* conditional decrement; try_wake_up exchanges m_isSleeping and then sets *)
(* the event.                                                              *)

\* Where a thread goes on after it woke somebody.
AfterWake(t) ==
    IF t = Main THEN IF stop THEN "shutdown" ELSE "schedule"
    ELSE IF op[t] # NoOp THEN "run" ELSE "local"

TryWakeUp(t, v) ==
    /\ sleeping[v]
    /\ sleeping' = [sleeping EXCEPT ![v] = FALSE]
    /\ Start(t, "setEvent", v)

SetEvent(t) ==
    /\ pc[t] = "setEvent"
    /\ event' = [event EXCEPT ![scan[t]] = TRUE]
    /\ Start(t, AfterWake(t), scan[t] + 1)
    /\ UNCHANGED <<queues, sleeping, count, stop, phase, op, schedules, finished>>

ClaimWake(t, noneLeft, claimed) ==
    IF count = 0 THEN Goto(t, noneLeft) /\ UNCHANGED <<count, scan>>
    ELSE count' = count - 1 /\ Start(t, claimed, 1)

\* try_clear_intent_to_sleep: claim one, wake oneself or, in one pass, another.
ClearIntent(w) ==
    /\ pc[w] = "clear"
    /\ ClaimWake(w, "run", "clearSelf")
    /\ UNCHANGED <<queues, sleeping, event, stop, phase, op, schedules, finished>>

ClearSelf(w) ==
    /\ pc[w] = "clearSelf"
    /\ \/ TryWakeUp(w, w)
       \/ ~sleeping[w] /\ Goto(w, "clearOthers") /\ UNCHANGED <<sleeping, scan>>
    /\ UNCHANGED <<queues, count, event, stop, phase, op, schedules, finished>>

ClearOthers(w) ==
    /\ pc[w] = "clearOthers"
    /\ LET v == scan[w] IN
       IF v > N THEN Goto(w, "run") /\ UNCHANGED <<sleeping, scan>>
       ELSE IF v # w /\ sleeping[v] THEN TryWakeUp(w, v)
       ELSE Start(w, "clearOthers", v + 1) /\ UNCHANGED sleeping
    /\ UNCHANGED <<queues, count, event, stop, phase, op, schedules, finished>>

\* wake_one_thread: claim one and look for it until it is found.
WakeOne(t) ==
    /\ pc[t] = "wake"
    /\ ClaimWake(t, AfterWake(t), "wakeScan")
    /\ UNCHANGED <<queues, sleeping, event, stop, phase, op, schedules, finished>>

WakeScan(t) ==
    /\ pc[t] = "wakeScan"
    /\ LET v == scan[t] IN
       IF sleeping[v] THEN TryWakeUp(t, v)
       ELSE Start(t, "wakeScan", (v % N) + 1) /\ UNCHANGED sleeping
    /\ UNCHANGED <<queues, count, event, stop, phase, op, schedules, finished>>

-----------------------------------------------------------------------------
(* Scheduling and running.                                                 *)

\* schedule_impl on a worker: the local queue, or the global one when the
\* local queue is full and cannot grow now; then wake_one_thread.
Reschedule(w) ==
    /\ pc[w] = "run"
    /\ schedules[op[w]] > 0
    /\ schedules' = [schedules EXCEPT ![op[w]] = @ - 1]
    /\ \/ local' = [local EXCEPT ![w] = Append(@, op[w])] /\ UNCHANGED globalTail
       \/ globalTail' = <<op[w]>> \o globalTail /\ UNCHANGED local
    /\ op' = [op EXCEPT ![w] = NoOp]
    /\ Goto(w, "wake")
    /\ UNCHANGED <<globalHead, wakeVars, phase, scan, finished>>

Finish(w) ==
    /\ pc[w] = "run"
    /\ finished' = finished \cup {op[w]}
    /\ op' = [op EXCEPT ![w] = NoOp]
    /\ Goto(w, "local")
    /\ UNCHANGED <<queues, wakeVars, phase, scan, schedules>>

Queued == (UNION {ToSet(local[w]) : w \in Workers}) \cup ToSet(globalTail) \cup ToSet(globalHead)
Running == {op[t] : t \in Threads} \ {NoOp}
NotScheduled == Ops \ (Queued \cup Running \cup finished)

\* schedule_impl from outside the pool: remote_enqueue, wake_one_thread.
RemoteSchedule(o) ==
    /\ pc[Main] = "schedule"
    /\ schedules[o] = MaxSchedules /\ o \in NotScheduled
    /\ globalTail' = <<o>> \o globalTail
    /\ Goto(Main, "wake")
    /\ UNCHANGED <<local, globalHead, wakeVars, phase, op, scan, schedules, finished>>

\* The pool is destroyed when the application's work is done.
RequestStop ==
    /\ pc[Main] = "schedule"
    /\ finished = Ops
    /\ stop' = TRUE
    /\ Start(Main, "shutdown", 1)
    /\ UNCHANGED <<queues, sleeping, count, event, phase, op, schedules, finished>>

ShutdownWake ==
    /\ pc[Main] = "shutdown"
    /\ LET v == scan[Main] IN
       IF v > N THEN Goto(Main, "join") /\ UNCHANGED <<sleeping, scan>>
       ELSE IF sleeping[v] THEN TryWakeUp(Main, v)
       ELSE Start(Main, "shutdown", v + 1) /\ UNCHANGED sleeping
    /\ UNCHANGED <<queues, count, event, stop, phase, op, schedules, finished>>

Join ==
    /\ pc[Main] = "join"
    /\ \A w \in Workers : pc[w] = "exit"
    /\ Goto(Main, "done")
    /\ UNCHANGED <<queues, wakeVars, phase, op, scan, schedules, finished>>

-----------------------------------------------------------------------------

FindWork(w) == LocalPop(w) \/ GlobalDequeue(w) \/ Steal(w)

GoToSleep(w) ==
    \/ Spin(w) \/ NotifyIntent(w) \/ PublishIntent(w) \/ RecheckTail(w)
    \/ RecheckHead(w) \/ RecheckLocal(w) \/ CheckStop(w) \/ Sleep(w)

Wake(t) == WakeOne(t) \/ WakeScan(t) \/ SetEvent(t)

RunWorker(w) ==
    \/ FindWork(w) \/ GoToSleep(w) \/ Wake(w)
    \/ ClearIntent(w) \/ ClearSelf(w) \/ ClearOthers(w)
    \/ Reschedule(w) \/ Finish(w)

Application ==
    \/ \E o \in Ops : RemoteSchedule(o)
    \/ RequestStop \/ ShutdownWake \/ Join \/ Wake(Main)

Next == Application \/ \E w \in Workers : RunWorker(w)

Spec == Init /\ [][Next]_vars

\* Every thread is scheduled.
Fairness == WF_vars(Application) /\ \A w \in Workers : WF_vars(RunWorker(w))

FairSpec == Spec /\ Fairness

-----------------------------------------------------------------------------
TypeOK ==
    /\ local \in [Workers -> Seq(Ops)]
    /\ globalTail \in Seq(Ops) /\ globalHead \in Seq(Ops)
    /\ sleeping \in [Workers -> BOOLEAN]
    /\ count \in Nat
    /\ event \in [Workers -> BOOLEAN]
    /\ stop \in BOOLEAN
    /\ pc \in [Threads -> WorkerPc \cup MainPc \cup WakePc]
    /\ phase \in [Workers -> Phases]
    /\ op \in [Threads -> Ops \cup {NoOp}]
    /\ scan \in [Threads -> 1..(N + 1)]
    /\ schedules \in [Ops -> 0..MaxSchedules]
    /\ finished \subseteq Ops

(* An operation is in one place: in one queue once, or with one thread, or *)
(* finished; it is neither lost nor run twice by two thieves.              *)
PlacesIn(o, s) == {i \in 1..Len(s) : s[i] = o}
Places(o) ==
    Cardinality(UNION {{w} \X PlacesIn(o, local[w]) : w \in Workers})
    + Cardinality(PlacesIn(o, globalTail)) + Cardinality(PlacesIn(o, globalHead))
    + Cardinality({t \in Threads : op[t] = o})
    + (IF o \in finished THEN 1 ELSE 0)

OnePlace == \A o \in Ops :
    /\ Places(o) <= 1
    /\ schedules[o] < MaxSchedules => Places(o) = 1

Blocked(w) == pc[w] = "sleep" /\ ~event[w]

(* A worker that is blocked can be found: its flag says that it sleeps     *)
(* unless somebody is about to set its event                               *)
(* (static_thread_pool.cpp:46-70, 598-606).                                *)
BlockedIsFindable == \A w \in Workers :
    Blocked(w) => sleeping[w] \/ \E t \in Threads : pc[t] = "setEvent" /\ scan[t] = w

\* Threads that claimed a sleeper and have not found it yet, and workers that
\* are about to count themselves.
Claims == {t \in Threads : pc[t] \in {"wakeScan", "clearSelf", "clearOthers"}}
Publishing == {w \in Workers : pc[w] = "count"}

(* wake_one_thread takes a count of zero to mean "No sleeping threads"     *)
(* (static_thread_pool.cpp:725-730): then nobody is blocked with its flag  *)
(* up, unless a thread is on its way to it or has still to be counted.     *)
ZeroMeansNoSleepers ==
    count = 0 /\ Claims = {} /\ Publishing = {}
        => \A w \in Workers : Blocked(w) => ~sleeping[w]

(* Work is never stranded: while an operation is queued, some worker is    *)
(* not blocked, or the thread that queued it is about to wake one          *)
(* (static_thread_pool.cpp:452-456, 719-722).                              *)
NoStrandedWork ==
    Queued # {} => \/ \E w \in Workers : ~Blocked(w)
                   \/ \E t \in Threads : pc[t] \in WakePc

(* wake_one_thread finds a thread to wake: it always returns               *)
(* (static_thread_pool.cpp:737-741).                                       *)
WakeReturns == \A t \in Threads : pc[t] = "wakeScan" ~> pc[t] # "wakeScan"
=============================================================================
