---------------------------- MODULE QueueProgram ----------------------------
(***************************************************************************)
(* Example_1_std as a whole: main() starts the three workers, runs         *)
(* codeWithCallbacks, joins the workers, and does the same with            *)
(* codeWithCoro over the same static queues.                               *)
(*                                                                         *)
(* Both tests are the same script of hops from queue to queue.  A hop of   *)
(* the first test pushes the next callback; a hop of the second is a       *)
(* co_await on the queue, which pushes the coroutine's handle unless the   *)
(* promise says the coroutine is on that queue already.  Task k is the     *)
(* piece of code that follows the k-th hop.                                *)
(***************************************************************************)
EXTENDS WorkQueue

CONSTANTS writer, network, ui, main, NoQueue

\* The queues are three objects; NoQueue is the null pointer.
ProgramAssumption ==
    /\ Queues = {writer, network, ui} /\ Clients = {main}
    /\ writer # network /\ network # ui /\ ui # writer
    /\ NoQueue \notin Queues

VARIABLES test, mainPc,
          made,           \* calls made by the code that runs on a thread
          currentQueue,   \* PromiseType::_currentQueue
          trail           \* history: where the pieces of this test ran

progVars == <<test, mainPc, made, currentQueue, trail>>

\* Mutant: the writer finds that no network is needed.
NoNetwork == FALSE

NeedNetwork == TRUE
NetworkOk == TRUE

NetworkHops == IF NetworkOk THEN <<network, ui>> ELSE <<network>>

Scripts ==
    IF NeedNetwork
    THEN [n \in 1..2 |-> <<writer>> \o NetworkHops \o <<writer>>]
    ELSE << <<writer>>, <<writer, writer>> >>

Script == Scripts[test]

\* shutdownAllThreads stops the queues in this order.
ShutdownOrder == <<writer, network, ui>>

ProgramInit ==
    /\ Init
    /\ test = 1
    /\ mainPc = "spawn"
    /\ made = [t \in Threads |-> 0]
    /\ currentQueue = NoQueue
    /\ trail = <<>>

SpawnOrder == <<writer, network, ui>>

\* test(): the std::thread constructors, one after the other.
SpawnWorker ==
    /\ mainPc = "spawn" /\ made[main] < Len(SpawnOrder)
    /\ StartWorker(SpawnOrder[made[main] + 1])
    /\ made' = [made EXCEPT ![main] = @ + 1]
    /\ UNCHANGED <<test, mainPc, currentQueue, trail>>

MainEntersFunc ==
    /\ mainPc = "spawn" /\ made[main] = Len(SpawnOrder)
    /\ mainPc' = "call"
    /\ made' = [made EXCEPT ![main] = 0]
    /\ UNCHANGED <<vars, test, currentQueue, trail>>

\* The k-th hop of a callback: push the next one.
PushCallback(t, k) ==
    /\ test = 1
    /\ PushTask(t, Script[k], k)
    /\ made' = [made EXCEPT ![t] = @ + 1]
    /\ UNCHANGED <<test, mainPc, currentQueue, trail>>

\* Mutant: await_ready answers the opposite.
AwaitInverted(t, k) ==
    /\ test = 2
    /\ MayCall(t)
    /\ currentQueue' = Script[k]
    /\ IF currentQueue # Script[k]
       THEN /\ cur' = [x \in DOMAIN cur |-> IF x = t THEN k ELSE cur[x]]
            /\ trail' = Append(trail, t)
            /\ UNCHANGED <<tasks, stop, pc, pendingOne, pendingAll, spurious, pushed, ran, made>>
       ELSE /\ PushTask(t, Script[k], k)
            /\ made' = [made EXCEPT ![t] = @ + 1]
            /\ UNCHANGED trail
    /\ UNCHANGED <<test, mainPc>>

\* Mutant: the handle is pushed before the coroutine sleeps.
AwaitPushesTooEarly(t, k) ==
    /\ test = 2
    /\ currentQueue' = Script[k]
    /\ PushTask(t, Script[k], k)
    /\ UNCHANGED <<test, mainPc, made, trail>>

\* The k-th hop of the coroutine.  yield_value notes the queue before the
\* coroutine sleeps; await_ready lets it go on when that is where it is.
AwaitQueue(t, k) ==
    /\ test = 2
    /\ MayCall(t)
    /\ currentQueue' = Script[k]
    /\ IF currentQueue = Script[k]
       THEN /\ cur' = [cur EXCEPT ![t] = k]
            /\ trail' = Append(trail, t)
            /\ UNCHANGED <<tasks, stop, pc, pendingOne, pendingAll, spurious, pushed, ran, made>>
       ELSE /\ PushTask(t, Script[k], k)
            /\ made' = [made EXCEPT ![t] = @ + 1]
            /\ UNCHANGED trail
    /\ UNCHANGED <<test, mainPc>>

Hop(t, k) == PushCallback(t, k) \/ AwaitQueue(t, k)

MainCallsFunc == mainPc = "call" /\ made[main] = 0 /\ Hop(main, 1)

MainFuncReturns ==
    /\ mainPc = "call" /\ made[main] = 1 /\ Free(main)
    /\ mainPc' = "join"
    /\ made' = [made EXCEPT ![main] = 0]
    /\ UNCHANGED <<vars, test, currentQueue, trail>>

\* Mutant: main joins one worker only.
MainJoinsUiOnly ==
    /\ mainPc = "join"
    /\ pc[ui] = "returned"
    /\ IF test = 1
       THEN mainPc' = "spawn" /\ test' = 2 /\ trail' = <<>>
       ELSE mainPc' = "done" /\ UNCHANGED <<test, trail>>
    /\ UNCHANGED <<vars, made, currentQueue>>

\* ui.join(); net.join(); wr.join(); and the next test, if there is one.
MainJoins ==
    /\ mainPc = "join"
    /\ \A q \in Queues : pc[q] = "returned"
    /\ IF test = 1
       THEN mainPc' = "spawn" /\ test' = 2 /\ trail' = <<>>
       ELSE mainPc' = "done" /\ UNCHANGED <<test, trail>>
    /\ UNCHANGED <<vars, made, currentQueue>>

\* A worker takes a task: its code starts.
BeginPiece(q) ==
    /\ TakeTask(q)
    /\ made' = [made EXCEPT ![q] = 0]
    /\ trail' = Append(trail, q)
    /\ UNCHANGED <<test, mainPc, currentQueue>>

MakeHop(q) ==
    /\ pc[q] = "running"
    /\ cur[q] < Len(Script) /\ made[q] = 0
    /\ Hop(q, cur[q] + 1)

\* The last piece calls Shutdown on each queue in turn.
ShutdownAllThreads(q) ==
    /\ pc[q] = "running"
    /\ cur[q] = Len(Script) /\ made[q] < Len(ShutdownOrder)
    /\ SetStop(q, ShutdownOrder[made[q] + 1])
    /\ made' = [made EXCEPT ![q] = @ + 1]
    /\ UNCHANGED <<test, mainPc, currentQueue, trail>>

CallsToMake(q) == IF cur[q] < Len(Script) THEN 1 ELSE Len(ShutdownOrder)

PieceReturns(q) ==
    /\ TaskEnd(q)
    /\ made[q] = CallsToMake(q)
    /\ UNCHANGED progVars

LoopStep(q) ==
    /\ RunBegin(q) \/ Lock(q) \/ EvalPredicate(q) \/ Block(q) \/ RunReturn(q)
    /\ UNCHANGED progVars

WorkerThread(q) ==
    \/ LoopStep(q) \/ BeginPiece(q) \/ MakeHop(q)
    \/ ShutdownAllThreads(q) \/ PieceReturns(q)

MainThread ==
    SpawnWorker \/ MainEntersFunc \/ MainCallsFunc \/ MainFuncReturns \/ MainJoins

NotifyStep(t) == Notification(t) /\ UNCHANGED progVars

ProgramNext ==
    \/ MainThread
    \/ \E q \in Queues : WorkerThread(q)
    \/ \E t \in Threads : NotifyStep(t)
    \/ \E q \in Queues : SpuriousWake(q) /\ UNCHANGED progVars

allVars == <<vars, progVars>>

\* Every thread is scheduled.  A thread never waits for the mutex for ever: its
\* only other user holds it for a bounded number of its own steps.
Fairness ==
    /\ WF_allVars(MainThread)
    /\ \A q \in Queues : WF_allVars(WorkerThread(q))
    /\ \A t \in Threads : WF_allVars(NotifyStep(t))

ProgramSpec == ProgramInit /\ [][ProgramNext]_allVars

FairProgramSpec == ProgramSpec /\ Fairness

-----------------------------------------------------------------------------
(* The program behaves as straight-line code: through both tests, every    *)
(* piece of the script runs exactly once, in order, on the thread it       *)
(* awaited (TestCodeCallbacks.h:11-38, TestCodeCoroutines.h:12-43).        *)
Sequential == INSTANCE QueueScript
StraightLine == Sequential!Spec

(* The baton is in one place only: a handle that was pushed is not also    *)
(* being run, though the thread that pushed it is still in PushTask        *)
(* (CorutineTask.cpp:20-24 and the comment at 102).                        *)
Carriers == {t \in Threads : /\ IF t = main THEN mainPc = "call" ELSE pc[t] = "running"
                             /\ made[t] = 0}
Waiting == {q \in Queues : tasks[q] # <<>>}
OneCarrier ==
    /\ \A q \in Queues : Len(tasks[q]) <= 1
    /\ \A x, y \in Carriers : x = y
    /\ \A x, y \in Waiting : x = y
    /\ Carriers = {} \/ Waiting = {}

(* Shutdown never runs before the worker entered Run, which would clear    *)
(* the flag again (WorkQueue.cpp:13, 28): the script visits every queue    *)
(* before it shuts them all down.                                          *)
ShutdownFindsTheLoopRunning ==
    [][\A t \in Threads, q \in Queues :
          <<t, q>> \in pendingAll' \ pendingAll => pc[q] # "start"]_allVars

(* The second test starts on queues the first one left empty, with nobody  *)
(* still inside a call on them: the queues are static (main.cpp:42-45).    *)
CleanBetweenTests ==
    (mainPc = "spawn" /\ made[main] = 0) \/ mainPc = "done" =>
        /\ \A q \in Queues : tasks[q] = <<>>
        /\ pendingOne \cup pendingAll = {}

(* Once func() returned, the rest of the script runs to its last piece on  *)
(* the workers.                                                            *)
ScriptCompletes == \A n \in 1..2 :
    (mainPc = "join" /\ test = n) ~> (test = n /\ Len(trail) = Len(Script))

(* The joins of both tests return: a shut-down worker gets the empty       *)
(* function and leaves Run (WorkQueue.cpp:15).                             *)
JoinsReturn == <>(mainPc = "done")
=============================================================================
