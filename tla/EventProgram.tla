---------------------------- MODULE EventProgram ----------------------------
(***************************************************************************)
(* A program over the events of cppcoro.  A parent spawns workers into a   *)
(* scope.  Each awaits an operation, then a gate (an event that a          *)
(* controller sets and resets), then that all of them have come through    *)
(* (a latch), leaves an item and signals the consumer (an auto reset       *)
(* event), which takes what there is and tells the parent (an event that   *)
(* the parent resets before it looks).  Scope and latch are in the frame   *)
(* of the parent.                                                          *)
(***************************************************************************)
EXTENDS ManualResetEvent, SingleConsumerEvents, AsyncScope

CONSTANTS Workers,
          MaxResets     \* bound: how often the controller closes the gate

Parent == <<"parent", 0>>
Consumer == <<"consumer", 0>>
Controller == <<"controller", 0>>
Worker(i) == <<"worker", i>>

\* The latch counts the workers, and each of the coroutines has a thread.
EventAssumption ==
    /\ LatchCount \in Nat \ {0} /\ Workers = 1..LatchCount
    /\ Threads = 1..(LatchCount + 3)
    /\ Coros = {Parent, Consumer, Controller} \cup {Worker(i) : i \in Workers}

VARIABLES spawned,      \* workers that have been started
          published,    \* workers that have left their item
          taken,        \* the items that the consumer has
          resets        \* how often the gate has been closed

programVars == <<spawned, published, taken, resets>>
vars == <<stackVars, eventVars, singleVars, running, programVars>>

Init ==
    /\ stack = [t \in Threads |-> <<>>]
    /\ at = [c \in Coros |-> "created"]
    /\ EventInit /\ SingleInit /\ ScopeInit
    /\ spawned = 0 /\ published = {} /\ taken = {} /\ resets = 0

-----------------------------------------------------------------------------
(* The workers.                                                            *)

\* Bound: the operation of a worker is one event.
Begin(t, w) ==
    /\ Top(t, w, "begin")
    /\ Goto(w, "ready") \/ Suspend(t, w, "operation")
    /\ UNCHANGED <<eventVars, singleVars, running, programVars>>

OperationDone(i) ==
    /\ at[Worker(i)] = "operation"
    /\ ResumeOn(i, Worker(i), "ready")
    /\ UNCHANGED <<eventVars, singleVars, running, programVars>>

Passed(t, w, e) == Top(t, w, "passed") /\ on[w] = e

Publish(t, i) ==
    /\ Passed(t, Worker(i), "latch")
    /\ published' = published \cup {i}
    /\ Goto(Worker(i), "signal")
    /\ UNCHANGED <<eventVars, singleVars, running, spawned, taken, resets>>

WorkerStep(t, i) ==
    LET w == Worker(i) IN
    \/ Begin(t, w) \/ Publish(t, i)
    \/ /\ \/ IsSet(t, w) \/ Load(t, w) \/ Enqueue(t, w)
          \/ Passed(t, w, "gate") /\ CountDown(t, w)
          \/ Set(t, w) \/ Walk(t, w, "ready")
       /\ UNCHANGED <<singleVars, running, programVars>>
    \/ /\ AutoSet(t, w, "leave") \/ AutoClear(t, w, "leave", Consumer, "take")
       /\ UNCHANGED <<eventVars, running, programVars>>
    \/ /\ WorkFinished(t, w, Parent)
       /\ UNCHANGED <<eventVars, singleVars, programVars>>

-----------------------------------------------------------------------------
(* The controller, a thread that owns the gate and leaves it open.         *)

Control(t) ==
    \/ /\ Top(t, Controller, "command")
       /\ \/ Goto(Controller, "set") /\ UNCHANGED <<event, resets>>
          \/ /\ resets < MaxResets
             /\ resets' = resets + 1
             /\ Reset("gate") /\ UNCHANGED stackVars
       /\ UNCHANGED <<on, oldState, walk, count, singleVars, running, spawned, published, taken>>
    \/ /\ Set(t, Controller)
          \/ \E l \in {"command", "end"} : Walk(t, Controller, l) /\ (l = "end" \/ resets < MaxResets)
       /\ UNCHANGED <<singleVars, running, programVars>>

-----------------------------------------------------------------------------
(* The consumer and the parent.                                            *)

Take(t) ==
    /\ Top(t, Consumer, "take")
    /\ taken' = published
    /\ Goto(Consumer, "tell")
    /\ UNCHANGED <<eventVars, singleVars, running, spawned, published, resets>>

Consume(t) ==
    \/ Take(t)
    \/ /\ \/ AutoAwait(t, Consumer) \/ AutoUseUp(t, Consumer, "take")
          \/ ManualSet(t, Consumer, IF taken = Workers THEN "end" ELSE "await", Parent, "reset")
       /\ UNCHANGED <<eventVars, running, programVars>>

SpawnNext(t) ==
    /\ spawned < Cardinality(Workers)
    /\ spawned' = spawned + 1
    /\ Spawn(t, Parent, IF spawned' = Cardinality(Workers) THEN "join" ELSE "spawn",
             Worker(spawned'), "begin")
    /\ UNCHANGED <<eventVars, singleVars, published, taken, resets>>

Joined(t) ==
    /\ Top(t, Parent, "joined") /\ Goto(Parent, "look")
    /\ UNCHANGED <<eventVars, singleVars, running, programVars>>

Check(t) ==
    /\ Top(t, Parent, "check")
    /\ Goto(Parent, IF taken = Workers THEN "end" ELSE "look")
    /\ UNCHANGED <<eventVars, singleVars, running, programVars>>

ParentStep(t) ==
    \/ SpawnNext(t) \/ Joined(t) \/ Check(t)
    \/ Join(t, Parent) /\ UNCHANGED <<eventVars, singleVars, programVars>>
    \/ /\ \/ ManualReady(t, Parent, "reset") \/ ManualAwait(t, Parent, "reset")
          \/ ManualReset(t, Parent, "check")
       /\ UNCHANGED <<eventVars, running, programVars>>

-----------------------------------------------------------------------------
\* Each of the three starts on a thread of its own.
StartOn == [c \in {Parent, Consumer, Controller} |->
              Cardinality(Workers) + (CASE c = Parent -> 1 [] c = Consumer -> 2 [] OTHER -> 3)]

Start(c, l) ==
    /\ at[c] = "created"
    /\ ResumeOn(StartOn[c], c, l)
    /\ UNCHANGED <<eventVars, singleVars, running, programVars>>

Ends(t, c) ==
    /\ Top(t, c, "end") /\ Suspend(t, c, "done")
    /\ UNCHANGED <<eventVars, singleVars, running, programVars>>

Run(t) ==
    \/ \E i \in Workers : WorkerStep(t, i)
    \/ Control(t) \/ Consume(t) \/ ParentStep(t)
    \/ \E c \in {Parent, Consumer, Controller} : Ends(t, c)

Starts == Start(Parent, "spawn") \/ Start(Consumer, "await") \/ Start(Controller, "command")

Next ==
    \/ \E t \in Threads : Run(t)
    \/ \E i \in Workers : OperationDone(i)
    \/ Starts

\* Threads run, operations complete, and everything is started.
Fairness ==
    /\ \A t \in Threads : WF_vars(Run(t))
    /\ \A i \in Workers : WF_vars(OperationDone(i))
    /\ WF_vars(Starts)

Spec == Init /\ [][Next]_vars /\ Fairness

-----------------------------------------------------------------------------
(* Properties.                                                             *)

(* No coroutine is resumed while it runs: a set() that races with the      *)
(* suspension of a waiter leaves it to exactly one of them to go on with   *)
(* it (async_manual_reset_event.cpp:46-97, async_scope.hpp:28-62).         *)
OneActivation ==
    \A c \in Coros : Activations(c) = IF at[c] \in Suspensions THEN 0 ELSE 1

(* Who passes the latch finds that all have counted down.  Who has joined  *)
(* the scope finds that all of its work is done: nobody uses the scope or  *)
(* the latch any more, and the parent may destroy them                     *)
(* (async_latch.hpp:46-56, async_scope.hpp:28-62).                         *)
WaitersFindWhatTheyWaitedFor ==
    /\ published # {} => \A i \in Workers : on[Worker(i)] = "latch"
    /\ at[Parent] \notin {"created", "spawn", "join", "joining"} =>
         published = Workers /\ \A i \in Workers : at[Worker(i)] = "done"

(* A consumer is suspended before an item, and a parent before the last    *)
(* one, only while somebody is on the way to signal it                     *)
(* (single_consumer_async_auto_reset_event.hpp:25-92,                      *)
(* single_consumer_event.hpp:23-97).                                       *)
SignalIsNotLost ==
    /\ at[Consumer] = "suspended" /\ taken # published =>
         \E i \in Workers : at[Worker(i)] \in {"signal", "clear"}
    /\ at[Parent] = "suspended" /\ taken = Workers => at[Consumer] = "tell"

\* Every waiter is resumed in the end.
ParentDone == at[Parent] = "done"
ParentGoesOn == <>ParentDone
=============================================================================
