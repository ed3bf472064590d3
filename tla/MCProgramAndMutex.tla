------------------------- MODULE MCProgramAndMutex --------------------------
(***************************************************************************)
(* The program of the first example and the coroutine mutex of cppcoro,    *)
(* side by side: the two that are checked for progress with all threads    *)
(* told apart.  A behaviour is of one of them; the variables of the other  *)
(* one keep their first values.                                            *)
(***************************************************************************)
EXTENDS QueueProgram, AsyncMutex

VARIABLE part

\* What the theorems about the program suppose of its constants.
ASSUME TheQueues == ProgramAssumption

AnyInit == part \in {"program", "mutex"} /\ ProgramInit /\ MutexInit

ProgramStep == part = "program" /\ ProgramNext /\ UNCHANGED <<part, mutexVars>>
MutexStep == part = "mutex" /\ MutexNext /\ UNCHANGED <<part, allVars>>

\* The fairness of each of them.
AnyFairness ==
    /\ WF_allVars(part = "program" /\ MainThread)
    /\ \A q \in Queues : WF_allVars(part = "program" /\ WorkerThread(q))
    /\ \A t \in Threads : WF_allVars(part = "program" /\ NotifyStep(t))
    /\ \A c \in Coros : WF_mutexVars(part = "mutex" /\ UnlockStep(c))

AnySpec == AnyInit /\ [][ProgramStep \/ MutexStep]_<<part, allVars, mutexVars>> /\ AnyFairness

-----------------------------------------------------------------------------
(* Nobody is left behind: the pieces of a script run to the last one, and  *)
(* every coroutine that suspended gets the lock in the end                 *)
(* (WorkQueue.cpp:33-77, async_mutex.cpp:57-121).                          *)
EveryoneGoesOn == ScriptCompletes /\ SuspendedGetsTheLock
=============================================================================
