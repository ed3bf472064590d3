----------------------- MODULE MCTasksAndCancellation -----------------------
(***************************************************************************)
(* Tasks that are joined, and cancellation.  A behaviour is one of the     *)
(* two; the variables of the other one keep their first values.            *)
(*                                                                         *)
(* Two tasks, each completed on a thread of its own, main's thread 0 and   *)
(* thread 3 for the shared task.  Threads that register in two lists, the  *)
(* last one sharing that of the first.                                     *)
(***************************************************************************)
EXTENDS TaskProgram, Cancellation, TLC

CONSTANTS t1, t2, t3

MCUsers == 1..2
MCThreads == 0..3
MCCoros == {Parent, Body} \cup {Wrapper(u) : u \in Users} \cup {User(u) : u \in Users}
MCThreadOf == [co \in MCCoros |-> IF co = Body THEN 3 ELSE co[2]]
TwoLists == (t1 :> 1) @@ (t2 :> 2) @@ (t3 :> 1)

ASSUME TasksAssumption == UserAssumption

VARIABLE program

anyVars == <<program, taskVars, vars>>

AnyInit ==
    /\ program \in {"tasks", "cancellation"} /\ TaskInit /\ Init
    /\ program = "tasks" \/ (symmetric /\ implementation = "futex")
    /\ program = "cancellation" \/ sources = {t1}

JoinStep == program = "tasks" /\ TaskNext /\ UNCHANGED <<program, vars>>
CancellationStep == program = "cancellation" /\ Next /\ UNCHANGED <<program, taskVars>>

\* The fairness of each of the two.
AnyFairness ==
    /\ \A t \in Threads : WF_taskVars(program = "tasks" /\ Run(t))
    /\ \A u \in Users : WF_taskVars(program = "tasks" /\ Completes(u))
    /\ WF_taskVars(program = "tasks" /\ SharedCompletes)
    /\ WF_taskVars(program = "tasks" /\ MainStep)
    /\ WF_vars(program = "cancellation" /\ Notify)
    /\ \A t \in Callers : /\ WF_vars(program = "cancellation" /\ Construct(t))
                          /\ WF_vars(program = "cancellation" /\ Destruct(t))

AnySpec == AnyInit /\ [][JoinStep \/ CancellationStep]_anyVars /\ AnyFairness

-----------------------------------------------------------------------------
(* sync_wait returns: no notification and no wake-up is lost               *)
(* (lightweight_manual_reset_event.cpp:77-131, 151-205).  And so does each *)
(* call of the other program (CallsReturn).                                *)
WaitsEnd == (program = "tasks" => <>Returned) /\ CallsReturn
=============================================================================
