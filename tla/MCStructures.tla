---------------------------- MODULE MCStructures ----------------------------
(***************************************************************************)
(* Two structures that threads share, each under callers that do anything: *)
(* the task queue of the first example and the auto reset event.  A        *)
(* behaviour uses one of them; the variables of the other one keep their   *)
(* first values.                                                           *)
(***************************************************************************)
EXTENDS WorkQueue, AutoResetEvent, TLC

VARIABLE structure

allVars == <<structure, vars, eventVars>>

AnyInit == structure \in {"queue", "event"} /\ Init /\ EventInit

QueueStep == structure = "queue" /\ Next /\ UNCHANGED <<structure, eventVars>>
EventStep == structure = "event" /\ EventNext /\ UNCHANGED <<structure, vars>>

AnySpec == AnyInit /\ [][QueueStep \/ EventStep]_allVars

\* What is interchangeable; the two share the names, and the properties are
\* safety properties.
Symmetry == Permutations(Queues) \cup Permutations(Clients) \cup Permutations(Tasks)
=============================================================================
