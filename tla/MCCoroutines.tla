---------------------------- MODULE MCCoroutines ----------------------------
(***************************************************************************)
(* Three programs of coroutines: a chain of async_generators, the events   *)
(* with a scope, and the TCP echo server.  A behaviour is one of them; the *)
(* variables of the others keep their first values.                        *)
(***************************************************************************)
EXTENDS EventProgram, EchoServer

CONSTANT End

VARIABLES program,
          stackG, atG, symmetric, state, value, exception, seen, target, yielded, obtained,
          ending

generatorVars == <<stackG, atG, symmetric, state, value, exception, seen, target, yielded,
                   obtained, ending>>
allVars == <<program, generatorVars, vars, echoVars>>

MCWorkers == 1..2
MCThreads == 1..5
MCCoros == {Parent, Consumer, Controller} \cup {Worker(i) : i \in Workers}

Generator == INSTANCE AsyncGenerator WITH
    Threads <- {1, 3}, Coros <- 1..3, N <- 2, MaxYields <- 3,
    stack <- stackG, at <- atG

ASSUME ProgramAssumption ==
    /\ Generator!GeneratorAssumption /\ EventAssumption

AnyInit ==
    /\ Generator!ChainInit /\ Init /\ EchoInit
    /\ program \in {"generator", "events", "echo"}
    /\ program = "generator" \/ symmetric

GeneratorStep ==
    /\ program = "generator" /\ Generator!ChainNext
    /\ UNCHANGED <<program, vars, echoVars>>
EventStep ==
    /\ program = "events" /\ Next
    /\ UNCHANGED <<program, generatorVars, echoVars>>
EchoStep ==
    /\ program = "echo" /\ EchoNext
    /\ UNCHANGED <<program, generatorVars, vars>>

\* The fairness of each of the programs.
AnyFairness ==
    /\ \A t \in {1, 3} : WF_generatorVars(program = "generator" /\ Generator!RunChain(t))
    /\ \A k \in {1, 3} : WF_generatorVars(program = "generator" /\ Generator!Operation(k))
    /\ WF_generatorVars(program = "generator" /\ Generator!BeginChain)
    /\ SF_generatorVars(program = "generator" /\ Generator!SourceEnds)
    /\ \A t \in Threads : WF_vars(program = "events" /\ Run(t))
    /\ \A i \in Workers : WF_vars(program = "events" /\ OperationDone(i))
    /\ WF_vars(program = "events" /\ Starts)
    /\ WF_echoVars(program = "echo" /\ EchoRun) /\ WF_echoVars(program = "echo" /\ AsioAccepts)
    /\ \A c \in Clients : WF_echoVars(program = "echo" /\ AsioServes(c))

AnySpec ==
    AnyInit /\ [][GeneratorStep \/ EventStep \/ EchoStep]_allVars /\ AnyFairness

-----------------------------------------------------------------------------
(* Producer and consumer settle by one atomic state which of them goes on: *)
(* neither is resumed while it runs.  What the consumer reads in place     *)
(* stays there meanwhile, and it receives each value once and in order,    *)
(* and the exception of the source if there is one                         *)
(* (async_generator.hpp:443-591, 604-800, 1064-1086).                      *)
GeneratorEndsAgree ==
    program = "generator" => /\ Generator!EndsRunOnce
                             /\ Generator!ProducerStaysWhileUsed
                             /\ Generator!EachValueOnce

(* Every program gets to its end: all frames of a chain of generators are  *)
(* destroyed, the parent of the workers is resumed by the scope and by its *)
(* event, and each client of the server has its bytes back or, when it     *)
(* closed, its session is over, whatever the schedule and whatever other   *)
(* clients do (AsyncTCPEchoServer.cpp:121-136, 191-203).                   *)
ProgramsEnd ==
    <>[](/\ program = "generator" => Generator!Destroyed
         /\ program = "events" => ParentDone
         /\ program = "echo" => \A c \in Clients : Served(c))
=============================================================================
