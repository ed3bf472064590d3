---------------------------- MODULE MCIoProgram -----------------------------
(* What two coroutines await, with which token and time, on which threads. *)
EXTENDS IoProgram

Scenario(await1, token1, time1, await2, token2, time2, threads) ==
    [plan |-> <<await1, await2>>, cancellable |-> <<token1, token2>>,
     dueTime |-> <<time1, time2>>, threads |-> threads]

MCScenarios ==
    {Scenario("schedule", FALSE, 0, "schedule", FALSE, 0, {3, 4}),
     Scenario("schedule", FALSE, 0, "schedule", FALSE, 0, {3}),
     Scenario("timer", TRUE, 2, "timer", FALSE, 1, {3}),
     Scenario("timer", FALSE, 1, "schedule", FALSE, 0, {3}),
     Scenario("overlapped", TRUE, 0, "overlapped", TRUE, 0, {3}),
     Scenario("overlapped", FALSE, 0, "schedule", FALSE, 0, {3})}
=============================================================================
