---------------------------- MODULE QueueScript -----------------------------
(***************************************************************************)
(* What codeWithCallbacks and codeWithCoro promise to look like: straight- *)
(* line code that runs its pieces one after the other, each on the thread  *)
(* it names, with no trace of the queues that carry it from one to the     *)
(* next.  The two tests of main() run one after the other.                 *)
(***************************************************************************)
EXTENDS Integers, Sequences

CONSTANT Scripts     \* for each test, the thread of every piece after the first

VARIABLES test,      \* which call of test() main() is in
          trail      \* the threads the pieces of this test ran on

Script == Scripts[test]

Init == test = 1 /\ trail = <<>>

RunPiece ==
    /\ Len(trail) < Len(Script)
    /\ trail' = Append(trail, Script[Len(trail) + 1])
    /\ UNCHANGED test

NextTest ==
    /\ test = 1
    /\ Len(trail) = Len(Script)
    /\ test' = 2
    /\ trail' = <<>>

Next == RunPiece \/ NextTest

Spec == Init /\ [][Next]_<<test, trail>>
=============================================================================
