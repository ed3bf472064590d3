-------------------------- MODULE ManualResetEvent --------------------------
(***************************************************************************)
(* async_manual_reset_event of cppcoro, and async_latch, a counter that    *)
(* sets one.  An atomic pointer of an event is the event itself when it is *)
(* set, else the newest of the operations that wait, which are linked.     *)
(* set() takes the list and resumes who is on it, one after the other.     *)
(***************************************************************************)
EXTENDS CoroStacks

CONSTANT LatchCount     \* what the latch has to be counted down by

Events == {"gate", "latch"}

VARIABLES event,        \* m_state of each event
          on,           \* the event that a coroutine waits for or sets
          oldState,     \* what a waiter has last read of the pointer
          walk,         \* of a coroutine in set(), who is still to be resumed
          count         \* m_count of the latch

eventVars == <<event, on, oldState, walk, count>>

EventInit ==
    /\ event = [e \in Events |-> [set |-> FALSE, list |-> <<>>]]
    /\ on = [c \in Coros |-> "gate"]
    /\ oldState = [c \in Coros |-> <<>>]
    /\ walk = [c \in Coros |-> <<>>]
    /\ count = LatchCount

SetState == <<"set">>

\* m_state as one pointer: who reads it sees the newest waiter only.
Pointer(e) == IF event[e].set THEN SetState
              ELSE IF event[e].list = <<>> THEN <<>> ELSE Head(event[e].list)

-----------------------------------------------------------------------------
(* co_await                                                                *)

IsSet(t, c) ==
    /\ Top(t, c, "ready")
    /\ Goto(c, IF event[on[c]].set THEN "passed" ELSE "load")
    /\ UNCHANGED eventVars

Load(t, c) ==
    /\ Top(t, c, "load")
    /\ oldState' = [oldState EXCEPT ![c] = Pointer(on[c])]
    /\ Goto(c, "enqueue")
    /\ UNCHANGED <<event, on, walk, count>>

\* One turn of the loop: goes on if the event has been set, links itself in
\* front if the pointer is what it read, and looks again otherwise.
Enqueue(t, c) ==
    LET now == Pointer(on[c]) IN
    /\ Top(t, c, "enqueue")
    /\ \/ /\ oldState[c] = SetState
          /\ Goto(c, "passed")
          /\ UNCHANGED <<event, oldState>>
       \/ /\ oldState[c] # SetState /\ oldState[c] = now
          /\ event' = [event EXCEPT ![on[c]].list = <<c>> \o @]
          /\ Suspend(t, c, "queued")
          /\ UNCHANGED oldState
       \/ /\ oldState[c] # SetState /\ oldState[c] # now
          /\ oldState' = [oldState EXCEPT ![c] = now]
          /\ UNCHANGED <<event, stackVars>>
    /\ UNCHANGED <<on, walk, count>>

-----------------------------------------------------------------------------
(* set, reset and count_down                                               *)

Set(t, c) ==
    /\ Top(t, c, "set")
    /\ event' = [event EXCEPT ![on[c]] = [set |-> TRUE, list |-> <<>>]]
    /\ walk' = [walk EXCEPT ![c] = event[on[c]].list]
    /\ Goto(c, "walk")
    /\ UNCHANGED <<on, oldState, count>>

\* The next pointer is read before the waiter is resumed, and set() ends after
\* the last one.
Walk(t, c, afterwards) ==
    /\ Top(t, c, "walk")
    /\ IF walk[c] = <<>>
       THEN Goto(c, afterwards) /\ UNCHANGED walk
       ELSE /\ Call(t, c, "walk", Head(walk[c]), "passed")
            /\ walk' = [walk EXCEPT ![c] = Tail(@)]
    /\ UNCHANGED <<event, on, oldState, count>>

\* A compare and exchange: an event that is not set keeps its waiters.
Reset(e) == event' = [event EXCEPT ![e].set = FALSE]

\* The caller that brings the count to zero sets the event.
CountDown(t, c) ==
    /\ on' = [on EXCEPT ![c] = "latch"]
    /\ count' = count - 1
    /\ Goto(c, IF count <= 1 THEN "set" ELSE "ready")
    /\ UNCHANGED <<event, oldState, walk>>
=============================================================================
