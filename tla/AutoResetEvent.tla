--------------------------- MODULE AutoResetEvent ---------------------------
(***************************************************************************)
(* cppcoro's async_auto_reset_event: set() lets one co_await pass.         *)
(*                                                                         *)
(* m_state holds two counts, of sets and of waiters.  While both are       *)
(* positive the event is locked: the thread that made them so owns the     *)
(* list of waiters and takes as many off it as there are sets to use.  A   *)
(* waiter is queued before it is counted, and is resumed when both the     *)
(* owner that took it and its own await_suspend() have let go of it.       *)
(*                                                                         *)
(* A thread either waits, again and again, or calls set() and reset().     *)
(* Each step is one atomic operation.  A coroutine that is resumed runs as *)
(* a thread of its own from there on.                                      *)
(***************************************************************************)
EXTENDS Integers, FiniteSets, Sequences, SequencesExt

CONSTANTS Waiters,  \* coroutines that await the event
          Setters,  \* threads that call set() and reset()
          MaxCalls  \* bound: calls of set() and reset() by one thread

ASSUME EventAssumption == Waiters \cap Setters = {} /\ MaxCalls \in Nat

VARIABLES sets, waiters,    \* the two halves of m_state
          newWaiters,       \* m_newWaiters, newest first
          queue,            \* m_waiters, oldest first
          at,
          taking,           \* waiterCountToResume, what is left of it
          taken,            \* how many were taken since the counts changed
          toResume,         \* waitersToResumeList
          refCount,         \* of a waiter's operation
          calls,            \* calls that a setter may still make
          signals,          \* history: sets that counted, less those reset
          passes            \* history: awaits that have passed

state == <<sets, waiters>>
lists == <<newWaiters, queue>>
owner == <<taking, taken, toResume>>
history == <<signals, passes>>
eventVars == <<state, lists, at, owner, refCount, calls, history>>

Users == Waiters \cup Setters

EventInit ==
    /\ sets = 0 /\ waiters = 0
    /\ newWaiters = <<>> /\ queue = <<>>
    /\ at = [t \in Users |-> "idle"]
    /\ taking = [t \in Users |-> 0]
    /\ taken = [t \in Users |-> 0]
    /\ toResume = [t \in Users |-> <<>>]
    /\ refCount = [w \in Waiters |-> 0]
    /\ calls = [t \in Setters |-> MaxCalls]
    /\ signals = 0 /\ passes = 0

Continue(t, label) == at' = [at EXCEPT ![t] = label]

IsSet == sets > waiters
Smaller(m, n) == IF m < n THEN m ELSE n

-----------------------------------------------------------------------------
(* co_await                                                                *)

PassAtOnce(w) ==
    /\ at[w] = "idle"
    /\ IsSet
    /\ sets' = sets - 1
    /\ passes' = passes + 1
    /\ UNCHANGED <<waiters, lists, at, owner, refCount, calls, signals>>

\* The event was not set when it was looked at, or the exchange failed.
Push(w) ==
    /\ at[w] = "idle"
    /\ newWaiters' = <<w>> \o newWaiters
    /\ refCount' = [refCount EXCEPT ![w] = 2]
    /\ Continue(w, "count")
    /\ UNCHANGED <<state, queue, owner, calls, history>>

\* Take the lock when the other count is positive and this one was zero.
Own(t, others, next) ==
    IF others > 0
    THEN Continue(t, "take") /\ taking' = [taking EXCEPT ![t] = Smaller(sets', waiters')]
    ELSE Continue(t, next) /\ UNCHANGED taking

\* Mutant: every waiter that finds sets takes the lock.
CountWaiterAlwaysOwns(w) ==
    /\ at[w] = "count"
    /\ waiters' = waiters + 1
    /\ UNCHANGED sets
    /\ Own(w, sets, "release")
    /\ UNCHANGED <<lists, taken, toResume, refCount, calls, history>>

CountWaiter(w) ==
    /\ at[w] = "count"
    /\ waiters' = waiters + 1
    /\ UNCHANGED sets
    /\ Own(w, IF waiters = 0 THEN sets ELSE 0, "release")
    /\ UNCHANGED <<lists, taken, toResume, refCount, calls, history>>

\* The waiter may now be resumed; if it has been taken it does not suspend.
ReleaseSelf(w) ==
    /\ at[w] = "release"
    /\ refCount' = [refCount EXCEPT ![w] = @ - 1]
    /\ IF refCount[w] = 1 THEN Continue(w, "idle") /\ passes' = passes + 1
                          ELSE Continue(w, "suspended") /\ UNCHANGED passes
    /\ UNCHANGED <<state, lists, owner, calls, signals>>

-----------------------------------------------------------------------------
(* set and reset                                                           *)

UseCall(s) ==
    /\ at[s] = "idle" /\ calls[s] > 0
    /\ calls' = [calls EXCEPT ![s] = @ - 1]

Set(s) ==
    /\ UseCall(s)
    /\ ~IsSet
    /\ sets' = sets + 1
    /\ signals' = signals + 1
    /\ UNCHANGED waiters
    /\ Own(s, IF sets = 0 THEN waiters ELSE 0, "idle")
    /\ UNCHANGED <<lists, taken, toResume, refCount, passes>>

Reset(s) ==
    /\ UseCall(s)
    /\ IsSet
    /\ sets' = sets - 1
    /\ signals' = signals - 1
    /\ UNCHANGED <<waiters, lists, at, owner, refCount, passes>>

-----------------------------------------------------------------------------
(* resume_waiters                                                          *)

TakeOne(t) ==
    /\ at[t] = "take" /\ taking[t] > 0
    /\ LET all == IF queue = <<>> THEN Reverse(newWaiters) ELSE queue IN
         /\ all # <<>>
         /\ queue' = Tail(all)
         /\ toResume' = [toResume EXCEPT ![t] = Append(@, Head(all))]
    /\ newWaiters' = IF queue = <<>> THEN <<>> ELSE newWaiters
    /\ taking' = [taking EXCEPT ![t] = @ - 1]
    /\ taken' = [taken EXCEPT ![t] = @ + 1]
    /\ UNCHANGED <<state, at, refCount, calls, history>>

\* Mutant: the set count is cleared, not reduced by what was used.
SubtractClears(t) ==
    /\ at[t] = "take" /\ taking[t] = 0
    /\ sets' = 0 /\ waiters' = waiters - taken[t]
    /\ taken' = [taken EXCEPT ![t] = 0]
    /\ UNCHANGED taking
    /\ Continue(t, "resume")
    /\ UNCHANGED <<lists, toResume, refCount, calls, history>>

\* Use up the sets; go around again when more have become usable.
Subtract(t) ==
    /\ at[t] = "take" /\ taking[t] = 0
    /\ sets' = sets - taken[t] /\ waiters' = waiters - taken[t]
    /\ taken' = [taken EXCEPT ![t] = 0]
    /\ taking' = [taking EXCEPT ![t] = Smaller(sets', waiters')]
    /\ Continue(t, IF Smaller(sets', waiters') > 0 THEN "take" ELSE "resume")
    /\ UNCHANGED <<lists, toResume, refCount, calls, history>>

\* The last one to let go of a waiter resumes it.
ResumeOne(t) ==
    /\ at[t] = "resume" /\ toResume[t] # <<>>
    /\ LET w == Head(toResume[t]) IN
         /\ refCount' = [refCount EXCEPT ![w] = @ - 1]
         /\ IF refCount[w] = 1 THEN Continue(w, "idle") /\ passes' = passes + 1
                               ELSE UNCHANGED <<at, passes>>
    /\ toResume' = [toResume EXCEPT ![t] = Tail(@)]
    /\ UNCHANGED <<state, lists, taking, taken, calls, signals>>

ResumedAll(t) ==
    /\ at[t] = "resume" /\ toResume[t] = <<>>
    /\ Continue(t, IF t \in Waiters THEN "release" ELSE "idle")
    /\ UNCHANGED <<state, lists, owner, refCount, calls, history>>

-----------------------------------------------------------------------------

Await(w) == PassAtOnce(w) \/ Push(w) \/ CountWaiter(w) \/ ReleaseSelf(w)
ResumeWaiters(t) == TakeOne(t) \/ Subtract(t) \/ ResumeOne(t) \/ ResumedAll(t)

EventNext ==
    \/ \E w \in Waiters : Await(w)
    \/ \E s \in Setters : Set(s) \/ Reset(s)
    \/ \E t \in Users : ResumeWaiters(t)

EventSpec == EventInit /\ [][EventNext]_eventVars

-----------------------------------------------------------------------------
Owners == {t \in Users : at[t] = "take"}

(* The event is locked exactly while both counts are positive: then one    *)
(* thread owns the list of waiters, and it has not promised more of them   *)
(* than there are sets and queued waiters.  So no set stays unused while a *)
(* waiter is counted (async_auto_reset_event.cpp:92-99, 126-148, 267-273). *)
LockIsBothCounts ==
    /\ Cardinality(Owners) = IF sets > 0 /\ waiters > 0 THEN 1 ELSE 0
    /\ \A t \in Owners :
         /\ taking[t] + taken[t] <= Smaller(sets, waiters)
         /\ taking[t] <= Len(queue) + Len(newWaiters)

\* Where the operation of a waiter is linked.
Occurrences(w, s) == Cardinality({i \in 1..Len(s) : s[i] = w})
Linked(w) ==
    Occurrences(w, newWaiters) + Occurrences(w, queue)
    + Cardinality({t \in Users : w \in ToSet(toResume[t])})

(* An operation is in one list, once, exactly as long as somebody has still *)
(* to let go of it; a coroutine is resumed only when it is suspended, never *)
(* while it is inside await_suspend() or runs                               *)
(* (async_auto_reset_event.cpp:206-224, 275-284).                           *)
WaitersAreLinked == \A w \in Waiters :
    LET inSuspend == at[w] \in {"count", "take", "resume", "release"} IN
    /\ refCount[w] = Linked(w) + (IF inSuspend THEN 1 ELSE 0)
    /\ at[w] = "idle" => Linked(w) = 0
    /\ at[w] = "suspended" => Linked(w) = 1

(* One thread at a time owns the lists of waiters, exactly while there are  *)
(* sets and waiters, and no operation is lost on them or let go of early    *)
(* (async_auto_reset_event.cpp:92-99, 126-148, 206-284).                    *)
OneOwnerOfTheWaiters == LockIsBothCounts /\ WaitersAreLinked

\* Awaits that were taken off the list and have not passed yet.
GrantedWaiters == {w \in Waiters :
    at[w] # "idle" /\ Occurrences(w, newWaiters) + Occurrences(w, queue) = 0}

\* Waiters the owner took off the list and has still to subtract from both counts.
Uncounted == IF Owners = {} THEN 0 ELSE taken[CHOOSE t \in Owners : TRUE]

(* A set() that counts lets exactly one await pass: sets are neither lost  *)
(* nor used twice by several resumers, resets and awaits that do not       *)
(* suspend (async_auto_reset_event.cpp:74-118, 186-198).                   *)
OneAwaitPerSet ==
    signals = passes + Cardinality(GrantedWaiters) + sets - Uncounted
=============================================================================
