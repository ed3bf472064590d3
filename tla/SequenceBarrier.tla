-------------------------- MODULE SequenceBarrier --------------------------
(***************************************************************************)
(* cppcoro's sequence_barrier, with sequence_traits and the operation that *)
(* waits for a sequence number.  A barrier is the last published number    *)
(* and a stack of waiting coroutines.  Who publishes takes the stack,      *)
(* resumes those whose number has come and puts the others back; who waits *)
(* puts itself on the stack and looks again, since the publisher may have  *)
(* found the stack empty just before.                                      *)
(*                                                                         *)
(* "gate" is the barrier consumers publish what they have read to, "items" *)
(* the one of a single producer.  The sequencer of many producers has no   *)
(* last published number, only a stack: it takes the place of that of      *)
(* "items".  A coroutine is the thread it runs on.                         *)
(***************************************************************************)
EXTENDS Integers, FiniteSets, FiniteSetsExt, Sequences, SequencesExt

CONSTANTS Producers, Consumers,
          W             \* bits of a sequence number

ASSUME RoleAssumption == Producers \cap Consumers = {}
ASSUME WidthAssumption == W \in Nat /\ W >= 3

\* Laws of exponents, of which the provers know nothing.
ASSUME ExponentAssumption ==
    \A k \in 0..W : /\ 2^k \in Nat \ {0} /\ 2^(k + 1) = 2 * 2^k
                   /\ 2^W = 2^k * 2^(W - k)

Threads == Producers \cup Consumers
Barriers == {"gate", "items"}

VARIABLES lastPublished,  \* m_lastPublished
          awaiters,       \* m_awaiters, newest first
          pc,             \* where a thread is
          op,             \* its wait operation
          local           \* locals of add_awaiter, publish, resume_ready_awaiters

barrierVars == <<lastPublished, awaiters, pc, op, local>>

-----------------------------------------------------------------------------
(* sequence_traits: unsigned numbers that wrap, compared by the sign of    *)
(* their difference.                                                       *)

Modulus == 2^W
Half == 2^(W - 1)
SequenceNumbers == 0..(Modulus - 1)
InitialSequence == Modulus - 1

Wrap(n) == n % Modulus
Difference(a, b) == LET d == Wrap(a - b) IN IF d < Half THEN d ELSE d - Modulus
Precedes(a, b) == Difference(a, b) < 0

\* The first number after s that one of the list is waiting for.
Earliest(s, list) ==
    Wrap(s + Min({Half - 1} \cup {Difference(op[t].target, s) : t \in ToSet(list)}))

-----------------------------------------------------------------------------
(* The wait operation and the threads' locals.                             *)

NoOp == [target |-> 0, known |-> 0, ready |-> FALSE]

NoLocals == [taken |-> <<>>, requeue |-> <<>>, resume |-> <<>>, seen |-> 0, earliest |-> 0]

BarrierInit ==
    /\ lastPublished = [b \in Barriers |-> InitialSequence]
    /\ awaiters = [b \in Barriers |-> <<>>]
    /\ pc = [t \in Threads |-> "idle"]
    /\ op = [t \in Threads |-> NoOp]
    /\ local = [t \in Threads |-> NoLocals]

Goto(t, label) == pc' = [pc EXCEPT ![t] = label]

\* co_await of an operation: go on, or call add_awaiter, which is at label.
Await(t, target, known, label) ==
    /\ op' = [op EXCEPT ![t] = [target |-> target, known |-> known, ready |-> FALSE]]
    /\ IF Precedes(known, target)
       THEN /\ local' = [local EXCEPT ![t] = [NoLocals EXCEPT
                    !.requeue = <<t>>, !.seen = known, !.earliest = target]]
            /\ Goto(t, label)
       ELSE Goto(t, "resumed") /\ UNCHANGED local

\* resume() of the first of the list: the second of this and of Exchange lets
\* the coroutine go on.
ResumeNext(t) ==
    /\ pc[t] \in {"resumeAdded", "resumePublished"}
    /\ local[t].resume # <<>>
    /\ LET a == Head(local[t].resume) IN
         /\ op' = [op EXCEPT ![a].known = local[t].seen, ![a].ready = TRUE]
         /\ IF op[a].ready THEN Goto(a, "resumed") ELSE UNCHANGED pc
    /\ local' = [local EXCEPT ![t].resume = Tail(@)]
    /\ UNCHANGED <<lastPublished, awaiters>>

\* The end of await_suspend, after add_awaiter.
Exchange(t) ==
    /\ pc[t] = "resumeAdded" /\ local[t].resume = <<>>
    /\ op' = [op EXCEPT ![t].ready = TRUE]
    /\ Goto(t, IF op[t].ready THEN "resumed" ELSE "suspended")
    /\ local' = [local EXCEPT ![t] = NoLocals]
    /\ UNCHANGED <<lastPublished, awaiters>>

Published(t) ==
    /\ pc[t] = "resumePublished" /\ local[t].resume = <<>>
    /\ local' = [local EXCEPT ![t] = NoLocals]
    /\ Goto(t, "idle")
    /\ UNCHANGED <<lastPublished, awaiters, op>>

-----------------------------------------------------------------------------
(* add_awaiter.                                                            *)

Enqueue(t, b) ==
    /\ pc[t] = "enqueue"
    /\ awaiters' = [awaiters EXCEPT ![b] = local[t].requeue \o @]
    /\ local' = [local EXCEPT ![t].requeue = <<>>]
    /\ Goto(t, "check")
    /\ UNCHANGED <<lastPublished, op>>

Check(t, b) ==
    /\ pc[t] = "check"
    /\ local' = [local EXCEPT ![t].seen = lastPublished[b]]
    /\ Goto(t, IF Precedes(lastPublished[b], local[t].earliest) THEN "resumeAdded"
                                                                ELSE "reacquire")
    /\ UNCHANGED <<lastPublished, awaiters, op>>

\* The members of the set, in the order of the list.
Among(list, set) ==
    LET kept[i \in 0..Len(list)] ==
          IF i = 0 THEN <<>>
          ELSE IF list[i] \in set THEN Append(kept[i - 1], list[i]) ELSE kept[i - 1]
    IN  kept[Len(list)]

\* Whose number has come, by what the thread has seen, and whose has not.
Split(t, list) ==
    LET later == {a \in Threads : Difference(op[a].target, local[t].seen) > 0}
        requeue == Among(list, later)
    IN  [local[t] EXCEPT
            !.taken = <<>>,
            !.requeue = requeue,
            !.resume = @ \o Among(list, Threads \ later),
            !.earliest = Earliest(local[t].seen, requeue)]

Reacquire(t, b) ==
    /\ pc[t] = "reacquire"
    /\ awaiters' = [awaiters EXCEPT ![b] = <<>>]
    /\ local' = [local EXCEPT ![t] = Split(t, awaiters[b])]
    /\ Goto(t, IF local'[t].requeue = <<>> THEN "resumeAdded" ELSE "enqueue")
    /\ UNCHANGED <<lastPublished, op>>

-----------------------------------------------------------------------------
(* publish.                                                                *)

\* Stores the number; the caller has its own label for it.
PublishSequence(t, b, s) ==
    /\ lastPublished' = [lastPublished EXCEPT ![b] = s]
    /\ local' = [local EXCEPT ![t].seen = s]
    /\ Goto(t, "loadAwaiters")
    /\ UNCHANGED <<awaiters, op>>

LoadAwaiters(t, b) ==
    /\ pc[t] = "loadAwaiters"
    /\ Goto(t, IF awaiters[b] = <<>> THEN "resumePublished" ELSE "acquire")
    /\ UNCHANGED <<lastPublished, awaiters, op, local>>

\* Mutant: everyone who waits is resumed.
AcquireAndResumeAll(t, b) ==
    /\ pc[t] = "acquire"
    /\ awaiters' = [awaiters EXCEPT ![b] = <<>>]
    /\ local' = [local EXCEPT ![t].resume = awaiters[b]]
    /\ Goto(t, "resumePublished")
    /\ UNCHANGED <<lastPublished, op>>

Acquire(t, b) ==
    /\ pc[t] = "acquire"
    /\ awaiters' = [awaiters EXCEPT ![b] = <<>>]
    /\ LET later == {a \in Threads : Precedes(local[t].seen, op[a].target)} IN
         local' = [local EXCEPT
                    ![t].requeue = Among(awaiters[b], later),
                    ![t].resume = Among(awaiters[b], Threads \ later)]
    /\ Goto(t, IF local'[t].requeue = <<>> THEN "resumePublished" ELSE "requeue")
    /\ UNCHANGED <<lastPublished, op>>

Requeue(t, b) ==
    /\ pc[t] = "requeue"
    /\ awaiters' = [awaiters EXCEPT ![b] = local[t].requeue \o @]
    /\ local' = [local EXCEPT ![t].requeue = <<>>]
    /\ Goto(t, "resumePublished")
    /\ UNCHANGED <<lastPublished, op>>

-----------------------------------------------------------------------------

\* The thread waits for one barrier and publishes to the other one.
WaitStep(t, b) == Enqueue(t, b) \/ Check(t, b) \/ Reacquire(t, b) \/ Exchange(t)

PublishStep(t, b) == LoadAwaiters(t, b) \/ Acquire(t, b) \/ Requeue(t, b) \/ Published(t)
=============================================================================
