----------------------------- MODULE RingBuffer -----------------------------
(***************************************************************************)
(* Producers and consumers of a ring buffer, as the library's tests and    *)
(* README write them.  A producer claims a range of numbers, which may     *)
(* have to wait until the slots have been read, writes the slots and       *)
(* publishes the range.  A consumer waits for the next number, reads       *)
(* everything that has come and, if it is the one that the producers wait  *)
(* for, publishes how far it got.                                          *)
(*                                                                         *)
(* The sequencer is a single_producer_sequencer, whose one producer counts *)
(* alone and claims what is free, or a multi_producer_sequencer, whose     *)
(* producers claim first and wait then.                                    *)
(***************************************************************************)
EXTENDS MultiProducerSequencer

CONSTANTS Kinds,        \* which sequencers: a subset of {"single", "multi"}
          Gating,       \* the consumers that the producers wait for
          MaxClaim,     \* bound: numbers claimed at a time
          Nothing       \* a slot that was never written

ASSUME KindAssumption == Kinds \subseteq {"single", "multi"} /\ Producers # {}
ASSUME GatingAssumption == Gating \subseteq Consumers /\ Cardinality(Gating) <= 1
ASSUME ClaimAssumption == MaxClaim \in Nat /\ MaxClaim < Half

VARIABLES kind,         \* which sequencer it is
          nextToClaim,  \* m_nextToClaim
          range,        \* what a producer asks for, then its claimed range
          nextToRead,   \* of a consumer
          buffer        \* the numbers of the items in the slots

ringVars == <<kind, nextToClaim, range, nextToRead, buffer>>
vars == <<barrierVars, published, ringVars>>

NoRange == [begin |-> 0, end |-> 0]

Init ==
    /\ BarrierInit /\ SequencerInit
    /\ kind \in Kinds
    /\ nextToClaim = Wrap(InitialSequence + 1)
    /\ range = [p \in Producers |-> NoRange]
    /\ nextToRead = [c \in Consumers |-> Wrap(InitialSequence + 1)]
    /\ buffer = [i \in Slots |-> Nothing]

Working == IF kind = "single" THEN {CHOOSE p \in Producers : TRUE} ELSE Producers

-----------------------------------------------------------------------------
(* Producers.                                                              *)

\* Only the claim of many producers takes the numbers at once, and it takes no
\* more than the buffer has slots.  Bound: the numbers in use fit half the width.
Claim(p) ==
    /\ pc[p] = "idle" /\ p \in Working
    /\ \E count \in 1..MaxClaim :
         LET n == IF kind = "multi" THEN Min({count, BufferSize}) ELSE count
             end == Wrap(nextToClaim + n)
         IN /\ Wrap(end - 1 - lastPublished["gate"]) < Half
            /\ range' = [range EXCEPT ![p] = [begin |-> nextToClaim, end |-> end]]
            /\ nextToClaim' = IF kind = "multi" THEN end ELSE nextToClaim
    /\ Goto(p, "claim")
    /\ UNCHANGED <<lastPublished, awaiters, op, local, published, kind, nextToRead, buffer>>

\* Mutant: the slot may still be unread by one.
ClaimTargetOneLess(p) ==
    Wrap((IF kind = "multi" THEN range[p].end - 1 ELSE range[p].begin) - BufferSize - 1)

\* One round earlier: the last of the range for many producers, the first one
\* for one producer, which takes as many as there are.
ClaimTarget(p) ==
    Wrap((IF kind = "multi" THEN range[p].end - 1 ELSE range[p].begin) - BufferSize)

AwaitClaim(p) ==
    /\ pc[p] = "claim"
    /\ Await(p, ClaimTarget(p), lastPublished["gate"], "enqueue")
    /\ UNCHANGED <<lastPublished, awaiters, published, ringVars>>

\* await_resume of the single producer's claim.
Claimed(p) ==
    LET begin == range[p].begin
        available == Wrap(op[p].known + BufferSize - begin) + 1
        asked == Wrap(range[p].end - begin)
    IN IF kind = "multi" THEN range[p]
       ELSE [begin |-> begin, end |-> Wrap(begin + Min({asked, available}))]

\* The slots of the range are written.
Write(p) ==
    /\ pc[p] = "resumed" /\ p \in Producers
    /\ LET r == Claimed(p) IN
         /\ range' = [range EXCEPT ![p] = r]
         /\ nextToClaim' = IF kind = "single" THEN r.end ELSE nextToClaim
         /\ buffer' = [i \in Slots |->
              LET written == {s \in SequenceNumbers :
                                Slot(s) = i /\ Wrap(s - r.begin) < Wrap(r.end - r.begin)}
              IN IF written = {} THEN buffer[i] ELSE CHOOSE s \in written : TRUE]
         /\ local' = [local EXCEPT ![p].seen = Wrap(r.begin + 1)]
    /\ op' = [op EXCEPT ![p] = NoOp]
    /\ Goto(p, "publish")
    /\ UNCHANGED <<lastPublished, awaiters, published, kind, nextToRead>>

Publish(p) ==
    /\ p \in Producers
    /\ \/ /\ kind = "multi"
          /\ PublishRange(p, range[p].begin, range[p].end)
       \/ /\ kind = "single" /\ pc[p] = "publish"
          /\ PublishSequence(p, "items", Wrap(range[p].end - 1))
          /\ UNCHANGED published
    /\ range' = IF pc'[p] = "publish" THEN range ELSE [range EXCEPT ![p] = NoRange]
    /\ UNCHANGED <<kind, nextToClaim, nextToRead, buffer>>

-----------------------------------------------------------------------------
(* Consumers.                                                              *)

AwaitItem(c) ==
    /\ pc[c] = "idle" /\ c \in Consumers
    /\ IF kind = "multi"
       THEN Await(c, nextToRead[c], Wrap(nextToRead[c] - 1), "queue")
       ELSE Await(c, nextToRead[c], lastPublished["items"], "enqueue")
    /\ UNCHANGED <<lastPublished, awaiters, published, ringVars>>

Read(c) ==
    /\ pc[c] = "resumed" /\ c \in Consumers
    /\ nextToRead' = [nextToRead EXCEPT ![c] = Wrap(op[c].known + 1)]
    /\ op' = [op EXCEPT ![c] = NoOp]
    /\ Goto(c, IF c \in Gating THEN "release" ELSE "idle")
    /\ UNCHANGED <<lastPublished, awaiters, local, published, kind, nextToClaim, range, buffer>>

ReleaseSlots(c) ==
    /\ pc[c] = "release"
    /\ PublishSequence(c, "gate", Wrap(nextToRead[c] - 1))
    /\ UNCHANGED <<published, ringVars>>

-----------------------------------------------------------------------------

\* What a thread waits for, and what it publishes to.
WaitsFor(t) == IF t \in Producers THEN "gate" ELSE "items"
PublishesTo(t) == IF t \in Producers THEN "items" ELSE "gate"

InCall(t) ==
    \/ /\ WaitStep(t, WaitsFor(t)) \/ PublishStep(t, PublishesTo(t)) \/ ResumeNext(t)
       /\ UNCHANGED <<published, ringVars>>
    \/ /\ SequencerWaitStep(t) \/ SequencerPublishStep(t)
       /\ UNCHANGED ringVars
    \/ Publish(t) \/ ReleaseSlots(t)

User(t) == Claim(t) \/ AwaitClaim(t) \/ Write(t) \/ AwaitItem(t) \/ Read(t)

Next == \E t \in Threads : InCall(t) \/ User(t)

Spec == Init /\ [][Next]_vars

-----------------------------------------------------------------------------
\* Number s, which a consumer has not read yet, has been published, and so
\* have those before it.
HasCome(s, c) ==
    IF kind = "single" THEN ~Precedes(lastPublished["items"], s)
    ELSE \A i \in 0..Wrap(s - nextToRead[c]) : IsPublished(Wrap(nextToRead[c] + i))

TargetCame(t) ==
    IF t \in Producers THEN ~Precedes(lastPublished["gate"], op[t].target)
    ELSE HasCome(op[t].target, t)

(* Who goes on has what it waited for: its number and all before it are    *)
(* published, and the result does not precede it                           *)
(* (sequence_barrier.hpp:81-86, multi_producer_sequencer.hpp:75-79).       *)
ResumedOnTarget ==
    \A t \in Threads : pc[t] = "resumed" =>
        ~Precedes(op[t].known, op[t].target) /\ TargetCame(t)

(* A slot that was published keeps its item until the consumer the         *)
(* producers wait for has read it, over many rounds of the ring and of the *)
(* numbers (README.md of cppcoro, lines 1003-1160).                        *)
UnreadIsIntact ==
    \A c \in Gating, i \in 0..(BufferSize - 1) :
        LET s == Wrap(nextToRead[c] + i) IN HasCome(s, c) => buffer[Slot(s)] = s

(* No publication is missed: when every call of the library is over,       *)
(* nobody is suspended whose target was published                          *)
(* (sequence_barrier.hpp:406-412, multi_producer_sequencer.hpp:751-755).   *)
OutsideCalls == {"idle", "claim", "publish", "release", "resumed", "suspended"}
NothingIsMissed ==
    (\A t \in Threads : pc[t] \in OutsideCalls) =>
        \A t \in Threads : pc[t] = "suspended" => ~TargetCame(t)
=============================================================================
