----------------------- MODULE MultiProducerSequencer -----------------------
(***************************************************************************)
(* The part of cppcoro's multi_producer_sequencer that a sequence_barrier  *)
(* does for one producer.  Producers publish in any order: every slot of   *)
(* the ring holds the number last published there, and what is published   *)
(* is found by looking at one slot after the other.  In between, threads   *)
(* take the stack of waiting coroutines from each other.                   *)
(***************************************************************************)
EXTENDS SequenceBarrier

CONSTANTS BufferSize    \* slots of the ring

ASSUME BufferAssumption == \E k \in 0..(W - 2) : BufferSize = 2^k

VARIABLES published     \* m_published

Slots == 0..(BufferSize - 1)
Slot(s) == s % BufferSize

SequencerInit ==
    published = [i \in Slots |-> CHOOSE s \in SequenceNumbers :
                    Slot(s) = i /\ Modulus - s \in 1..BufferSize]

IsPublished(s) == published[Slot(s)] = s

-----------------------------------------------------------------------------
(* add_awaiter.                                                            *)

PutOn(t) ==
    /\ pc[t] = "queue"
    /\ awaiters' = [awaiters EXCEPT !["items"] = local[t].requeue \o @]
    /\ local' = [local EXCEPT ![t].requeue = <<>>]
    /\ Goto(t, "advance")
    /\ UNCHANGED <<lastPublished, op, published>>

Advance(t) ==
    /\ pc[t] = "advance"
    /\ LET next == Wrap(local[t].seen + 1) IN
         IF IsPublished(next)
         THEN local' = [local EXCEPT ![t].seen = next] /\ UNCHANGED pc
         ELSE /\ Goto(t, IF Precedes(local[t].seen, local[t].earliest) THEN "resumeAdded"
                                                                       ELSE "retake")
              /\ UNCHANGED local
    /\ UNCHANGED <<lastPublished, awaiters, op, published>>

\* Everyone is resumed: the code compares with the number this thread was
\* waiting for, which has come, and not with each awaiter's own.
Retake(t) ==
    /\ pc[t] = "retake"
    /\ awaiters' = [awaiters EXCEPT !["items"] = <<>>]
    /\ local' = [local EXCEPT ![t].resume = @ \o awaiters["items"]]
    /\ Goto(t, "resumeAdded")
    /\ UNCHANGED <<lastPublished, op, published>>

-----------------------------------------------------------------------------
(* publish of a range, and resume_ready_awaiters.                          *)

Store(s) == published' = [published EXCEPT ![Slot(s)] = s]

\* All but the first number of the range, then the first one.
PublishRange(t, begin, end) ==
    /\ pc[t] = "publish"
    /\ IF local[t].seen # end
       THEN /\ Store(local[t].seen)
            /\ local' = [local EXCEPT ![t].seen = Wrap(@ + 1)]
            /\ UNCHANGED pc
       ELSE Store(begin) /\ Goto(t, "load") /\ UNCHANGED local
    /\ UNCHANGED <<lastPublished, awaiters, op>>

Load(t) ==
    /\ pc[t] = "load"
    /\ Goto(t, IF awaiters["items"] = <<>> THEN "resumePublished" ELSE "take")
    /\ UNCHANGED <<lastPublished, awaiters, op, local, published>>

\* At the first time and after a number came for somebody put back.
Take(t) ==
    /\ pc[t] = "take"
    /\ IF awaiters["items"] = <<>>
       THEN Goto(t, "resumePublished") /\ UNCHANGED <<awaiters, local>>
       ELSE /\ awaiters' = [awaiters EXCEPT !["items"] = <<>>]
            /\ local' = [local EXCEPT
                           ![t].taken = awaiters["items"],
                           ![t].seen = op[Head(awaiters["items"])].known]
            /\ Goto(t, "count")
    /\ UNCHANGED <<lastPublished, op, published>>

\* last_published_after, and the split when there is no more.
Count(t) ==
    /\ pc[t] = "count"
    /\ LET next == Wrap(local[t].seen + 1)
           taken == local[t].taken
       IN IF IsPublished(next)
          THEN local' = [local EXCEPT ![t].seen = next] /\ UNCHANGED <<pc, op>>
          ELSE /\ local' = [local EXCEPT ![t] = Split(t, taken)]
               /\ op' = [a \in Threads |-> IF a \in ToSet(taken)
                            THEN [op[a] EXCEPT !.known = local[t].seen] ELSE op[a]]
               /\ Goto(t, IF local'[t].requeue = <<>> THEN "resumePublished" ELSE "putBack")
    /\ UNCHANGED <<lastPublished, awaiters, published>>

\* Mutant: they are put back for good.
PutBackOnly(t) ==
    /\ pc[t] = "putBack"
    /\ awaiters' = [awaiters EXCEPT !["items"] = local[t].requeue \o @]
    /\ local' = [local EXCEPT ![t].requeue = <<>>]
    /\ Goto(t, "resumePublished")
    /\ UNCHANGED <<lastPublished, op, published>>

PutBack(t) ==
    /\ pc[t] = "putBack"
    /\ awaiters' = [awaiters EXCEPT !["items"] = local[t].requeue \o @]
    /\ local' = [local EXCEPT ![t].requeue = <<>>]
    /\ Goto(t, "verify")
    /\ UNCHANGED <<lastPublished, op, published>>

\* Has it come meanwhile for the first of those that were put back?
Verify(t) ==
    /\ pc[t] = "verify"
    /\ LET next == Wrap(local[t].seen + 1) IN
         IF IsPublished(next)
         THEN /\ local' = [local EXCEPT ![t].seen = next]
              /\ IF next = local[t].earliest THEN Goto(t, "take") ELSE UNCHANGED pc
         ELSE Goto(t, "resumePublished") /\ UNCHANGED local
    /\ UNCHANGED <<lastPublished, awaiters, op, published>>

-----------------------------------------------------------------------------

SequencerWaitStep(t) == PutOn(t) \/ Advance(t) \/ Retake(t)

SequencerPublishStep(t) == Load(t) \/ Take(t) \/ Count(t) \/ PutBack(t) \/ Verify(t)
=============================================================================
