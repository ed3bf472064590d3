--------------------------- MODULE AsyncGenerator ---------------------------
(***************************************************************************)
(* async_generator of cppcoro, and fmap over one: a chain of coroutines    *)
(* 1..N+1.  Coroutine 1 is the source and N+1 the consumer; each k <= N    *)
(* yields to k+1, and the ones in the middle are fmap, which yields what   *)
(* it receives.  Source and consumer may go on on threads of their own, so *)
(* the two ends of a generator race.                                       *)
(*                                                                         *)
(* With symmetric transfer each end resumes the other as it suspends.      *)
(* Without it the two run at the same time and settle by an atomic state   *)
(* which of them has to wait:                                              *)
(*    "VNRCA", "VNRCS"  value not ready, consumer active or suspended      *)
(*    "VRPA", "VRPS"    value ready, producer active or suspended          *)
(***************************************************************************)
EXTENDS CoroStacks

CONSTANTS N,            \* generators in the chain
          MaxYields,    \* bound: values that the source yields
          End           \* m_currentValue = nullptr: the sequence is over

GeneratorAssumption ==
    /\ N \in Nat \ {0} /\ Coros = 1..(N + 1) /\ {1, N + 1} \subseteq Threads
    /\ MaxYields \in Nat /\ End \notin Nat

VARIABLES symmetric,    \* CPPCORO_COMPILER_SUPPORTS_SYMMETRIC_TRANSFER
          state,        \* m_state of the generator that coroutine k makes
          value,        \* m_currentValue
          exception,    \* m_exception is there
          seen,         \* what coroutine k last read of the state it looks at
          target,       \* the generator that coroutine k destroys
          yielded,      \* how many values the source has yielded
          obtained,     \* what the consumer has received
          ending        \* how the consumer's loop ended

generatorVars == <<state, value, exception>>
logVars == <<yielded, obtained, ending>>
chainVars == <<stackVars, symmetric, generatorVars, seen, target, logVars>>

Generators == 1..N
Sink == N + 1

ChainInit ==
    /\ stack = [t \in Threads |-> <<>>]
    /\ at = [k \in Coros |-> "created"]
    /\ symmetric \in BOOLEAN
    /\ state = [k \in Generators |-> "VRPS"]
    /\ value = [k \in Generators |-> 0]
    /\ exception = [k \in Generators |-> FALSE]
    /\ seen = [k \in Coros |-> "VRPS"]
    /\ target = [k \in Coros |-> 0]
    /\ yielded = 0 /\ obtained = <<>> /\ ending = "none"

-----------------------------------------------------------------------------
(* The producer k.                                                         *)

\* An exception of a coroutine that nobody wants any more is not kept.
Kept(k, thrown) == thrown /\ state[k] # "cancelled"

\* The source computes its next value, awaits something, or comes to its end,
\* perhaps by an exception.
Produce(t) ==
    /\ Top(t, 1, "produce")
    /\ \/ Suspend(t, 1, "operation") /\ UNCHANGED <<value, exception, yielded>>
       \/ /\ yielded < MaxYields
          /\ yielded' = yielded + 1
          /\ value' = [value EXCEPT ![1] = yielded']
          /\ Goto(1, "yield")
          /\ UNCHANGED exception
       \/ /\ value' = [value EXCEPT ![1] = End]
          /\ \E thrown \in BOOLEAN : exception' = [exception EXCEPT ![1] = Kept(1, thrown)]
          /\ Goto(1, "yield")
          /\ UNCHANGED yielded
    /\ UNCHANGED <<symmetric, state, seen, target, obtained, ending>>

\* yield_value and final_suspend, up to the suspension: a consumer that waits is
\* resumed right here.
Yield(t, k) ==
    /\ Top(t, k, "yield")
    /\ \/ /\ symmetric
          /\ Transfer(t, k, "suspended", k + 1, "got")
          /\ UNCHANGED <<state, seen>>
       \/ /\ ~symmetric /\ state[k] = "VNRCS"
          /\ state' = [state EXCEPT ![k] = "VRPA"]
          /\ Call(t, k, "yielded", k + 1, "got")
          /\ UNCHANGED seen
       \/ /\ ~symmetric /\ state[k] # "VNRCS"
          /\ seen' = [seen EXCEPT ![k] = state[k]]
          /\ Goto(k, "suspend")
          /\ UNCHANGED state
    /\ UNCHANGED <<symmetric, value, exception, target, logVars>>

\* Where a producer goes on when it is resumed, which the final one never is.
GoOn(k) == IF value[k] = End THEN "ranOff" ELSE IF k = 1 THEN "produce" ELSE "advance"

\* The consumer that it resumed has returned: it may want the next value already.
Reload(t, k) ==
    /\ Top(t, k, "yielded")
    /\ seen' = [seen EXCEPT ![k] = state[k]]
    /\ Goto(k, IF state[k] = "VNRCS" THEN GoOn(k) ELSE "suspend")
    /\ UNCHANGED <<symmetric, generatorVars, target, logVars>>

\* await_suspend of the yield: suspends if the consumer is still active, resumes
\* it if it has suspended, and destroys the coroutine if nobody wants it.
TrySuspend(t, k) ==
    /\ Top(t, k, "suspend")
    /\ \/ /\ seen[k] \in {"VNRCA", "VRPA"} /\ state[k] = seen[k]
          /\ state' = [state EXCEPT ![k] = "VRPS"]
          /\ Suspend(t, k, "suspended")
       \/ /\ seen[k] = "VNRCA" /\ state[k] = "VNRCS"
          /\ state' = [state EXCEPT ![k] = "VRPA"]
          /\ Call(t, k, "yielded", k + 1, "got")
       \/ /\ seen[k] = "VRPA" /\ state[k] = "VNRCS"
          /\ Goto(k, GoOn(k))
          /\ UNCHANGED state
       \/ /\ "cancelled" \in {seen[k], state[k]}
          /\ Goto(k, "destroy")
          /\ UNCHANGED state
    /\ UNCHANGED <<symmetric, value, exception, seen, target, logVars>>

-----------------------------------------------------------------------------
(* The consumer k of generator k - 1.                                      *)

\* begin() and ++: a producer that is suspended is resumed right here.
Advance(t, k) ==
    /\ Top(t, k, "advance")
    /\ \/ /\ symmetric
          /\ Transfer(t, k, "suspended", k - 1, GoOn(k - 1))
          /\ UNCHANGED <<state, seen>>
       \/ /\ ~symmetric /\ state[k - 1] = "VRPS"
          /\ state' = [state EXCEPT ![k - 1] = "VNRCA"]
          /\ Call(t, k, "advanced", k - 1, GoOn(k - 1))
          /\ UNCHANGED seen
       \/ /\ ~symmetric /\ state[k - 1] # "VRPS"
          /\ seen' = [seen EXCEPT ![k] = state[k - 1]]
          /\ Goto(k, "await")
          /\ UNCHANGED state
    /\ UNCHANGED <<symmetric, value, exception, target, logVars>>

Advanced(t, k) ==
    /\ Top(t, k, "advanced")
    /\ seen' = [seen EXCEPT ![k] = state[k - 1]]
    /\ Goto(k, IF state[k - 1] = "VRPS" THEN "got" ELSE "await")
    /\ UNCHANGED <<symmetric, generatorVars, target, logVars>>

\* Mutant: suspends whatever the producer did in the meantime.
AwaitUnchecked(t, k) ==
    /\ Top(t, k, "await")
    /\ state' = [state EXCEPT ![k - 1] = "VNRCS"]
    /\ Suspend(t, k, "suspended")
    /\ UNCHANGED <<symmetric, value, exception, seen, target, logVars>>

\* Mutant: takes every failed compare for a new value.
AwaitOrTake(t, k) ==
    /\ Top(t, k, "await")
    /\ \/ /\ state[k - 1] = seen[k]
          /\ state' = [state EXCEPT ![k - 1] = "VNRCS"]
          /\ Suspend(t, k, "suspended")
       \/ /\ state[k - 1] # seen[k]
          /\ Goto(k, "got")
          /\ UNCHANGED state
    /\ UNCHANGED <<symmetric, value, exception, seen, target, logVars>>

\* await_suspend of the advance: suspends if the producer is still active.  If
\* it has suspended, it has the value, or it is resumed to make the next one.
Await(t, k) ==
    /\ Top(t, k, "await")
    /\ \/ /\ state[k - 1] = seen[k]
          /\ state' = [state EXCEPT ![k - 1] = "VNRCS"]
          /\ Suspend(t, k, "suspended")
       \/ /\ seen[k] = "VRPA" /\ state[k - 1] # "VRPA"
          /\ state' = [state EXCEPT ![k - 1] = "VNRCA"]
          /\ Call(t, k, "advanced", k - 1, GoOn(k - 1))
       \/ /\ seen[k] = "VNRCA" /\ state[k - 1] # "VNRCA"
          /\ Goto(k, "got")
          /\ UNCHANGED state
    /\ UNCHANGED <<symmetric, value, exception, seen, target, logVars>>

\* await_resume: the end of the sequence, by its exception if there is one, ends
\* the loop over it.  fmap yields what it reads, and its end is a yield too.
Got(t, k) ==
    /\ Top(t, k, "got")
    /\ IF k = Sink
       THEN /\ Goto(k, IF value[N] = End THEN "drop" ELSE "use")
            /\ ending' = IF value[N] # End THEN ending
                         ELSE IF exception[N] THEN "exception" ELSE "end"
            /\ UNCHANGED <<value, exception>>
       ELSE /\ Goto(k, "yield")
            /\ value' = [value EXCEPT ![k] = value[k - 1]]
            /\ exception' = [exception EXCEPT ![k] = Kept(k, exception[k - 1])]
            /\ UNCHANGED ending
    /\ target' = IF k = Sink THEN [target EXCEPT ![k] = N] ELSE target
    /\ UNCHANGED <<symmetric, state, seen, yielded, obtained>>

-----------------------------------------------------------------------------
(* The consumer's loop.                                                    *)

Use(t) ==
    /\ Top(t, Sink, "use")
    /\ obtained' = Append(obtained, value[N])
    /\ \/ Goto(Sink, "advance") /\ UNCHANGED <<target, ending>>
       \/ Suspend(t, Sink, "operation") /\ UNCHANGED <<target, ending>>
       \/ /\ Goto(Sink, "drop")
          /\ ending' = "break"
          /\ UNCHANGED target
    /\ UNCHANGED <<symmetric, generatorVars, seen, yielded>>

\* What a coroutine awaits completes on the thread of its own.
Operation(k) ==
    /\ at[k] = "operation"
    /\ ResumeOn(k, k, IF k = 1 THEN "produce" ELSE "advance")
    /\ UNCHANGED <<symmetric, generatorVars, seen, target, logVars>>

\* It is started, or the generators are destroyed before they have started.
BeginChain ==
    /\ at[Sink] = "created"
    /\ \E l \in {"advance", "drop"} : ResumeOn(Sink, Sink, l)
    /\ target' = [target EXCEPT ![Sink] = N]
    /\ UNCHANGED <<symmetric, generatorVars, seen, logVars>>

-----------------------------------------------------------------------------
(* Destruction.                                                            *)

\* ~async_generator: destroys the producer if it is suspended, and leaves it to
\* destroy itself if it is not.  The frame of an fmap owns its source.
Drop(t, k) ==
    LET g == target[k]
        last == IF k = Sink THEN "done" ELSE "destroyed"
        suspended == symmetric \/ state[g] = "VRPS"
    IN /\ Top(t, k, "drop")
       /\ state' = [state EXCEPT ![g] = "cancelled"]
       /\ target' = [target EXCEPT ![k] = g - 1]
       /\ IF suspended /\ g > 1
          THEN at' = [at EXCEPT ![g] = "destroyed"] /\ UNCHANGED stack
          ELSE /\ at' = [i \in Coros |-> IF i = k THEN last
                                         ELSE IF i = g /\ suspended THEN "destroyed" ELSE at[i]]
               /\ stack' = [stack EXCEPT ![t] = Tail(@)]
       /\ UNCHANGED <<symmetric, value, exception, seen, logVars>>

\* A producer that finds itself cancelled destroys its own frame.
DestroySelf(t, k) ==
    /\ Top(t, k, "destroy")
    /\ IF k = 1
       THEN Suspend(t, k, "destroyed") /\ UNCHANGED target
       ELSE Goto(k, "drop") /\ target' = [target EXCEPT ![k] = k - 1]
    /\ UNCHANGED <<symmetric, generatorVars, seen, logVars>>

-----------------------------------------------------------------------------
RunChain(t) ==
    \/ Produce(t) \/ Use(t)
    \/ \E k \in Generators :
         Yield(t, k) \/ Reload(t, k) \/ TrySuspend(t, k) \/ DestroySelf(t, k)
    \/ \E k \in Coros \ {1} :
         Advance(t, k) \/ Advanced(t, k) \/ Await(t, k) \/ Got(t, k) \/ Drop(t, k)

ChainNext ==
    \/ \E t \in Threads : RunChain(t)
    \/ \E k \in {1, Sink} : Operation(k)
    \/ BeginChain

\* The source goes on or ends instead of awaiting once more.
SourceEnds == \E t \in Threads : Produce(t) /\ at'[1] # "operation"

\* Threads run, what is awaited completes, and a source comes to an end.
ChainFairness ==
    /\ \A t \in Threads : WF_chainVars(RunChain(t))
    /\ \A k \in {1, Sink} : WF_chainVars(Operation(k))
    /\ WF_chainVars(BeginChain)
    /\ SF_chainVars(SourceEnds)

ChainSpec == ChainInit /\ [][ChainNext]_chainVars /\ ChainFairness

-----------------------------------------------------------------------------
(* Properties.                                                             *)

\* Neither end is resumed while it runs, and a producer is not resumed past
\* its end: no race of a suspension with the other end's look at it resumes a
\* coroutine twice.
EndsRunOnce ==
    \A k \in Coros : /\ Activations(k) = IF at[k] \in Suspensions THEN 0 ELSE 1
                     /\ at[k] # "ranOff"

\* The consumer receives what the source yields, each value once and in order.
\* A loop that comes to the end has received all of it and, through any fmap,
\* the exception if there was one.
EachValueOnce ==
    /\ \A i \in 1..Len(obtained) : obtained[i] = i
    /\ Len(obtained) <= yielded
    /\ ending \in {"end", "exception"} => /\ Len(obtained) = yielded
                                          /\ ending = "exception" <=> exception[1]

\* A value is a reference into the producer: the producer stays at that yield
\* while its consumer reads it, and its frame is there for as long as the
\* consumer uses the generator.
ProducerStaysWhileUsed ==
    /\ \A k \in Generators :
         at[k + 1] \in {"use", "got"} => at[k] \in {"suspended", "yielded", "suspend"}
    /\ \A k \in Generators :
         at[k + 1] \in {"advance", "advanced", "await", "suspended", "use", "operation"}
           => at[k] # "destroyed"

\* The loop ends and every frame is destroyed, whoever has to do it.
Destroyed == at[Sink] = "done" /\ \A k \in Generators : at[k] = "destroyed"
EverythingIsDestroyed == <>Destroyed
=============================================================================
