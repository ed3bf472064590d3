----------------------------- MODULE CoroStacks -----------------------------
(***************************************************************************)
(* How coroutines run on threads.  resume() is a call: the resumed         *)
(* coroutine runs on top of its caller until it suspends, and the caller   *)
(* goes on then.  With symmetric transfer it takes the place of the one    *)
(* that suspends.  A handler of a coroutine (an await_suspend) runs on the *)
(* stack as that coroutine, whose frame it may only use until another      *)
(* thread can resume it.                                                   *)
(***************************************************************************)
EXTENDS Naturals, Sequences, FiniteSets

CONSTANTS Threads, Coros

VARIABLES stack,        \* of each thread, the running coroutine first
          at            \* where each coroutine stands

stackVars == <<stack, at>>

Suspensions ==
    {"created", "suspended", "queued", "joining", "operation", "done", "destroyed"}

Top(t, co, l) == stack[t] # <<>> /\ Head(stack[t]) = co /\ at[co] = l

Goto(co, l) == at' = [at EXCEPT ![co] = l] /\ UNCHANGED stack

\* The coroutine on top suspends: control returns to who resumed it.
Suspend(t, co, l) ==
    /\ at' = [at EXCEPT ![co] = l]
    /\ stack' = [stack EXCEPT ![t] = Tail(@)]

\* The coroutine on top resumes another one and goes on at l afterwards.
Call(t, co, l, other, m) ==
    /\ at' = [at EXCEPT ![co] = l, ![other] = m]
    /\ stack' = [stack EXCEPT ![t] = <<other>> \o @]

\* The same at the very end of the one on top.
Transfer(t, co, l, other, m) ==
    /\ at' = [at EXCEPT ![co] = l, ![other] = m]
    /\ stack' = [stack EXCEPT ![t] = <<other>> \o Tail(@)]

\* A thread with nothing to do resumes a coroutine.
ResumeOn(t, co, m) ==
    /\ stack[t] = <<>>
    /\ at' = [at EXCEPT ![co] = m]
    /\ stack' = [stack EXCEPT ![t] = <<co>>]

Activations(co) ==
    Cardinality({p \in Threads \X (1..Cardinality(Coros)) :
                   p[2] <= Len(stack[p[1]]) /\ stack[p[1]][p[2]] = co})
=============================================================================
