------------------------ MODULE SingleConsumerEvents ------------------------
(***************************************************************************)
(* The two events of cppcoro that one coroutine at a time awaits:          *)
(* single_consumer_async_auto_reset_event, which a co_await uses up, and   *)
(* single_consumer_event, which stays set until it is reset.  Either is    *)
(* not set, or set, or not set with its consumer suspended.                *)
(***************************************************************************)
EXTENDS CoroStacks

States == {"unset", "set", "waiting"}

VARIABLES auto,         \* m_state of the auto reset event
          manual        \* m_state of the single consumer event

singleVars == <<auto, manual>>

SingleInit == auto = "unset" /\ manual = "unset"

-----------------------------------------------------------------------------
(* The auto reset event.                                                   *)

\* The first exchange of set() tells whether somebody waits ...
AutoSet(t, c, afterwards) ==
    /\ Top(t, c, "signal")
    /\ auto' = "set"
    /\ Goto(c, IF auto = "waiting" THEN "clear" ELSE afterwards)
    /\ UNCHANGED manual

\* ... and the second one takes the set back that the waiter uses up; whoever
\* called set() in between has been heard with it.
AutoClear(t, c, afterwards, consumer, l) ==
    /\ Top(t, c, "clear")
    /\ auto' = "unset"
    /\ Call(t, c, afterwards, consumer, l)
    /\ UNCHANGED manual

\* Mutant: suspends without a look at the state.
AutoAwaitUnchecked(t, c) ==
    /\ Top(t, c, "await")
    /\ auto' = "waiting" /\ Suspend(t, c, "suspended")
    /\ UNCHANGED manual

\* It suspends if the event is not set, and resets it if it is.
AutoAwait(t, c) ==
    /\ Top(t, c, "await")
    /\ \/ auto = "unset" /\ auto' = "waiting" /\ Suspend(t, c, "suspended")
       \/ auto # "unset" /\ UNCHANGED auto /\ Goto(c, "use up")
    /\ UNCHANGED manual

AutoUseUp(t, c, afterwards) ==
    /\ Top(t, c, "use up")
    /\ auto' = "unset"
    /\ Goto(c, afterwards)
    /\ UNCHANGED manual

-----------------------------------------------------------------------------
(* The event that stays set.                                               *)

\* Mutant: resumes whoever waited once, whatever the exchange returns.
ManualSetAlways(t, c, afterwards, consumer, l) ==
    /\ Top(t, c, "tell")
    /\ manual' = "set"
    /\ Call(t, c, afterwards, consumer, l)
    /\ UNCHANGED auto

ManualSet(t, c, afterwards, consumer, l) ==
    /\ Top(t, c, "tell")
    /\ manual' = "set"
    /\ IF manual = "waiting" THEN Call(t, c, afterwards, consumer, l) ELSE Goto(c, afterwards)
    /\ UNCHANGED auto

ManualReady(t, c, afterwards) ==
    /\ Top(t, c, "look")
    /\ Goto(c, IF manual = "set" THEN afterwards ELSE "wait")
    /\ UNCHANGED singleVars

\* It suspends unless the event has been set since the look at it.
ManualAwait(t, c, afterwards) ==
    /\ Top(t, c, "wait")
    /\ \/ manual = "unset" /\ manual' = "waiting" /\ Suspend(t, c, "suspended")
       \/ manual # "unset" /\ UNCHANGED manual /\ Goto(c, afterwards)
    /\ UNCHANGED auto

ManualReset(t, c, afterwards) ==
    /\ Top(t, c, "reset")
    /\ manual' = IF manual = "set" THEN "unset" ELSE manual
    /\ Goto(c, afterwards)
    /\ UNCHANGED auto
=============================================================================
