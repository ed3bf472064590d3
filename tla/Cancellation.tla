---------------------------- MODULE Cancellation ----------------------------
(***************************************************************************)
(* cppcoro's cancellation: a state shared by sources, tokens and           *)
(* registrations and counted by them, lists of slots that hold the         *)
(* registered callbacks, and the one thread that runs the callbacks.       *)
(*                                                                         *)
(* A slot is taken by an atomic exchange, so whoever empties it decides    *)
(* what becomes of the callback: the thread that requests cancellation     *)
(* runs it, the destructor of the registration drops it, the constructor   *)
(* that learns of the request runs it itself.                              *)
(*                                                                         *)
(* A list is the sequence of the slots of its chunks, empty before it is   *)
(* allocated.  Any free slot may be found, and a chunk may be added before *)
(* all slots are full: the free counts that steer the search are           *)
(* approximate.  A callback that the requesting thread runs may use the    *)
(* library itself, and destroy its own registration too.                   *)
(***************************************************************************)
EXTENDS Integers, FiniteSets, Sequences, SequencesExt

CONSTANTS Callers, NoThread,
          Registrations,  \* each is constructed and destroyed at most once
          Empty,          \* nullptr in a slot
          ListCount,      \* m_listCount
          ListOf,         \* which list a thread registers in
          ChunkSize,      \* slots of a chunk
          MaxSlots,       \* bound: slots of a list
          MaxSources      \* bound: sources at a time

ASSUME ThreadAssumption == NoThread \notin Callers /\ Empty \notin Registrations
ASSUME ListAssumption == ListCount \in Nat \ {0} /\ ListOf \in [Callers -> 1..ListCount]
ASSUME SizeAssumption == ChunkSize \in Nat \ {0} /\ MaxSlots \in Nat /\ MaxSources \in Nat

VARIABLES requested, complete,    \* the two flags of m_state
          sourceRefs, tokenRefs,  \* the two counts of m_state
          deleted,                \* the state has been deleted
          sources, tokens,        \* threads that hold a source, a token
          allocated,              \* m_registrationState is not null
          slots,                  \* the lists
          reg,                    \* what became of a registration
          entry,                  \* its list, m_chunk and m_entryIndex
          pc, arg,                \* a thread's call, and on which registration
          notifier,               \* the first to request cancellation
          notificationThread,     \* m_notificationThreadId
          phase, cursor, running, \* where it is, at which slot, in which callback
          executed                \* history: times a callback was called

refs == <<sourceRefs, tokenRefs, deleted>>
handles == <<sources, tokens>>
lists == <<allocated, slots>>
notification == <<complete, notifier, notificationThread, phase, cursor, running>>
calls == <<reg, pc, arg>>
vars == <<requested, refs, handles, lists, calls, entry, notification, executed>>

Init ==
    /\ requested = FALSE /\ complete = FALSE
    /\ sourceRefs = 1 /\ tokenRefs = 0
    /\ deleted = FALSE
    /\ \E t \in Callers : sources = {t}
    /\ tokens = {}
    /\ allocated = FALSE
    /\ slots = [l \in 1..ListCount |-> <<>>]
    /\ reg = [r \in Registrations |-> "none"]
    /\ entry = [r \in Registrations |-> <<1, 1>>]
    /\ pc = [t \in Callers |-> "idle"]
    /\ arg = [t \in Callers |-> Empty]
    /\ notifier = NoThread /\ notificationThread = NoThread
    /\ phase = "none" /\ cursor = <<1, 1>> /\ running = Empty
    /\ executed = [r \in Registrations |-> 0]

Proceed(t, label) == pc' = [pc EXCEPT ![t] = label]

\* A thread may make a call, from the callback it runs as well.
Free(t) == pc[t] = "idle" /\ (t = notifier => phase \in {"callback", "over"})

-----------------------------------------------------------------------------
(* Sources and tokens.                                                     *)

AddTokenRef == tokenRefs' = tokenRefs + 1 /\ UNCHANGED <<sourceRefs, deleted>>
AddSourceRef == sourceRefs' = sourceRefs + 1 /\ UNCHANGED <<tokenRefs, deleted>>

\* The last reference of either kind deletes the state.
ReleaseTokenRef ==
    /\ tokenRefs' = tokenRefs - 1
    /\ deleted' = (sourceRefs = 0 /\ tokenRefs = 1)
    /\ UNCHANGED sourceRefs

\* Mutant: the last source deletes the state, tokens or not.
ReleaseLastSource ==
    /\ sourceRefs' = sourceRefs - 1
    /\ deleted' = (sourceRefs = 1)
    /\ UNCHANGED tokenRefs

ReleaseSourceRef ==
    /\ sourceRefs' = sourceRefs - 1
    /\ deleted' = (sourceRefs = 1 /\ tokenRefs = 0)
    /\ UNCHANGED tokenRefs

CopySource(t) ==
    /\ Free(t) /\ t \notin sources /\ sources # {}
    /\ Cardinality(sources) < MaxSources
    /\ AddSourceRef
    /\ sources' = sources \cup {t}
    /\ UNCHANGED <<requested, tokens, lists, calls, entry, notification, executed>>

Left == {r \in Registrations : reg[r] = "none"}

\* source.token(), or a copy of a token.  Bound: no more tokens at a time
\* than there are registrations left to give them to.
GetToken(t) ==
    /\ Free(t) /\ t \notin tokens
    /\ Cardinality(tokens) < Cardinality(Left)
    /\ sources \cup tokens # {}
    /\ AddTokenRef
    /\ tokens' = tokens \cup {t}
    /\ UNCHANGED <<requested, sources, lists, calls, entry, notification, executed>>

\* A source is not destroyed by the callback that its request runs.
DropSource(t) ==
    /\ t \in sources /\ Free(t)
    /\ t = notifier => phase = "over"
    /\ ReleaseSourceRef
    /\ sources' = sources \ {t}
    /\ UNCHANGED <<requested, tokens, lists, calls, entry, notification, executed>>

DropToken(t) ==
    /\ t \in tokens /\ Free(t)
    /\ ReleaseTokenRef
    /\ tokens' = tokens \ {t}
    /\ UNCHANGED <<requested, sources, lists, calls, entry, notification, executed>>

-----------------------------------------------------------------------------
(* The constructor of a registration.  It is given a token, which becomes  *)
(* the registration's when the callback is registered.                     *)

CanBeCancelled == sourceRefs > 0 \/ requested

BeginRegister(t, r) ==
    /\ Free(t) /\ t \in tokens
    /\ reg[r] = "none"
    /\ tokens' = tokens \ {t}
    /\ arg' = [arg EXCEPT ![t] = r]
    /\ reg' = [reg EXCEPT ![r] = "constructing"]
    /\ Proceed(t, IF CanBeCancelled THEN "check" ELSE "drop")
    /\ UNCHANGED <<requested, refs, sources, lists, entry, notification, executed>>

CheckRequested(t) ==
    /\ pc[t] = "check"
    /\ Proceed(t, IF requested THEN "inline" ELSE "allocate")
    /\ UNCHANGED <<requested, refs, handles, lists, reg, arg, entry, notification, executed>>

AllocateState(t) ==
    /\ pc[t] = "allocate"
    /\ allocated' = TRUE
    /\ Proceed(t, "add")
    /\ UNCHANGED <<requested, refs, handles, slots, reg, arg, entry, notification, executed>>

NewChunk(r) == [i \in 1..ChunkSize |-> IF i = 1 THEN r ELSE Empty]

\* The new slot, or the first one of a new chunk, is published.
AddRegistration(t) ==
    /\ pc[t] = "add"
    /\ LET l == ListOf[t]
           r == arg[t] IN
       \/ \E i \in 1..Len(slots[l]) :
            /\ slots[l][i] = Empty
            /\ slots' = [slots EXCEPT ![l][i] = r]
            /\ entry' = [entry EXCEPT ![r] = <<l, i>>]
       \/ /\ Len(slots[l]) + ChunkSize <= MaxSlots
          /\ slots' = [slots EXCEPT ![l] = @ \o NewChunk(r)]
          /\ entry' = [entry EXCEPT ![r] = <<l, Len(slots[l]) + 1>>]
    /\ Proceed(t, "recheck")
    /\ UNCHANGED <<requested, refs, handles, allocated, reg, arg, notification, executed>>

Slot(r) == slots[entry[r][1]][entry[r][2]]
EmptySlot(r) == slots' = [slots EXCEPT ![entry[r][1]][entry[r][2]] = Empty]

\* Mutant: the request is not looked for again.
RecheckForgotten(t) ==
    /\ pc[t] = "recheck"
    /\ reg' = [reg EXCEPT ![arg[t]] = "registered"]
    /\ Proceed(t, "idle")
    /\ UNCHANGED <<requested, refs, handles, lists, arg, entry, notification, executed>>

\* Mutant: the callback is taken back without a look at who has it.
RecheckByStore(t) ==
    /\ pc[t] = "recheck"
    /\ IF requested
       THEN EmptySlot(arg[t]) /\ Proceed(t, "inline") /\ UNCHANGED reg
       ELSE /\ reg' = [reg EXCEPT ![arg[t]] = "registered"]
            /\ Proceed(t, "idle")
            /\ UNCHANGED slots
    /\ UNCHANGED <<requested, refs, handles, allocated, arg, entry, notification, executed>>

\* The requesting thread may have looked before: take the callback back,
\* unless it was taken already.
Recheck(t) ==
    /\ pc[t] = "recheck"
    /\ IF requested /\ Slot(arg[t]) = arg[t]
       THEN EmptySlot(arg[t]) /\ Proceed(t, "inline") /\ UNCHANGED reg
       ELSE /\ reg' = [reg EXCEPT ![arg[t]] = "registered"]
            /\ Proceed(t, "idle")
            /\ UNCHANGED slots
    /\ UNCHANGED <<requested, refs, handles, allocated, arg, entry, notification, executed>>

CallInline(t) ==
    /\ pc[t] = "inline"
    /\ executed' = [executed EXCEPT ![arg[t]] = @ + 1]
    /\ Proceed(t, "drop")
    /\ UNCHANGED <<requested, refs, handles, lists, reg, arg, entry, notification>>

\* Not registered: m_state is null and the token goes with the parameter.
DropParameter(t) ==
    /\ pc[t] = "drop"
    /\ ReleaseTokenRef
    /\ reg' = [reg EXCEPT ![arg[t]] = "unregistered"]
    /\ Proceed(t, "idle")
    /\ UNCHANGED <<requested, handles, lists, arg, entry, notification, executed>>

-----------------------------------------------------------------------------
(* The destructor of a registration.                                       *)

BeginDestroy(t, r) ==
    /\ Free(t) /\ reg[r] \in {"registered", "unregistered"}
    /\ arg' = [arg EXCEPT ![t] = r]
    /\ IF reg[r] = "registered"
       THEN reg' = [reg EXCEPT ![r] = "destroying"] /\ Proceed(t, "deregister")
       ELSE reg' = [reg EXCEPT ![r] = "destroyed"] /\ UNCHANGED pc
    /\ UNCHANGED <<requested, refs, handles, lists, entry, notification, executed>>

\* Mutant: it does not matter who runs the callback.
DeregisterNeverWaits(t) ==
    /\ pc[t] = "deregister"
    /\ IF Slot(arg[t]) = arg[t] THEN EmptySlot(arg[t]) ELSE UNCHANGED slots
    /\ Proceed(t, "release")
    /\ UNCHANGED <<requested, refs, handles, allocated, reg, arg, entry, notification, executed>>

\* Mutant: a callback may not destroy its own registration.
DeregisterAlwaysWaits(t) ==
    /\ pc[t] = "deregister"
    /\ IF Slot(arg[t]) = arg[t]
       THEN EmptySlot(arg[t]) /\ Proceed(t, "release")
       ELSE Proceed(t, "wait") /\ UNCHANGED slots
    /\ UNCHANGED <<requested, refs, handles, allocated, reg, arg, entry, notification, executed>>

Deregister(t) ==
    /\ pc[t] = "deregister"
    /\ IF Slot(arg[t]) = arg[t]
       THEN EmptySlot(arg[t]) /\ Proceed(t, "release")
       ELSE /\ Proceed(t, IF notificationThread = t THEN "release" ELSE "wait")
            /\ UNCHANGED slots
    /\ UNCHANGED <<requested, refs, handles, allocated, reg, arg, entry, notification, executed>>

WaitUntilComplete(t) ==
    /\ pc[t] = "wait" /\ complete
    /\ Proceed(t, "release")
    /\ UNCHANGED <<requested, refs, handles, lists, reg, arg, entry, notification, executed>>

ReleaseRegistration(t) ==
    /\ pc[t] = "release"
    /\ ReleaseTokenRef
    /\ reg' = [reg EXCEPT ![arg[t]] = "destroyed"]
    /\ Proceed(t, "idle")
    /\ UNCHANGED <<requested, handles, lists, arg, entry, notification, executed>>

-----------------------------------------------------------------------------
(* request_cancellation.  Only the first call does anything.               *)

RequestCancellation(t) ==
    /\ t \in sources /\ Free(t)
    /\ ~requested
    /\ requested' = TRUE
    /\ notifier' = t
    /\ phase' = "load"
    /\ UNCHANGED <<refs, handles, lists, calls, entry, complete, notificationThread,
                   cursor, running, executed>>

LoadRegistrationState ==
    /\ phase = "load"
    /\ IF allocated
       THEN phase' = "scan" /\ notificationThread' = notifier
       ELSE phase' = "over" /\ UNCHANGED notificationThread
    /\ UNCHANGED <<requested, refs, handles, lists, calls, entry, complete, notifier,
                   cursor, running, executed>>

NextSlot ==
    IF cursor[2] < Len(slots[cursor[1]]) THEN <<cursor[1], cursor[2] + 1>>
    ELSE <<cursor[1] + 1, 1>>

AtSlot == cursor[1] <= ListCount /\ cursor[2] <= Len(slots[cursor[1]])

\* The exchange that takes a callback, and the call.
TakeCallback ==
    /\ phase = "scan" /\ AtSlot
    /\ slots[cursor[1]][cursor[2]] # Empty
    /\ running' = slots[cursor[1]][cursor[2]]
    /\ slots' = [slots EXCEPT ![cursor[1]][cursor[2]] = Empty]
    /\ executed' = [executed EXCEPT ![running'] = @ + 1]
    /\ phase' = "callback"
    /\ UNCHANGED <<requested, refs, handles, allocated, calls, entry, complete, notifier,
                   notificationThread, cursor>>

CallbackReturns ==
    /\ phase = "callback" /\ pc[notifier] = "idle"
    /\ phase' = "scan"
    /\ running' = Empty
    /\ cursor' = NextSlot
    /\ UNCHANGED <<requested, refs, handles, lists, calls, entry, complete, notifier,
                   notificationThread, executed>>

SkipSlot ==
    /\ phase = "scan" /\ cursor[1] <= ListCount
    /\ AtSlot => slots[cursor[1]][cursor[2]] = Empty
    /\ cursor' = NextSlot
    /\ UNCHANGED <<requested, refs, handles, lists, calls, entry, complete, notifier,
                   notificationThread, phase, running, executed>>

NotificationComplete ==
    /\ phase = "scan" /\ cursor[1] > ListCount
    /\ complete' = TRUE
    /\ phase' = "over"
    /\ UNCHANGED <<requested, refs, handles, lists, calls, entry, notifier,
                   notificationThread, cursor, running, executed>>

-----------------------------------------------------------------------------

Construct(t) ==
    \/ CheckRequested(t) \/ AllocateState(t) \/ AddRegistration(t) \/ Recheck(t)
    \/ CallInline(t) \/ DropParameter(t)

Destruct(t) == Deregister(t) \/ WaitUntilComplete(t) \/ ReleaseRegistration(t)

Notify ==
    \/ LoadRegistrationState \/ TakeCallback \/ CallbackReturns
    \/ SkipSlot \/ NotificationComplete

MakeCall(t) ==
    \/ CopySource(t) \/ GetToken(t) \/ DropSource(t) \/ DropToken(t)
    \/ RequestCancellation(t)
    \/ \E r \in Registrations : BeginRegister(t, r) \/ BeginDestroy(t, r)

Next == Notify \/ \E t \in Callers : MakeCall(t) \/ Construct(t) \/ Destruct(t)

Spec == Init /\ [][Next]_vars

\* Every thread finishes the call it is in, and callbacks return.
Fairness == WF_vars(Notify) /\ \A t \in Callers : WF_vars(Construct(t)) /\ WF_vars(Destruct(t))

FairSpec == Spec /\ Fairness

-----------------------------------------------------------------------------
(* The state lives exactly as long as somebody can still reach it: the two *)
(* counts are those of the sources, tokens and registrations, whichever    *)
(* thread gives up the last one (cancellation_state.cpp:365-391,           *)
(* cancellation_registration.cpp:12-41).                                   *)
Constructing == {t \in Callers : pc[t] \in {"check", "allocate", "add", "recheck",
                                            "inline", "drop"}}
Holding == {r \in Registrations : reg[r] \in {"registered", "destroying"}}
StateOutlivesItsUsers ==
    /\ sourceRefs = Cardinality(sources)
    /\ tokenRefs = Cardinality(tokens) + Cardinality(Constructing) + Cardinality(Holding)
    /\ deleted <=> sourceRefs + tokenRefs = 0

(* A callback is called at most once, though requesting thread,            *)
(* constructor and destructor compete for it, and never when its           *)
(* registration is gone (cancellation_state.cpp:467, 555, 580).            *)
CalledAtMostOnce == \A r \in Registrations :
    /\ executed[r] <= 1
    /\ running = r => executed[r] = 1
    /\ \A l \in 1..ListCount : \A i \in 1..Len(slots[l]) :
          slots[l][i] = r => executed[r] = 0 /\ reg[r] \notin {"none", "destroyed"}

(* A destructor does not return while the callback runs, unless it was the *)
(* callback that called it (cancellation_registration.hpp:63-69).          *)
DestructorOutlastsCallback ==
    [][\A r \in Registrations :
          (reg[r] = "destroying" /\ reg'[r] = "destroyed" /\ running = r)
              => arg[notifier] = r /\ pc[notifier] = "release"]_vars

(* When the notification is over, no callback that is registered was       *)
(* passed over, even if it registered while the lists were scanned         *)
(* (cancellation_state.cpp:420-424, 526-558).                              *)
NobodyIsPassedOver ==
    phase = "over" => \A r \in Registrations : reg[r] = "registered" => executed[r] = 1

(* Constructors and destructors return: a destructor that found its        *)
(* callback taken waits for a completion that comes                        *)
(* (cancellation_state.cpp:594-615).                                       *)
CallsReturn == \A t \in Callers : pc[t] # "idle" ~> pc[t] = "idle"
=============================================================================
