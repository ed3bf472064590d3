------------------------- MODULE TasksAndCancellation_proofs -------------------------
(***************************************************************************)
(* Two programs and what holds of them for every size.                     *)
(*                                                                         *)
(* For every number of tasks that sync_wait joins: every coroutine runs on *)
(* one thread at a time and on none while it is suspended, the frame of    *)
(* the shared task outlives its users, and the parent finds the results.   *)
(*                                                                         *)
(* For every set of threads and of registrations, every number of lists    *)
(* and every size of their chunks: a callback is called at most once, the  *)
(* notification passes nobody over, a destructor outlasts the callback,    *)
(* and the shared state is deleted exactly when nobody refers to it.       *)
(***************************************************************************)
EXTENDS TaskProgram, Cancellation, ListLemmas

(* Tasks that are joined.                                                  *)

ParentAt == {"created", "start", "suspended", "results", "wake", "done"}
WrapperAt == {"created", "await", "attach", "suspended", "result", "done"}
UserAt == {"created", "begin", "operation", "await", "load", "start", "reload", "enqueue",
           "queued", "result", "release", "finish", "done"}
BodyAt == {"created", "begin", "operation", "complete", "walk", "done"}
TaskPlaces == ParentAt \cup WrapperAt \cup UserAt \cup BodyAt
MainAt == {"begin", "load", "sleep", "sleeping", "return", "returned"}
Pointers == [phase : {"notStarted", "started", "ready"}, list : Seq(Users)]

-----------------------------------------------------------------------------
(* The inductive invariant.                                                *)

TasksScheduled == Scheduled(Threads, Coros, TaskPlaces, Suspensions, stack, at)

TaskLabels ==
    /\ at[Parent] \in ParentAt /\ at[Body] \in BodyAt
    /\ \A u \in Users : at[Wrapper(u)] \in WrapperAt /\ at[User(u)] \in UserAt

TaskTypes ==
    /\ TaskLabels
    /\ waiters \in Pointers /\ oldWaiters \in [Users -> Pointers] /\ walk \in Seq(Users)
    /\ result \in [Users -> Outcomes \cup {NoResult}] /\ outcome \in Outcomes \cup {NoResult}
    /\ settled \in [Users -> BOOLEAN] /\ symmetric \in BOOLEAN
    /\ mainAt \in MainAt /\ event \in BOOLEAN /\ holds \in BOOLEAN

\* The pointer tells how far the shared coroutine has come.
SharedPhases ==
    /\ waiters = NotStarted <=> at[Body] = "created"
    /\ waiters = ValueReady <=> at[Body] \in {"walk", "done"}
    /\ waiters.phase # "started" => waiters \in {NotStarted, ValueReady}
    /\ walk # <<>> <=> at[Body] = "walk"
    /\ at[Body] \in {"created", "begin", "operation"} => outcome = NoResult
    /\ at[Body] \in {"walk", "done"} => outcome \in Outcomes

\* Those in the list of the pointer, or in the one that final_suspend has
\* taken, are the ones that are queued.
WaitersQueued ==
    /\ Once(waiters.list) /\ Once(walk)
    /\ \A u \in Users : at[User(u)] = "queued" <=> Has(waiters.list, u) \/ Has(walk, u)

\* What an awaiter knows of the pointer.
AwaitersKnow ==
    \A u \in Users :
       /\ at[User(u)] \in {"reload", "enqueue"} => waiters # NotStarted
       /\ at[User(u)] = "result" => waiters = ValueReady
       /\ oldWaiters[u] = ValueReady => waiters = ValueReady

\* While the shared coroutine is under way, somebody waits for it.
Awaiting(u) == at[User(u)] \in {"reload", "enqueue", "queued"}
SomebodyWaits ==
    at[Body] \in {"begin", "operation", "complete"} => \E u \in Users : Awaiting(u)

\* A wrapper is suspended exactly when its task is to resume it.
TasksWrapped ==
    \A u \in Users :
       /\ at[Wrapper(u)] \in {"created", "await"} <=> at[User(u)] = "created"
       /\ at[User(u)] = "created" => ~settled[u]
       /\ at[Wrapper(u)] = "attach" => ~symmetric /\ (settled[u] <=> at[User(u)] = "done")
       /\ at[Wrapper(u)] = "suspended" => at[User(u)] # "done" /\ (symmetric \/ settled[u])
       /\ at[Wrapper(u)] \in {"result", "done"} => at[User(u)] = "done"

\* The counter counts the wrappers that are not done, and the parent while it
\* starts them.
Pending == {u \in Users : at[Wrapper(u)] # "done"}
WrappersCounted ==
    /\ next \in 1..(Cardinality(Users) + 1)
    /\ \A u \in Users : u < next <=> at[Wrapper(u)] # "created"
    /\ count = Cardinality(Pending) + IF at[Parent] \in {"created", "start"} THEN 1 ELSE 0
    /\ at[Parent] \in {"suspended", "results", "wake", "done"} => next = Cardinality(Users) + 1
    /\ at[Parent] \in {"results", "wake", "done"} => Pending = {}

\* The event is the last but one that the parent does.
MainWaits ==
    /\ mainAt = "begin" <=> at[Parent] = "created"
    /\ event <=> at[Parent] \in {"wake", "done"}
    /\ mainAt \in {"return", "returned"} => event

\* The references to the shared task.
Referring == {u \in Users : at[User(u)] \notin {"finish", "done"}}
ReferencesCounted == refCount = Cardinality(Referring) + IF holds THEN 1 ELSE 0

\* What a task returns is there when it is released, and a value is that of
\* the shared task.
ResultsKept ==
    \A u \in Users :
       /\ at[User(u)] \in {"release", "finish", "done"} => result[u] # NoResult
       /\ result[u] = "value" => outcome = "value"

SharedInv == SharedPhases /\ WaitersQueued /\ AwaitersKnow /\ SomebodyWaits
JoinInv == TasksWrapped /\ WrappersCounted /\ MainWaits
TaskInv == TasksScheduled /\ TaskTypes /\ SharedInv /\ JoinInv /\ ReferencesCounted /\ ResultsKept

-----------------------------------------------------------------------------
(* The coroutines and their names.                                         *)

LEMMA TaskNames ==
  ASSUME UserAssumption
  PROVE  /\ Parent \in Coros /\ Body \in Coros /\ Parent # Body
         /\ \A u \in Users : /\ Wrapper(u) \in Coros /\ User(u) \in Coros
                             /\ Wrapper(u) # Parent /\ Wrapper(u) # Body
                             /\ User(u) # Parent /\ User(u) # Body
         /\ \A u, v \in Users : /\ Wrapper(u) # User(v)
                                /\ Wrapper(u) = Wrapper(v) => u = v
                                /\ User(u) = User(v) => u = v
         /\ \A c \in Coros : \/ c \in {Parent, Body}
                             \/ \E u \in Users : c = Wrapper(u) \/ c = User(u)
         /\ IsFiniteSet(Users) /\ Cardinality(Users) \in Nat /\ Users = 1..Cardinality(Users)
         /\ Main \in Threads /\ ThreadOf[Body] \in Threads
         /\ \A u \in Users : ThreadOf[User(u)] \in Threads
         /\ NoResult # "value" /\ NoResult # "exception"
<1>1. Cardinality(Users) \in Nat
  BY FS_CardinalityType DEF UserAssumption
<1>2. /\ Parent # Body
      /\ \A u \in Users : /\ Wrapper(u) # Parent /\ Wrapper(u) # Body
                          /\ User(u) # Parent /\ User(u) # Body
      /\ \A u, v \in Users : /\ Wrapper(u) # User(v)
                             /\ Wrapper(u) = Wrapper(v) => u = v
                             /\ User(u) = User(v) => u = v
  BY DEF Parent, Body, Wrapper, User
<1> QED
  BY <1>1, <1>2 DEF UserAssumption, Outcomes

LEMMA FiniteCoros == UserAssumption => IsFiniteSet(Coros)
<1> SUFFICES ASSUME UserAssumption PROVE IsFiniteSet(Coros)
  OBVIOUS
<1>1. IsFiniteSet({Wrapper(u) : u \in Users})
  <2> DEFINE f == [u \in Users |-> Wrapper(u)]
  <2>1. f \in Surjection(Users, {Wrapper(u) : u \in Users})
    BY DEF Surjection
  <2> QED
    BY <2>1, FS_Surjection DEF UserAssumption
<1>2. IsFiniteSet({User(u) : u \in Users})
  <2> DEFINE f == [u \in Users |-> User(u)]
  <2>1. f \in Surjection(Users, {User(u) : u \in Users})
    BY DEF Surjection
  <2> QED
    BY <2>1, FS_Surjection DEF UserAssumption
<1>3. IsFiniteSet({Parent, Body})
  <2>1. IsFiniteSet({Parent}) /\ {Parent} \cup {Body} = {Parent, Body}
    BY FS_Singleton
  <2> QED
    BY <2>1, FS_AddElement
<1>4. IsFiniteSet({Parent, Body} \cup {Wrapper(u) : u \in Users})
  BY <1>1, <1>3, FS_Union
<1> QED
  BY <1>2, <1>4, FS_Union DEF UserAssumption

-----------------------------------------------------------------------------
(* Who stands where after a step, and that the stacks stay in order.       *)

Kept(co) == \A x \in Coros : x # co => at'[x] = at[x]
KeptBut(co, other) == \A x \in Coros : x # co /\ x # other => at'[x] = at[x]

LEMMA TaskTop ==
  ASSUME TasksScheduled, NEW t \in Threads, NEW c, NEW k, Top(t, c, k)
  PROVE  c \in Coros /\ at[c] = k /\ k \notin Suspensions /\ stack[t] # <<>> /\ Head(stack[t]) = c
BY TopRuns DEF TasksScheduled, Top

LEMMA TaskGoes ==
  ASSUME TasksScheduled, NEW t \in Threads, NEW c \in Coros, NEW k, NEW l \in TaskPlaces \ Suspensions,
         Top(t, c, k), Goto(c, l)
  PROVE  TasksScheduled' /\ at[c] = k /\ at'[c] = l /\ Kept(c)
<1>1. at[c] = k /\ at[c] \notin Suspensions
  BY TaskTop
<1>2. Scheduled(Threads, Coros, TaskPlaces, Suspensions, stack, [at EXCEPT ![c] = l])
  BY <1>1, Goes DEF TasksScheduled
<1>3. at \in [Coros -> TaskPlaces]
  BY DEF TasksScheduled, Scheduled
<1> QED
  BY <1>1, <1>2, <1>3 DEF TasksScheduled, Goto, Kept

LEMMA TaskSuspends ==
  ASSUME TasksScheduled, NEW t \in Threads, NEW c \in Coros, NEW k, NEW l \in TaskPlaces, l \in Suspensions,
         Top(t, c, k), Suspend(t, c, l)
  PROVE  TasksScheduled' /\ at[c] = k /\ at'[c] = l /\ Kept(c)
<1>1. at[c] = k /\ stack[t] # <<>> /\ Head(stack[t]) = c
  BY TaskTop
<1>2. Scheduled(Threads, Coros, TaskPlaces, Suspensions, [stack EXCEPT ![t] = Tail(@)],
                [at EXCEPT ![c] = l])
  BY <1>1, Suspends DEF TasksScheduled
<1>3. at \in [Coros -> TaskPlaces]
  BY DEF TasksScheduled, Scheduled
<1> QED
  BY <1>1, <1>2, <1>3 DEF TasksScheduled, Suspend, Kept

LEMMA TaskCalls ==
  ASSUME TasksScheduled, NEW t \in Threads, NEW c \in Coros, NEW k, NEW l \in TaskPlaces \ Suspensions,
         NEW o \in Coros, NEW m \in TaskPlaces \ Suspensions, at[o] \in Suspensions,
         Top(t, c, k), Call(t, c, l, o, m)
  PROVE  TasksScheduled' /\ at[c] = k /\ at'[c] = l /\ at'[o] = m /\ KeptBut(c, o)
<1>1. at[c] = k /\ at[c] \notin Suspensions /\ stack[t] # <<>> /\ Head(stack[t]) = c
  BY TaskTop
<1>2. Scheduled(Threads, Coros, TaskPlaces, Suspensions, [stack EXCEPT ![t] = <<o>> \o @],
                [at EXCEPT ![c] = l, ![o] = m])
  BY <1>1, Calls DEF TasksScheduled
<1>3. at \in [Coros -> TaskPlaces] /\ c # o
  BY <1>1 DEF TasksScheduled, Scheduled
<1>4. at' = [at EXCEPT ![c] = l, ![o] = m]
  BY DEF Call
<1>5. TasksScheduled'
  BY <1>2, <1>4 DEF TasksScheduled, Call
<1> QED
  BY <1>1, <1>3, <1>4, <1>5 DEF KeptBut

LEMMA TaskTransfers ==
  ASSUME TasksScheduled, NEW t \in Threads, NEW c \in Coros, NEW k, NEW l \in TaskPlaces, l \in Suspensions,
         NEW o \in Coros, NEW m \in TaskPlaces \ Suspensions, at[o] \in Suspensions,
         Top(t, c, k), Transfer(t, c, l, o, m)
  PROVE  TasksScheduled' /\ at[c] = k /\ at'[c] = l /\ at'[o] = m /\ KeptBut(c, o)
<1>1. at[c] = k /\ at[c] \notin Suspensions /\ stack[t] # <<>> /\ Head(stack[t]) = c
  BY TaskTop
<1>2. Scheduled(Threads, Coros, TaskPlaces, Suspensions, [stack EXCEPT ![t] = <<o>> \o Tail(@)],
                [at EXCEPT ![c] = l, ![o] = m])
  BY <1>1, Transfers DEF TasksScheduled
<1>3. at \in [Coros -> TaskPlaces] /\ c # o
  BY <1>1 DEF TasksScheduled, Scheduled
<1>4. at' = [at EXCEPT ![c] = l, ![o] = m]
  BY DEF Transfer
<1>5. TasksScheduled'
  BY <1>2, <1>4 DEF TasksScheduled, Transfer
<1> QED
  BY <1>1, <1>3, <1>4, <1>5 DEF KeptBut

LEMMA TaskResumed ==
  ASSUME TasksScheduled, NEW t \in Threads, NEW o \in Coros, NEW m \in TaskPlaces \ Suspensions,
         at[o] \in Suspensions, ResumeOn(t, o, m)
  PROVE  TasksScheduled' /\ at'[o] = m /\ Kept(o)
<1>1. stack[t] = <<>>
  BY DEF ResumeOn
<1>2. Scheduled(Threads, Coros, TaskPlaces, Suspensions, [stack EXCEPT ![t] = <<o>>],
                [at EXCEPT ![o] = m])
  BY <1>1, ResumesOn DEF TasksScheduled
<1>3. at \in [Coros -> TaskPlaces]
  BY DEF TasksScheduled, Scheduled
<1> QED
  BY <1>2, <1>3 DEF TasksScheduled, ResumeOn, Kept

\* The same by the kind of coroutine.
OthersStay == at'[Parent] = at[Parent] /\ at'[Body] = at[Body]
WrappersStay == \A v \in Users : at'[Wrapper(v)] = at[Wrapper(v)]
UsersStay == \A v \in Users : at'[User(v)] = at[User(v)]
UsersStayBut(u) == \A v \in Users : v # u => at'[User(v)] = at[User(v)]
WrappersStayBut(u) == \A v \in Users : v # u => at'[Wrapper(v)] = at[Wrapper(v)]

LEMMA UserMoves ==
  ASSUME UserAssumption, NEW u \in Users, Kept(User(u))
  PROVE  OthersStay /\ WrappersStay /\ UsersStayBut(u)
BY TaskNames DEF Kept, OthersStay, WrappersStay, UsersStayBut

LEMMA WrapperMoves ==
  ASSUME UserAssumption, NEW u \in Users, Kept(Wrapper(u))
  PROVE  OthersStay /\ WrappersStayBut(u) /\ UsersStay
BY TaskNames DEF Kept, OthersStay, WrappersStayBut, UsersStay

LEMMA BodyMoves ==
  ASSUME UserAssumption, Kept(Body)
  PROVE  at'[Parent] = at[Parent] /\ WrappersStay /\ UsersStay
BY TaskNames DEF Kept, WrappersStay, UsersStay

LEMMA ParentMoves ==
  ASSUME UserAssumption, Kept(Parent)
  PROVE  at'[Body] = at[Body] /\ WrappersStay /\ UsersStay
BY TaskNames DEF Kept, WrappersStay, UsersStay

LEMMA UserAndBodyMove ==
  ASSUME UserAssumption, NEW u \in Users, KeptBut(User(u), Body) \/ KeptBut(Body, User(u))
  PROVE  at'[Parent] = at[Parent] /\ WrappersStay /\ UsersStayBut(u)
BY TaskNames DEF KeptBut, WrappersStay, UsersStayBut

LEMMA UserAndWrapperMove ==
  ASSUME UserAssumption, NEW u \in Users,
         KeptBut(User(u), Wrapper(u)) \/ KeptBut(Wrapper(u), User(u))
  PROVE  OthersStay /\ WrappersStayBut(u) /\ UsersStayBut(u)
BY TaskNames DEF KeptBut, OthersStay, WrappersStayBut, UsersStayBut

LEMMA WrapperAndParentMove ==
  ASSUME UserAssumption, NEW u \in Users,
         KeptBut(Parent, Wrapper(u)) \/ KeptBut(Wrapper(u), Parent)
  PROVE  at'[Body] = at[Body] /\ WrappersStayBut(u) /\ UsersStay
BY TaskNames DEF KeptBut, WrappersStayBut, UsersStay

-----------------------------------------------------------------------------
(* What a step leaves alone.                                               *)

\* A task goes on, between its start and its end, and perhaps the shared
\* coroutine with it.
LEMMA JoinKeptByUser ==
  ASSUME UserAssumption, TaskInv, NEW u \in Users, NEW l \in UserAt,
         at[User(u)] \notin {"created", "done"}, l \notin {"created", "done"}, at'[User(u)] = l,
         at'[Parent] = at[Parent], WrappersStay, UsersStayBut(u), at'[Body] \in BodyAt,
         UNCHANGED <<symmetric, settled, count, next, mainAt, event>>
  PROVE  TaskLabels' /\ JoinInv'
<1>1. TaskLabels'
  BY DEF TaskInv, TaskTypes, TaskLabels, WrappersStay, UsersStayBut
<1>2. TasksWrapped'
  BY DEF TaskInv, JoinInv, TasksWrapped, WrappersStay, UsersStayBut
<1>3. WrappersCounted'
  <2>1. Pending' = Pending
    BY DEF Pending, WrappersStay
  <2> QED
    BY <2>1 DEF TaskInv, JoinInv, WrappersCounted, WrappersStay
<1>4. MainWaits'
  BY DEF TaskInv, JoinInv, MainWaits
<1> QED
  BY <1>1, <1>2, <1>3, <1>4 DEF JoinInv

\* The shared coroutine goes on alone.
LEMMA JoinKeptByBody ==
  ASSUME UserAssumption, TaskInv, at'[Parent] = at[Parent], WrappersStay, UsersStay,
         at'[Body] \in BodyAt,
         UNCHANGED <<symmetric, settled, count, next, mainAt, event>>
  PROVE  TaskLabels' /\ JoinInv'
<1>1. TaskLabels'
  BY DEF TaskInv, TaskTypes, TaskLabels, WrappersStay, UsersStay
<1>2. TasksWrapped'
  BY DEF TaskInv, JoinInv, TasksWrapped, WrappersStay, UsersStay
<1>3. WrappersCounted'
  <2>1. Pending' = Pending
    BY DEF Pending, WrappersStay
  <2> QED
    BY <2>1 DEF TaskInv, JoinInv, WrappersCounted, WrappersStay
<1>4. MainWaits'
  BY DEF TaskInv, JoinInv, MainWaits
<1> QED
  BY <1>1, <1>2, <1>3, <1>4 DEF JoinInv


LEMMA SharedKeptBy ==
  ASSUME UserAssumption, TaskInv, at'[Body] = at[Body], UNCHANGED <<waiters, oldWaiters, walk, outcome>>,
         \A v \in Users : \/ at'[User(v)] = at[User(v)]
                          \/ at[User(v)] \notin {"reload", "enqueue", "queued"}
                             /\ at'[User(v)] \notin {"reload", "enqueue", "queued", "result"}
  PROVE  SharedInv'
<1>1. SharedPhases'
  BY DEF TaskInv, SharedInv, SharedPhases
<1>2. WaitersQueued'
  BY DEF TaskInv, SharedInv, WaitersQueued
<1>3. AwaitersKnow'
  BY DEF TaskInv, SharedInv, AwaitersKnow
<1>4. SomebodyWaits'
  BY DEF TaskInv, SharedInv, SomebodyWaits, Awaiting
<1> QED
  BY <1>1, <1>2, <1>3, <1>4 DEF SharedInv

LEMMA ReferencesKept ==
  ASSUME UserAssumption, TaskInv, UNCHANGED <<refCount, holds>>,
         \A v \in Users : at'[User(v)] \in {"finish", "done"} <=> at[User(v)] \in {"finish", "done"}
  PROVE  ReferencesCounted'
<1>1. Referring' = Referring
  BY DEF Referring
<1> QED
  BY <1>1 DEF TaskInv, ReferencesCounted

LEMMA ResultsStay ==
  ASSUME UserAssumption, TaskInv, UNCHANGED <<result, outcome>>,
         \A v \in Users : at'[User(v)] \in {"release", "finish", "done"}
                            => at[User(v)] \in {"release", "finish", "done"}
  PROVE  ResultsKept'
BY DEF TaskInv, ResultsKept

\* A step of the parent or a wrapper, of which the tasks notice nothing.
LEMMA TasksKept ==
  ASSUME UserAssumption, TaskInv, at'[Body] = at[Body], UsersStay,
         UNCHANGED <<sharedVars, result, holds>>
  PROVE  SharedInv' /\ ReferencesCounted' /\ ResultsKept'
<1>1. UNCHANGED <<waiters, refCount, outcome, oldWaiters, walk>>
  BY DEF sharedVars
<1> QED
  BY <1>1, SharedKeptBy, ReferencesKept, ResultsStay DEF UsersStay

-----------------------------------------------------------------------------
(* The awaiters of the shared task.                                        *)

\* The ready state is no other, and pointers are what their fields say.
LEMMA PointerPhases ==
  /\ NotStarted \in Pointers /\ ValueReady \in Pointers /\ NotStarted # ValueReady
  /\ \A s \in Seq(Users) : Started(s) \in Pointers /\ Started(s) # NotStarted /\ Started(s) # ValueReady
  /\ \A s \in Seq(Users) : Started(s).list = s /\ Started(s).phase = "started"
  /\ NotStarted.list = <<>> /\ ValueReady.list = <<>>
<1>1. NotStarted.phase = "notStarted" /\ ValueReady.phase = "ready"
  BY DEF NotStarted, ValueReady
<1>2. \A s \in Seq(Users) : Started(s).phase = "started"
  BY DEF Started
<1>3. <<>> \in Seq(Users)
  OBVIOUS
<1> QED
  BY <1>1, <1>2, <1>3 DEF NotStarted, ValueReady, Started, Pointers

\* An awaiter reads the pointer and goes on.
LEMMA AwaiterGoes ==
  ASSUME UserAssumption, TaskInv, TasksScheduled',
         NEW u \in Users, at[User(u)] \in {"await", "load", "start", "reload", "enqueue"},
         NEW l \in {"load", "start", "enqueue", "result"}, at'[User(u)] = l, Kept(User(u)),
         UNCHANGED <<waiters, walk, outcome, refCount, allVars, waitVars, holds>>,
         oldWaiters' \in [Users -> Pointers], \A v \in Users : v # u => oldWaiters'[v] = oldWaiters[v],
         oldWaiters'[u] = ValueReady => waiters = ValueReady,
         l = "enqueue" => waiters # NotStarted,
         l = "result" => waiters = ValueReady,
         at[User(u)] \in {"reload", "enqueue"} => l \in {"enqueue", "result"}
  PROVE  TaskInv'
<1>1. OthersStay /\ WrappersStay /\ UsersStayBut(u)
  BY UserMoves
<1>2. TaskLabels' /\ JoinInv'
  <2>1. at'[Body] \in BodyAt /\ l \in UserAt
    BY <1>1 DEF OthersStay, TaskInv, TaskTypes, TaskLabels, UserAt
  <2> QED
    BY <1>1, <2>1, JoinKeptByUser DEF OthersStay, allVars, waitVars
<1>3. TaskTypes'
  BY <1>2 DEF TaskInv, TaskTypes, allVars, waitVars
<1>4. SharedPhases'
  BY <1>1 DEF TaskInv, SharedInv, SharedPhases, OthersStay
<1>5. WaitersQueued'
  BY <1>1 DEF TaskInv, SharedInv, WaitersQueued, UsersStayBut
<1>6. AwaitersKnow'
  BY <1>1 DEF TaskInv, SharedInv, AwaitersKnow, UsersStayBut
<1>7. SomebodyWaits'
  <2>1. CASE l = "result"
    BY <1>1, <2>1 DEF TaskInv, SharedInv, SomebodyWaits, SharedPhases, OthersStay
  <2>2. CASE l # "result"
    BY <1>1, <2>2 DEF TaskInv, SharedInv, SomebodyWaits, Awaiting, OthersStay, UsersStayBut
  <2> QED
    BY <2>1, <2>2
<1>8. ReferencesCounted'
  BY <1>1, ReferencesKept DEF UsersStayBut
<1>9. ResultsKept'
  BY <1>1, ResultsStay DEF UsersStayBut, allVars
<1> QED
  BY <1>2, <1>3, <1>4, <1>5, <1>6, <1>7, <1>8, <1>9 DEF TaskInv, SharedInv

LEMMA SameOldWaiters ==
  ASSUME TaskInv, NEW u \in Users, UNCHANGED <<waiters, oldWaiters>>
  PROVE  /\ oldWaiters' \in [Users -> Pointers] /\ \A v \in Users : v # u => oldWaiters'[v] = oldWaiters[v]
         /\ oldWaiters'[u] = ValueReady => waiters = ValueReady
BY DEF TaskInv, TaskTypes, SharedInv, AwaitersKnow

LEMMA ReadsThePointer ==
  ASSUME TaskInv, NEW u \in Users, oldWaiters' = [oldWaiters EXCEPT ![u] = waiters]
  PROVE  /\ oldWaiters' \in [Users -> Pointers] /\ \A v \in Users : v # u => oldWaiters'[v] = oldWaiters[v]
         /\ oldWaiters'[u] = ValueReady => waiters = ValueReady
BY DEF TaskInv, TaskTypes

LEMMA IsReadyStep ==
  ASSUME UserAssumption, TaskInv, NEW t \in Threads, NEW u \in Users,
         IsReady(t, u), UNCHANGED <<allVars, waitVars, holds>>
  PROVE  TaskInv'
<1> DEFINE l == IF waiters = ValueReady THEN "result" ELSE "load"
<1>1. Top(t, User(u), "await") /\ Goto(User(u), l) /\ UNCHANGED sharedVars /\ User(u) \in Coros
  BY TaskNames DEF IsReady
<1>2. TasksScheduled' /\ at[User(u)] = "await" /\ at'[User(u)] = l /\ Kept(User(u))
  <2>1. l \in TaskPlaces \ Suspensions
    BY DEF TaskPlaces, UserAt, Suspensions
  <2> QED
    BY <1>1, <2>1, TaskGoes DEF TaskInv
<1>3. UNCHANGED <<waiters, walk, outcome, refCount, oldWaiters>>
  BY <1>1 DEF sharedVars
<1> QED
  BY <1>2, <1>3, SameOldWaiters, AwaiterGoes

LEMMA LoadStep ==
  ASSUME UserAssumption, TaskInv, NEW t \in Threads, NEW u \in Users,
         Load(t, u), UNCHANGED <<allVars, waitVars, holds>>
  PROVE  TaskInv'
<1>1. PICK k \in {"load", "reload"} :
         /\ Top(t, User(u), k)
         /\ oldWaiters' = [oldWaiters EXCEPT ![u] = waiters]
         /\ Goto(User(u), IF k = "load" /\ waiters = NotStarted THEN "start" ELSE "enqueue")
         /\ UNCHANGED <<waiters, refCount, outcome, walk>>
  BY DEF Load
<1> DEFINE l == IF k = "load" /\ waiters = NotStarted THEN "start" ELSE "enqueue"
<1>2. TasksScheduled' /\ at[User(u)] = k /\ at'[User(u)] = l /\ Kept(User(u))
  <2>1. l \in TaskPlaces \ Suspensions /\ User(u) \in Coros
    BY TaskNames DEF TaskPlaces, UserAt, Suspensions
  <2> QED
    BY <1>1, <2>1, TaskGoes DEF TaskInv
<1>3. k = "reload" => waiters # NotStarted
  BY <1>2 DEF TaskInv, SharedInv, AwaitersKnow
<1> QED
  BY <1>1, <1>2, <1>3, ReadsThePointer, AwaiterGoes

LEMMA StartBySomebodyElse ==
  ASSUME UserAssumption, TaskInv, NEW t \in Threads, NEW u \in Users,
         Start(t, u), waiters # NotStarted, UNCHANGED <<allVars, waitVars, holds>>
  PROVE  TaskInv'
<1>1. /\ Top(t, User(u), "start") /\ Goto(User(u), "enqueue")
      /\ oldWaiters' = [oldWaiters EXCEPT ![u] = waiters]
      /\ UNCHANGED <<waiters, refCount, outcome, walk>>
  BY DEF Start
<1>2. TasksScheduled' /\ at[User(u)] = "start" /\ at'[User(u)] = "enqueue" /\ Kept(User(u))
  <2>1. "enqueue" \in TaskPlaces \ Suspensions /\ User(u) \in Coros
    BY TaskNames DEF TaskPlaces, UserAt, Suspensions
  <2> QED
    BY <1>1, <2>1, TaskGoes DEF TaskInv
<1> QED
  BY <1>1, <1>2, ReadsThePointer, AwaiterGoes

\* The first awaiter starts the shared coroutine, on top of itself.
LEMMA StartIt ==
  ASSUME UserAssumption, TaskInv, NEW t \in Threads, NEW u \in Users,
         Start(t, u), waiters = NotStarted, UNCHANGED <<allVars, waitVars, holds>>
  PROVE  TaskInv'
<1>1. /\ Top(t, User(u), "start") /\ waiters' = Started(<<>>)
      /\ Call(t, User(u), "reload", Body, "begin")
      /\ UNCHANGED <<oldWaiters, refCount, outcome, walk>>
  BY DEF Start
<1>2. at[Body] = "created"
  BY DEF TaskInv, SharedInv, SharedPhases
<1>3. /\ TasksScheduled' /\ at[User(u)] = "start" /\ at'[User(u)] = "reload" /\ at'[Body] = "begin"
      /\ KeptBut(User(u), Body)
  <2>1. /\ {"reload", "begin"} \subseteq TaskPlaces \ Suspensions /\ "created" \in Suspensions
        /\ User(u) \in Coros /\ Body \in Coros
    BY TaskNames DEF TaskPlaces, UserAt, Suspensions
  <2> QED
    BY <1>1, <1>2, <2>1, TaskCalls DEF TaskInv
<1>4. at'[Parent] = at[Parent] /\ WrappersStay /\ UsersStayBut(u)
  BY <1>3, UserAndBodyMove
<1>5. TaskLabels' /\ JoinInv'
  <2>1. "begin" \in BodyAt /\ "reload" \in UserAt
    BY DEF BodyAt, UserAt
  <2> QED
    BY <1>3, <1>4, <2>1, JoinKeptByUser DEF allVars, waitVars
<1>6. /\ waiters' \in Pointers /\ waiters' # NotStarted /\ waiters' # ValueReady
      /\ waiters'.list = <<>> /\ waiters.list = <<>> /\ waiters'.phase = "started"
      /\ waiters # ValueReady
  <2>1. <<>> \in Seq(Users)
    OBVIOUS
  <2> QED
    BY <1>1, <2>1, PointerPhases
<1>7. TaskTypes'
  BY <1>1, <1>5, <1>6 DEF TaskInv, TaskTypes, allVars, waitVars
<1>8. SharedPhases'
  BY <1>1, <1>2, <1>3, <1>6 DEF TaskInv, SharedInv, SharedPhases
<1>9. WaitersQueued'
  BY <1>1, <1>3, <1>4, <1>6 DEF TaskInv, SharedInv, WaitersQueued, UsersStayBut
<1>10. AwaitersKnow'
  BY <1>1, <1>3, <1>4, <1>6 DEF TaskInv, SharedInv, AwaitersKnow, UsersStayBut
<1>11. SomebodyWaits'
  BY <1>3 DEF SomebodyWaits, Awaiting
<1>12. ReferencesCounted'
  BY <1>1, <1>3, <1>4, ReferencesKept DEF UsersStayBut
<1>13. ResultsKept'
  BY <1>1, <1>3, <1>4, ResultsStay DEF UsersStayBut, allVars
<1> QED
  BY <1>3, <1>5, <1>7, <1>8, <1>9, <1>10, <1>11, <1>12, <1>13 DEF TaskInv, SharedInv

\* An awaiter is pushed on the list and suspends.
LEMMA Pushes ==
  ASSUME UserAssumption, TaskInv, NEW t \in Threads, NEW u \in Users,
         Top(t, User(u), "enqueue"), oldWaiters[u] # ValueReady, waiters = oldWaiters[u],
         waiters' = Started(<<u>> \o oldWaiters[u].list), Suspend(t, User(u), "queued"),
         UNCHANGED <<oldWaiters, refCount, outcome, walk, allVars, waitVars, holds>>
  PROVE  TaskInv'
<1>1. /\ TasksScheduled' /\ at[User(u)] = "enqueue" /\ at'[User(u)] = "queued" /\ Kept(User(u))
  <2>1. "queued" \in TaskPlaces /\ "queued" \in Suspensions /\ User(u) \in Coros
    BY TaskNames DEF TaskPlaces, UserAt, Suspensions
  <2> QED
    BY <2>1, TaskSuspends DEF TaskInv
<1>2. OthersStay /\ WrappersStay /\ UsersStayBut(u)
  BY <1>1, UserMoves
<1>3. TaskLabels' /\ JoinInv'
  <2>1. at'[Body] \in BodyAt /\ "queued" \in UserAt
    BY <1>2 DEF OthersStay, TaskInv, TaskTypes, TaskLabels, UserAt
  <2> QED
    BY <1>1, <1>2, <2>1, JoinKeptByUser DEF OthersStay, allVars, waitVars
<1>4. waiters \in Pointers /\ waiters.list \in Seq(Users) /\ Once(waiters.list)
  BY DEF TaskInv, TaskTypes, Pointers, SharedInv, WaitersQueued
<1>5. waiters # NotStarted /\ waiters # ValueReady /\ waiters.phase = "started"
  <2>1. waiters # NotStarted /\ waiters # ValueReady
    BY <1>1 DEF TaskInv, SharedInv, AwaitersKnow
  <2> QED
    BY <2>1 DEF TaskInv, SharedInv, SharedPhases
<1>6. ~Has(waiters.list, u)
  BY <1>1 DEF TaskInv, SharedInv, WaitersQueued
<1>7. /\ waiters' \in Pointers /\ waiters' # NotStarted /\ waiters' # ValueReady
      /\ waiters'.phase = "started" /\ Once(waiters'.list)
      /\ \A v \in Users : Has(waiters'.list, v) <=> v = u \/ Has(waiters.list, v)
  <2>1. /\ <<u>> \o waiters.list \in Seq(Users) /\ Once(<<u>> \o waiters.list)
        /\ \A v : Has(<<u>> \o waiters.list, v) <=> v = u \/ Has(waiters.list, v)
    BY <1>4, <1>6, PushHas
  <2> QED
    BY <2>1, PointerPhases
<1>8. TaskTypes'
  BY <1>3, <1>7 DEF TaskInv, TaskTypes, allVars, waitVars
<1>9. SharedPhases'
  BY <1>2, <1>5, <1>7 DEF TaskInv, SharedInv, SharedPhases, OthersStay
<1>10. WaitersQueued'
  BY <1>1, <1>2, <1>7 DEF TaskInv, SharedInv, WaitersQueued, UsersStayBut
<1>11. AwaitersKnow'
  BY <1>1, <1>2, <1>5, <1>7 DEF TaskInv, SharedInv, AwaitersKnow, UsersStayBut
<1>12. SomebodyWaits'
  BY <1>1 DEF SomebodyWaits, Awaiting
<1>13. ReferencesCounted'
  BY <1>1, <1>2, ReferencesKept DEF UsersStayBut
<1>14. ResultsKept'
  BY <1>1, <1>2, ResultsStay DEF UsersStayBut, allVars
<1> QED
  BY <1>1, <1>3, <1>8, <1>9, <1>10, <1>11, <1>12, <1>13, <1>14 DEF TaskInv, SharedInv

LEMMA EnqueueStep ==
  ASSUME UserAssumption, TaskInv, NEW t \in Threads, NEW u \in Users,
         Enqueue(t, u), UNCHANGED <<allVars, waitVars, holds>>
  PROVE  TaskInv'
<1>1. Top(t, User(u), "enqueue") /\ UNCHANGED <<refCount, outcome, walk>> /\ User(u) \in Coros
  BY TaskNames DEF Enqueue
<1>2. CASE /\ oldWaiters[u] = ValueReady /\ Goto(User(u), "result")
           /\ UNCHANGED <<waiters, oldWaiters>>
  <2>1. /\ TasksScheduled' /\ at[User(u)] = "enqueue" /\ at'[User(u)] = "result" /\ Kept(User(u))
    <3>1. "result" \in TaskPlaces \ Suspensions
      BY DEF TaskPlaces, UserAt, Suspensions
    <3> QED
      BY <1>1, <1>2, <3>1, TaskGoes DEF TaskInv
  <2>2. waiters = ValueReady
    BY <1>2 DEF TaskInv, SharedInv, AwaitersKnow
  <2> QED
    BY <1>1, <1>2, <2>1, <2>2, SameOldWaiters, AwaiterGoes
<1>3. CASE /\ oldWaiters[u] # ValueReady /\ waiters = oldWaiters[u]
           /\ waiters' = Started(<<u>> \o oldWaiters[u].list)
           /\ Suspend(t, User(u), "queued") /\ UNCHANGED oldWaiters
  BY <1>1, <1>3, Pushes
<1>4. CASE /\ oldWaiters' = [oldWaiters EXCEPT ![u] = waiters]
           /\ UNCHANGED <<waiters, stackVars>>
  <2>1. at[User(u)] = "enqueue"
    BY <1>1, TaskTop DEF TaskInv
  <2>2. TasksScheduled' /\ at'[User(u)] = "enqueue" /\ Kept(User(u))
    BY <1>4, <2>1 DEF TaskInv, TasksScheduled, stackVars, Kept
  <2>3. waiters # NotStarted
    BY <2>1 DEF TaskInv, SharedInv, AwaitersKnow
  <2> QED
    BY <1>1, <1>4, <2>1, <2>2, <2>3, ReadsThePointer, AwaiterGoes
<1> QED
  BY <1>2, <1>3, <1>4 DEF Enqueue

-----------------------------------------------------------------------------
(* The shared coroutine.                                                   *)

\* It goes on, or suspends, without touching what others look at.
LEMMA BodyGoes ==
  ASSUME UserAssumption, TaskInv, TasksScheduled', Kept(Body),
         at[Body] \in {"begin", "operation"}, at'[Body] \in {"operation", "complete"},
         UNCHANGED <<sharedVars, allVars, waitVars, holds>>
  PROVE  TaskInv'
<1>1. at'[Parent] = at[Parent] /\ WrappersStay /\ UsersStay
  BY BodyMoves
<1>2. UNCHANGED <<waiters, refCount, outcome, oldWaiters, walk>>
  BY DEF sharedVars
<1>3. TaskLabels' /\ JoinInv'
  <2>1. at'[Body] \in BodyAt
    BY DEF BodyAt
  <2> QED
    BY <1>1, <2>1, JoinKeptByBody DEF allVars, waitVars
<1>4. TaskTypes'
  BY <1>2, <1>3 DEF TaskInv, TaskTypes, allVars, waitVars
<1>5. SharedPhases'
  BY <1>2 DEF TaskInv, SharedInv, SharedPhases
<1>6. WaitersQueued' /\ AwaitersKnow'
  BY <1>1, <1>2 DEF TaskInv, SharedInv, WaitersQueued, AwaitersKnow, UsersStay
<1>7. SomebodyWaits'
  BY <1>1 DEF TaskInv, SharedInv, SomebodyWaits, Awaiting, UsersStay
<1>8. ReferencesCounted'
  BY <1>1, <1>2, ReferencesKept DEF UsersStay
<1>9. ResultsKept'
  BY <1>1, <1>2, ResultsStay DEF UsersStay, allVars
<1> QED
  BY <1>3, <1>4, <1>5, <1>6, <1>7, <1>8, <1>9 DEF TaskInv, SharedInv

LEMMA BeginStep ==
  ASSUME UserAssumption, TaskInv, NEW t \in Threads, Begin(t), UNCHANGED <<allVars, waitVars, holds>>
  PROVE  TaskInv'
<1>1. Top(t, Body, "begin") /\ UNCHANGED sharedVars /\ Body \in Coros
  BY TaskNames DEF Begin
<1>2. /\ "complete" \in TaskPlaces \ Suspensions
      /\ "operation" \in TaskPlaces /\ "operation" \in Suspensions
  BY DEF TaskPlaces, UserAt, BodyAt, Suspensions
<1>3. CASE Goto(Body, "complete")
  <2>1. TasksScheduled' /\ at[Body] = "begin" /\ at'[Body] = "complete" /\ Kept(Body)
    BY <1>1, <1>2, <1>3, TaskGoes DEF TaskInv
  <2> QED
    BY <1>1, <2>1, BodyGoes
<1>4. CASE Suspend(t, Body, "operation")
  <2>1. TasksScheduled' /\ at[Body] = "begin" /\ at'[Body] = "operation" /\ Kept(Body)
    BY <1>1, <1>2, <1>4, TaskSuspends DEF TaskInv
  <2> QED
    BY <1>1, <2>1, BodyGoes
<1> QED
  BY <1>3, <1>4 DEF Begin

LEMMA ContinueStep ==
  ASSUME UserAssumption, TaskInv, SharedCompletes
  PROVE  TaskInv'
<1>1. /\ at[Body] = "operation" /\ ResumeOn(ThreadOf[Body], Body, "complete") /\ UNCHANGED sharedVars
      /\ UNCHANGED <<allVars, waitVars, holds>>
  BY DEF SharedCompletes, Continue
<1>2. TasksScheduled' /\ at'[Body] = "complete" /\ Kept(Body)
  <2>1. /\ "complete" \in TaskPlaces \ Suspensions /\ "operation" \in Suspensions
        /\ Body \in Coros /\ ThreadOf[Body] \in Threads
    BY TaskNames DEF TaskPlaces, BodyAt, Suspensions
  <2> QED
    BY <1>1, <2>1, TaskResumed DEF TaskInv
<1> QED
  BY <1>1, <1>2, BodyGoes

\* The coroutine returns or throws: nobody has a value yet.
LEMMA OutcomeStep ==
  ASSUME UserAssumption, TaskInv, NEW t \in Threads, Complete(t), outcome = NoResult,
         UNCHANGED <<allVars, waitVars, holds>>
  PROVE  TaskInv'
<1>1. /\ Top(t, Body, "complete") /\ outcome' \in Outcomes
      /\ UNCHANGED <<waiters, walk, refCount, oldWaiters, stack, at>>
  BY DEF Complete, stackVars
<1>2. at[Body] = "complete"
  BY <1>1, TaskTop DEF TaskInv
<1>3. TasksScheduled' /\ TaskTypes'
  BY <1>1 DEF TaskInv, TasksScheduled, TaskTypes, TaskLabels, allVars, waitVars
<1>4. SharedInv'
  BY <1>1, <1>2 DEF TaskInv, SharedInv, SharedPhases, WaitersQueued, AwaitersKnow, SomebodyWaits, Awaiting
<1>5. JoinInv' /\ ReferencesCounted'
  BY <1>1 DEF TaskInv, JoinInv, TasksWrapped, WrappersCounted, MainWaits, Pending, ReferencesCounted,
              Referring, allVars, waitVars
<1>6. ResultsKept'
  <2>1. \A u \in Users : result[u] # "value"
    BY TaskNames DEF TaskInv, ResultsKept
  <2> QED
    BY <1>1, <2>1 DEF TaskInv, ResultsKept, allVars
<1> QED
  BY <1>3, <1>4, <1>5, <1>6 DEF TaskInv

\* final_suspend announces the result and takes the list.
LEMMA AnnounceStep ==
  ASSUME UserAssumption, TaskInv, NEW t \in Threads, Complete(t), outcome # NoResult,
         UNCHANGED <<allVars, waitVars, holds>>
  PROVE  TaskInv'
<1>1. /\ Top(t, Body, "complete") /\ waiters' = ValueReady /\ walk' = waiters.list
      /\ IF waiters.list = <<>> THEN Suspend(t, Body, "done") ELSE Goto(Body, "walk")
      /\ UNCHANGED <<outcome, refCount, oldWaiters>>
  BY DEF Complete
<1>2. /\ TasksScheduled' /\ at[Body] = "complete" /\ Kept(Body)
      /\ at'[Body] = IF waiters.list = <<>> THEN "done" ELSE "walk"
  <2>1. /\ "walk" \in TaskPlaces \ Suspensions /\ "done" \in TaskPlaces /\ "done" \in Suspensions
        /\ Body \in Coros
    BY TaskNames DEF TaskPlaces, BodyAt, Suspensions
  <2>2. CASE waiters.list = <<>>
    BY <1>1, <2>1, <2>2, TaskSuspends DEF TaskInv
  <2>3. CASE waiters.list # <<>>
    BY <1>1, <2>1, <2>3, TaskGoes DEF TaskInv
  <2> QED
    BY <2>2, <2>3
<1>3. at'[Parent] = at[Parent] /\ WrappersStay /\ UsersStay
  BY <1>2, BodyMoves
<1>4. TaskLabels' /\ JoinInv'
  <2>1. at'[Body] \in BodyAt
    BY <1>2 DEF BodyAt
  <2> QED
    BY <1>3, <2>1, JoinKeptByBody DEF allVars, waitVars
<1>5. /\ waiters.list \in Seq(Users) /\ Once(waiters.list) /\ walk = <<>>
      /\ ValueReady \in Pointers /\ ValueReady.list = <<>> /\ NotStarted # ValueReady
  BY <1>2, PointerPhases DEF TaskInv, TaskTypes, Pointers, SharedInv, WaitersQueued, SharedPhases
<1>6. TaskTypes'
  BY <1>1, <1>4, <1>5 DEF TaskInv, TaskTypes, allVars, waitVars
<1>7. SharedPhases'
  <2>1. outcome \in Outcomes
    BY DEF TaskInv, TaskTypes
  <2> QED
    BY <1>1, <1>2, <1>5, <2>1 DEF SharedPhases
<1>8. WaitersQueued'
  <2>1. \A u : ~Has(<<>>, u)
    BY DEF Has
  <2> QED
    BY <1>1, <1>3, <1>5, <2>1 DEF TaskInv, SharedInv, WaitersQueued, UsersStay, Once
<1>9. AwaitersKnow'
  BY <1>1, <1>3, <1>5 DEF TaskInv, SharedInv, AwaitersKnow, UsersStay
<1>10. SomebodyWaits'
  BY <1>2 DEF SomebodyWaits
<1>11. ReferencesCounted'
  BY <1>1, <1>3, ReferencesKept DEF UsersStay
<1>12. ResultsKept'
  BY <1>1, <1>3, ResultsStay DEF UsersStay, allVars
<1> QED
  BY <1>2, <1>4, <1>6, <1>7, <1>8, <1>9, <1>10, <1>11, <1>12 DEF TaskInv, SharedInv

\* It resumes the first of those that it has taken.
LEMMA ResumeWaiterStep ==
  ASSUME UserAssumption, TaskInv, NEW t \in Threads, ResumeWaiter(t),
         UNCHANGED <<allVars, waitVars, holds>>
  PROVE  TaskInv'
<1> DEFINE u == Head(walk)
           l == IF Tail(walk) # <<>> THEN "walk" ELSE "done"
<1>1. /\ Top(t, Body, "walk") /\ walk' = Tail(walk)
      /\ IF Tail(walk) # <<>> THEN Call(t, Body, "walk", User(u), "result")
         ELSE Transfer(t, Body, "done", User(u), "result")
      /\ UNCHANGED <<waiters, refCount, outcome, oldWaiters>>
  BY DEF ResumeWaiter
<1>2. at[Body] = "walk" /\ walk \in Seq(Users) /\ walk # <<>> /\ Once(walk) /\ waiters = ValueReady
  <2>1. at[Body] = "walk"
    BY <1>1, TaskTop DEF TaskInv
  <2> QED
    BY <2>1 DEF TaskInv, TaskTypes, SharedInv, SharedPhases, WaitersQueued
<1>3. /\ u \in Users /\ Has(walk, u) /\ Once(Tail(walk)) /\ Tail(walk) \in Seq(Users)
      /\ \A v \in Users : Has(Tail(walk), v) <=> v # u /\ Has(walk, v)
  BY <1>2, TailHas
<1>4. at[User(u)] = "queued"
  BY <1>3 DEF TaskInv, SharedInv, WaitersQueued
<1> HIDE DEF u
<1>5. /\ TasksScheduled' /\ at'[Body] = l /\ at'[User(u)] = "result"
      /\ KeptBut(Body, User(u))
  <2>1. /\ {"walk", "result"} \subseteq TaskPlaces \ Suspensions /\ "queued" \in Suspensions
        /\ "done" \in TaskPlaces /\ "done" \in Suspensions
        /\ User(u) \in Coros /\ Body \in Coros
    BY <1>3, TaskNames DEF TaskPlaces, UserAt, BodyAt, Suspensions
  <2>2. CASE Tail(walk) # <<>>
    BY <1>1, <1>4, <2>1, <2>2, TaskCalls DEF TaskInv, u
  <2>3. CASE Tail(walk) = <<>>
    BY <1>1, <1>4, <2>1, <2>3, TaskTransfers DEF TaskInv, u
  <2> QED
    BY <2>2, <2>3
<1>6. at'[Parent] = at[Parent] /\ WrappersStay /\ UsersStayBut(u)
  BY <1>3, <1>5, UserAndBodyMove
<1>7. TaskLabels' /\ JoinInv'
  <2>1. l \in BodyAt /\ "result" \in UserAt
    BY DEF BodyAt, UserAt
  <2> QED
    BY <1>3, <1>4, <1>5, <1>6, <2>1, JoinKeptByUser DEF allVars, waitVars
<1>8. TaskTypes'
  BY <1>1, <1>3, <1>7 DEF TaskInv, TaskTypes, allVars, waitVars
<1>9. SharedPhases'
  BY <1>1, <1>2, <1>5 DEF TaskInv, SharedInv, SharedPhases
<1>10. WaitersQueued'
  <2>1. ValueReady.list = <<>> /\ \A v : ~Has(<<>>, v)
    BY DEF Has, ValueReady
  <2> QED
    BY <1>1, <1>2, <1>3, <1>5, <1>6, <2>1 DEF TaskInv, SharedInv, WaitersQueued, UsersStayBut
<1>11. AwaitersKnow'
  BY <1>1, <1>2, <1>5, <1>6 DEF TaskInv, SharedInv, AwaitersKnow, UsersStayBut
<1>12. SomebodyWaits'
  BY <1>5 DEF SomebodyWaits
<1>13. ReferencesCounted'
  BY <1>1, <1>4, <1>5, <1>6, ReferencesKept DEF UsersStayBut
<1>14. ResultsKept'
  BY <1>1, <1>5, <1>6, ResultsStay DEF UsersStayBut, allVars
<1> QED
  BY <1>5, <1>7, <1>8, <1>9, <1>10, <1>11, <1>12, <1>13, <1>14 DEF TaskInv, SharedInv

-----------------------------------------------------------------------------
(* A task by itself.                                                       *)

\* It goes on where the shared task is not concerned.
LEMMA TaskGoesOn ==
  ASSUME UserAssumption, TaskInv, TasksScheduled',
         NEW u \in Users, at[User(u)] \in {"begin", "operation", "result", "release"},
         NEW l \in {"await", "operation", "release", "finish"}, at'[User(u)] = l, Kept(User(u)),
         UNCHANGED <<waiters, oldWaiters, walk, outcome, symmetric, settled, count, next, waitVars, holds>>,
         result' \in [Users -> Outcomes \cup {NoResult}], ReferencesCounted', ResultsKept'
  PROVE  TaskInv'
<1>1. OthersStay /\ WrappersStay /\ UsersStayBut(u)
  BY UserMoves
<1>2. TaskLabels' /\ JoinInv'
  <2>1. at'[Body] \in BodyAt /\ l \in UserAt
    BY <1>1 DEF OthersStay, TaskInv, TaskTypes, TaskLabels, UserAt
  <2> QED
    BY <1>1, <2>1, JoinKeptByUser DEF OthersStay, waitVars
<1>3. TaskTypes'
  BY <1>2 DEF TaskInv, TaskTypes, waitVars
<1>4. SharedInv'
  BY <1>1, SharedKeptBy DEF OthersStay, UsersStayBut
<1> QED
  BY <1>2, <1>3, <1>4 DEF TaskInv

LEMMA OperationStep ==
  ASSUME UserAssumption, TaskInv, NEW t \in Threads, NEW u \in Users,
         Operation(t, u), UNCHANGED <<waitVars, holds>>
  PROVE  TaskInv'
<1>1. /\ Top(t, User(u), "begin") /\ User(u) \in Coros
      /\ UNCHANGED <<symmetric, settled, count, next, waiters, refCount, outcome, oldWaiters, walk>>
  BY TaskNames DEF Operation, sharedVars
<1>2. /\ {"await", "release"} \subseteq TaskPlaces \ Suspensions
      /\ "operation" \in TaskPlaces /\ "operation" \in Suspensions
  BY DEF TaskPlaces, UserAt, Suspensions
<1>3. at[User(u)] = "begin"
  BY <1>1, TaskTop DEF TaskInv
<1>4. ASSUME NEW l \in {"await", "operation"}, TasksScheduled', at'[User(u)] = l, Kept(User(u)),
             UNCHANGED result
      PROVE  TaskInv'
  <2>1. UsersStayBut(u)
    BY <1>4, UserMoves
  <2>2. ReferencesCounted' /\ ResultsKept'
    BY <1>1, <1>3, <1>4, <2>1, ReferencesKept, ResultsStay DEF UsersStayBut
  <2> QED
    BY <1>1, <1>3, <1>4, <2>2, TaskGoesOn DEF TaskInv, TaskTypes
<1>5. CASE Goto(User(u), "await") /\ UNCHANGED result
  BY <1>1, <1>2, <1>4, <1>5, TaskGoes DEF TaskInv
<1>6. CASE Suspend(t, User(u), "operation") /\ UNCHANGED result
  BY <1>1, <1>2, <1>4, <1>6, TaskSuspends DEF TaskInv
<1>7. CASE result' = [result EXCEPT ![u] = "exception"] /\ Goto(User(u), "release")
  <2>1. TasksScheduled' /\ at'[User(u)] = "release" /\ Kept(User(u))
    BY <1>1, <1>2, <1>7, TaskGoes DEF TaskInv
  <2>2. UsersStayBut(u)
    BY <2>1, UserMoves
  <2>3. ReferencesCounted'
    BY <1>1, <1>3, <2>1, <2>2, ReferencesKept DEF UsersStayBut
  <2>4. /\ result' \in [Users -> Outcomes \cup {NoResult}] /\ result'[u] = "exception"
        /\ \A v \in Users : v # u => result'[v] = result[v]
    BY <1>7 DEF TaskInv, TaskTypes, Outcomes
  <2>5. ResultsKept'
    BY <1>1, <2>2, <2>4, TaskNames DEF TaskInv, ResultsKept, UsersStayBut
  <2> QED
    BY <1>1, <1>3, <2>1, <2>3, <2>4, <2>5, TaskGoesOn
<1> QED
  BY <1>5, <1>6, <1>7 DEF Operation

LEMMA TaskOperationDone ==
  ASSUME UserAssumption, TaskInv, NEW u \in Users, Completes(u)
  PROVE  TaskInv'
<1>1. /\ at[User(u)] = "operation" /\ ResumeOn(ThreadOf[User(u)], User(u), "await")
      /\ UNCHANGED <<symmetric, settled, result, count, next, waiters, refCount, outcome, oldWaiters,
                     walk, waitVars, holds>>
  BY DEF Completes, OperationDone, sharedVars, allVars
<1>2. TasksScheduled' /\ at'[User(u)] = "await" /\ Kept(User(u))
  <2>1. /\ "await" \in TaskPlaces \ Suspensions /\ "operation" \in Suspensions
        /\ User(u) \in Coros /\ ThreadOf[User(u)] \in Threads
    BY TaskNames DEF TaskPlaces, UserAt, Suspensions
  <2> QED
    BY <1>1, <2>1, TaskResumed DEF TaskInv
<1>3. UsersStayBut(u)
  BY <1>2, UserMoves
<1>4. ReferencesCounted' /\ ResultsKept'
  BY <1>1, <1>2, <1>3, ReferencesKept, ResultsStay DEF UsersStayBut
<1> QED
  BY <1>1, <1>2, <1>4, TaskGoesOn DEF TaskInv, TaskTypes

LEMMA SharedResultStep ==
  ASSUME UserAssumption, TaskInv, NEW t \in Threads, NEW u \in Users,
         SharedResult(t, u), UNCHANGED <<waitVars, holds>>
  PROVE  TaskInv'
<1>1. /\ Top(t, User(u), "result") /\ Goto(User(u), "release") /\ User(u) \in Coros
      /\ result' = [result EXCEPT ![u] = outcome]
      /\ UNCHANGED <<symmetric, settled, count, next, waiters, refCount, outcome, oldWaiters, walk>>
  BY TaskNames DEF SharedResult, sharedVars
<1>2. TasksScheduled' /\ at[User(u)] = "result" /\ at'[User(u)] = "release" /\ Kept(User(u))
  <2>1. "release" \in TaskPlaces \ Suspensions
    BY DEF TaskPlaces, UserAt, Suspensions
  <2> QED
    BY <1>1, <2>1, TaskGoes DEF TaskInv
<1>3. UsersStayBut(u)
  BY <1>2, UserMoves
<1>4. outcome \in Outcomes /\ outcome # NoResult
  <2>1. waiters = ValueReady
    BY <1>2 DEF TaskInv, SharedInv, AwaitersKnow
  <2>2. outcome \in Outcomes
    BY <2>1 DEF TaskInv, SharedInv, SharedPhases
  <2> QED
    BY <2>2 DEF UserAssumption
<1>5. /\ result' \in [Users -> Outcomes \cup {NoResult}] /\ result'[u] = outcome
      /\ \A v \in Users : v # u => result'[v] = result[v]
  BY <1>1, <1>4 DEF TaskInv, TaskTypes
<1>6. ReferencesCounted'
  BY <1>1, <1>2, <1>3, ReferencesKept DEF UsersStayBut
<1>7. ResultsKept'
  BY <1>1, <1>3, <1>4, <1>5 DEF TaskInv, ResultsKept, UsersStayBut
<1> QED
  BY <1>1, <1>2, <1>5, <1>6, <1>7, TaskGoesOn

\* A copy of the shared task goes out of scope.
LEMMA ReleaseStep ==
  ASSUME UserAssumption, TaskInv, NEW t \in Threads, NEW u \in Users,
         Release(t, u), UNCHANGED <<waitVars, holds>>
  PROVE  TaskInv'
<1>1. /\ Top(t, User(u), "release") /\ Goto(User(u), "finish") /\ User(u) \in Coros
      /\ refCount' = refCount - 1
      /\ UNCHANGED <<symmetric, settled, result, count, next, waiters, outcome, oldWaiters, walk>>
  BY TaskNames DEF Release, Detach, allVars
<1>2. TasksScheduled' /\ at[User(u)] = "release" /\ at'[User(u)] = "finish" /\ Kept(User(u))
  <2>1. "finish" \in TaskPlaces \ Suspensions
    BY DEF TaskPlaces, UserAt, Suspensions
  <2> QED
    BY <1>1, <2>1, TaskGoes DEF TaskInv
<1>3. UsersStayBut(u)
  BY <1>2, UserMoves
<1>4. ReferencesCounted'
  <2>1. Referring' = Referring \ {u} /\ u \in Referring
    BY <1>2, <1>3 DEF Referring, UsersStayBut
  <2>2. IsFiniteSet(Referring)
    BY TaskNames, FS_Subset DEF Referring
  <2>3. Cardinality(Referring') \in Nat /\ Cardinality(Referring) = Cardinality(Referring') + 1
    BY <2>1, <2>2, OneFewer
  <2> QED
    BY <1>1, <2>3 DEF TaskInv, ReferencesCounted
<1>5. ResultsKept'
  BY <1>1, <1>2, <1>3, ResultsStay DEF UsersStayBut
<1> QED
  BY <1>1, <1>2, <1>4, <1>5, TaskGoesOn DEF TaskInv, TaskTypes

-----------------------------------------------------------------------------
(* A task and its wrapper.                                                 *)

\* The wrapper and its task move; nobody else is concerned.
LEMMA WrapperGoes ==
  ASSUME UserAssumption, TaskInv, TasksScheduled', NEW u \in Users,
         OthersStay, WrappersStayBut(u), UsersStayBut(u),
         at[Wrapper(u)] \notin {"created", "done"}, at'[Wrapper(u)] \in {"attach", "suspended", "result"},
         \/ at'[User(u)] = at[User(u)]
         \/ at[User(u)] = "created" /\ at'[User(u)] = "begin"
         \/ at[User(u)] = "finish" /\ at'[User(u)] = "done",
         settled' \in [Users -> BOOLEAN], \A v \in Users : v # u => settled'[v] = settled[v],
         UNCHANGED <<symmetric, result, count, next, sharedVars, waitVars, holds>>,
         at'[User(u)] # "created",
         at'[Wrapper(u)] = "attach" => ~symmetric /\ (settled'[u] <=> at'[User(u)] = "done"),
         at'[Wrapper(u)] = "suspended" => at'[User(u)] # "done" /\ (symmetric \/ settled'[u]),
         at'[Wrapper(u)] = "result" => at'[User(u)] = "done"
  PROVE  TaskInv'
<1>1. UNCHANGED <<waiters, refCount, outcome, oldWaiters, walk>>
  BY DEF sharedVars
<1>2. TaskLabels'
  BY DEF TaskInv, TaskTypes, TaskLabels, OthersStay, WrappersStayBut, UsersStayBut, UserAt,
              WrapperAt
<1>3. TaskTypes'
  BY <1>1, <1>2 DEF TaskInv, TaskTypes, waitVars
<1>4. SharedInv'
  BY <1>1, SharedKeptBy DEF OthersStay, UsersStayBut
<1>5. TasksWrapped'
  BY DEF TaskInv, JoinInv, TasksWrapped, WrappersStayBut, UsersStayBut, WrapperAt
<1>6. WrappersCounted'
  <2>1. Pending' = Pending
    BY DEF Pending, WrappersStayBut
  <2> QED
    BY <2>1 DEF TaskInv, JoinInv, WrappersCounted, WrappersStayBut, OthersStay
<1>7. MainWaits'
  BY DEF TaskInv, JoinInv, MainWaits, OthersStay, waitVars
<1>8. ReferencesCounted'
  BY <1>1, ReferencesKept DEF UsersStayBut
<1>9. ResultsKept'
  BY <1>1, ResultsStay DEF UsersStayBut
<1> QED
  BY <1>3, <1>4, <1>5, <1>6, <1>7, <1>8, <1>9 DEF TaskInv, JoinInv

LEMMA AwaitTaskStep ==
  ASSUME UserAssumption, TaskInv, NEW t \in Threads, NEW u \in Users,
         AwaitTask(t, u), UNCHANGED <<waitVars, holds>>
  PROVE  TaskInv'
<1>1. /\ Top(t, Wrapper(u), "await") /\ Wrapper(u) \in Coros /\ User(u) \in Coros
      /\ UNCHANGED <<symmetric, settled, result, count, next, sharedVars>>
  BY TaskNames DEF AwaitTask, allVars
<1>2. at[Wrapper(u)] = "await" /\ at[User(u)] = "created"
  <2>1. at[Wrapper(u)] = "await"
    BY <1>1, TaskTop DEF TaskInv
  <2> QED
    BY <2>1 DEF TaskInv, JoinInv, TasksWrapped
<1>3. /\ {"attach", "begin"} \subseteq TaskPlaces \ Suspensions /\ "created" \in Suspensions
      /\ "suspended" \in TaskPlaces /\ "suspended" \in Suspensions
  BY DEF TaskPlaces, WrapperAt, UserAt, Suspensions
<1>4. /\ TasksScheduled' /\ at'[User(u)] = "begin" /\ KeptBut(Wrapper(u), User(u))
      /\ at'[Wrapper(u)] = IF symmetric THEN "suspended" ELSE "attach"
  <2>1. CASE symmetric
    BY <1>1, <1>2, <1>3, <2>1, TaskTransfers DEF TaskInv, AwaitTask
  <2>2. CASE ~symmetric
    BY <1>1, <1>2, <1>3, <2>2, TaskCalls DEF TaskInv, AwaitTask
  <2> QED
    BY <2>1, <2>2
<1>5. OthersStay /\ WrappersStayBut(u) /\ UsersStayBut(u)
  BY <1>4, UserAndWrapperMove
<1>6. settled \in [Users -> BOOLEAN] /\ symmetric \in BOOLEAN /\ (~symmetric => ~settled[u])
  BY <1>2 DEF TaskInv, TaskTypes, JoinInv, TasksWrapped
<1> QED
  BY <1>1, <1>2, <1>4, <1>5, <1>6, WrapperGoes

LEMMA TrySetContinuationStep ==
  ASSUME UserAssumption, TaskInv, NEW t \in Threads, NEW u \in Users,
         TrySetContinuation(t, u), UNCHANGED <<waitVars, holds>>
  PROVE  TaskInv'
<1>1. /\ Top(t, Wrapper(u), "attach") /\ Wrapper(u) \in Coros
      /\ settled' = [settled EXCEPT ![u] = TRUE]
      /\ IF settled[u] THEN Goto(Wrapper(u), "result") ELSE Suspend(t, Wrapper(u), "suspended")
      /\ UNCHANGED <<symmetric, result, count, next, sharedVars>>
  BY TaskNames DEF TrySetContinuation
<1>2. at[Wrapper(u)] = "attach" /\ ~symmetric /\ (settled[u] <=> at[User(u)] = "done")
      /\ at[User(u)] # "created"
  <2>1. at[Wrapper(u)] = "attach"
    BY <1>1, TaskTop DEF TaskInv
  <2> QED
    BY <2>1 DEF TaskInv, JoinInv, TasksWrapped
<1>3. /\ TasksScheduled' /\ Kept(Wrapper(u))
      /\ at'[Wrapper(u)] = IF settled[u] THEN "result" ELSE "suspended"
  <2>1. /\ "result" \in TaskPlaces \ Suspensions
        /\ "suspended" \in TaskPlaces /\ "suspended" \in Suspensions
    BY DEF TaskPlaces, WrapperAt, Suspensions
  <2>2. CASE settled[u]
    BY <1>1, <2>1, <2>2, TaskGoes DEF TaskInv
  <2>3. CASE ~settled[u]
    BY <1>1, <2>1, <2>3, TaskSuspends DEF TaskInv
  <2> QED
    BY <2>2, <2>3
<1>4. OthersStay /\ WrappersStayBut(u) /\ UsersStay
  BY <1>3, WrapperMoves
<1>5. UsersStayBut(u) /\ at'[User(u)] = at[User(u)]
  BY <1>4 DEF UsersStay, UsersStayBut
<1>6. settled' \in [Users -> BOOLEAN] /\ settled'[u] /\ \A v \in Users : v # u => settled'[v] = settled[v]
  BY <1>1 DEF TaskInv, TaskTypes
<1>7. at[Wrapper(u)] \notin {"created", "done"} /\ at'[Wrapper(u)] \in {"attach", "suspended", "result"}
  BY <1>2, <1>3
<1>8. /\ at'[Wrapper(u)] = "suspended" => at'[User(u)] # "done"
      /\ at'[Wrapper(u)] = "result" => at'[User(u)] = "done"
      /\ at'[Wrapper(u)] # "attach" /\ at'[User(u)] # "created"
  BY <1>2, <1>3, <1>5
<1> QED
  BY <1>1, <1>3, <1>4, <1>5, <1>6, <1>7, <1>8, WrapperGoes

\* The end of a task, which resumes its wrapper or leaves it to find out.
LEMMA FinishStep ==
  ASSUME UserAssumption, TaskInv, NEW t \in Threads, NEW u \in Users,
         Finish(t, u), UNCHANGED <<waitVars, holds>>
  PROVE  TaskInv'
<1>1. /\ Top(t, User(u), "finish") /\ Wrapper(u) \in Coros /\ User(u) \in Coros
      /\ settled' = [settled EXCEPT ![u] = ~symmetric]
      /\ UNCHANGED <<symmetric, result, count, next, sharedVars>>
  BY TaskNames DEF Finish
<1>2. /\ at[User(u)] = "finish" /\ symmetric \in BOOLEAN /\ settled \in [Users -> BOOLEAN]
      /\ at[Wrapper(u)] \in {"attach", "suspended"}
      /\ at[Wrapper(u)] = "attach" <=> ~(symmetric \/ settled[u])
  <2>1. at[User(u)] = "finish"
    BY <1>1, TaskTop DEF TaskInv
  <2> QED
    BY <2>1 DEF TaskInv, TaskTypes, TaskLabels, WrapperAt, JoinInv, TasksWrapped
<1>3. /\ TasksScheduled' /\ at'[User(u)] = "done"
      /\ IF symmetric \/ settled[u]
         THEN at'[Wrapper(u)] = "result" /\ KeptBut(User(u), Wrapper(u))
         ELSE Kept(User(u))
  <2>1. /\ "result" \in TaskPlaces \ Suspensions /\ "done" \in TaskPlaces /\ "done" \in Suspensions
        /\ "suspended" \in Suspensions
    BY DEF TaskPlaces, WrapperAt, UserAt, Suspensions
  <2>2. CASE symmetric \/ settled[u]
    BY <1>1, <1>2, <2>1, <2>2, TaskTransfers DEF TaskInv, Finish
  <2>3. CASE ~(symmetric \/ settled[u])
    BY <1>1, <2>1, <2>3, TaskSuspends DEF TaskInv, Finish
  <2> QED
    BY <2>2, <2>3
<1>4. /\ OthersStay /\ WrappersStayBut(u) /\ UsersStayBut(u)
      /\ at'[Wrapper(u)] = IF symmetric \/ settled[u] THEN "result" ELSE "attach"
  <2>1. CASE symmetric \/ settled[u]
    BY <1>3, <2>1, UserAndWrapperMove
  <2>2. CASE ~(symmetric \/ settled[u])
    <3>1. OthersStay /\ WrappersStay /\ UsersStayBut(u)
      BY <1>3, <2>2, UserMoves
    <3> QED
      BY <1>2, <2>2, <3>1 DEF WrappersStay, WrappersStayBut
  <2> QED
    BY <2>1, <2>2
<1>5. /\ settled' \in [Users -> BOOLEAN] /\ settled'[u] = ~symmetric
      /\ \A v \in Users : v # u => settled'[v] = settled[v]
  BY <1>1, <1>2
<1>6. at[Wrapper(u)] \notin {"created", "done"} /\ at'[Wrapper(u)] \in {"attach", "suspended", "result"}
  BY <1>2, <1>4
<1>7. /\ at'[Wrapper(u)] = "attach" => ~symmetric /\ settled'[u]
      /\ at'[Wrapper(u)] # "suspended"
  BY <1>4, <1>5
<1> QED
  BY <1>1, <1>2, <1>3, <1>4, <1>5, <1>6, <1>7, WrapperGoes

-----------------------------------------------------------------------------
(* The wrappers, the parent and main.                                      *)

LEMMA JoinGoes ==
  ASSUME UserAssumption, TaskInv, TasksScheduled', at'[Body] = at[Body], UsersStay,
         at'[Parent] \in ParentAt, \A v \in Users : at'[Wrapper(v)] \in WrapperAt,
         UNCHANGED <<symmetric, settled, result, sharedVars, holds>>,
         mainAt' \in MainAt, event' \in BOOLEAN, TasksWrapped', WrappersCounted', MainWaits'
  PROVE  TaskInv'
<1>1. TaskTypes'
  BY DEF TaskInv, TaskTypes, TaskLabels, UsersStay, sharedVars
<1>2. SharedInv' /\ ReferencesCounted' /\ ResultsKept'
  BY TasksKept
<1> QED
  BY <1>1, <1>2 DEF TaskInv, JoinInv

LEMMA PendingIsFinite ==
  ASSUME UserAssumption
  PROVE  IsFiniteSet(Pending) /\ Cardinality(Pending) \in Nat /\ (Cardinality(Pending) = 0 <=> Pending = {})
<1>1. IsFiniteSet(Pending)
  BY TaskNames, FS_Subset DEF Pending
<1> QED
  BY <1>1, FS_CardinalityType, FS_EmptySet

LEMMA NotifyCompletedStep ==
  ASSUME UserAssumption, TaskInv, NEW t \in Threads, NEW u \in Users,
         NotifyCompleted(t, u), UNCHANGED <<waitVars, holds>>
  PROVE  TaskInv'
<1>1. /\ Top(t, Wrapper(u), "result") /\ Wrapper(u) \in Coros /\ Parent \in Coros
      /\ Parent # Wrapper(u)
      /\ count' = count - 1
      /\ IF count = 1 THEN Transfer(t, Wrapper(u), "done", Parent, "results")
         ELSE Suspend(t, Wrapper(u), "done")
      /\ UNCHANGED <<symmetric, settled, result, next, sharedVars, mainAt, event, holds>>
  BY TaskNames DEF NotifyCompleted, waitVars
<1>2. at[Wrapper(u)] = "result" /\ u \in Pending
  BY <1>1, TaskTop DEF TaskInv, Pending
<1>3. /\ Cardinality(Pending \ {u}) \in Nat /\ Cardinality(Pending) = Cardinality(Pending \ {u}) + 1
      /\ Cardinality(Pending \ {u}) = 0 <=> Pending \ {u} = {}
  <2>1. IsFiniteSet(Pending \ {u})
    BY PendingIsFinite, FS_Subset
  <2> QED
    BY <1>2, <2>1, PendingIsFinite, OneFewer, FS_EmptySet
<1>4. /\ at[Parent] \in {"created", "start", "suspended"}
      /\ count = 1 => at[Parent] = "suspended" /\ Pending \ {u} = {}
  <2>1. at[Parent] \in ParentAt /\ at[Parent] \notin {"results", "wake", "done"}
    BY <1>2 DEF TaskInv, TaskTypes, TaskLabels, JoinInv, WrappersCounted
  <2>2. count = Cardinality(Pending) + IF at[Parent] \in {"created", "start"} THEN 1 ELSE 0
    BY DEF TaskInv, JoinInv, WrappersCounted
  <2> QED
    BY <1>3, <2>1, <2>2 DEF ParentAt
<1>5. /\ TasksScheduled' /\ at'[Wrapper(u)] = "done" /\ at'[Body] = at[Body]
      /\ WrappersStayBut(u) /\ UsersStay
      /\ at'[Parent] = IF count = 1 THEN "results" ELSE at[Parent]
  <2>1. /\ "done" \in TaskPlaces /\ "done" \in Suspensions
        /\ "results" \in TaskPlaces \ Suspensions /\ "suspended" \in Suspensions
    BY DEF TaskPlaces, WrapperAt, ParentAt, Suspensions
  <2>2. CASE count = 1
    <3>1. TasksScheduled' /\ at'[Wrapper(u)] = "done" /\ at'[Parent] = "results" /\ KeptBut(Wrapper(u), Parent)
      BY <1>1, <1>4, <2>1, <2>2, TaskTransfers DEF TaskInv
    <3> QED
      BY <2>2, <3>1, WrapperAndParentMove
  <2>3. CASE count # 1
    <3>1. TasksScheduled' /\ at'[Wrapper(u)] = "done" /\ Kept(Wrapper(u))
      BY <1>1, <2>1, <2>3, TaskSuspends DEF TaskInv
    <3> QED
      BY <2>3, <3>1, WrapperMoves DEF OthersStay
  <2> QED
    BY <2>2, <2>3
<1>6. at'[Parent] \in ParentAt /\ \A v \in Users : at'[Wrapper(v)] \in WrapperAt
  BY <1>5 DEF TaskInv, TaskTypes, TaskLabels, ParentAt, WrapperAt, WrappersStayBut
<1>7. TasksWrapped'
  BY <1>1, <1>2, <1>5 DEF TaskInv, JoinInv, TasksWrapped, WrappersStayBut, UsersStay
<1>8. WrappersCounted'
  <2>1. Pending' = Pending \ {u}
    BY <1>5 DEF Pending, WrappersStayBut
  <2>2. count' = Cardinality(Pending') + IF at'[Parent] \in {"created", "start"} THEN 1 ELSE 0
    BY <1>1, <1>3, <1>4, <1>5, <2>1 DEF TaskInv, JoinInv, WrappersCounted
  <2>3. \A v \in Users : v < next' <=> at'[Wrapper(v)] # "created"
    BY <1>1, <1>2, <1>5 DEF TaskInv, JoinInv, WrappersCounted, WrappersStayBut
  <2>4. /\ at'[Parent] \in {"suspended", "results", "wake", "done"} => next' = Cardinality(Users) + 1
        /\ at'[Parent] \in {"results", "wake", "done"} => Pending' = {}
    BY <1>1, <1>4, <1>5, <2>1 DEF TaskInv, JoinInv, WrappersCounted
  <2> QED
    BY <1>1, <2>2, <2>3, <2>4 DEF TaskInv, JoinInv, WrappersCounted
<1>9. MainWaits'
  BY <1>1, <1>4, <1>5 DEF TaskInv, JoinInv, MainWaits
<1> QED
  BY <1>1, <1>5, <1>6, <1>7, <1>8, <1>9, JoinGoes DEF TaskInv, TaskTypes

\* The parent starts the next wrapper, on top of itself.
LEMMA StartNextStep ==
  ASSUME UserAssumption, TaskInv, NEW t \in Threads, StartNext(t), UNCHANGED <<waitVars, holds>>
  PROVE  TaskInv'
<1>1. /\ Top(t, Parent, "start") /\ next <= Cardinality(Users) /\ next' = next + 1
      /\ Call(t, Parent, "start", Wrapper(next), "await")
      /\ UNCHANGED <<symmetric, settled, result, count, sharedVars, mainAt, event, holds>>
  BY DEF StartNext, waitVars
<1>2. /\ next \in Users /\ next \in Nat /\ Cardinality(Users) \in Nat /\ Users = 1..Cardinality(Users)
      /\ Wrapper(next) \in Coros /\ Parent \in Coros
  <2>1. next \in 1..(Cardinality(Users) + 1) /\ Cardinality(Users) \in Nat /\ Users = 1..Cardinality(Users)
    BY TaskNames DEF TaskInv, JoinInv, WrappersCounted
  <2>2. next \in Users
    BY <1>1, <2>1
  <2> QED
    BY <2>1, <2>2, TaskNames
<1>3. at[Parent] = "start" /\ at[Wrapper(next)] = "created" /\ at[User(next)] = "created"
  <2>1. at[Parent] = "start"
    BY <1>1, TaskTop DEF TaskInv
  <2>2. at[Wrapper(next)] = "created"
    BY <1>2 DEF TaskInv, JoinInv, WrappersCounted
  <2> QED
    BY <1>2, <2>1, <2>2 DEF TaskInv, JoinInv, TasksWrapped
<1>4. /\ TasksScheduled' /\ at'[Parent] = "start" /\ at'[Wrapper(next)] = "await"
      /\ KeptBut(Parent, Wrapper(next))
  <2>1. {"start", "await"} \subseteq TaskPlaces \ Suspensions /\ "created" \in Suspensions
    BY DEF TaskPlaces, WrapperAt, ParentAt, Suspensions
  <2> QED
    BY <1>1, <1>2, <1>3, <2>1, TaskCalls DEF TaskInv
<1>5. at'[Body] = at[Body] /\ WrappersStayBut(next) /\ UsersStay
  BY <1>2, <1>4, WrapperAndParentMove
<1>6. at'[Parent] \in ParentAt /\ \A v \in Users : at'[Wrapper(v)] \in WrapperAt
  BY <1>4, <1>5 DEF TaskInv, TaskTypes, TaskLabels, ParentAt, WrapperAt, WrappersStayBut
<1>7. TasksWrapped'
  BY <1>1, <1>2, <1>3, <1>4, <1>5 DEF TaskInv, JoinInv, TasksWrapped, WrappersStayBut, UsersStay
<1>8. WrappersCounted'
  <2>1. Pending' = Pending
    BY <1>2, <1>3, <1>4, <1>5 DEF Pending, WrappersStayBut
  <2>2. \A v \in Users : v < next' <=> v < next \/ v = next
    BY <1>1, <1>2
  <2>3. \A v \in Users : v < next' <=> at'[Wrapper(v)] # "created"
    BY <1>2, <1>4, <1>5, <2>2 DEF TaskInv, JoinInv, WrappersCounted, WrappersStayBut
  <2>4. next' \in 1..(Cardinality(Users) + 1)
    BY <1>1, <1>2
  <2> QED
    BY <1>1, <1>3, <1>4, <2>1, <2>3, <2>4 DEF TaskInv, JoinInv, WrappersCounted
<1>9. MainWaits'
  BY <1>1, <1>3, <1>4 DEF TaskInv, JoinInv, MainWaits
<1> QED
  BY <1>1, <1>4, <1>5, <1>6, <1>7, <1>8, <1>9, JoinGoes DEF TaskInv, TaskTypes

\* The parent counts itself down.
LEMMA TryAwaitStep ==
  ASSUME UserAssumption, TaskInv, NEW t \in Threads, TryAwait(t), UNCHANGED <<waitVars, holds>>
  PROVE  TaskInv'
<1>1. /\ Top(t, Parent, "start") /\ next > Cardinality(Users) /\ count' = count - 1
      /\ IF count > 1 THEN Suspend(t, Parent, "suspended") ELSE Goto(Parent, "results")
      /\ UNCHANGED <<symmetric, settled, result, next, sharedVars, mainAt, event, holds>>
  BY DEF TryAwait, waitVars
<1>2. at[Parent] = "start"
  BY <1>1, TaskTop DEF TaskInv
<1>3. /\ TasksScheduled' /\ Kept(Parent)
      /\ at'[Parent] = IF count > 1 THEN "suspended" ELSE "results"
  <2>1. /\ "results" \in TaskPlaces \ Suspensions /\ Parent \in Coros
        /\ "suspended" \in TaskPlaces /\ "suspended" \in Suspensions
    BY TaskNames DEF TaskPlaces, ParentAt, Suspensions
  <2>2. CASE count > 1
    BY <1>1, <2>1, <2>2, TaskSuspends DEF TaskInv
  <2>3. CASE ~(count > 1)
    BY <1>1, <2>1, <2>3, TaskGoes DEF TaskInv
  <2> QED
    BY <2>2, <2>3
<1>4. at'[Body] = at[Body] /\ WrappersStay /\ UsersStay
  BY <1>3, ParentMoves
<1>5. at'[Parent] \in ParentAt /\ \A v \in Users : at'[Wrapper(v)] \in WrapperAt
  BY <1>3, <1>4 DEF TaskInv, TaskTypes, TaskLabels, ParentAt, WrappersStay
<1>6. TasksWrapped'
  BY <1>1, <1>4 DEF TaskInv, JoinInv, TasksWrapped, WrappersStay, UsersStay
<1>7. WrappersCounted'
  <2>1. Pending' = Pending
    BY <1>4 DEF Pending, WrappersStay
  <2>2. count = Cardinality(Pending) + 1
    BY <1>2 DEF TaskInv, JoinInv, WrappersCounted
  <2>3. Cardinality(Pending) \in Nat /\ (~(count > 1) => Pending = {})
    BY <2>2, PendingIsFinite
  <2>4. next = Cardinality(Users) + 1
    <3>1. next \in 1..(Cardinality(Users) + 1) /\ Cardinality(Users) \in Nat
      BY TaskNames DEF TaskInv, JoinInv, WrappersCounted
    <3> QED
      BY <1>1, <3>1
  <2> QED
    BY <1>1, <1>3, <1>4, <2>1, <2>2, <2>3, <2>4 DEF TaskInv, JoinInv, WrappersCounted, WrappersStay
<1>8. MainWaits'
  BY <1>1, <1>2, <1>3 DEF TaskInv, JoinInv, MainWaits
<1> QED
  BY <1>1, <1>3, <1>4, <1>5, <1>6, <1>7, <1>8, JoinGoes DEF TaskInv, TaskTypes

\* Of the coroutines only the parent moves, or none.
LEMMA ParentGoes ==
  ASSUME UserAssumption, TaskInv, TasksScheduled', Kept(Parent), at'[Parent] \in ParentAt,
         at'[Parent] \in {"created", "start"} <=> at[Parent] \in {"created", "start"},
         at'[Parent] \in {"results", "wake", "done"} => at[Parent] \in {"results", "wake", "done"},
         at'[Parent] = "suspended" => at[Parent] = "suspended",
         UNCHANGED <<allVars, sharedVars, holds>>, mainAt' \in MainAt, event' \in BOOLEAN, MainWaits'
  PROVE  TaskInv'
<1>1. at'[Body] = at[Body] /\ WrappersStay /\ UsersStay
  BY ParentMoves
<1>2. \A v \in Users : at'[Wrapper(v)] \in WrapperAt
  BY <1>1 DEF TaskInv, TaskTypes, TaskLabels, WrappersStay
<1>3. TasksWrapped'
  BY <1>1 DEF TaskInv, JoinInv, TasksWrapped, WrappersStay, UsersStay, allVars
<1>4. WrappersCounted'
  <2>1. Pending' = Pending
    BY <1>1 DEF Pending, WrappersStay
  <2> QED
    BY <1>1, <2>1 DEF TaskInv, JoinInv, WrappersCounted, WrappersStay, allVars
<1> QED
  BY <1>1, <1>2, <1>3, <1>4, JoinGoes DEF allVars

\* Main goes on alone.
LEMMA MainGoes ==
  ASSUME UserAssumption, TaskInv, UNCHANGED <<stackVars, allVars, sharedVars, holds, event>>,
         mainAt # "begin", mainAt' \in MainAt \ {"begin"}, mainAt' \in {"return", "returned"} => event
  PROVE  TaskInv'
<1>1. stack' = stack /\ at' = at
  BY DEF stackVars
<1>2. TasksScheduled' /\ Kept(Parent)
  BY <1>1 DEF TaskInv, TasksScheduled, Kept
<1>3. at'[Parent] \in ParentAt
  BY <1>1 DEF TaskInv, TaskTypes, TaskLabels
<1>4. MainWaits' /\ event' \in BOOLEAN
  BY <1>1 DEF TaskInv, TaskTypes, JoinInv, MainWaits
<1> QED
  BY <1>1, <1>2, <1>3, <1>4, ParentGoes

LEMMA StartWaitStep ==
  ASSUME UserAssumption, TaskInv, StartWait, UNCHANGED holds
  PROVE  TaskInv'
<1>1. /\ mainAt = "begin" /\ mainAt' = "load" /\ ResumeOn(Main, Parent, "start")
      /\ UNCHANGED <<event, sharedVars, allVars>>
  BY DEF StartWait
<1>2. at[Parent] = "created"
  BY <1>1 DEF TaskInv, JoinInv, MainWaits
<1>3. TasksScheduled' /\ at'[Parent] = "start" /\ Kept(Parent)
  <2>1. /\ "start" \in TaskPlaces \ Suspensions /\ "created" \in Suspensions
        /\ Parent \in Coros /\ Main \in Threads
    BY TaskNames DEF TaskPlaces, ParentAt, Suspensions
  <2> QED
    BY <1>1, <1>2, <2>1, TaskResumed DEF TaskInv
<1>4. MainWaits' /\ mainAt' \in MainAt /\ event' \in BOOLEAN /\ at'[Parent] \in ParentAt
  BY <1>1, <1>2, <1>3 DEF TaskInv, TaskTypes, JoinInv, MainWaits, MainAt, ParentAt
<1> QED
  BY <1>1, <1>2, <1>3, <1>4, ParentGoes

LEMMA Woken ==
  ASSUME TaskInv, Wake, at[Parent] # "created"
  PROVE  /\ mainAt' \in MainAt \ {"begin"}
         /\ mainAt' \in {"return", "returned"} => mainAt \in {"return", "returned"}
BY DEF TaskInv, TaskTypes, JoinInv, MainWaits, Wake, MainAt

LEMMA SetEventStep ==
  ASSUME UserAssumption, TaskInv, NEW t \in Threads, Set(t), UNCHANGED holds
  PROVE  TaskInv'
<1>1. /\ Top(t, Parent, "results") /\ event' = TRUE
      /\ UNCHANGED <<sharedVars, allVars>>
      /\ IF implementation = "kernel" THEN Wake /\ Suspend(t, Parent, "done")
         ELSE UNCHANGED mainAt /\ Goto(Parent, "wake")
  BY DEF Set
<1>2. at[Parent] = "results"
  BY <1>1, TaskTop DEF TaskInv
<1>3. TasksScheduled' /\ at'[Parent] \in {"wake", "done"} /\ Kept(Parent)
  <2>1. /\ "wake" \in TaskPlaces \ Suspensions /\ Parent \in Coros
        /\ "done" \in TaskPlaces /\ "done" \in Suspensions
    BY TaskNames DEF TaskPlaces, ParentAt, Suspensions
  <2>2. CASE implementation = "kernel"
    BY <1>1, <2>1, <2>2, TaskSuspends DEF TaskInv
  <2>3. CASE implementation # "kernel"
    BY <1>1, <2>1, <2>3, TaskGoes DEF TaskInv
  <2> QED
    BY <2>2, <2>3
<1>4. mainAt' \in MainAt \ {"begin"}
  <2>1. mainAt \in MainAt \ {"begin"}
    BY <1>2 DEF TaskInv, TaskTypes, JoinInv, MainWaits
  <2> QED
    BY <1>1, <1>2, <2>1, Woken
<1>5. MainWaits' /\ event' \in BOOLEAN /\ at'[Parent] \in ParentAt
  BY <1>1, <1>3, <1>4 DEF MainWaits, ParentAt
<1> QED
  BY <1>1, <1>2, <1>3, <1>4, <1>5, ParentGoes

LEMMA WakeAllStep ==
  ASSUME UserAssumption, TaskInv, NEW t \in Threads, WakeAll(t), UNCHANGED holds
  PROVE  TaskInv'
<1>1. /\ Top(t, Parent, "wake") /\ Wake /\ Suspend(t, Parent, "done")
      /\ UNCHANGED <<event, sharedVars, allVars>>
  BY DEF WakeAll
<1>2. TasksScheduled' /\ at[Parent] = "wake" /\ at'[Parent] = "done" /\ Kept(Parent)
  <2>1. "done" \in TaskPlaces /\ "done" \in Suspensions /\ Parent \in Coros
    BY TaskNames DEF TaskPlaces, ParentAt, Suspensions
  <2> QED
    BY <1>1, <2>1, TaskSuspends DEF TaskInv
<1>3. mainAt' \in MainAt \ {"begin"}
  BY <1>1, <1>2, Woken
<1>4. MainWaits' /\ event' \in BOOLEAN /\ at'[Parent] \in ParentAt
  BY <1>1, <1>2, <1>3 DEF TaskInv, TaskTypes, JoinInv, MainWaits, ParentAt
<1> QED
  BY <1>1, <1>2, <1>3, <1>4, ParentGoes

LEMMA MainStepKeeps ==
  ASSUME UserAssumption, TaskInv, MainStep \/ (SpuriousWakeUp /\ UNCHANGED holds)
  PROVE  TaskInv'
<1>1. CASE StartWait /\ UNCHANGED holds
  BY <1>1, StartWaitStep
<1>2. CASE Look /\ UNCHANGED holds
  <2>1. /\ UNCHANGED <<stackVars, allVars, sharedVars, holds, event>> /\ mainAt = "load"
        /\ mainAt' \in MainAt \ {"begin"} /\ (mainAt' \in {"return", "returned"} => event)
    BY <1>2 DEF Look, MainAt
  <2> QED
    BY <2>1, MainGoes
<1>3. CASE Sleep /\ UNCHANGED holds
  <2>1. /\ UNCHANGED <<stackVars, allVars, sharedVars, holds, event>> /\ mainAt = "sleep"
        /\ mainAt' \in MainAt \ {"begin"} /\ (mainAt' \in {"return", "returned"} => event)
    BY <1>3 DEF Sleep, MainAt
  <2> QED
    BY <2>1, MainGoes
<1>4. CASE Return /\ UNCHANGED holds
  <2>1. /\ UNCHANGED <<stackVars, allVars, sharedVars, holds, event>> /\ mainAt = "return"
        /\ mainAt' = "returned" /\ mainAt' \in MainAt \ {"begin"}
    BY <1>4 DEF Return, MainAt
  <2>2. event
    BY <2>1 DEF TaskInv, JoinInv, MainWaits
  <2> QED
    BY <2>1, <2>2, MainGoes
<1>5. CASE SpuriousWakeUp /\ UNCHANGED holds
  <2>1. /\ UNCHANGED <<stackVars, allVars, sharedVars, holds, event>> /\ mainAt = "sleeping"
        /\ mainAt' = "load" /\ mainAt' \in MainAt \ {"begin"}
    BY <1>5 DEF SpuriousWakeUp, MainAt
  <2> QED
    BY <2>1, MainGoes
<1> QED
  BY <1>1, <1>2, <1>3, <1>4, <1>5 DEF MainStep, WaitStep

\* main gives up its own reference to the shared task.
LEMMA DropStep ==
  ASSUME UserAssumption, TaskInv, Drop
  PROVE  TaskInv'
<1>1. /\ holds /\ holds' = FALSE /\ refCount' = refCount - 1 /\ stack' = stack /\ at' = at
      /\ UNCHANGED <<waiters, outcome, oldWaiters, walk, symmetric, settled, result, count, next,
                     mainAt, event>>
  BY DEF Drop, Detach, stackVars, allVars, waitVars
<1>2. TasksScheduled' /\ TaskTypes'
  BY <1>1 DEF TaskInv, TasksScheduled, TaskTypes, TaskLabels
<1>3. SharedInv'
  BY <1>1, SharedKeptBy
<1>4. JoinInv'
  BY <1>1 DEF TaskInv, JoinInv, TasksWrapped, WrappersCounted, MainWaits, Pending
<1>5. ReferencesCounted'
  <2>1. Referring' = Referring /\ IsFiniteSet(Referring)
    BY <1>1, TaskNames, FS_Subset DEF Referring
  <2> QED
    BY <1>1, <2>1, FS_CardinalityType DEF TaskInv, ReferencesCounted
<1>6. ResultsKept'
  BY <1>1, ResultsStay
<1> QED
  BY <1>2, <1>3, <1>4, <1>5, <1>6 DEF TaskInv

-----------------------------------------------------------------------------
(* The invariant holds at first, and every step keeps it.                  *)

LEMMA TaskInitInv == UserAssumption /\ TaskInit => TaskInv
<1> SUFFICES ASSUME UserAssumption, TaskInit PROVE TaskInv
  OBVIOUS
<1>1. /\ stack = [t \in Threads |-> <<>>] /\ at = [co \in Coros |-> "created"]
      /\ waiters = NotStarted /\ refCount = 1 + Cardinality(Users) /\ outcome = NoResult
      /\ oldWaiters = [u \in Users |-> NotStarted] /\ walk = <<>>
      /\ symmetric \in BOOLEAN /\ settled = [u \in Users |-> FALSE]
      /\ result = [u \in Users |-> NoResult] /\ count = Cardinality(Users) + 1 /\ next = 1
      /\ event = FALSE /\ mainAt = "begin" /\ holds = TRUE
  BY DEF TaskInit, SharedInit, Copies, AllInit, WaitInit
<1>2. /\ at[Parent] = "created" /\ at[Body] = "created"
      /\ \A u \in Users : at[Wrapper(u)] = "created" /\ at[User(u)] = "created"
  BY <1>1, TaskNames
<1>3. TasksScheduled
  <2>1. <<>> \in Seq(Coros) /\ "created" \in TaskPlaces /\ "created" \in Suspensions
    BY DEF TaskPlaces, ParentAt, Suspensions
  <2>2. \A t \in Threads : Len(stack[t]) = 0
    BY <1>1
  <2>3. OnceInAll(stack) /\ \A c : ~OnSome(stack, c)
    BY <1>1, <2>2 DEF OnceInAll, OnSome, Once, Has
  <2> QED
    BY <1>1, <2>1, <2>3 DEF TasksScheduled, Scheduled
<1>4. NotStarted \in Pointers /\ NotStarted # ValueReady /\ NotStarted.list = <<>> /\ Len(<<>>) = 0
  BY PointerPhases
<1>5. TaskTypes
  <2>1. TaskLabels
    BY <1>2 DEF TaskLabels, ParentAt, BodyAt, WrapperAt, UserAt
  <2>2. <<>> \in Seq(Users)
    OBVIOUS
  <2> QED
    BY <1>1, <1>4, <2>1, <2>2 DEF TaskTypes, MainAt
<1>6. SharedInv
  <2>1. SharedPhases
    BY <1>1, <1>2, <1>4 DEF SharedPhases
  <2>2. WaitersQueued
    BY <1>1, <1>2, <1>4 DEF WaitersQueued, Once, Has
  <2>3. AwaitersKnow /\ SomebodyWaits
    BY <1>1, <1>2, <1>4 DEF AwaitersKnow, SomebodyWaits
  <2> QED
    BY <2>1, <2>2, <2>3 DEF SharedInv
<1>7. JoinInv
  <2>1. TasksWrapped /\ MainWaits
    BY <1>1, <1>2 DEF TasksWrapped, MainWaits
  <2>2. Pending = Users
    BY <1>2 DEF Pending
  <2>3. Cardinality(Users) \in Nat /\ Users = 1..Cardinality(Users)
    BY TaskNames
  <2>4. next \in 1..(Cardinality(Users) + 1) /\ \A u \in Users : ~(u < next)
    BY <1>1, <2>3
  <2>5. WrappersCounted
    BY <1>1, <1>2, <2>2, <2>3, <2>4 DEF WrappersCounted
  <2> QED
    BY <2>1, <2>5 DEF JoinInv
<1>8. ReferencesCounted
  <2>1. Referring = Users /\ Cardinality(Users) \in Nat
    BY <1>2, TaskNames DEF Referring
  <2> QED
    BY <1>1, <2>1 DEF ReferencesCounted
<1>9. ResultsKept
  BY <1>1, <1>2, TaskNames DEF ResultsKept
<1> QED
  BY <1>3, <1>5, <1>6, <1>7, <1>8, <1>9 DEF TaskInv

LEMMA TaskStepKeeps ==
  ASSUME UserAssumption, TaskInv, NEW t \in Threads, NEW u \in Users, TaskStep(t, u),
         UNCHANGED <<waitVars, holds>>
  PROVE  TaskInv'
<1>1. CASE /\ IsReady(t, u) \/ Load(t, u) \/ Start(t, u) \/ Enqueue(t, u)
           /\ UNCHANGED allVars
  BY <1>1, IsReadyStep, LoadStep, StartIt, StartBySomebodyElse, EnqueueStep
<1>2. CASE AwaitTask(t, u) \/ TrySetContinuation(t, u) \/ Finish(t, u) \/ NotifyCompleted(t, u)
  BY <1>2, AwaitTaskStep, TrySetContinuationStep, FinishStep, NotifyCompletedStep
<1>3. CASE Operation(t, u) \/ SharedResult(t, u) \/ Release(t, u)
  BY <1>3, OperationStep, SharedResultStep, ReleaseStep
<1> QED
  BY <1>1, <1>2, <1>3 DEF TaskStep

LEMMA SharedStepKeeps ==
  ASSUME UserAssumption, TaskInv, NEW t \in Threads, SharedStep(t), UNCHANGED <<waitVars, holds>>
  PROVE  TaskInv'
<1>1. UNCHANGED <<allVars, waitVars, holds>>
  BY DEF SharedStep
<1>2. CASE Begin(t)
  BY <1>1, <1>2, BeginStep
<1>3. CASE Complete(t)
  BY <1>1, <1>3, OutcomeStep, AnnounceStep
<1>4. CASE ResumeWaiter(t)
  BY <1>1, <1>4, ResumeWaiterStep
<1> QED
  BY <1>2, <1>3, <1>4 DEF SharedStep

LEMMA RunKeeps ==
  ASSUME UserAssumption, TaskInv, NEW t \in Threads, Run(t)
  PROVE  TaskInv'
<1>1. CASE (\E u \in Users : TaskStep(t, u)) /\ UNCHANGED <<waitVars, holds>>
  BY <1>1, TaskStepKeeps
<1>2. CASE SharedStep(t) /\ UNCHANGED <<waitVars, holds>>
  BY <1>2, SharedStepKeeps
<1>3. CASE (StartNext(t) \/ TryAwait(t)) /\ UNCHANGED <<waitVars, holds>>
  BY <1>3, StartNextStep, TryAwaitStep
<1>4. CASE (Set(t) \/ WakeAll(t)) /\ UNCHANGED holds
  BY <1>4, SetEventStep, WakeAllStep
<1> QED
  BY <1>1, <1>2, <1>3, <1>4 DEF Run

LEMMA TaskStutters == ASSUME TaskInv, UNCHANGED taskVars PROVE TaskInv'
<1>1. TasksScheduled' /\ TaskTypes'
  BY DEF taskVars, stackVars, sharedVars, allVars, waitVars, TaskInv, TasksScheduled, TaskTypes, TaskLabels
<1>2. SharedInv'
  BY DEF taskVars, stackVars, sharedVars, TaskInv, SharedInv, SharedPhases, WaitersQueued, AwaitersKnow,
         SomebodyWaits, Awaiting
<1>3. JoinInv'
  BY DEF taskVars, stackVars, allVars, waitVars, TaskInv, JoinInv, TasksWrapped, WrappersCounted, MainWaits,
         Pending
<1>4. ReferencesCounted' /\ ResultsKept'
  BY DEF taskVars, stackVars, sharedVars, allVars, TaskInv, ReferencesCounted, Referring, ResultsKept
<1> QED
  BY <1>1, <1>2, <1>3, <1>4 DEF TaskInv

LEMMA TaskNextInv == UserAssumption /\ TaskInv /\ [TaskNext]_taskVars => TaskInv'
<1> SUFFICES ASSUME UserAssumption, TaskInv, [TaskNext]_taskVars PROVE TaskInv'
  OBVIOUS
<1>1. CASE \E t \in Threads : Run(t)
  BY <1>1, RunKeeps
<1>2. CASE \E u \in Users : Completes(u)
  BY <1>2, TaskOperationDone
<1>3. CASE SharedCompletes
  BY <1>3, ContinueStep
<1>4. CASE MainStep \/ (SpuriousWakeUp /\ UNCHANGED holds)
  BY <1>4, MainStepKeeps
<1>5. CASE Drop
  BY <1>5, DropStep
<1>6. CASE UNCHANGED taskVars
  BY <1>6, TaskStutters
<1> QED
  BY <1>1, <1>2, <1>3, <1>4, <1>5, <1>6 DEF TaskNext

\* For every number of tasks, on any threads: the nine parts of the invariant
\* hold throughout (shared_task.hpp:98-232, when_all_counter.hpp:22-47,
\* task.hpp:57-131, sync_wait_task.hpp:24-47).
THEOREM TasksAreConsistent == UserAssumption => (TaskSpec => []TaskInv)
<1> SUFFICES ASSUME UserAssumption PROVE TaskSpec => []TaskInv
  OBVIOUS
<1>1. TaskInit => TaskInv
  BY TaskInitInv
<1>2. TaskInv /\ [TaskNext]_taskVars => TaskInv'
  BY TaskNextInv
<1> QED
  BY <1>1, <1>2, PTL DEF TaskSpec

\* For every number of tasks: a coroutine that runs is on one thread, and one
\* that is suspended on none, so that no completion that races a suspension
\* resumes it twice (task.hpp:57-131, shared_task.hpp:131-232).
THEOREM TasksRunOnce == UserAssumption => (TaskSpec => []OneActivation)
<1> SUFFICES ASSUME UserAssumption PROVE TaskSpec => []OneActivation
  OBVIOUS
<1>1. TaskInv => OneActivation
  <2> SUFFICES ASSUME TaskInv, NEW c \in Coros
               PROVE  Activations(c) = IF at[c] \in Suspensions THEN 0 ELSE 1
    BY DEF OneActivation
  <2>1. IsFiniteSet(Coros) /\ Scheduled(Threads, Coros, TaskPlaces, Suspensions, stack, at)
    BY FiniteCoros DEF TaskInv, TasksScheduled
  <2>2. PICK P : P = {p \in Threads \X (1..Cardinality(Coros)) :
                        p[2] <= Len(stack[p[1]]) /\ stack[p[1]][p[2]] = c}
    OBVIOUS
  <2>3. \A p : p \in P <=> /\ p \in Threads \X (1..Cardinality(Coros))
                          /\ p[2] <= Len(stack[p[1]]) /\ stack[p[1]][p[2]] = c
    BY <2>2
  <2>4. Cardinality(P) = IF at[c] \in Suspensions THEN 0 ELSE 1
    BY <2>1, <2>3, RunsOnce
  <2> QED
    BY <2>2, <2>4 DEF Activations
<1>2. TaskSpec => []TaskInv
  BY TasksAreConsistent
<1> QED
  BY <1>1, <1>2, PTL

\* When the parent has the results, nothing but the parent runs any more.
LEMMA AllTasksAreDone ==
  ASSUME UserAssumption, TaskInv, at[Parent] \in {"results", "wake", "done"}
  PROVE  /\ \A u \in Users : at[Wrapper(u)] = "done" /\ at[User(u)] = "done"
         /\ at[Body] \in {"created", "done"}
<1>1. \A u \in Users : at[Wrapper(u)] = "done"
  BY DEF TaskInv, JoinInv, WrappersCounted, Pending
<1>2. \A u \in Users : at[User(u)] = "done"
  BY <1>1 DEF TaskInv, JoinInv, TasksWrapped
<1>3. at[Body] # "walk"
  <2> SUFFICES ASSUME at[Body] = "walk" PROVE FALSE
    OBVIOUS
  <2>1. walk # <<>> /\ walk \in Seq(Users) /\ Once(walk)
    BY DEF TaskInv, TaskTypes, SharedInv, SharedPhases, WaitersQueued
  <2>2. Head(walk) \in Users /\ Has(walk, Head(walk))
    BY <2>1, TailHas
  <2>3. at[User(Head(walk))] = "queued"
    BY <2>2 DEF TaskInv, SharedInv, WaitersQueued
  <2> QED
    BY <1>2, <2>2, <2>3
<1>4. at[Body] \in BodyAt /\ at[Body] \notin {"begin", "operation", "complete"}
  BY <1>2 DEF TaskInv, TaskTypes, TaskLabels, SharedInv, SomebodyWaits, Awaiting
<1> QED
  BY <1>1, <1>2, <1>3, <1>4 DEF BodyAt

\* For every number of tasks: nobody uses the frame of the shared task after
\* its last reference is gone, and sync_wait returns when no thread is left in
\* what it destroys (shared_task.hpp:98-129, sync_wait_task.hpp:24-47).
THEOREM FramesOutlive == UserAssumption => (TaskSpec => []FramesOutliveUsers)
<1> SUFFICES ASSUME UserAssumption PROVE TaskSpec => []FramesOutliveUsers
  OBVIOUS
<1>1. TaskInv => FramesOutliveUsers
  <2> SUFFICES ASSUME TaskInv PROVE FramesOutliveUsers
    OBVIOUS
  <2>1. ASSUME Destroyed
        PROVE  /\ \A t \in Threads : ~UsesShared(t)
               /\ \A u \in Users : at[User(u)] # "queued"
               /\ at[Body] # "operation"
    <3>1. Referring = {}
      <4>1. IsFiniteSet(Referring)
        BY TaskNames, FS_Subset DEF Referring
      <4>2. Cardinality(Referring) \in Nat /\ (Cardinality(Referring) = 0 <=> Referring = {})
        BY <4>1, FS_CardinalityType, FS_EmptySet
      <4> QED
        BY <2>1, <4>2 DEF Destroyed, TaskInv, ReferencesCounted
    <3>2. \A u \in Users : at[User(u)] \in {"finish", "done"}
      BY <3>1 DEF Referring
    <3>3. at[Body] \notin {"begin", "operation", "complete"}
      BY <3>2 DEF TaskInv, SharedInv, SomebodyWaits, Awaiting
    <3>4. ASSUME NEW t \in Threads PROVE ~UsesShared(t)
      BY <3>2, <3>3 DEF UsesShared, Top
    <3> QED
      BY <3>2, <3>3, <3>4
  <2>2. ASSUME mainAt = "returned", NEW t \in Threads
        PROVE  stack[t] \in {<<>>, <<Parent>>} /\ ~Top(t, Parent, "results")
    <3>1. at[Parent] \in {"wake", "done"}
      BY <2>2 DEF TaskInv, JoinInv, MainWaits
    <3>2. \A c \in Coros : c # Parent => at[c] \in Suspensions
      <4>1. {"created", "done"} \subseteq Suspensions
        BY DEF Suspensions
      <4> QED
        BY <3>1, <4>1, AllTasksAreDone, TaskNames
    <3>3. stack[t] \in Seq(Coros) /\ Once(stack[t]) /\ \A c \in Coros : Has(stack[t], c) => c = Parent
      BY <3>2 DEF TaskInv, TasksScheduled, Scheduled, OnceInAll, OnSome
    <3>4. \A i \in 1..Len(stack[t]) : stack[t][i] = Parent
      BY <3>3 DEF Has
    <3>5. CASE stack[t] = <<>>
      BY <3>5 DEF Top
    <3>6. CASE stack[t] # <<>>
      <4>1. Len(stack[t]) \in Nat \ {0} /\ ~(Len(stack[t]) >= 2)
        <5>1. Len(stack[t]) \in Nat \ {0}
          BY <3>3, <3>6
        <5>2. ASSUME Len(stack[t]) >= 2 PROVE FALSE
          <6>1. 1 \in 1..Len(stack[t]) /\ 2 \in 1..Len(stack[t])
            BY <5>1, <5>2
          <6>2. stack[t][1] = stack[t][2]
            BY <3>4, <6>1
          <6> QED
            BY <3>3, <6>1, <6>2 DEF Once
        <5> QED
          BY <5>1, <5>2
      <4>2. Len(stack[t]) = 1
        <5>1. \A n \in Nat : n # 0 /\ ~(n >= 2) => n = 1
          OBVIOUS
        <5> QED
          BY <4>1, <5>1
      <4>3. stack[t] = <<Parent>>
        BY <3>3, <3>4, <4>2
      <4> QED
        BY <3>1, <4>3 DEF Top
    <3> QED
      BY <3>5, <3>6
  <2> QED
    BY <2>1, <2>2 DEF FramesOutliveUsers
<1>2. TaskSpec => []TaskInv
  BY TasksAreConsistent
<1> QED
  BY <1>1, <1>2, PTL

\* For every number of tasks: the parent of when_all goes on with all the
\* results there, and those of the tasks that awaited the shared one agree
\* with its own (when_all_counter.hpp:22-47, when_all_task.hpp:154-189).
THEOREM ResultsAreThere == UserAssumption => (TaskSpec => []ParentFindsTheResults)
<1> SUFFICES ASSUME UserAssumption PROVE TaskSpec => []ParentFindsTheResults
  OBVIOUS
<1>1. TaskInv => ParentFindsTheResults
  <2> SUFFICES ASSUME TaskInv, at[Parent] \in {"results", "wake", "done"}, NEW u \in Users
               PROVE  /\ at[User(u)] = "done" /\ result[u] # NoResult
                      /\ result[u] = "value" => outcome = "value"
    BY DEF ParentFindsTheResults
  <2>1. at[User(u)] = "done"
    BY AllTasksAreDone
  <2> QED
    BY <2>1 DEF TaskInv, ResultsKept
<1>2. TaskSpec => []TaskInv
  BY TasksAreConsistent
<1> QED
  BY <1>1, <1>2, PTL

-----------------------------------------------------------------------------
(* Cancellation.                                                           *)

InConstructor == {"check", "allocate", "add", "recheck", "inline", "drop"}
InDestructor == {"deregister", "wait", "release"}
Stages == {"none", "constructing", "registered", "unregistered", "destroying", "destroyed"}

Types ==
    /\ requested \in BOOLEAN /\ complete \in BOOLEAN /\ allocated \in BOOLEAN
    /\ slots \in [1..ListCount -> Seq(Registrations \cup {Empty})]
    /\ reg \in [Registrations -> Stages]
    /\ entry \in [Registrations -> Nat \X Nat]
    /\ pc \in [Callers -> {"idle"} \cup InConstructor \cup InDestructor]
    /\ arg \in [Callers -> Registrations \cup {Empty}]
    /\ notifier \in Callers \cup {NoThread}
    /\ notificationThread \in Callers \cup {NoThread}
    /\ phase \in {"none", "load", "scan", "callback", "over"}
    /\ cursor \in Nat \X Nat
    /\ running \in Registrations \cup {Empty}
    /\ executed \in [Registrations -> 0..1]

\* The callback of r is in the slot that r keeps as its entry.
HasSlot(r) ==
    /\ entry[r][1] \in 1..ListCount
    /\ entry[r][2] \in 1..Len(slots[entry[r][1]])
Listed(r) == HasSlot(r) /\ Slot(r) = r

\* It is in no other slot.
SlotsAreEntries == \A l \in 1..ListCount : \A i \in 1..Len(slots[l]) :
    slots[l][i] # Empty => entry[slots[l][i]] = <<l, i>>

\* A call has a registration of its own.
OneCallEach ==
    /\ \A t \in Callers : pc[t] # "idle" =>
          /\ arg[t] \in Registrations
          /\ reg[arg[t]] = IF pc[t] \in InConstructor THEN "constructing" ELSE "destroying"
    /\ \A t, u \in Callers : pc[t] # "idle" /\ pc[u] # "idle" /\ arg[t] = arg[u] => t = u

\* A callback is in its slot or was called while somebody may still look for
\* it there, and in no slot before and after.
ListedWhileWaiting(r) ==
    /\ Listed(r) => executed[r] = 0 /\ reg[r] \in {"constructing", "registered", "destroying"}
    /\ reg[r] = "none" => executed[r] = 0
    /\ reg[r] = "registered" => HasSlot(r) /\ (Listed(r) \/ executed[r] = 1)
LookedForInCall(t) ==
    /\ pc[t] \in {"check", "allocate", "add", "inline"} => executed[arg[t]] = 0
    /\ pc[t] # "idle" => IF pc[t] \in {"recheck", "deregister"}
                         THEN HasSlot(arg[t]) /\ (Listed(arg[t]) \/ executed[arg[t]] = 1)
                         ELSE ~Listed(arg[t])
WhereCallbacksAre ==
    /\ \A r \in Registrations : ListedWhileWaiting(r)
    /\ \A t \in Callers : LookedForInCall(t)

\* The thread that requested cancellation, and what it runs.
OneNotification ==
    /\ requested <=> phase # "none"
    /\ cursor[1] >= 1 /\ cursor[2] >= 1
    /\ phase \in {"none", "load"} => cursor = <<1, 1>>
    /\ complete => phase = "over"
    /\ ~requested => notificationThread = NoThread
    /\ notificationThread \in {NoThread, notifier}
    /\ running # Empty => phase = "callback" /\ executed[running] = 1
    /\ \A t \in Callers : pc[t] = "release" /\ running = arg[t] => t = notifier

\* The scan has passed the place p, or there is none to come.
Behind(p) ==
    \/ phase = "over"
    \/ /\ phase \in {"scan", "callback"}
       /\ \/ p[1] < cursor[1]
          \/ p[1] = cursor[1] /\ p[2] < cursor[2]
          \/ phase = "callback" /\ p = cursor

\* What the scan left behind in a slot came later, and its constructor or
\* destructor has still to look at it.
NothingLeftBehind ==
    /\ \A r \in Registrations : Listed(r) /\ Behind(entry[r]) => reg[r] # "registered"
    /\ ~allocated => \A r \in Registrations : ~Listed(r)
    /\ \A t \in Callers : pc[t] = "add" => allocated

IInv == /\ Types /\ SlotsAreEntries /\ OneCallEach /\ WhereCallbacksAre
        /\ OneNotification /\ NothingLeftBehind

-----------------------------------------------------------------------------
(* What the steps do to the slots.                                         *)

\* The callbacks stay where they are; or those of all but r do.
SlotsKept ==
    /\ SlotsAreEntries'
    /\ \A q \in Registrations : (Listed(q)' <=> Listed(q)) /\ (HasSlot(q) => HasSlot(q)')
OthersKept(r) ==
    /\ SlotsAreEntries'
    /\ \A q \in Registrations :
          /\ HasSlot(q) => HasSlot(q)'
          /\ q # r => (Listed(q)' <=> Listed(q)) /\ entry'[q] = entry[q]

LEMMA SameSlots ==
  ASSUME SlotsAreEntries, slots' = slots, entry' = entry
  PROVE  SlotsKept
BY DEF SlotsKept, SlotsAreEntries, Listed, HasSlot, Slot

\* Whoever empties a slot takes one callback and leaves the others alone.
LEMMA SlotEmptied ==
  ASSUME Types, SlotsAreEntries, NEW r \in Registrations, Listed(r),
         EmptySlot(r), entry' = entry
  PROVE  /\ slots' \in [1..ListCount -> Seq(Registrations \cup {Empty})]
         /\ ~Listed(r)' /\ OthersKept(r)
<1> DEFINE l == entry[r][1]
           i == entry[r][2]
<1>1. /\ l \in 1..ListCount /\ i \in 1..Len(slots[l]) /\ slots[l][i] = r
      /\ slots[l] \in Seq(Registrations \cup {Empty})
  BY DEF Listed, HasSlot, Slot, Types
<1>2. /\ slots' = [slots EXCEPT ![l] = [slots[l] EXCEPT ![i] = Empty]]
      /\ [slots[l] EXCEPT ![i] = Empty] \in Seq(Registrations \cup {Empty})
      /\ Len([slots[l] EXCEPT ![i] = Empty]) = Len(slots[l])
      /\ \A j \in 1..Len(slots[l]) :
            [slots[l] EXCEPT ![i] = Empty][j] = IF j = i THEN Empty ELSE slots[l][j]
  BY <1>1 DEF EmptySlot
<1> HIDE DEF l, i
<1>3. /\ slots' \in [1..ListCount -> Seq(Registrations \cup {Empty})]
      /\ \A k \in 1..ListCount : Len(slots'[k]) = Len(slots[k])
      /\ \A k \in 1..ListCount : \A j \in 1..Len(slots[k]) :
            slots'[k][j] = IF k = l /\ j = i THEN Empty ELSE slots[k][j]
  BY <1>1, <1>2 DEF Types
<1>4. SlotsAreEntries'
  BY <1>3 DEF SlotsAreEntries
<1>5. ~Listed(r)'
  BY <1>1, <1>3, ThreadAssumption DEF Listed, HasSlot, Slot, l, i
<1>6. ASSUME NEW q \in Registrations \ {r} PROVE Listed(q)' <=> Listed(q)
  <2> DEFINE k == entry[q][1]
             j == entry[q][2]
  <2>1. k \in 1..ListCount /\ j \in 1..Len(slots[k]) =>
          /\ Len(slots'[k]) = Len(slots[k])
          /\ slots'[k][j] = q <=> slots[k][j] = q
    BY SMTT(60), <1>1, <1>3, ThreadAssumption
  <2>2. k \in 1..ListCount => Len(slots'[k]) = Len(slots[k])
    BY <1>3
  <2> QED
    BY <2>1, <2>2 DEF Listed, HasSlot, Slot
<1>7. ASSUME NEW q \in Registrations, HasSlot(q) PROVE HasSlot(q)'
  BY <1>3, <1>7 DEF HasSlot
<1> QED
  BY <1>3, <1>4, <1>5, <1>6, <1>7 DEF OthersKept

\* The callback of r is put in the i-th slot of list l, which is free or new.
Fills(r, l, i) ==
    /\ i \in Nat \ {0}
    /\ entry' = [entry EXCEPT ![r] = <<l, i>>]
    /\ slots' \in [1..ListCount -> Seq(Registrations \cup {Empty})]
    /\ \A k \in 1..ListCount : k # l => slots'[k] = slots[k]
    /\ i <= Len(slots'[l]) /\ Len(slots[l]) <= Len(slots'[l])
    /\ slots'[l][i] = r
    /\ i <= Len(slots[l]) => slots[l][i] = Empty
    /\ \A j \in 1..Len(slots'[l]) : j # i =>
          slots'[l][j] = IF j <= Len(slots[l]) THEN slots[l][j] ELSE Empty

LEMMA AListHasLength ==
  ASSUME Types, NEW l \in 1..ListCount
  PROVE  /\ slots[l] \in Seq(Registrations \cup {Empty})
         /\ Len(slots[l]) \in Nat
         /\ \A i \in 1..Len(slots[l]) : slots[l][i] \in Registrations \cup {Empty}
<1>1. slots \in [1..ListCount -> Seq(Registrations \cup {Empty})]
  BY DEF Types
<1>2. slots[l] \in Seq(Registrations \cup {Empty})
  BY <1>1
<1> QED
  BY <1>2

LEMMA ConstructorFills ==
  ASSUME Types, NEW t \in Callers, NEW r \in Registrations, NEW l, r = arg[t], l = ListOf[t],
         AddRegistration(t)
  PROVE  l \in 1..ListCount /\ \E i \in Nat : Fills(r, l, i)
<1> DEFINE All == Registrations \cup {Empty}
<1>1. l \in 1..ListCount /\ ChunkSize \in Nat \ {0} /\ slots \in [1..ListCount -> Seq(All)]
  BY ListAssumption, SizeAssumption DEF Types
<1>2. slots[l] \in Seq(All) /\ Len(slots[l]) \in Nat
  BY <1>1
<1>3. ASSUME NEW i \in 1..Len(slots[l]), slots[l][i] = Empty,
             slots' = [slots EXCEPT ![l][i] = r], entry' = [entry EXCEPT ![r] = <<l, i>>]
      PROVE  Fills(r, l, i)
  <2>1. /\ slots' = [slots EXCEPT ![l] = [slots[l] EXCEPT ![i] = r]]
        /\ [slots[l] EXCEPT ![i] = r] \in Seq(All)
        /\ Len([slots[l] EXCEPT ![i] = r]) = Len(slots[l])
        /\ \A j \in 1..Len(slots[l]) :
             [slots[l] EXCEPT ![i] = r][j] = IF j = i THEN r ELSE slots[l][j]
    BY <1>2, <1>3
  <2>2. /\ slots' \in [1..ListCount -> Seq(All)]
        /\ slots'[l] = [slots[l] EXCEPT ![i] = r]
        /\ \A k \in 1..ListCount : k # l => slots'[k] = slots[k]
    BY <1>1, <2>1
  <2> QED
    BY <1>2, <1>3, <2>1, <2>2 DEF Fills
<1>4. ASSUME slots' = [slots EXCEPT ![l] = @ \o NewChunk(r)],
             entry' = [entry EXCEPT ![r] = <<l, Len(slots[l]) + 1>>]
      PROVE  Fills(r, l, Len(slots[l]) + 1)
  <2>1. /\ NewChunk(r) \in Seq(All) /\ Len(NewChunk(r)) = ChunkSize
        /\ \A j \in 1..ChunkSize : NewChunk(r)[j] = IF j = 1 THEN r ELSE Empty
    BY <1>1 DEF NewChunk
  <2>2. /\ slots[l] \o NewChunk(r) \in Seq(All)
        /\ Len(slots[l] \o NewChunk(r)) = Len(slots[l]) + ChunkSize
        /\ \A j \in 1..(Len(slots[l]) + ChunkSize) : (slots[l] \o NewChunk(r))[j] =
              IF j <= Len(slots[l]) THEN slots[l][j] ELSE NewChunk(r)[j - Len(slots[l])]
    <3>1. ASSUME NEW s \in Seq(All), NEW u \in Seq(All), Len(u) = ChunkSize
          PROVE  /\ s \o u \in Seq(All)
                 /\ Len(s \o u) = Len(s) + ChunkSize
                 /\ \A j \in 1..(Len(s) + ChunkSize) :
                       (s \o u)[j] = IF j <= Len(s) THEN s[j] ELSE u[j - Len(s)]
      BY <3>1, ConcatProperties, Zenon
    <3> QED
      BY <1>2, <2>1, <3>1, Zenon
  <2>3. /\ slots'[l] = slots[l] \o NewChunk(r)
        /\ slots' \in [1..ListCount -> Seq(All)]
        /\ \A k \in 1..ListCount : k # l => slots'[k] = slots[k]
    BY <1>1, <1>4, <2>2
  <2>4. \A j \in 1..(Len(slots[l]) + ChunkSize) : slots'[l][j] =
           IF j <= Len(slots[l]) THEN slots[l][j]
           ELSE IF j = Len(slots[l]) + 1 THEN r ELSE Empty
    <3> SUFFICES ASSUME NEW j \in 1..(Len(slots[l]) + ChunkSize)
                 PROVE  slots'[l][j] = IF j <= Len(slots[l]) THEN slots[l][j]
                                       ELSE IF j = Len(slots[l]) + 1 THEN r ELSE Empty
      OBVIOUS
    <3>1. CASE j <= Len(slots[l])
      BY <3>1, <2>2, <2>3
    <3>2. CASE ~(j <= Len(slots[l]))
      <4>1. slots'[l][j] = NewChunk(r)[j - Len(slots[l])]
        BY <3>2, <2>2, <2>3
      <4>2. j - Len(slots[l]) \in 1..ChunkSize
        BY <3>2, <1>1, <1>2
      <4>3. NewChunk(r)[j - Len(slots[l])] = IF j - Len(slots[l]) = 1 THEN r ELSE Empty
        BY <4>2, <2>1, Zenon
      <4>4. j - Len(slots[l]) = 1 <=> j = Len(slots[l]) + 1
        BY <1>2
      <4> QED
        BY <3>2, <4>1, <4>3, <4>4, Zenon
    <3> QED
      BY <3>1, <3>2
  <2>5. Len(slots'[l]) = Len(slots[l]) + ChunkSize
    BY <2>2, <2>3
  <2> DEFINE n == Len(slots[l])
  <2>6. n + 1 \in Nat \ {0} /\ n + 1 <= Len(slots'[l]) /\ n <= Len(slots'[l])
    BY <1>1, <1>2, <2>5
  <2>7. slots'[l][n + 1] = r
    BY <1>1, <1>2, <2>4
  <2>8. \A j \in 1..Len(slots'[l]) : j # n + 1 =>
           slots'[l][j] = IF j <= n THEN slots[l][j] ELSE Empty
    BY <1>1, <1>2, <2>4, <2>5
  <2>9. ~(n + 1 <= n)
    BY <1>2
  <2> QED
    BY <1>4, <2>3, <2>6, <2>7, <2>8, <2>9, Zenon DEF Fills
<1>5. \/ \E i \in 1..Len(slots[l]) :
            /\ slots[l][i] = Empty
            /\ slots' = [slots EXCEPT ![l][i] = r]
            /\ entry' = [entry EXCEPT ![r] = <<l, i>>]
      \/ /\ slots' = [slots EXCEPT ![l] = @ \o NewChunk(r)]
         /\ entry' = [entry EXCEPT ![r] = <<l, Len(slots[l]) + 1>>]
  BY Zenon DEF AddRegistration
<1>6. Len(slots[l]) + 1 \in Nat /\ \A i \in 1..Len(slots[l]) : i \in Nat
  BY <1>2
<1> QED
  BY <1>1, <1>3, <1>4, <1>5, <1>6, Zenon

\* A constructor publishes one callback, and that in one slot.
LEMMA SlotFilled ==
  ASSUME Types, SlotsAreEntries, NEW r \in Registrations, ~Listed(r),
         NEW l \in 1..ListCount, NEW i \in Nat, Fills(r, l, i)
  PROVE  /\ slots' \in [1..ListCount -> Seq(Registrations \cup {Empty})]
         /\ entry' \in [Registrations -> Nat \X Nat]
         /\ Listed(r)' /\ OthersKept(r)
<1> DEFINE All == Registrations \cup {Empty}
<1>1. /\ entry' \in [Registrations -> Nat \X Nat]
      /\ entry'[r] = <<l, i>>
      /\ \A q \in Registrations : q # r => entry'[q] = entry[q]
  BY DEF Types, Fills
<1>2. \A k \in 1..ListCount : \A j \in 1..Len(slots[k]) : slots[k][j] # r
  <2> SUFFICES ASSUME NEW k \in 1..ListCount, NEW j \in 1..Len(slots[k]), slots[k][j] = r
               PROVE  FALSE
    OBVIOUS
  <2>1. entry[r] = <<k, j>>
    BY ThreadAssumption DEF SlotsAreEntries
  <2> QED
    BY <2>1 DEF Listed, HasSlot, Slot
<1>3. /\ slots' \in [1..ListCount -> Seq(All)]
      /\ \A k \in 1..ListCount : slots'[k] \in Seq(All) /\ Len(slots'[k]) \in Nat
  BY DEF Fills
<1>4. ASSUME NEW k \in 1..ListCount, NEW j \in 1..Len(slots'[k]), k # l \/ j # i
      PROVE  slots'[k][j] = IF j <= Len(slots[k]) THEN slots[k][j] ELSE Empty
  <2>1. CASE k = l
    BY <2>1, <1>4 DEF Fills
  <2>2. CASE k # l
    BY <2>2, <1>3 DEF Fills
  <2> QED
    BY <2>1, <2>2
<1>5. SlotsAreEntries'
  <2> SUFFICES ASSUME NEW k \in 1..ListCount, NEW j \in 1..Len(slots'[k]),
                      slots'[k][j] # Empty
               PROVE  entry'[slots'[k][j]] = <<k, j>>
    BY DEF SlotsAreEntries
  <2>1. CASE k = l /\ j = i
    BY <2>1, <1>1 DEF Fills
  <2>2. CASE k # l \/ j # i
    <3>1. j <= Len(slots[k]) /\ slots'[k][j] = slots[k][j]
      BY <2>2, <1>4
    <3>2. j \in 1..Len(slots[k])
      BY <3>1, <1>3, AListHasLength
    <3>3. slots[k][j] \in Registrations /\ slots[k][j] # r
      BY <3>1, <3>2, <1>2, AListHasLength
    <3> QED
      BY <3>1, <3>2, <3>3, <1>1 DEF SlotsAreEntries
  <2> QED
    BY <2>1, <2>2
<1>6. Listed(r)'
  BY <1>1, <1>3 DEF Listed, HasSlot, Slot, Fills
<1>7. ASSUME NEW q \in Registrations, q # r PROVE Listed(q)' <=> Listed(q)
  <2> DEFINE k == entry[q][1]
             j == entry[q][2]
  <2>1. entry'[q] = entry[q] /\ q # Empty
    BY <1>1, <1>7, ThreadAssumption
  <2>2. ASSUME k \in 1..ListCount, j \in 1..Len(slots[k]), slots[k][j] = q
        PROVE  j \in 1..Len(slots'[k]) /\ slots'[k][j] = q
    <3>0. Len(slots[k]) \in Nat /\ Len(slots'[k]) \in Nat
      BY <2>2, <1>3, AListHasLength
    <3>1. Len(slots[k]) \in Nat /\ Len(slots'[k]) \in Nat /\ Len(slots[k]) <= Len(slots'[k])
      BY <2>2, <3>0 DEF Fills
    <3>2. j \in 1..Len(slots'[k])
      BY <3>1, <2>2
    <3>3. k # l \/ j # i
      BY <2>1, <2>2, <3>1 DEF Fills
    <3> QED
      BY SMTT(60), <2>2, <3>1, <3>2, <3>3, <1>4
  <2>3. ASSUME k \in 1..ListCount, j \in 1..Len(slots'[k]), slots'[k][j] = q
        PROVE  j \in 1..Len(slots[k]) /\ slots[k][j] = q
    <3>1. k # l \/ j # i
      BY <2>3, <1>7 DEF Fills
    <3>2. slots'[k][j] = IF j <= Len(slots[k]) THEN slots[k][j] ELSE Empty
      BY <2>3, <3>1, <1>4
    <3>3. j <= Len(slots[k]) /\ slots[k][j] = q
      BY <2>1, <2>3, <3>2
    <3> QED
      BY <2>3, <3>3, <1>3, AListHasLength
  <2> QED
    BY <2>1, <2>2, <2>3 DEF Listed, HasSlot, Slot
<1>8. ASSUME NEW q \in Registrations, HasSlot(q) PROVE HasSlot(q)'
  <2>1. CASE q = r
    BY <2>1, <1>6 DEF Listed
  <2>2. CASE q # r
    <3> DEFINE k == entry[q][1]
    <3>1. k \in 1..ListCount /\ entry[q][2] \in 1..Len(slots[k]) /\ entry'[q] = entry[q]
      BY <2>2, <1>1, <1>8 DEF HasSlot
    <3>2. Len(slots[k]) \in Nat /\ Len(slots'[k]) \in Nat
      BY <3>1, <1>3, AListHasLength
    <3>3. CASE k = l
      BY <3>1, <3>2, <3>3 DEF Fills, HasSlot
    <3>4. CASE k # l
      <4>1. slots'[k] = slots[k]
        BY <3>1, <3>4 DEF Fills
      <4> QED
        BY <3>1, <4>1 DEF HasSlot
    <3> QED
      BY <3>3, <3>4
  <2> QED
    BY <2>1, <2>2
<1> QED
  BY <1>1, <1>3, <1>5, <1>6, <1>7, <1>8 DEF OthersKept

-----------------------------------------------------------------------------
(* The scan.                                                               *)

\* Places are compared component by component.
LEMMA PlacesArePairs ==
  ASSUME Types
  PROVE  /\ cursor[1] \in Nat /\ cursor[2] \in Nat /\ cursor = <<cursor[1], cursor[2]>>
         /\ \A r \in Registrations :
               /\ entry[r][1] \in Nat /\ entry[r][2] \in Nat
               /\ entry[r] = cursor <=> entry[r][1] = cursor[1] /\ entry[r][2] = cursor[2]
<1>1. cursor \in Nat \X Nat /\ entry \in [Registrations -> Nat \X Nat]
  BY DEF Types
<1>2. \A p, q \in Nat \X Nat :
        /\ p[1] \in Nat /\ p[2] \in Nat /\ p = <<p[1], p[2]>>
        /\ p = q <=> p[1] = q[1] /\ p[2] = q[2]
  OBVIOUS
<1> QED
  BY <1>1, <1>2

LEMMA NextSlotType ==
  ASSUME Types
  PROVE  /\ NextSlot \in Nat \X Nat
         /\ cursor[1] >= 1 /\ cursor[2] >= 1 => NextSlot[1] >= 1 /\ NextSlot[2] >= 1
BY PlacesArePairs DEF NextSlot

\* Moving on, the scan passes no callback other than the one it looked at.
LEMMA ScanMovesOn ==
  ASSUME Types, entry' = entry, phase' = "scan", cursor' = NextSlot,
         NEW r \in Registrations, Listed(r), Behind(entry[r])',
         \/ phase = "callback"
         \/ phase = "scan" /\ (AtSlot => slots[cursor[1]][cursor[2]] # r)
  PROVE  Behind(entry[r])
<1> DEFINE p == entry[r]
<1>1. /\ p[1] \in 1..ListCount /\ p[2] \in 1..Len(slots[p[1]]) /\ slots[p[1]][p[2]] = r
      /\ Len(slots[p[1]]) \in Nat /\ ListCount \in Nat
  BY AListHasLength, ListAssumption DEF Listed, HasSlot, Slot
<1>2. \/ p[1] < NextSlot[1]
      \/ p[1] = NextSlot[1] /\ p[2] < NextSlot[2]
  BY DEF Behind
<1>3. \/ p[1] < cursor[1]
      \/ p[1] = cursor[1] /\ p[2] <= cursor[2]
  BY <1>1, <1>2, PlacesArePairs DEF NextSlot
<1>4. CASE p[1] = cursor[1] /\ p[2] = cursor[2] /\ phase = "scan"
  BY <1>1, <1>4, PlacesArePairs, ListAssumption DEF AtSlot
<1>5. CASE ~(p[1] = cursor[1] /\ p[2] = cursor[2])
  BY <1>3, <1>5, PlacesArePairs DEF Behind
<1>6. CASE p[1] = cursor[1] /\ p[2] = cursor[2] /\ phase = "callback"
  BY <1>6, PlacesArePairs DEF Behind
<1> QED
  BY <1>4, <1>5, <1>6

\* A step of thread t on the registration r leaves the others in order.
LEMMA OwnCallback ==
  ASSUME Types, OneCallEach, WhereCallbacksAre, NEW t \in Callers, NEW r \in Registrations,
         \A u \in Callers : u # t => pc'[u] = pc[u] /\ arg'[u] = arg[u],
         \A q \in Registrations : q # r => reg'[q] = reg[q] /\ executed'[q] = executed[q],
         SlotsKept \/ OthersKept(r),
         \A u \in Callers : u # t /\ pc[u] # "idle" => arg[u] # r,
         ListedWhileWaiting(r)', LookedForInCall(t)'
  PROVE  WhereCallbacksAre'
<1>1. ASSUME NEW q \in Registrations, q # r PROVE ListedWhileWaiting(q)'
  <2>1. ListedWhileWaiting(q) /\ reg'[q] = reg[q] /\ executed'[q] = executed[q]
    BY <1>1 DEF WhereCallbacksAre
  <2>2. (Listed(q)' <=> Listed(q)) /\ (HasSlot(q) => HasSlot(q)')
    BY <1>1 DEF SlotsKept, OthersKept
  <2> QED
    BY <2>1, <2>2 DEF ListedWhileWaiting
<1>2. ASSUME NEW u \in Callers, u # t PROVE LookedForInCall(u)'
  <2>1. CASE pc[u] = "idle"
    BY <2>1, <1>2 DEF LookedForInCall
  <2>2. CASE pc[u] # "idle"
    <3>1. PICK q \in Registrations : q = arg[u]
      BY <2>2 DEF OneCallEach
    <3>2. q # r /\ pc'[u] = pc[u] /\ arg'[u] = q
      BY <2>2, <1>2, <3>1
    <3>3. LookedForInCall(u) /\ executed'[q] = executed[q]
      BY <3>2 DEF WhereCallbacksAre
    <3>4. (Listed(q)' <=> Listed(q)) /\ (HasSlot(q) => HasSlot(q)')
      BY <3>2 DEF SlotsKept, OthersKept
    <3> QED
      BY <3>1, <3>2, <3>3, <3>4, <2>2 DEF LookedForInCall
  <2> QED
    BY <2>1, <2>2
<1> QED
  BY <1>1, <1>2 DEF WhereCallbacksAre

-----------------------------------------------------------------------------
(* The steps of the constructor and the destructor, and of a handle.       *)

LEMMA BeginRegisterStep ==
  ASSUME IInv, NEW t \in Callers, NEW r \in Registrations, BeginRegister(t, r)
  PROVE  IInv'
<1>1. Types'
  BY DEF IInv, Types, BeginRegister, Free, Proceed, lists, notification, InConstructor, Stages
<1>2. SlotsKept
  BY SameSlots DEF IInv, BeginRegister, Free, Proceed, lists, notification
<1>3. OneCallEach'
  BY DEF IInv, Types, OneCallEach, BeginRegister, Free, Proceed, lists, notification, InConstructor
<1>4. WhereCallbacksAre'
  BY <1>2
  DEF IInv, Types, OneCallEach, WhereCallbacksAre, ListedWhileWaiting, LookedForInCall,
      SlotsKept, BeginRegister, Free, Proceed, lists, notification
<1>5. OneNotification'
  BY DEF IInv, Types, OneNotification, BeginRegister, Free, Proceed, lists, notification
<1>6. NothingLeftBehind'
  BY <1>2
  DEF IInv, Types, NothingLeftBehind, SlotsKept, Behind, BeginRegister, Free, Proceed, lists,
      notification
<1> QED
  BY <1>1, <1>2, <1>3, <1>4, <1>5, <1>6 DEF IInv, SlotsKept

LEMMA CheckRequestedStep ==
  ASSUME IInv, NEW t \in Callers, CheckRequested(t)
  PROVE  IInv'
<1>1. Types'
  BY DEF IInv, Types, CheckRequested, Proceed, lists, notification, InConstructor
<1>2. SlotsKept
  BY SameSlots DEF IInv, CheckRequested, Proceed, lists, notification
<1>3. OneCallEach'
  BY DEF IInv, Types, OneCallEach, CheckRequested, Proceed, lists, notification, InConstructor
<1>4. WhereCallbacksAre'
  BY <1>2
  DEF IInv, Types, OneCallEach, WhereCallbacksAre, ListedWhileWaiting, LookedForInCall,
      SlotsKept, CheckRequested, Proceed, lists, notification
<1>5. OneNotification'
  BY DEF IInv, Types, OneNotification, CheckRequested, Proceed, lists, notification
<1>6. NothingLeftBehind'
  BY <1>2
  DEF IInv, Types, NothingLeftBehind, SlotsKept, Behind, CheckRequested, Proceed, lists,
      notification
<1> QED
  BY <1>1, <1>2, <1>3, <1>4, <1>5, <1>6 DEF IInv, SlotsKept

LEMMA AllocateStateStep ==
  ASSUME IInv, NEW t \in Callers, AllocateState(t)
  PROVE  IInv'
<1>1. Types'
  BY DEF IInv, Types, AllocateState, Proceed, notification, InConstructor
<1>2. SlotsKept
  BY SameSlots DEF IInv, AllocateState, Proceed, notification
<1>3. OneCallEach'
  BY DEF IInv, Types, OneCallEach, AllocateState, Proceed, notification, InConstructor
<1>4. WhereCallbacksAre'
  BY <1>2
  DEF IInv, Types, OneCallEach, WhereCallbacksAre, ListedWhileWaiting, LookedForInCall,
      SlotsKept, AllocateState, Proceed, notification
<1>5. OneNotification'
  BY DEF IInv, Types, OneNotification, AllocateState, Proceed, notification
<1>6. NothingLeftBehind'
  BY <1>2
  DEF IInv, Types, NothingLeftBehind, SlotsKept, Behind, AllocateState, Proceed, notification
<1> QED
  BY <1>1, <1>2, <1>3, <1>4, <1>5, <1>6 DEF IInv, SlotsKept

LEMMA CallInlineStep ==
  ASSUME IInv, NEW t \in Callers, CallInline(t)
  PROVE  IInv'
<1>0. arg[t] \in Registrations /\ executed[arg[t]] = 0
  BY DEF IInv, Types, OneCallEach, WhereCallbacksAre, ListedWhileWaiting, LookedForInCall,
     CallInline
<1>1. Types'
  BY <1>0 DEF IInv, Types, CallInline, Proceed, lists, notification, InConstructor
<1>2. SlotsKept
  BY SameSlots DEF IInv, CallInline, Proceed, lists, notification
<1>3. OneCallEach'
  BY DEF IInv, Types, OneCallEach, CallInline, Proceed, lists, notification, InConstructor
<1>4. WhereCallbacksAre'
  <2>1. /\ pc[t] = "inline" /\ pc'[t] = "drop" /\ arg' = arg /\ reg' = reg
        /\ \A u \in Callers : u # t => pc'[u] = pc[u]
        /\ \A q \in Registrations : q # arg[t] => executed'[q] = executed[q]
        /\ \A u \in Callers : u # t /\ pc[u] # "idle" => arg[u] # arg[t]
        /\ ~Listed(arg[t]) /\ reg[arg[t]] = "constructing"
    BY DEF IInv, Types, OneCallEach, WhereCallbacksAre, LookedForInCall, CallInline, Proceed,
       calls, InConstructor
  <2>2. ListedWhileWaiting(arg[t])' /\ LookedForInCall(t)'
    BY <1>0, <1>2, <2>1 DEF ListedWhileWaiting, LookedForInCall, SlotsKept
  <2> QED
    BY <1>0, <1>2, <2>1, <2>2, OwnCallback DEF IInv
<1>5. OneNotification'
  BY DEF IInv, Types, OneCallEach, WhereCallbacksAre, LookedForInCall, OneNotification,
     CallInline, Proceed, lists, notification
<1>6. NothingLeftBehind'
  BY <1>2
  DEF IInv, Types, NothingLeftBehind, SlotsKept, Behind, CallInline, Proceed, lists, notification
<1> QED
  BY <1>1, <1>2, <1>3, <1>4, <1>5, <1>6 DEF IInv, SlotsKept

LEMMA DropParameterStep ==
  ASSUME IInv, NEW t \in Callers, DropParameter(t)
  PROVE  IInv'
<1>1. Types'
  BY DEF IInv, Types, DropParameter, Proceed, lists, notification, InConstructor, Stages
<1>2. SlotsKept
  BY SameSlots DEF IInv, DropParameter, Proceed, lists, notification
<1>3. OneCallEach'
  BY DEF IInv, Types, OneCallEach, DropParameter, Proceed, lists, notification, InConstructor
<1>4. WhereCallbacksAre'
  <2>1. /\ pc[t] = "drop" /\ pc'[t] = "idle" /\ arg' = arg /\ executed' = executed
        /\ arg[t] \in Registrations /\ reg'[arg[t]] = "unregistered"
        /\ \A u \in Callers : u # t => pc'[u] = pc[u]
        /\ \A q \in Registrations : q # arg[t] => reg'[q] = reg[q]
        /\ \A u \in Callers : u # t /\ pc[u] # "idle" => arg[u] # arg[t]
        /\ ~Listed(arg[t])
    BY DEF IInv, Types, OneCallEach, WhereCallbacksAre, LookedForInCall, DropParameter, Proceed
  <2>2. ListedWhileWaiting(arg[t])' /\ LookedForInCall(t)'
    BY <1>2, <2>1 DEF ListedWhileWaiting, LookedForInCall, SlotsKept
  <2> QED
    BY <1>2, <2>1, <2>2, OwnCallback DEF IInv
<1>5. OneNotification'
  BY DEF IInv, Types, OneNotification, DropParameter, Proceed, lists, notification
<1>6. NothingLeftBehind'
  BY <1>2
  DEF IInv, Types, NothingLeftBehind, SlotsKept, Behind, DropParameter, Proceed, lists,
      notification
<1> QED
  BY <1>1, <1>2, <1>3, <1>4, <1>5, <1>6 DEF IInv, SlotsKept

LEMMA BeginDestroyStep ==
  ASSUME IInv, NEW t \in Callers, NEW r \in Registrations, BeginDestroy(t, r)
  PROVE  IInv'
<1>1. Types'
  BY DEF IInv, Types, BeginDestroy, Free, Proceed, lists, notification, InDestructor, Stages
<1>2. SlotsKept
  BY SameSlots DEF IInv, BeginDestroy, Free, Proceed, lists, notification
<1>3. OneCallEach'
  BY DEF IInv, Types, OneCallEach, BeginDestroy, Free, Proceed, lists, notification, InConstructor,
     InDestructor
<1>4. WhereCallbacksAre'
  <2>1. /\ pc[t] = "idle" /\ executed' = executed /\ arg'[t] = r
        /\ \A q \in Registrations : q # r => reg'[q] = reg[q]
        /\ \A u \in Callers : u # t => pc'[u] = pc[u] /\ arg'[u] = arg[u]
        /\ \A u \in Callers : pc[u] # "idle" => arg[u] # r
    BY DEF IInv, Types, OneCallEach, BeginDestroy, Free, Proceed
  <2>2. \/ reg[r] = "registered" /\ reg'[r] = "destroying" /\ pc'[t] = "deregister"
        \/ reg[r] = "unregistered" /\ reg'[r] = "destroyed" /\ pc'[t] = "idle"
    BY DEF IInv, Types, BeginDestroy, Free, Proceed
  <2>3. ListedWhileWaiting(r)
    BY DEF IInv, WhereCallbacksAre
  <2>4. ListedWhileWaiting(r)' /\ LookedForInCall(t)'
    BY <1>2, <2>1, <2>2, <2>3 DEF ListedWhileWaiting, LookedForInCall, SlotsKept
  <2> QED
    BY <1>2, <2>1, <2>4, OwnCallback DEF IInv
<1>5. OneNotification'
  BY DEF IInv, Types, OneNotification, BeginDestroy, Free, Proceed, lists, notification
<1>6. NothingLeftBehind'
  BY <1>2
  DEF IInv, Types, NothingLeftBehind, SlotsKept, Behind, BeginDestroy, Free, Proceed, lists,
      notification
<1> QED
  BY <1>1, <1>2, <1>3, <1>4, <1>5, <1>6 DEF IInv, SlotsKept

LEMMA WaitUntilCompleteStep ==
  ASSUME IInv, NEW t \in Callers, WaitUntilComplete(t)
  PROVE  IInv'
<1>1. Types'
  BY DEF IInv, Types, WaitUntilComplete, Proceed, lists, notification, InDestructor
<1>2. SlotsKept
  BY SameSlots DEF IInv, WaitUntilComplete, Proceed, lists, notification
<1>3. OneCallEach'
  BY DEF IInv, Types, OneCallEach, WaitUntilComplete, Proceed, lists, notification, InConstructor
<1>4. WhereCallbacksAre'
  BY <1>2
  DEF IInv, Types, OneCallEach, WhereCallbacksAre, ListedWhileWaiting, LookedForInCall,
      SlotsKept, WaitUntilComplete, Proceed, lists, notification
<1>5. OneNotification'
  BY ThreadAssumption
  DEF IInv, Types, OneCallEach, OneNotification, WaitUntilComplete, Proceed, lists, notification,
      InConstructor
<1>6. NothingLeftBehind'
  BY <1>2
  DEF IInv, Types, NothingLeftBehind, SlotsKept, Behind, WaitUntilComplete, Proceed, lists,
      notification
<1> QED
  BY <1>1, <1>2, <1>3, <1>4, <1>5, <1>6 DEF IInv, SlotsKept

LEMMA ReleaseRegistrationStep ==
  ASSUME IInv, NEW t \in Callers, ReleaseRegistration(t)
  PROVE  IInv'
<1>1. Types'
  BY DEF IInv, Types, ReleaseRegistration, Proceed, lists, notification, InDestructor, Stages
<1>2. SlotsKept
  BY SameSlots DEF IInv, ReleaseRegistration, Proceed, lists, notification
<1>3. OneCallEach'
  BY DEF IInv, Types, OneCallEach, ReleaseRegistration, Proceed, lists, notification, InConstructor
<1>4. WhereCallbacksAre'
  <2>1. /\ pc[t] = "release" /\ pc'[t] = "idle" /\ executed' = executed /\ arg' = arg
        /\ arg[t] \in Registrations /\ reg'[arg[t]] = "destroyed"
        /\ \A q \in Registrations : q # arg[t] => reg'[q] = reg[q]
        /\ \A u \in Callers : u # t => pc'[u] = pc[u]
    BY DEF IInv, Types, OneCallEach, ReleaseRegistration, Proceed
  <2>2. ~Listed(arg[t])
    BY <2>1 DEF IInv, WhereCallbacksAre, ListedWhileWaiting, LookedForInCall
  <2> QED
    BY <1>2, <2>1, <2>2
    DEF IInv, Types, OneCallEach, WhereCallbacksAre, ListedWhileWaiting, LookedForInCall,
        SlotsKept
<1>5. OneNotification'
  BY DEF IInv, Types, OneNotification, ReleaseRegistration, Proceed, lists, notification
<1>6. NothingLeftBehind'
  BY <1>2
  DEF IInv, Types, NothingLeftBehind, SlotsKept, Behind, ReleaseRegistration, Proceed, lists,
      notification
<1> QED
  BY <1>1, <1>2, <1>3, <1>4, <1>5, <1>6 DEF IInv, SlotsKept

LEMMA RequestCancellationStep ==
  ASSUME IInv, NEW t \in Callers, RequestCancellation(t)
  PROVE  IInv'
<1>1. Types'
  BY DEF IInv, Types, RequestCancellation, lists, calls
<1>2. SlotsKept
  BY SameSlots DEF IInv, RequestCancellation, lists, calls
<1>3. OneCallEach'
  BY DEF IInv, OneCallEach, RequestCancellation, lists, calls
<1>4. WhereCallbacksAre'
  BY <1>2
  DEF IInv, OneCallEach, WhereCallbacksAre, ListedWhileWaiting, LookedForInCall, SlotsKept,
      RequestCancellation, lists, calls
<1>5. OneNotification'
  BY ThreadAssumption
  DEF IInv, OneCallEach, OneNotification, RequestCancellation, notification, calls, lists
<1>6. NothingLeftBehind'
  BY <1>2 DEF IInv, NothingLeftBehind, SlotsKept, Behind, RequestCancellation, lists, calls
<1> QED
  BY <1>1, <1>2, <1>3, <1>4, <1>5, <1>6 DEF IInv, SlotsKept

LEMMA LoadRegistrationStateStep ==
  ASSUME IInv, LoadRegistrationState
  PROVE  IInv'
<1>1. Types'
  BY DEF IInv, Types, LoadRegistrationState, lists, calls
<1>2. SlotsKept
  BY SameSlots DEF IInv, LoadRegistrationState, lists, calls
<1>3. OneCallEach'
  BY DEF IInv, OneCallEach, LoadRegistrationState, lists, calls
<1>4. WhereCallbacksAre'
  BY <1>2
  DEF IInv, OneCallEach, WhereCallbacksAre, ListedWhileWaiting, LookedForInCall, SlotsKept,
      LoadRegistrationState, lists, calls
<1>5. OneNotification'
  BY DEF IInv, OneNotification, LoadRegistrationState, lists, calls
<1>6. NothingLeftBehind'
  <2>1. ASSUME NEW r \in Registrations, Listed(r), allocated PROVE ~Behind(entry[r])'
    <3>1. phase' = "scan" /\ cursor' = <<1, 1>> /\ entry' = entry
      BY <2>1 DEF IInv, OneNotification, LoadRegistrationState
    <3>2. entry[r][1] \in Nat /\ entry[r][2] \in Nat /\ entry[r][1] >= 1 /\ entry[r][2] >= 1
      BY <2>1, PlacesArePairs, AListHasLength, ListAssumption DEF IInv, Listed, HasSlot, Slot
    <3> QED
      BY <3>1, <3>2 DEF Behind
  <2> QED
    BY <1>2, <2>1 DEF IInv, NothingLeftBehind, SlotsKept, LoadRegistrationState, lists, calls
<1> QED
  BY <1>1, <1>2, <1>3, <1>4, <1>5, <1>6 DEF IInv, SlotsKept

LEMMA NotificationCompleteStep ==
  ASSUME IInv, NotificationComplete
  PROVE  IInv'
<1>1. Types'
  BY DEF IInv, Types, NotificationComplete, lists, calls
<1>2. SlotsKept
  BY SameSlots DEF IInv, NotificationComplete, lists, calls
<1>3. OneCallEach'
  BY DEF IInv, OneCallEach, NotificationComplete, lists, calls
<1>4. WhereCallbacksAre'
  BY <1>2
  DEF IInv, OneCallEach, WhereCallbacksAre, ListedWhileWaiting, LookedForInCall, SlotsKept,
      NotificationComplete, lists, calls
<1>5. OneNotification'
  BY DEF IInv, OneNotification, NotificationComplete, lists, calls
<1>6. NothingLeftBehind'
  <2>1. ASSUME NEW r \in Registrations, Listed(r) PROVE Behind(entry[r])
    BY <2>1, PlacesArePairs, ListAssumption
    DEF IInv, Listed, HasSlot, Slot, Behind, NotificationComplete
  <2> QED
    BY <1>2, <2>1 DEF IInv, NothingLeftBehind, SlotsKept, NotificationComplete, lists, calls
<1> QED
  BY <1>1, <1>2, <1>3, <1>4, <1>5, <1>6 DEF IInv, SlotsKept

LEMMA SkipSlotStep ==
  ASSUME IInv, SkipSlot
  PROVE  IInv'
<1>1. Types'
  BY NextSlotType DEF IInv, Types, SkipSlot, lists, calls
<1>2. SlotsKept
  BY SameSlots DEF IInv, SkipSlot, lists, calls
<1>3. OneCallEach'
  BY DEF IInv, OneCallEach, SkipSlot, lists, calls
<1>4. WhereCallbacksAre'
  BY <1>2
  DEF IInv, OneCallEach, WhereCallbacksAre, ListedWhileWaiting, LookedForInCall, SlotsKept,
      SkipSlot, lists, calls
<1>5. OneNotification'
  <2>1. cursor'[1] >= 1 /\ cursor'[2] >= 1
    BY NextSlotType DEF IInv, OneNotification, SkipSlot
  <2>2. phase' = "scan" /\ phase \in {"scan", "callback"} /\ (running' = running /\ phase = "scan")
        /\ UNCHANGED <<requested, complete, notifier, notificationThread, pc, arg, executed>>
    BY DEF SkipSlot, calls, notification
  <2> QED
    BY <2>1, <2>2, ThreadAssumption DEF IInv, OneCallEach, OneNotification
<1>6. NothingLeftBehind'
  <2>1. ASSUME NEW r \in Registrations, Listed(r), Behind(entry[r])' PROVE Behind(entry[r])
    <3>1. r # Empty /\ phase' = "scan" /\ phase = "scan" /\ cursor' = NextSlot /\ entry' = entry
      BY ThreadAssumption DEF SkipSlot, notification
    <3> QED
      BY <2>1, <3>1, ScanMovesOn DEF IInv, SkipSlot
  <2> QED
    BY <1>2, <2>1 DEF IInv, NothingLeftBehind, SlotsKept, SkipSlot, lists, calls
<1> QED
  BY <1>1, <1>2, <1>3, <1>4, <1>5, <1>6 DEF IInv, SlotsKept

LEMMA CallbackReturnsStep ==
  ASSUME IInv, CallbackReturns
  PROVE  IInv'
<1>1. Types'
  BY NextSlotType DEF IInv, Types, CallbackReturns, lists, calls
<1>2. SlotsKept
  BY SameSlots DEF IInv, CallbackReturns, lists, calls
<1>3. OneCallEach'
  BY DEF IInv, OneCallEach, CallbackReturns, lists, calls
<1>4. WhereCallbacksAre'
  BY <1>2
  DEF IInv, OneCallEach, WhereCallbacksAre, ListedWhileWaiting, LookedForInCall, SlotsKept,
      CallbackReturns, lists, calls
<1>5. OneNotification'
  <2>1. cursor'[1] >= 1 /\ cursor'[2] >= 1
    BY NextSlotType DEF IInv, OneNotification, CallbackReturns
  <2>2. phase' = "scan" /\ phase \in {"scan", "callback"} /\ running' = Empty
        /\ UNCHANGED <<requested, complete, notifier, notificationThread, pc, arg, executed>>
    BY DEF CallbackReturns, calls, notification
  <2> QED
    BY <2>1, <2>2, ThreadAssumption DEF IInv, OneCallEach, OneNotification
<1>6. NothingLeftBehind'
  <2>1. ASSUME NEW r \in Registrations, Listed(r), Behind(entry[r])' PROVE Behind(entry[r])
    BY <2>1, ScanMovesOn DEF IInv, CallbackReturns
  <2> QED
    BY <1>2, <2>1 DEF IInv, NothingLeftBehind, SlotsKept, CallbackReturns, lists, calls
<1> QED
  BY <1>1, <1>2, <1>3, <1>4, <1>5, <1>6 DEF IInv, SlotsKept

-----------------------------------------------------------------------------
(* The steps that put a callback in a slot or take one out.                *)

LEMMA AddRegistrationStep ==
  ASSUME IInv, NEW t \in Callers, AddRegistration(t)
  PROVE  IInv'
<1>0. pc[t] = "add" /\ arg[t] \in Registrations
  BY DEF IInv, OneCallEach, AddRegistration
<1> PICK r \in Registrations : r = arg[t]
  BY <1>0
<1>1. ~Listed(r) /\ executed[r] = 0 /\ reg[r] = "constructing" /\ allocated
  BY <1>0
  DEF IInv, OneCallEach, WhereCallbacksAre, LookedForInCall, NothingLeftBehind, InConstructor
<1>2. /\ pc' = [pc EXCEPT ![t] = "recheck"]
      /\ UNCHANGED <<requested, allocated, reg, arg, notification, executed>>
  BY DEF AddRegistration, Proceed
<1>3. /\ slots' \in [1..ListCount -> Seq(Registrations \cup {Empty})]
      /\ entry' \in [Registrations -> Nat \X Nat]
      /\ Listed(r)' /\ OthersKept(r)
  <2>1. PICK l \in 1..ListCount, i \in Nat : Fills(r, l, i)
    BY ConstructorFills DEF IInv
  <2> QED
    BY <1>1, <2>1, SlotFilled DEF IInv
<1>4. Types'
  BY <1>2, <1>3 DEF IInv, Types, notification, InConstructor
<1>5. OneCallEach'
  BY <1>0, <1>1, <1>2 DEF IInv, Types, OneCallEach, InConstructor
<1>6. WhereCallbacksAre'
  <2>1. /\ \A u \in Callers : u # t => pc'[u] = pc[u] /\ arg'[u] = arg[u]
        /\ \A u \in Callers : u # t /\ pc[u] # "idle" => arg[u] # r
        /\ pc'[t] = "recheck" /\ arg'[t] = r /\ executed'[r] = 0 /\ reg'[r] = "constructing"
    BY <1>0, <1>1, <1>2 DEF IInv, Types, OneCallEach
  <2>2. ListedWhileWaiting(r)' /\ LookedForInCall(t)'
    BY <1>3, <2>1 DEF ListedWhileWaiting, LookedForInCall, Listed
  <2> QED
    BY <1>2, <1>3, <2>1, <2>2, OwnCallback DEF IInv
<1>7. OneNotification'
  BY <1>2 DEF IInv, Types, OneNotification, notification
<1>8. NothingLeftBehind'
  BY <1>1, <1>2, <1>3 DEF IInv, Types, NothingLeftBehind, OthersKept, Behind, notification
<1> QED
  BY <1>3, <1>4, <1>5, <1>6, <1>7, <1>8 DEF IInv, OthersKept

LEMMA RecheckStep ==
  ASSUME IInv, NEW t \in Callers, Recheck(t)
  PROVE  IInv'
<1> DEFINE r == arg[t]
<1>1. /\ r \in Registrations /\ pc[t] = "recheck" /\ reg[r] = "constructing"
      /\ HasSlot(r) /\ (Listed(r) \/ executed[r] = 1)
  BY DEF IInv, OneCallEach, WhereCallbacksAre, ListedWhileWaiting, LookedForInCall, Recheck,
     InConstructor
<1>2. UNCHANGED <<requested, allocated, arg, entry, notification, executed>>
  BY DEF Recheck
<1>3. CASE requested /\ Slot(r) = r
  <2>1. /\ EmptySlot(r) /\ reg' = reg /\ pc' = [pc EXCEPT ![t] = "inline"] /\ Listed(r)
    BY <1>1, <1>3 DEF Recheck, Proceed, Listed
  <2>2. /\ slots' \in [1..ListCount -> Seq(Registrations \cup {Empty})]
        /\ ~Listed(r)' /\ OthersKept(r)
    BY <1>1, <1>2, <1>3, <2>1, SlotEmptied DEF IInv
  <2> HIDE DEF r
  <2>3. Types'
    BY <1>2, <2>1, <2>2 DEF IInv, Types, notification, InConstructor
  <2>4. OneCallEach'
    BY <1>1, <1>2, <2>1 DEF IInv, Types, OneCallEach, InConstructor
  <2>5. WhereCallbacksAre'
    BY <1>1, <1>2, <1>3, <2>1, <2>2
    DEF IInv, Types, OneCallEach, WhereCallbacksAre, ListedWhileWaiting, LookedForInCall,
        OthersKept, InConstructor, InDestructor, r
  <2>6. OneNotification'
    BY <1>2, <2>1 DEF IInv, Types, OneNotification, notification
  <2>7. NothingLeftBehind'
    BY <1>1, <1>2, <2>1, <2>2
    DEF IInv, Types, NothingLeftBehind, OthersKept, Behind, notification
  <2> QED
    BY <2>2, <2>3, <2>4, <2>5, <2>6, <2>7 DEF IInv, OthersKept
<1>4. CASE ~(requested /\ Slot(r) = r)
  <2>1. /\ slots' = slots /\ reg' = [reg EXCEPT ![r] = "registered"]
        /\ pc' = [pc EXCEPT ![t] = "idle"]
    BY <1>4 DEF Recheck, Proceed
  <2>2. SlotsKept
    BY <1>2, <2>1, SameSlots DEF IInv
  <2>3. Listed(r) => phase = "none"
    BY <1>4 DEF IInv, OneNotification, Listed
  <2> HIDE DEF r
  <2>4. Types'
    BY <1>1, <1>2, <2>1 DEF IInv, Types, notification, Stages
  <2>5. OneCallEach'
    BY <1>1, <1>2, <2>1 DEF IInv, Types, OneCallEach, r
  <2>6. WhereCallbacksAre'
    BY <1>1, <1>2, <2>1, <2>2
    DEF IInv, Types, OneCallEach, WhereCallbacksAre, ListedWhileWaiting, LookedForInCall,
        SlotsKept, InConstructor, InDestructor, r
  <2>7. OneNotification'
    BY <1>2, <2>1 DEF IInv, Types, OneNotification, notification
  <2>8. NothingLeftBehind'
    BY <1>1, <1>2, <2>1, <2>2, <2>3
    DEF IInv, Types, NothingLeftBehind, SlotsKept, Behind, notification
  <2> QED
    BY <2>2, <2>4, <2>5, <2>6, <2>7, <2>8 DEF IInv, SlotsKept
<1> QED
  BY <1>3, <1>4

LEMMA DeregisterStep ==
  ASSUME IInv, NEW t \in Callers, Deregister(t)
  PROVE  IInv'
<1> DEFINE r == arg[t]
<1>1. /\ r \in Registrations /\ pc[t] = "deregister" /\ reg[r] = "destroying"
      /\ HasSlot(r) /\ (Listed(r) \/ executed[r] = 1)
  BY DEF IInv, OneCallEach, WhereCallbacksAre, ListedWhileWaiting, LookedForInCall, Deregister,
     InConstructor
<1>2. UNCHANGED <<requested, allocated, reg, arg, entry, notification, executed>>
  BY DEF Deregister
<1>3. CASE Slot(r) = r
  <2>1. EmptySlot(r) /\ pc' = [pc EXCEPT ![t] = "release"] /\ Listed(r)
    BY <1>1, <1>3 DEF Deregister, Proceed, Listed
  <2>2. /\ slots' \in [1..ListCount -> Seq(Registrations \cup {Empty})]
        /\ ~Listed(r)' /\ OthersKept(r)
    BY <1>1, <1>2, <1>3, <2>1, SlotEmptied DEF IInv
  <2>3. running # r
    BY <1>1, <2>1, ThreadAssumption
    DEF IInv, OneNotification, WhereCallbacksAre, ListedWhileWaiting, LookedForInCall
  <2> HIDE DEF r
  <2>4. Types'
    BY <1>2, <2>1, <2>2 DEF IInv, Types, notification, InDestructor
  <2>5. OneCallEach'
    BY <1>1, <1>2, <2>1 DEF IInv, Types, OneCallEach, InConstructor
  <2>6. WhereCallbacksAre'
    BY <1>1, <1>2, <1>3, <2>1, <2>2
    DEF IInv, Types, OneCallEach, WhereCallbacksAre, ListedWhileWaiting, LookedForInCall,
        OthersKept, InConstructor, InDestructor, r
  <2>7. OneNotification'
    BY <1>2, <2>1, <2>3 DEF IInv, Types, OneNotification, notification, r
  <2>8. NothingLeftBehind'
    BY <1>1, <1>2, <2>1, <2>2
    DEF IInv, Types, NothingLeftBehind, OthersKept, Behind, notification
  <2> QED
    BY <2>2, <2>4, <2>5, <2>6, <2>7, <2>8 DEF IInv, OthersKept
<1>4. CASE Slot(r) # r
  <2>1. /\ slots' = slots
        /\ pc' = [pc EXCEPT ![t] = IF notificationThread = t THEN "release" ELSE "wait"]
        /\ ~Listed(r)
    BY <1>4 DEF Deregister, Proceed, Listed
  <2>2. SlotsKept
    BY <1>2, <2>1, SameSlots DEF IInv
  <2> HIDE DEF r
  <2>3. Types'
    BY <1>1, <1>2, <2>1 DEF IInv, Types, notification, InDestructor
  <2>4. OneCallEach'
    BY <1>1, <1>2, <2>1 DEF IInv, Types, OneCallEach, InConstructor
  <2>5. WhereCallbacksAre'
    BY <1>1, <1>2, <2>1, <2>2
    DEF IInv, Types, OneCallEach, WhereCallbacksAre, ListedWhileWaiting, LookedForInCall,
        SlotsKept, InConstructor, InDestructor, r
  <2>6. OneNotification'
    BY <1>2, <2>1, ThreadAssumption DEF IInv, Types, OneNotification, notification
  <2>7. NothingLeftBehind'
    BY <1>1, <1>2, <2>1, <2>2
    DEF IInv, Types, NothingLeftBehind, SlotsKept, Behind, notification
  <2> QED
    BY <2>2, <2>3, <2>4, <2>5, <2>6, <2>7 DEF IInv, SlotsKept
<1> QED
  BY <1>3, <1>4

LEMMA TakeCallbackStep ==
  ASSUME IInv, TakeCallback
  PROVE  IInv'
<1>0. /\ cursor[1] \in 1..ListCount /\ cursor[2] \in 1..Len(slots[cursor[1]]) /\ phase = "scan"
      /\ slots[cursor[1]][cursor[2]] # Empty
  <2>1. /\ phase = "scan" /\ cursor[1] <= ListCount /\ cursor[2] <= Len(slots[cursor[1]])
        /\ slots[cursor[1]][cursor[2]] # Empty
    BY DEF TakeCallback, AtSlot
  <2>2. cursor[1] \in Nat /\ cursor[2] \in Nat /\ cursor[1] >= 1 /\ cursor[2] >= 1
    BY PlacesArePairs DEF IInv, OneNotification
  <2>3. cursor[1] \in 1..ListCount
    BY <2>1, <2>2, ListAssumption
  <2> QED
    BY <2>1, <2>2, <2>3, AListHasLength DEF IInv
<1> PICK r \in Registrations : r = slots[cursor[1]][cursor[2]]
  BY <1>0, AListHasLength DEF IInv
<1>1. entry[r] = cursor /\ cursor = <<cursor[1], cursor[2]>> /\ Listed(r)
  BY <1>0, PlacesArePairs DEF IInv, SlotsAreEntries, Listed, HasSlot, Slot
<1>2. /\ executed[r] = 0 /\ reg[r] \in {"constructing", "registered", "destroying"}
      /\ \A t \in Callers : arg[t] = r /\ pc[t] # "idle" => pc[t] \in {"recheck", "deregister"}
  BY <1>1 DEF IInv, WhereCallbacksAre, ListedWhileWaiting, LookedForInCall
<1>3. /\ EmptySlot(r) /\ executed' = [executed EXCEPT ![r] = 1]
      /\ running' = r /\ phase' = "callback"
      /\ UNCHANGED <<requested, allocated, calls, entry, complete, notifier, notificationThread, cursor>>
  BY <1>0, <1>1, <1>2 DEF TakeCallback, EmptySlot
<1>4. /\ slots' \in [1..ListCount -> Seq(Registrations \cup {Empty})]
      /\ ~Listed(r)' /\ OthersKept(r)
  BY <1>1, <1>3, SlotEmptied DEF IInv
<1>5. Types'
  BY <1>3, <1>4 DEF IInv, Types, calls
<1>6. OneCallEach'
  BY <1>3 DEF IInv, OneCallEach, calls
<1>7. WhereCallbacksAre'
  <2>1. ASSUME NEW q \in Registrations PROVE ListedWhileWaiting(q)'
    <3>1. /\ ListedWhileWaiting(q) /\ reg'[q] = reg[q]
          /\ HasSlot(q) => HasSlot(q)'
          /\ q # r => (Listed(q)' <=> Listed(q)) /\ executed'[q] = executed[q]
          /\ executed'[r] = 1
      BY <1>3, <1>4 DEF IInv, Types, WhereCallbacksAre, OthersKept, calls
    <3> QED
      BY <1>1, <1>2, <1>4, <3>1 DEF ListedWhileWaiting, Listed
  <2>2. ASSUME NEW t \in Callers PROVE LookedForInCall(t)'
    <3>1. CASE pc[t] = "idle"
      BY <1>3, <3>1 DEF LookedForInCall, calls
    <3>2. CASE pc[t] # "idle"
      <4>1. PICK q \in Registrations : q = arg[t]
        BY <3>2 DEF IInv, OneCallEach
      <4>2. /\ LookedForInCall(t) /\ pc'[t] = pc[t] /\ arg'[t] = q
            /\ HasSlot(q) => HasSlot(q)'
            /\ q # r => (Listed(q)' <=> Listed(q)) /\ executed'[q] = executed[q]
            /\ executed'[r] = 1
        BY <1>3, <1>4, <4>1 DEF IInv, Types, WhereCallbacksAre, OthersKept, calls
      <4> QED
        BY <1>2, <1>4, <3>2, <4>1, <4>2 DEF LookedForInCall
    <3> QED
      BY <3>1, <3>2
  <2> QED
    BY <2>1, <2>2 DEF WhereCallbacksAre
<1>8. OneNotification'
  BY <1>0, <1>2, <1>3 DEF IInv, Types, OneNotification, calls
<1>9. NothingLeftBehind'
  <2>1. ASSUME NEW q \in Registrations, Listed(q)', Behind(entry[q])'
        PROVE  reg'[q] # "registered"
    <3>1. q # r /\ Listed(q) /\ entry'[q] = entry[q] /\ reg'[q] = reg[q]
      BY <1>3, <1>4, <2>1 DEF OthersKept, calls
    <3>2. entry[q] # cursor
      BY <3>1 DEF Listed, Slot
    <3>3. Behind(entry[q])
      BY <1>0, <1>3, <2>1, <3>1, <3>2 DEF Behind
    <3> QED
      BY <3>1, <3>3 DEF IInv, NothingLeftBehind
  <2>2. ~allocated' => \A q \in Registrations : ~Listed(q)'
    BY <1>3, <1>4 DEF IInv, NothingLeftBehind, OthersKept
  <2>3. \A t \in Callers : pc'[t] = "add" => allocated'
    BY <1>3 DEF IInv, NothingLeftBehind, calls
  <2> QED
    BY <2>1, <2>2, <2>3 DEF NothingLeftBehind
<1> QED
  BY <1>4, <1>5, <1>6, <1>7, <1>8, <1>9 DEF IInv, OthersKept

\* The handles do not concern the callbacks.
LEMMA HandleStep ==
  ASSUME IInv, UNCHANGED <<requested, lists, calls, entry, notification, executed>>
  PROVE  IInv'
BY DEF IInv, Types, SlotsAreEntries, OneCallEach, WhereCallbacksAre, ListedWhileWaiting,
   LookedForInCall, OneNotification,
       NothingLeftBehind, Behind, Listed, HasSlot, Slot, lists, calls, notification

-----------------------------------------------------------------------------

LEMMA InitIInv == Init => IInv
<1> SUFFICES ASSUME Init PROVE IInv
  OBVIOUS
<1>1. Types
  <2>1. slots \in [1..ListCount -> Seq(Registrations \cup {Empty})]
    BY DEF Init
  <2>2. /\ reg \in [Registrations -> Stages] /\ entry \in [Registrations -> Nat \X Nat]
        /\ executed \in [Registrations -> 0..1] /\ cursor \in Nat \X Nat
    BY DEF Init, Stages
  <2>3. /\ pc \in [Callers -> {"idle"} \cup InConstructor \cup InDestructor]
        /\ arg \in [Callers -> Registrations \cup {Empty}]
    BY DEF Init
  <2> QED
    BY <2>1, <2>2, <2>3 DEF Init, Types
<1>2. SlotsAreEntries /\ \A r \in Registrations : ~Listed(r)
  BY DEF Init, SlotsAreEntries, Listed, HasSlot
<1> QED
  BY <1>1, <1>2
  DEF Init, IInv, OneCallEach, WhereCallbacksAre, ListedWhileWaiting, LookedForInCall,
      OneNotification, NothingLeftBehind, Behind

LEMMA NextIInv == IInv /\ [Next]_vars => IInv'
<1> SUFFICES ASSUME IInv, [Next]_vars PROVE IInv'
  OBVIOUS
<1>1. CASE UNCHANGED vars
  BY <1>1, HandleStep DEF vars, refs, handles
<1>2. CASE Notify
  BY <1>2, LoadRegistrationStateStep, TakeCallbackStep, CallbackReturnsStep, SkipSlotStep,
     NotificationCompleteStep DEF Notify
<1>3. ASSUME NEW t \in Callers, Construct(t) PROVE IInv'
  BY <1>3, CheckRequestedStep, AllocateStateStep, AddRegistrationStep, RecheckStep,
     CallInlineStep, DropParameterStep DEF Construct
<1>4. ASSUME NEW t \in Callers, Destruct(t) PROVE IInv'
  BY <1>4, DeregisterStep, WaitUntilCompleteStep, ReleaseRegistrationStep DEF Destruct
<1>5. ASSUME NEW t \in Callers, MakeCall(t) PROVE IInv'
  <2>1. CASE CopySource(t) \/ GetToken(t) \/ DropSource(t) \/ DropToken(t)
    BY <2>1, HandleStep DEF CopySource, GetToken, DropSource, DropToken
  <2> QED
    BY <1>5, <2>1, RequestCancellationStep, BeginRegisterStep, BeginDestroyStep DEF MakeCall
<1> QED
  BY <1>1, <1>2, <1>3, <1>4, <1>5 DEF Next

(* The slots, the registrations and the one thread that runs callbacks     *)
(* agree at all times, for every number of threads, registrations and      *)
(* lists (cancellation_state.cpp:402-615).                                 *)
THEOREM Consistent == Spec => []IInv
BY InitIInv, NextIInv, PTL DEF Spec

(* A callback is called at most once, though requesting thread,            *)
(* constructor and destructor compete for it, and never when its           *)
(* registration is gone (cancellation_state.cpp:467, 555, 580).            *)
THEOREM CalledOnce == Spec => []CalledAtMostOnce
<1>1. IInv => CalledAtMostOnce
  <2> SUFFICES ASSUME IInv, NEW r \in Registrations PROVE
          /\ executed[r] <= 1
          /\ running = r => executed[r] = 1
          /\ \A l \in 1..ListCount : \A i \in 1..Len(slots[l]) :
                slots[l][i] = r => executed[r] = 0 /\ reg[r] \notin {"none", "destroyed"}
    BY Zenon DEF CalledAtMostOnce
  <2>1. executed[r] \in 0..1
    BY DEF IInv, Types
  <2>2. running = r => executed[r] = 1
    BY ThreadAssumption DEF IInv, OneNotification
  <2>3. ASSUME NEW l \in 1..ListCount, NEW i \in 1..Len(slots[l]), slots[l][i] = r
        PROVE  executed[r] = 0 /\ reg[r] \notin {"none", "destroyed"}
    <3>1. entry[r] = <<l, i>>
      BY <2>3, ThreadAssumption DEF IInv, SlotsAreEntries
    <3>2. Listed(r)
      BY <2>3, <3>1 DEF Listed, HasSlot, Slot
    <3> QED
      BY <3>2 DEF IInv, WhereCallbacksAre, ListedWhileWaiting, LookedForInCall
  <2> QED
    BY <2>1, <2>2, <2>3
<1> QED
  BY <1>1, Consistent, PTL

(* When the notification is over, no callback that is registered was       *)
(* passed over, even if it registered while the lists were scanned         *)
(* (cancellation_state.cpp:420-424, 526-558).                              *)
THEOREM NonePassedOver == Spec => []NobodyIsPassedOver
<1>1. IInv => NobodyIsPassedOver
  BY DEF IInv, NobodyIsPassedOver, WhereCallbacksAre, ListedWhileWaiting, LookedForInCall,
     NothingLeftBehind, Behind
<1> QED
  BY <1>1, Consistent, PTL

(* A destructor does not return while the callback runs, unless it was the *)
(* callback that called it (cancellation_registration.hpp:63-69).          *)
THEOREM DestructorWaits == Spec => DestructorOutlastsCallback
<1> DEFINE Outlasts == \A r \in Registrations :
        (reg[r] = "destroying" /\ reg'[r] = "destroyed" /\ running = r)
            => arg[notifier] = r /\ pc[notifier] = "release"
<1>1. IInv /\ [Next]_vars => [Outlasts]_vars
  <2> SUFFICES ASSUME IInv, Next, NEW r \in Registrations,
                      reg[r] = "destroying", reg'[r] = "destroyed", running = r
               PROVE  arg[notifier] = r /\ pc[notifier] = "release"
    BY DEF vars
  <2>0. reg \in [Registrations -> Stages]
    BY DEF IInv, Types
  <2>1. ~Notify
    BY DEF Notify, LoadRegistrationState, TakeCallback, CallbackReturns, SkipSlot,
           NotificationComplete, calls
  <2>2. ASSUME NEW t \in Callers, MakeCall(t) PROVE FALSE
    <3>1. PICK q \in Registrations : BeginRegister(t, q) \/ BeginDestroy(t, q)
      BY <2>2 DEF MakeCall, CopySource, GetToken, DropSource, DropToken, RequestCancellation, calls
    <3> QED
      BY <2>0, <3>1 DEF BeginRegister, BeginDestroy
  <2>3. ASSUME NEW t \in Callers, Construct(t) PROVE FALSE
    <3>1. Recheck(t) \/ DropParameter(t)
      BY <2>3 DEF Construct, CheckRequested, AllocateState, AddRegistration, CallInline
    <3> QED
      BY <2>0, <3>1 DEF Recheck, DropParameter
  <2>4. PICK t \in Callers : ReleaseRegistration(t)
    BY <2>1, <2>2, <2>3 DEF Next, Destruct, Deregister, WaitUntilComplete
  <2>5. arg[t] = r /\ pc[t] = "release"
    BY <2>0, <2>4 DEF ReleaseRegistration
  <2> QED
    BY <2>5 DEF IInv, OneNotification
<1> QED
  BY <1>1, Consistent, PTL DEF Spec, DestructorOutlastsCallback
-----------------------------------------------------------------------------
(* The counts of the state.                                                *)

\* At any time there are finitely many users, and they are counted.
UsersAreCounted ==
    /\ IsFiniteSet(sources) /\ IsFiniteSet(tokens)
    /\ IsFiniteSet(Constructing) /\ IsFiniteSet(Holding)
    /\ StateOutlivesItsUsers

LEMMA CountsAreNat ==
  ASSUME UsersAreCounted
  PROVE  /\ Cardinality(sources) \in Nat /\ Cardinality(tokens) \in Nat
         /\ Cardinality(Constructing) \in Nat /\ Cardinality(Holding) \in Nat
         /\ sources # {} => Cardinality(sources) # 0
         /\ tokens # {} => Cardinality(tokens) # 0
BY FS_CardinalityType, FS_EmptySet DEF UsersAreCounted

\* Nothing is created or given up.
LEMMA NobodyCounted ==
  ASSUME UsersAreCounted, UNCHANGED <<refs, handles>>,
         Constructing' = Constructing, Holding' = Holding
  PROVE  UsersAreCounted'
BY DEF UsersAreCounted, StateOutlivesItsUsers, refs, handles

\* A token, the constructor it is given to and the registration it is kept
\* in count the same.
LEMMA TokenChangesHands ==
  ASSUME IInv, UsersAreCounted, NEW t \in Callers
  PROVE  /\ \A r \in Registrations : BeginRegister(t, r) => UsersAreCounted'
         /\ Recheck(t) => UsersAreCounted'
<1>1. ASSUME NEW r \in Registrations, BeginRegister(t, r) PROVE UsersAreCounted'
  <2>1. /\ t \in tokens /\ tokens' = tokens \ {t} /\ t \notin Constructing
        /\ Constructing' = Constructing \cup {t} /\ Holding' = Holding
        /\ UNCHANGED <<refs, sources>>
    BY <1>1 DEF IInv, Types, BeginRegister, Free, Proceed, Constructing, Holding
  <2>2. /\ IsFiniteSet(tokens') /\ Cardinality(tokens) = Cardinality(tokens') + 1
        /\ IsFiniteSet(Constructing')
        /\ Cardinality(Constructing') = Cardinality(Constructing) + 1
        /\ Cardinality(tokens') \in Nat
    BY <2>1, OneMore, OneFewer DEF UsersAreCounted
  <2> QED
    BY <2>1, <2>2, CountsAreNat DEF UsersAreCounted, StateOutlivesItsUsers, refs
<1>2. ASSUME Recheck(t) PROVE UsersAreCounted'
  <2>1. pc[t] = "recheck" /\ UNCHANGED <<refs, handles>> /\ t \in Constructing
    BY <1>2 DEF Recheck, Constructing
  <2>2. CASE reg' = reg /\ pc' = [pc EXCEPT ![t] = "inline"]
    <3>1. Constructing' = Constructing /\ Holding' = Holding
      BY <2>1, <2>2 DEF IInv, Types, Constructing, Holding
    <3> QED
      BY <2>1, <3>1, NobodyCounted
  <2>3. CASE /\ reg' = [reg EXCEPT ![arg[t]] = "registered"]
             /\ pc' = [pc EXCEPT ![t] = "idle"]
    <3>1. PICK r \in Registrations : r = arg[t] /\ reg[r] = "constructing"
      BY <2>1 DEF IInv, OneCallEach, InConstructor
    <3>2. r \notin Holding /\ Holding' = Holding \cup {r} /\ Constructing' = Constructing \ {t}
      BY <2>1, <2>3, <3>1 DEF IInv, Types, Constructing, Holding
    <3>3. /\ IsFiniteSet(Holding') /\ Cardinality(Holding') = Cardinality(Holding) + 1
          /\ IsFiniteSet(Constructing') /\ Cardinality(Constructing') \in Nat
          /\ Cardinality(Constructing) = Cardinality(Constructing') + 1
      BY <2>1, <3>2, OneMore, OneFewer DEF UsersAreCounted
    <3> QED
      BY <2>1, <3>3, CountsAreNat DEF UsersAreCounted, StateOutlivesItsUsers, refs, handles
  <2> QED
    BY <1>2, <2>2, <2>3 DEF Recheck, Proceed
<1> QED
  BY <1>1, <1>2

LEMMA HandlesAreCounted ==
  ASSUME UsersAreCounted, NEW t \in Callers, Constructing' = Constructing, Holding' = Holding
  PROVE  CopySource(t) \/ GetToken(t) \/ DropSource(t) \/ DropToken(t) => UsersAreCounted'
<1>1. ASSUME CopySource(t) PROVE UsersAreCounted'
  <2>1. /\ t \notin sources /\ sources # {} /\ sources' = sources \cup {t}
        /\ sourceRefs' = sourceRefs + 1 /\ UNCHANGED <<tokenRefs, deleted, tokens>>
    BY <1>1 DEF CopySource, AddSourceRef
  <2>2. IsFiniteSet(sources') /\ Cardinality(sources') = Cardinality(sources) + 1
    BY <2>1, OneMore DEF UsersAreCounted
  <2> QED
    BY <2>1, <2>2, CountsAreNat DEF UsersAreCounted, StateOutlivesItsUsers
<1>2. ASSUME GetToken(t) PROVE UsersAreCounted'
  <2>1. /\ t \notin tokens /\ sources \cup tokens # {} /\ tokens' = tokens \cup {t}
        /\ tokenRefs' = tokenRefs + 1 /\ UNCHANGED <<sourceRefs, deleted, sources>>
    BY <1>2 DEF GetToken, AddTokenRef
  <2>2. IsFiniteSet(tokens') /\ Cardinality(tokens') = Cardinality(tokens) + 1
    BY <2>1, OneMore DEF UsersAreCounted
  <2> QED
    BY <2>1, <2>2, CountsAreNat DEF UsersAreCounted, StateOutlivesItsUsers
<1>3. ASSUME DropSource(t) PROVE UsersAreCounted'
  <2>1. /\ t \in sources /\ sources' = sources \ {t}
        /\ sourceRefs' = sourceRefs - 1 /\ (deleted' <=> (sourceRefs = 1 /\ tokenRefs = 0))
        /\ UNCHANGED <<tokenRefs, tokens>>
    BY <1>3 DEF DropSource, ReleaseSourceRef
  <2>2. /\ IsFiniteSet(sources') /\ Cardinality(sources') \in Nat
        /\ Cardinality(sources) = Cardinality(sources') + 1
    BY <2>1, OneFewer DEF UsersAreCounted
  <2> QED
    BY <2>1, <2>2, CountsAreNat DEF UsersAreCounted, StateOutlivesItsUsers
<1>4. ASSUME DropToken(t) PROVE UsersAreCounted'
  <2>1. /\ t \in tokens /\ tokens' = tokens \ {t}
        /\ tokenRefs' = tokenRefs - 1 /\ (deleted' <=> (sourceRefs = 0 /\ tokenRefs = 1))
        /\ UNCHANGED <<sourceRefs, sources>>
    BY <1>4 DEF DropToken, ReleaseTokenRef
  <2>2. /\ IsFiniteSet(tokens') /\ Cardinality(tokens') \in Nat
        /\ Cardinality(tokens) = Cardinality(tokens') + 1
    BY <2>1, OneFewer DEF UsersAreCounted
  <2>3. /\ sourceRefs \in Nat /\ tokenRefs' \in Nat /\ tokenRefs = tokenRefs' + 1
        /\ tokenRefs' = Cardinality(tokens') + Cardinality(Constructing') + Cardinality(Holding')
    BY <2>1, <2>2, CountsAreNat DEF UsersAreCounted, StateOutlivesItsUsers
  <2> QED
    BY <2>1, <2>2, <2>3 DEF UsersAreCounted, StateOutlivesItsUsers
<1> QED
  BY <1>1, <1>2, <1>3, <1>4

\* The last reference may be the parameter's or the registration's.
LEMMA TokenIsReleased ==
  ASSUME IInv, UsersAreCounted, NEW t \in Callers
  PROVE  DropParameter(t) \/ ReleaseRegistration(t) => UsersAreCounted'
<1>1. ASSUME DropParameter(t) PROVE UsersAreCounted'
  <2>1. /\ t \in Constructing /\ Constructing' = Constructing \ {t} /\ Holding' = Holding
        /\ tokenRefs' = tokenRefs - 1 /\ (deleted' <=> (sourceRefs = 0 /\ tokenRefs = 1))
        /\ UNCHANGED <<sourceRefs, handles>>
    BY <1>1 DEF DropParameter, ReleaseTokenRef, Proceed, IInv, Types, OneCallEach,
                InConstructor, Constructing, Holding
  <2>2. /\ IsFiniteSet(Constructing') /\ Cardinality(Constructing') \in Nat
        /\ Cardinality(Constructing) = Cardinality(Constructing') + 1
    BY <2>1, OneFewer DEF UsersAreCounted
  <2>3. /\ sourceRefs \in Nat /\ tokenRefs' \in Nat /\ tokenRefs = tokenRefs' + 1
        /\ tokenRefs' = Cardinality(tokens') + Cardinality(Constructing') + Cardinality(Holding')
    BY <2>1, <2>2, CountsAreNat DEF UsersAreCounted, StateOutlivesItsUsers, handles
  <2> QED
    BY <2>1, <2>2, <2>3 DEF UsersAreCounted, StateOutlivesItsUsers, handles
<1>2. ASSUME ReleaseRegistration(t) PROVE UsersAreCounted'
  <2>1. PICK r \in Registrations : r = arg[t] /\ reg[r] = "destroying"
    BY <1>2 DEF ReleaseRegistration, IInv, OneCallEach, InConstructor
  <2>2. /\ r \in Holding /\ Holding' = Holding \ {r} /\ Constructing' = Constructing
        /\ tokenRefs' = tokenRefs - 1 /\ (deleted' <=> (sourceRefs = 0 /\ tokenRefs = 1))
        /\ UNCHANGED <<sourceRefs, handles>>
    BY <1>2, <2>1 DEF ReleaseRegistration, ReleaseTokenRef, Proceed, IInv, Types,
                      Constructing, Holding
  <2>3. /\ IsFiniteSet(Holding') /\ Cardinality(Holding') \in Nat
        /\ Cardinality(Holding) = Cardinality(Holding') + 1
    BY <2>2, OneFewer DEF UsersAreCounted
  <2> QED
    BY <2>2, <2>3, CountsAreNat DEF UsersAreCounted, StateOutlivesItsUsers, handles
<1> QED
  BY <1>1, <1>2

LEMMA NextCounted == IInv /\ UsersAreCounted /\ [Next]_vars => UsersAreCounted'
<1> SUFFICES ASSUME IInv, UsersAreCounted, [Next]_vars PROVE UsersAreCounted'
  OBVIOUS
<1>1. CASE UNCHANGED vars \/ Notify
  <2>1. UNCHANGED <<refs, handles, reg, pc>>
    BY <1>1 DEF vars, Notify, LoadRegistrationState, TakeCallback, CallbackReturns, SkipSlot,
                NotificationComplete, calls
  <2> QED
    BY <2>1, NobodyCounted DEF Constructing, Holding
<1>2. ASSUME NEW t \in Callers, Construct(t) PROVE UsersAreCounted'
  <2>1. ASSUME CheckRequested(t) \/ AllocateState(t) \/ AddRegistration(t) \/ CallInline(t)
        PROVE  UsersAreCounted'
    <3>1. UNCHANGED <<refs, handles, reg>> /\ Constructing' = Constructing
      BY <2>1 DEF CheckRequested, AllocateState, AddRegistration, CallInline, Proceed,
                  IInv, Types, Constructing
    <3> QED
      BY <3>1, NobodyCounted DEF Holding
  <2> QED
    BY <1>2, <2>1, TokenChangesHands, TokenIsReleased DEF Construct
<1>3. ASSUME NEW t \in Callers, Destruct(t) PROVE UsersAreCounted'
  <2>1. ASSUME Deregister(t) \/ WaitUntilComplete(t) PROVE UsersAreCounted'
    <3>1. UNCHANGED <<refs, handles, reg>> /\ Constructing' = Constructing
      BY <2>1 DEF Deregister, WaitUntilComplete, Proceed, IInv, Types, Constructing
    <3> QED
      BY <3>1, NobodyCounted DEF Holding
  <2> QED
    BY <1>3, <2>1, TokenIsReleased DEF Destruct
<1>4. ASSUME NEW t \in Callers, MakeCall(t) PROVE UsersAreCounted'
  <2>1. ASSUME CopySource(t) \/ GetToken(t) \/ DropSource(t) \/ DropToken(t)
        PROVE  UsersAreCounted'
    <3>1. UNCHANGED calls
      BY <2>1 DEF CopySource, GetToken, DropSource, DropToken
    <3> QED
      BY <2>1, <3>1, HandlesAreCounted DEF calls, Constructing, Holding
  <2>2. ASSUME RequestCancellation(t) PROVE UsersAreCounted'
    BY <2>2, NobodyCounted DEF RequestCancellation, calls, Constructing, Holding
  <2>3. ASSUME NEW r \in Registrations, BeginDestroy(t, r) PROVE UsersAreCounted'
    <3>1. Constructing' = Constructing /\ Holding' = Holding /\ UNCHANGED <<refs, handles>>
      BY <2>3 DEF BeginDestroy, Free, Proceed, IInv, Types, Constructing, Holding
    <3> QED
      BY <3>1, NobodyCounted
  <2> QED
    BY <1>4, <2>1, <2>2, <2>3, TokenChangesHands DEF MakeCall
<1> QED
  BY <1>1, <1>2, <1>3, <1>4 DEF Next

(* The state lives exactly as long as somebody can still reach it: the two *)
(* counts are those of the sources, tokens and registrations, whichever    *)
(* thread gives up the last one (cancellation_state.cpp:365-391,           *)
(* cancellation_registration.cpp:12-41).                                   *)
THEOREM StateIsCounted == Spec => []StateOutlivesItsUsers
<1>1. Init => UsersAreCounted
  <2> SUFFICES ASSUME Init PROVE UsersAreCounted
    OBVIOUS
  <2>1. tokens = {} /\ Constructing = {} /\ Holding = {}
    BY DEF Init, Constructing, Holding
  <2>2. IsFiniteSet(sources) /\ Cardinality(sources) = 1
    BY FS_Singleton DEF Init
  <2> QED
    BY <2>1, <2>2, FS_EmptySet DEF Init, UsersAreCounted, StateOutlivesItsUsers
<1>2. UsersAreCounted => StateOutlivesItsUsers
  BY DEF UsersAreCounted
<1> QED
  BY <1>1, <1>2, NextCounted, Consistent, PTL DEF Spec
=============================================================================
