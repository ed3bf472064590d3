------------------------- MODULE Coroutines_proofs -------------------------
(***************************************************************************)
(* Three programs of coroutines.                                           *)
(*                                                                         *)
(* The events, for every number of workers, and however often the gate is  *)
(* closed: no coroutine is resumed twice, who passes the latch or joins    *)
(* the scope finds what it waited for, and no signal is lost.              *)
(*                                                                         *)
(* The echo server, for every set of clients, every size of the buffer and *)
(* every number of bytes: the echo is the stream.                          *)
(*                                                                         *)
(* A chain of generators, for every length of it, with and without         *)
(* symmetric transfer: the ends of a generator never resume each other     *)
(* twice, each value passes once, and what is read stays where it is.      *)
(***************************************************************************)
EXTENDS EventProgram, EchoServer, AsyncGenerator, ListLemmas

WorkerAt == {"created", "begin", "operation", "ready", "load", "enqueue", "queued", "passed",
             "set", "walk", "signal", "clear", "leave", "done"}
ConsumerAt == {"created", "await", "suspended", "use up", "take", "tell", "end", "done"}
ControllerAt == {"created", "command", "set", "walk", "end", "done"}
ParentAt == {"created", "spawn", "join", "joining", "joined", "look", "wait", "suspended",
             "reset", "check", "end", "done"}

Places == WorkerAt \cup ConsumerAt \cup ControllerAt \cup ParentAt

Orderly == Scheduled(Threads, Coros, Places, Suspensions, stack, at)

Labels ==
    /\ \A i \in Workers : at[Worker(i)] \in WorkerAt
    /\ at[Consumer] \in ConsumerAt /\ at[Controller] \in ControllerAt /\ at[Parent] \in ParentAt

Values ==
    /\ event \in [Events -> [set : BOOLEAN, list : Seq(Coros)]]
    /\ on \in [Coros -> Events] /\ on[Controller] = "gate"
    /\ oldState \in [Coros -> Coros \cup {<<>>, SetState}]
    /\ walk \in [Coros -> Seq(Coros)]
    /\ count \in Int /\ running \in Int /\ spawned \in 0..LatchCount
    /\ auto \in States /\ manual \in States
    /\ published \subseteq Workers /\ taken \subseteq published

Types == Orderly /\ Labels /\ Values

\* A coroutine that is queued is in the list of its event or in what one call
\* of set() has still to resume, once.
QueuedOnce ==
    /\ \A e \in Events : Once(event[e].list)
    /\ \A e, f \in Events : \A x \in Coros : Has(event[e].list, x) /\ Has(event[f].list, x) => e = f
    /\ OnceInAll(walk)
    /\ \A e \in Events : \A c, x \in Coros : ~(Has(event[e].list, x) /\ Has(walk[c], x))
    /\ \A e \in Events : \A x \in Coros : Has(event[e].list, x) => at[x] = "queued" /\ on[x] = e
    /\ \A c, x \in Coros : Has(walk[c], x) => at[x] = "queued"

\* The latch is set, and somebody is on the way past it, only when all workers
\* have counted down.
Counted == {i \in Workers : on[Worker(i)] = "latch"}
AllCounted == \A i \in Workers : on[Worker(i)] = "latch"
AfterLatch == {"set", "walk", "signal", "clear", "leave", "done"}

Latched ==
    /\ count = LatchCount - Cardinality(Counted)
    /\ event["latch"].set => AllCounted
    /\ \A i \in Workers :
         /\ at[Worker(i)] \in AfterLatch => AllCounted
         /\ at[Worker(i)] = "passed" /\ on[Worker(i)] = "latch" => AllCounted
         /\ at[Worker(i)] = "enqueue" /\ on[Worker(i)] = "latch" /\ oldState[Worker(i)] = SetState
              => AllCounted
    /\ \A c \in Coros, i \in Workers :
         Has(walk[c], Worker(i)) /\ on[Worker(i)] = "latch" => AllCounted

\* The scope counts the workers that are on their way, and itself.
Active == {i \in Workers : at[Worker(i)] \notin {"created", "done"}}
Unjoined == {"created", "spawn", "join"}

Scoped ==
    /\ running = Cardinality(Active) + (IF at[Parent] \in Unjoined THEN 1 ELSE 0)
    /\ \A i \in Workers : i <= spawned <=> at[Worker(i)] # "created"
    /\ at[Parent] \notin {"created", "spawn"} => spawned = LatchCount
    /\ at[Parent] \notin Unjoined \cup {"joining"} => running = 0

\* One worker at most takes back the set that the suspended consumer uses up,
\* and what is published is signalled.
Signalled ==
    /\ \A i \in Workers : i \in published <=> at[Worker(i)] \in {"signal", "clear", "leave", "done"}
    /\ auto = "waiting" => at[Consumer] = "suspended" /\ \A i \in Workers : at[Worker(i)] # "clear"
    /\ \A i \in Workers : at[Worker(i)] = "clear" =>
         /\ at[Consumer] = "suspended" /\ auto = "set"
         /\ \A j \in Workers : at[Worker(j)] = "clear" => j = i
    /\ at[Consumer] = "suspended" => auto = "waiting" \/ \E i \in Workers : at[Worker(i)] = "clear"
    /\ taken # published /\ auto # "set"
         /\ at[Consumer] \in {"created", "await", "tell", "suspended"} =>
           \E i \in Workers : at[Worker(i)] = "signal"

\* The parent is told of the last item, and not before it.
Told ==
    /\ taken = Workers => at[Consumer] \in {"tell", "end", "done"}
    /\ at[Consumer] \in {"end", "done"} =>
         taken = Workers /\ (manual = "set" \/ at[Parent] \in {"check", "end", "done"})
    /\ manual = "waiting" <=> at[Parent] = "suspended"

IInv == Types /\ QueuedOnce /\ Latched /\ Scoped /\ Signalled /\ Told

-----------------------------------------------------------------------------
(* What CoroStacks does to the stacks, whatever the places of a program.   *)

OnStacks(L) == Scheduled(Threads, Coros, L, Suspensions, stack, at)

LEMMA OnTop ==
  ASSUME NEW L, OnStacks(L), NEW t \in Threads, NEW c, NEW k, Top(t, c, k)
  PROVE  c \in Coros /\ at[c] = k /\ k \notin Suspensions
BY TopRuns DEF OnStacks, Top

LEMMA OnGoto ==
  ASSUME NEW L, OnStacks(L), NEW t \in Threads, NEW c \in Coros, NEW k, NEW l \in L \ Suspensions,
         Top(t, c, k), Goto(c, l)
  PROVE  OnStacks(L)'
<1>1. at[c] \notin Suspensions
  BY OnTop
<1>2. Scheduled(Threads, Coros, L, Suspensions, stack, [at EXCEPT ![c] = l])
  BY <1>1, Goes DEF OnStacks
<1> QED
  BY <1>2 DEF OnStacks, Goto

LEMMA OnSuspend ==
  ASSUME NEW L, OnStacks(L), NEW t \in Threads, NEW c \in Coros, NEW k, NEW l \in L, l \in Suspensions,
         Top(t, c, k), Suspend(t, c, l)
  PROVE  OnStacks(L)'
<1>1. stack[t] # <<>> /\ Head(stack[t]) = c
  BY DEF Top
<1>2. Scheduled(Threads, Coros, L, Suspensions, [stack EXCEPT ![t] = Tail(@)], [at EXCEPT ![c] = l])
  BY <1>1, Suspends DEF OnStacks
<1> QED
  BY <1>2 DEF OnStacks, Suspend

LEMMA OnCall ==
  ASSUME NEW L, OnStacks(L), NEW t \in Threads, NEW c \in Coros, NEW k, NEW l \in L \ Suspensions,
         NEW o \in Coros, NEW m \in L \ Suspensions, at[o] \in Suspensions,
         Top(t, c, k), Call(t, c, l, o, m)
  PROVE  OnStacks(L)'
<1>1. stack[t] # <<>> /\ Head(stack[t]) = c
  BY DEF Top
<1>2. Scheduled(Threads, Coros, L, Suspensions, [stack EXCEPT ![t] = <<o>> \o @],
                [at EXCEPT ![c] = l, ![o] = m])
  BY <1>1, Calls DEF OnStacks
<1> QED
  BY <1>2 DEF OnStacks, Call

LEMMA OnTransfer ==
  ASSUME NEW L, OnStacks(L), NEW t \in Threads, NEW c \in Coros, NEW k, NEW l \in L, l \in Suspensions,
         NEW o \in Coros, NEW m \in L \ Suspensions, at[o] \in Suspensions,
         Top(t, c, k), Transfer(t, c, l, o, m)
  PROVE  OnStacks(L)'
<1>1. stack[t] # <<>> /\ Head(stack[t]) = c
  BY DEF Top
<1>2. Scheduled(Threads, Coros, L, Suspensions, [stack EXCEPT ![t] = <<o>> \o Tail(@)],
                [at EXCEPT ![c] = l, ![o] = m])
  BY <1>1, Transfers DEF OnStacks
<1> QED
  BY <1>2 DEF OnStacks, Transfer

LEMMA OnResume ==
  ASSUME NEW L, OnStacks(L), NEW t \in Threads, NEW o \in Coros, NEW m \in L \ Suspensions,
         at[o] \in Suspensions, ResumeOn(t, o, m)
  PROVE  OnStacks(L)'
<1>1. stack[t] = <<>>
  BY DEF ResumeOn
<1>2. Scheduled(Threads, Coros, L, Suspensions, [stack EXCEPT ![t] = <<o>>], [at EXCEPT ![o] = m])
  BY <1>1, ResumesOn DEF OnStacks
<1> QED
  BY <1>2 DEF OnStacks, ResumeOn

-----------------------------------------------------------------------------
(* Names and stacks.                                                       *)

LEMMA Names ==
  ASSUME EventAssumption
  PROVE  /\ Parent \in Coros /\ Consumer \in Coros /\ Controller \in Coros
         /\ Parent # Consumer /\ Parent # Controller /\ Consumer # Controller
         /\ \A i \in Workers : /\ Worker(i) \in Coros
                               /\ Worker(i) # Parent /\ Worker(i) # Consumer /\ Worker(i) # Controller
         /\ \A i, j \in Workers : Worker(i) = Worker(j) => i = j
         /\ \A c \in Coros : c \in {Parent, Consumer, Controller} \/ \E i \in Workers : c = Worker(i)
         /\ \A c \in Coros : c # <<>> /\ c # SetState
         /\ IsFiniteSet(Workers) /\ Cardinality(Workers) = LatchCount /\ IsFiniteSet(Coros)
<1>1. IsFiniteSet(Workers) /\ Cardinality(Workers) = LatchCount
  BY FS_Interval DEF EventAssumption
<1>2. IsFiniteSet({Worker(i) : i \in Workers})
  <2> DEFINE f == [i \in Workers |-> Worker(i)]
  <2>1. f \in Surjection(Workers, {Worker(i) : i \in Workers})
    BY DEF Surjection
  <2> QED
    BY <1>1, <2>1, FS_Surjection
<1>3. IsFiniteSet({Parent, Consumer, Controller})
  <2>1. IsFiniteSet({Parent}) /\ {Parent} \cup {Consumer} = {Parent, Consumer}
    BY FS_Singleton
  <2>2. IsFiniteSet({Parent, Consumer})
    BY <2>1, FS_AddElement
  <2>3. {Parent, Consumer} \cup {Controller} = {Parent, Consumer, Controller}
    OBVIOUS
  <2> QED
    BY <2>2, <2>3, FS_AddElement
<1>4. IsFiniteSet(Coros)
  BY <1>2, <1>3, FS_Union DEF EventAssumption
<1>5. \A c \in Coros : c # <<>> /\ c # SetState
  <2>1. \A c \in Coros : Len(c) = 2
    BY DEF EventAssumption, Parent, Consumer, Controller, Worker
  <2>2. Len(<<>>) = 0 /\ Len(SetState) = 1
    BY DEF SetState
  <2> QED
    BY <2>1, <2>2
<1>6. \A i, j \in Workers : Worker(i) = Worker(j) => i = j
  BY DEF Worker
<1>7. /\ Parent # Consumer /\ Parent # Controller /\ Consumer # Controller
      /\ \A i \in Workers : Worker(i) # Parent /\ Worker(i) # Consumer /\ Worker(i) # Controller
  BY DEF Parent, Consumer, Controller, Worker
<1> QED
  BY <1>1, <1>4, <1>5, <1>6, <1>7 DEF EventAssumption

\* The handlers of CoroStacks keep the stacks in order.
LEMMA GotoKeeps ==
  ASSUME Orderly, NEW t \in Threads, NEW c \in Coros, NEW k, NEW l \in Places \ Suspensions,
         Top(t, c, k), Goto(c, l)
  PROVE  Orderly' /\ at' = [at EXCEPT ![c] = l]
BY OnGoto DEF Orderly, OnStacks, Goto

LEMMA SuspendKeeps ==
  ASSUME Orderly, NEW t \in Threads, NEW c \in Coros, NEW k, NEW l \in Places, l \in Suspensions,
         Top(t, c, k), Suspend(t, c, l)
  PROVE  Orderly' /\ at' = [at EXCEPT ![c] = l]
BY OnSuspend DEF Orderly, OnStacks, Suspend

LEMMA CallKeeps ==
  ASSUME Orderly, NEW t \in Threads, NEW c \in Coros, NEW k, NEW l \in Places \ Suspensions,
         NEW o \in Coros, NEW m \in Places \ Suspensions, at[o] \in Suspensions,
         Top(t, c, k), Call(t, c, l, o, m)
  PROVE  Orderly' /\ at' = [at EXCEPT ![c] = l, ![o] = m]
BY OnCall DEF Orderly, OnStacks, Call

LEMMA TransferKeeps ==
  ASSUME Orderly, NEW t \in Threads, NEW c \in Coros, NEW k, NEW l \in Places, l \in Suspensions,
         NEW o \in Coros, NEW m \in Places \ Suspensions, at[o] \in Suspensions,
         Top(t, c, k), Transfer(t, c, l, o, m)
  PROVE  Orderly' /\ at' = [at EXCEPT ![c] = l, ![o] = m]
BY OnTransfer DEF Orderly, OnStacks, Transfer

LEMMA ResumeOnKeeps ==
  ASSUME Orderly, NEW t \in Threads, NEW o \in Coros, NEW m \in Places \ Suspensions,
         at[o] \in Suspensions, ResumeOn(t, o, m)
  PROVE  Orderly' /\ at' = [at EXCEPT ![o] = m]
BY OnResume DEF Orderly, OnStacks, ResumeOn

\* Where everybody stands after one, or two, of them have moved.
LEMMA OneMoves ==
  ASSUME EventAssumption, Orderly, NEW c \in Coros, NEW l, at' = [at EXCEPT ![c] = l]
  PROVE  at'[c] = l /\ \A x \in Coros : x # c => at'[x] = at[x]
BY DEF Orderly, Scheduled

LEMMA TwoMove ==
  ASSUME EventAssumption, Orderly, NEW c \in Coros, NEW l, NEW o \in Coros, NEW m, c # o,
         at' = [at EXCEPT ![c] = l, ![o] = m]
  PROVE  at'[c] = l /\ at'[o] = m /\ \A x \in Coros : x # c /\ x # o => at'[x] = at[x]
BY DEF Orderly, Scheduled

LEMMA WorkerMoves ==
  ASSUME EventAssumption, Orderly, Labels, NEW i \in Workers, NEW l \in WorkerAt,
         at' = [at EXCEPT ![Worker(i)] = l]
  PROVE  /\ Labels' /\ at'[Worker(i)] = l
         /\ \A j \in Workers : j # i => at'[Worker(j)] = at[Worker(j)]
         /\ at'[Parent] = at[Parent] /\ at'[Consumer] = at[Consumer]
         /\ \A x \in Coros : x # Worker(i) => at'[x] = at[x]
<1>1. at'[Worker(i)] = l /\ \A x \in Coros : x # Worker(i) => at'[x] = at[x]
  BY OneMoves, Names
<1>2. /\ \A j \in Workers : j # i => at'[Worker(j)] = at[Worker(j)]
      /\ at'[Parent] = at[Parent] /\ at'[Consumer] = at[Consumer]
      /\ at'[Controller] = at[Controller]
  BY <1>1, Names
<1> QED
  BY <1>1, <1>2 DEF Labels

LEMMA ParentMoves ==
  ASSUME EventAssumption, Orderly, Labels, NEW l \in ParentAt, at' = [at EXCEPT ![Parent] = l]
  PROVE  /\ Labels' /\ at'[Parent] = l /\ at'[Consumer] = at[Consumer]
         /\ \A j \in Workers : at'[Worker(j)] = at[Worker(j)]
         /\ \A x \in Coros : x # Parent => at'[x] = at[x]
<1>1. at'[Parent] = l /\ \A x \in Coros : x # Parent => at'[x] = at[x]
  BY OneMoves, Names
<1>2. /\ \A j \in Workers : at'[Worker(j)] = at[Worker(j)]
      /\ at'[Consumer] = at[Consumer] /\ at'[Controller] = at[Controller]
  BY <1>1, Names
<1> QED
  BY <1>1, <1>2 DEF Labels

LEMMA ConsumerMoves ==
  ASSUME EventAssumption, Orderly, Labels, NEW l \in ConsumerAt, at' = [at EXCEPT ![Consumer] = l]
  PROVE  /\ Labels' /\ at'[Consumer] = l /\ at'[Parent] = at[Parent]
         /\ \A j \in Workers : at'[Worker(j)] = at[Worker(j)]
         /\ \A x \in Coros : x # Consumer => at'[x] = at[x]
<1>1. at'[Consumer] = l /\ \A x \in Coros : x # Consumer => at'[x] = at[x]
  BY OneMoves, Names
<1>2. /\ \A j \in Workers : at'[Worker(j)] = at[Worker(j)]
      /\ at'[Parent] = at[Parent] /\ at'[Controller] = at[Controller]
  BY <1>1, Names
<1> QED
  BY <1>1, <1>2 DEF Labels

LEMMA ControllerMoves ==
  ASSUME EventAssumption, Orderly, Labels, NEW l \in ControllerAt,
         at' = [at EXCEPT ![Controller] = l]
  PROVE  /\ Labels' /\ at'[Consumer] = at[Consumer] /\ at'[Parent] = at[Parent]
         /\ \A j \in Workers : at'[Worker(j)] = at[Worker(j)]
         /\ \A x \in Coros : x # Controller => at'[x] = at[x]
<1>1. at'[Controller] = l /\ \A x \in Coros : x # Controller => at'[x] = at[x]
  BY OneMoves, Names
<1>2. /\ \A j \in Workers : at'[Worker(j)] = at[Worker(j)]
      /\ at'[Parent] = at[Parent] /\ at'[Consumer] = at[Consumer]
  BY <1>1, Names
<1> QED
  BY <1>1, <1>2 DEF Labels

-----------------------------------------------------------------------------
(* What a step leaves alone.                                               *)

LEMMA SameQueues ==
  ASSUME EventAssumption, QueuedOnce, UNCHANGED <<event, walk>>,
         \A x \in Coros : at[x] = "queued" => at'[x] = "queued" /\ on'[x] = on[x]
  PROVE  QueuedOnce'
BY DEF QueuedOnce

LEMMA SameLatch ==
  ASSUME EventAssumption, Latched, UNCHANGED <<event, walk, on, count>>,
         \A i \in Workers :
           \/ at'[Worker(i)] = at[Worker(i)] /\ oldState'[Worker(i)] = oldState[Worker(i)]
           \/ at[Worker(i)] \in AfterLatch
           \/ at'[Worker(i)] \notin AfterLatch \cup {"passed", "enqueue"}
  PROVE  Latched'
<1>1. AllCounted' = AllCounted /\ Counted' = Counted
  BY DEF AllCounted, Counted
<1> QED
  BY <1>1 DEF Latched

LEMMA SameScope ==
  ASSUME EventAssumption, Scoped, UNCHANGED <<running, spawned>>,
         \A i \in Workers : /\ at'[Worker(i)] = "created" <=> at[Worker(i)] = "created"
                            /\ at'[Worker(i)] = "done" <=> at[Worker(i)] = "done",
         at'[Parent] = at[Parent] \/ (at[Parent] \notin Unjoined \cup {"joining"}
                                      /\ at'[Parent] \notin Unjoined \cup {"joining"})
  PROVE  Scoped'
<1>1. \A i \in Workers : /\ i \in Active' <=> i \in Active
                         /\ (at'[Worker(i)] # "created") <=> (at[Worker(i)] # "created")
  BY DEF Active
<1>2. Active' = Active
  BY <1>1 DEF Active
<1>3. /\ \A i \in Workers : i <= spawned' <=> at'[Worker(i)] # "created"
      /\ running' = running /\ spawned' = spawned
  BY <1>1 DEF Scoped
<1>4. CASE at'[Parent] = at[Parent]
  BY <1>2, <1>3, <1>4 DEF Scoped
<1>5. CASE at[Parent] \notin Unjoined \cup {"joining"} /\ at'[Parent] \notin Unjoined \cup {"joining"}
  BY <1>2, <1>3, <1>5 DEF Scoped, Unjoined
<1> QED
  BY <1>4, <1>5

LEMMA SameSignals ==
  ASSUME EventAssumption, Signalled, UNCHANGED <<published, taken, auto>>,
         at'[Consumer] = at[Consumer],
         \A i \in Workers : \/ at'[Worker(i)] = at[Worker(i)]
                            \/ {at[Worker(i)], at'[Worker(i)]} \subseteq {"leave", "done"}
                            \/ {at[Worker(i)], at'[Worker(i)]}
                                  \cap {"signal", "clear", "leave", "done"} = {}
  PROVE  Signalled'
<1>1. \A i \in Workers : \A k \in {"signal", "clear"} : at'[Worker(i)] = k <=> at[Worker(i)] = k
  OBVIOUS
<1>2. \A i \in Workers : at'[Worker(i)] \in {"signal", "clear", "leave", "done"}
                         <=> at[Worker(i)] \in {"signal", "clear", "leave", "done"}
  OBVIOUS
<1> QED
  BY <1>1, <1>2 DEF Signalled

LEMMA SameNews ==
  ASSUME EventAssumption, Told, UNCHANGED <<taken, manual>>, at'[Consumer] = at[Consumer],
         at'[Parent] = at[Parent] \/ ({at[Parent], at'[Parent]}
                                        \cap {"suspended", "check", "end", "done"} = {})
  PROVE  Told'
BY DEF Told

-----------------------------------------------------------------------------
(* The workers on their way to the latch.                                  *)

LEMMA Approaches ==
  ASSUME EventAssumption, IInv, NEW i \in Workers,
         at[Worker(i)] \in {"begin", "operation", "ready", "load", "enqueue"},
         NEW l \in {"operation", "ready", "load", "enqueue", "passed"},
         Orderly', at' = [at EXCEPT ![Worker(i)] = l],
         UNCHANGED <<event, on, walk, count, singleVars, running, programVars>>,
         oldState' \in [Coros -> Coros \cup {<<>>, SetState}],
         \A x \in Coros : x # Worker(i) => oldState'[x] = oldState[x],
         l = "passed" /\ on[Worker(i)] = "latch" => AllCounted,
         l = "enqueue" /\ on[Worker(i)] = "latch" /\ oldState'[Worker(i)] = SetState => AllCounted
  PROVE  IInv'
<1>1. /\ Labels' /\ at'[Worker(i)] = l
      /\ \A j \in Workers : j # i => at'[Worker(j)] = at[Worker(j)]
      /\ at'[Parent] = at[Parent] /\ at'[Consumer] = at[Consumer]
      /\ \A x \in Coros : x # Worker(i) => at'[x] = at[x]
  BY WorkerMoves DEF WorkerAt, IInv, Types
<1>2. Types'
  BY <1>1 DEF IInv, Types, Values, singleVars, programVars
<1>3. QueuedOnce'
  BY <1>1, SameQueues DEF IInv
<1>4. Latched'
  <2>1. AllCounted' = AllCounted /\ Counted' = Counted
    BY DEF AllCounted, Counted
  <2>2. \A j \in Workers :
          /\ at'[Worker(j)] \in AfterLatch => AllCounted
          /\ at'[Worker(j)] = "passed" /\ on'[Worker(j)] = "latch" => AllCounted
          /\ at'[Worker(j)] = "enqueue" /\ on'[Worker(j)] = "latch" /\ oldState'[Worker(j)] = SetState
               => AllCounted
    <3>1. ASSUME NEW j \in Workers, j # i PROVE oldState'[Worker(j)] = oldState[Worker(j)]
      BY <3>1, Names
    <3> QED
      BY <1>1, <3>1 DEF IInv, Latched, AfterLatch
  <2> QED
    BY <2>1, <2>2 DEF IInv, Latched
<1>5. Scoped'
  BY <1>1, SameScope DEF IInv, programVars
<1>6. Signalled'
  BY <1>1, SameSignals DEF IInv, programVars, singleVars
<1>7. Told'
  BY <1>1, SameNews DEF IInv, programVars, singleVars
<1> QED
  BY <1>2, <1>3, <1>4, <1>5, <1>6, <1>7 DEF IInv

\* What a waiter has read of a latch that is set, it has read after the count.
LEMMA PointerIsSet ==
  ASSUME EventAssumption, IInv, NEW e \in Events
  PROVE  /\ Pointer(e) \in Coros \cup {<<>>, SetState}
         /\ Pointer(e) = SetState <=> event[e].set
<1>1. event[e].set \in BOOLEAN /\ event[e].list \in Seq(Coros)
  BY DEF IInv, Types, Values
<1>2. event[e].list # <<>> => Head(event[e].list) \in Coros
  BY <1>1
<1>3. <<>> # SetState
  BY DEF SetState
<1> QED
  BY <1>1, <1>2, <1>3, Names DEF Pointer

LEMMA ApproachSteps ==
  ASSUME EventAssumption, IInv, NEW t \in Threads, NEW i \in Workers,
         \/ Begin(t, Worker(i))
         \/ /\ IsSet(t, Worker(i)) \/ Load(t, Worker(i))
            /\ UNCHANGED <<singleVars, running, programVars>>
  PROVE  IInv'
<1> DEFINE w == Worker(i)
<1>1. w \in Coros /\ on[w] \in Events /\ oldState \in [Coros -> Coros \cup {<<>>, SetState}] /\ Orderly
  BY Names DEF IInv, Types, Values
<1> HIDE DEF w
<1>2. CASE Begin(t, w)
  <2>1. ASSUME Goto(w, "ready") PROVE Orderly' /\ at' = [at EXCEPT ![w] = "ready"]
    BY <1>1, <1>2, <2>1, GotoKeeps DEF Begin, Suspensions, Places, WorkerAt
  <2>2. ASSUME Suspend(t, w, "operation") PROVE Orderly' /\ at' = [at EXCEPT ![w] = "operation"]
    BY <1>1, <1>2, <2>2, SuspendKeeps DEF Begin, Suspensions, Places, WorkerAt
  <2>3. at[w] = "begin" /\ UNCHANGED <<eventVars, singleVars, running, programVars>>
    BY <1>2 DEF Begin, Top
  <2> QED
    BY <1>1, <1>2, <2>1, <2>2, <2>3, Approaches DEF Begin, eventVars, w
<1>3. CASE IsSet(t, w) /\ UNCHANGED <<singleVars, running, programVars>>
  <2> DEFINE l == IF event[on[w]].set THEN "passed" ELSE "load"
  <2>1. at[w] = "ready" /\ UNCHANGED <<eventVars, singleVars, running, programVars>>
    BY <1>3 DEF IsSet, Top
  <2>2. Orderly' /\ at' = [at EXCEPT ![w] = l]
    <3>1. l \in Places \ Suspensions
      BY DEF Suspensions, Places, WorkerAt
    <3> QED
      BY <1>1, <1>3, <3>1, GotoKeeps DEF IsSet
  <2>3. l = "passed" /\ on[w] = "latch" => AllCounted
    BY DEF IInv, Latched
  <2> QED
    BY <1>1, <2>1, <2>2, <2>3, Approaches DEF eventVars, w
<1>4. CASE Load(t, w) /\ UNCHANGED <<singleVars, running, programVars>>
  <2>1. /\ at[w] = "load" /\ UNCHANGED <<event, on, walk, count, singleVars, running, programVars>>
        /\ oldState' = [oldState EXCEPT ![w] = Pointer(on[w])]
    BY <1>4 DEF Load, Top
  <2>2. Orderly' /\ at' = [at EXCEPT ![w] = "enqueue"]
    BY <1>1, <1>4, GotoKeeps DEF Load, Suspensions, Places, WorkerAt
  <2>3. /\ oldState' \in [Coros -> Coros \cup {<<>>, SetState}]
        /\ \A x \in Coros : x # w => oldState'[x] = oldState[x]
        /\ oldState'[w] = SetState <=> event[on[w]].set
    BY <1>1, <2>1, PointerIsSet
  <2>4. on[w] = "latch" /\ oldState'[w] = SetState => AllCounted
    BY <2>3 DEF IInv, Latched
  <2> QED
    BY <2>1, <2>2, <2>3, <2>4, Approaches DEF w
<1> QED
  BY <1>2, <1>3, <1>4 DEF w

LEMMA OperationDoneStep ==
  ASSUME EventAssumption, IInv, NEW i \in Workers, OperationDone(i)
  PROVE  IInv'
<1>1. /\ Worker(i) \in Coros /\ i \in Threads /\ Orderly
      /\ oldState \in [Coros -> Coros \cup {<<>>, SetState}]
  BY Names DEF IInv, Types, Values, EventAssumption
<1>2. at[Worker(i)] = "operation" /\ UNCHANGED <<eventVars, singleVars, running, programVars>>
  BY DEF OperationDone
<1>3. Orderly' /\ at' = [at EXCEPT ![Worker(i)] = "ready"]
  BY <1>1, <1>2, ResumeOnKeeps DEF OperationDone, Suspensions, Places, WorkerAt
<1> QED
  BY <1>1, <1>2, <1>3, Approaches DEF eventVars

\* A waiter that links itself is not on a list yet.
LEMMA QueueStep ==
  ASSUME EventAssumption, IInv, NEW t \in Threads, NEW i \in Workers,
         Top(t, Worker(i), "enqueue"), ~event[on[Worker(i)]].set,
         event' = [event EXCEPT ![on[Worker(i)]].list = <<Worker(i)>> \o @],
         Suspend(t, Worker(i), "queued"),
         UNCHANGED <<oldState, on, walk, count, singleVars, running, programVars>>
  PROVE  IInv'
<1> DEFINE w == Worker(i)
           e == on[w]
<1>1. w \in Coros /\ e \in Events /\ Orderly /\ Labels /\ at[w] = "enqueue"
  BY Names DEF IInv, Types, Values, Top
<1>2. Orderly' /\ at' = [at EXCEPT ![w] = "queued"]
  BY <1>1, SuspendKeeps DEF Suspensions, Places, WorkerAt
<1>3. /\ Labels' /\ at'[w] = "queued"
      /\ \A j \in Workers : j # i => at'[Worker(j)] = at[Worker(j)]
      /\ at'[Parent] = at[Parent] /\ at'[Consumer] = at[Consumer]
      /\ \A x \in Coros : x # w => at'[x] = at[x]
  BY <1>1, <1>2, WorkerMoves DEF WorkerAt
<1> HIDE DEF w
<1>4. /\ event \in [Events -> [set : BOOLEAN, list : Seq(Coros)]]
      /\ event[e].list \in Seq(Coros)
  BY <1>1 DEF IInv, Types, Values
<1>5. /\ <<w>> \o event[e].list \in Seq(Coros)
      /\ \A x : Has(<<w>> \o event[e].list, x) <=> x = w \/ Has(event[e].list, x)
      /\ ~Has(event[e].list, w) /\ Once(event[e].list) => Once(<<w>> \o event[e].list)
  BY <1>1, <1>4, PushHas
<1>6. /\ \A f \in Events : ~Has(event[f].list, w)
      /\ \A c \in Coros : ~Has(walk[c], w)
      /\ \A f \in Events : Once(event[f].list)
  BY <1>1 DEF IInv, QueuedOnce
<1>7. /\ event' \in [Events -> [set : BOOLEAN, list : Seq(Coros)]]
      /\ event'[e].list = <<w>> \o event[e].list
      /\ \A f \in Events : event'[f].set = event[f].set /\ (f # e => event'[f].list = event[f].list)
  BY <1>1, <1>4, <1>5 DEF w
<1>8. \A f \in Events : \A x : Has(event'[f].list, x) <=> (f = e /\ x = w) \/ Has(event[f].list, x)
  BY <1>5, <1>7
<1>9. Types'
  BY <1>2, <1>3, <1>7 DEF IInv, Types, Values, singleVars, programVars
<1>10. QueuedOnce'
  <2>1. \A f \in Events : Once(event'[f].list)
    BY <1>5, <1>6, <1>7
  <2>2. ASSUME NEW f \in Events, NEW g \in Events, NEW x \in Coros,
               Has(event'[f].list, x), Has(event'[g].list, x)
        PROVE  f = g
    <3>1. Has(event[f].list, x) /\ Has(event[g].list, x) => f = g
      BY DEF IInv, QueuedOnce
    <3> QED
      BY <1>6, <1>8, <2>2, <3>1
  <2>3. \A f \in Events : \A c, x \in Coros : ~(Has(event'[f].list, x) /\ Has(walk'[c], x))
    BY <1>6, <1>8 DEF IInv, QueuedOnce
  <2>4. ASSUME NEW f \in Events, NEW x \in Coros, Has(event'[f].list, x)
        PROVE  at'[x] = "queued" /\ on'[x] = f
    <3>1. Has(event[f].list, x) => at[x] = "queued" /\ on[x] = f
      BY DEF IInv, QueuedOnce
    <3> QED
      BY <1>3, <1>8, <2>4, <3>1
  <2>5. OnceInAll(walk') /\ \A c, x \in Coros : Has(walk'[c], x) => at'[x] = "queued"
    BY <1>3 DEF IInv, QueuedOnce
  <2> QED
    BY <2>1, <2>2, <2>3, <2>4, <2>5 DEF QueuedOnce
<1>11. Latched'
  <2>1. AllCounted' = AllCounted /\ Counted' = Counted
    BY DEF AllCounted, Counted
  <2>2. event'["latch"].set = event["latch"].set
    BY <1>7 DEF Events
  <2>3. \A j \in Workers : at'[Worker(j)] = at[Worker(j)] \/ at'[Worker(j)] = "queued"
    BY <1>3 DEF w
  <2> QED
    BY <2>1, <2>2, <2>3 DEF IInv, Latched, AfterLatch
<1>12. Scoped'
  BY <1>1, <1>3, SameScope DEF IInv, programVars, w
<1>13. Signalled'
  BY <1>1, <1>3, SameSignals DEF IInv, programVars, singleVars, w
<1>14. Told'
  BY <1>3, SameNews DEF IInv, programVars, singleVars
<1> QED
  BY <1>9, <1>10, <1>11, <1>12, <1>13, <1>14 DEF IInv

LEMMA EnqueueStep ==
  ASSUME EventAssumption, IInv, NEW t \in Threads, NEW i \in Workers,
         Enqueue(t, Worker(i)), UNCHANGED <<singleVars, running, programVars>>
  PROVE  IInv'
<1> DEFINE w == Worker(i)
           now == Pointer(on[w])
<1>1. w \in Coros /\ on[w] \in Events /\ oldState \in [Coros -> Coros \cup {<<>>, SetState}] /\ Orderly
  BY Names DEF IInv, Types, Values
<1>2. Top(t, w, "enqueue") /\ at[w] = "enqueue" /\ UNCHANGED <<on, walk, count>>
  BY DEF Enqueue, Top
<1>3. now \in Coros \cup {<<>>, SetState} /\ (now = SetState <=> event[on[w]].set)
  BY <1>1, PointerIsSet
<1> HIDE DEF w
<1>4. CASE oldState[w] = SetState /\ Goto(w, "passed") /\ UNCHANGED <<event, oldState>>
  <2>1. Orderly' /\ at' = [at EXCEPT ![w] = "passed"]
    BY <1>1, <1>2, <1>4, GotoKeeps DEF Suspensions, Places, WorkerAt
  <2>2. on[w] = "latch" => AllCounted
    BY <1>2, <1>4 DEF IInv, Latched, w
  <2> QED
    BY <1>1, <1>2, <1>4, <2>1, <2>2, Approaches DEF w
<1>5. CASE /\ oldState[w] # SetState /\ oldState[w] = now
           /\ event' = [event EXCEPT ![on[w]].list = <<w>> \o @]
           /\ Suspend(t, w, "queued") /\ UNCHANGED oldState
  BY <1>2, <1>3, <1>5, QueueStep DEF w
<1>6. CASE /\ oldState[w] # SetState /\ oldState[w] # now
           /\ oldState' = [oldState EXCEPT ![w] = now] /\ UNCHANGED <<event, stackVars>>
  <2> HIDE DEF now
  <2>1. Orderly' /\ at' = [at EXCEPT ![w] = "enqueue"]
    BY <1>1, <1>2, <1>6 DEF Orderly, Scheduled, stackVars
  <2>2. /\ oldState' \in [Coros -> Coros \cup {<<>>, SetState}]
        /\ \A x \in Coros : x # w => oldState'[x] = oldState[x]
        /\ oldState'[w] = now
    BY <1>1, <1>3, <1>6
  <2>3. on[w] = "latch" /\ oldState'[w] = SetState => AllCounted
    BY <1>3, <2>2 DEF IInv, Latched
  <2> QED
    BY <1>1, <1>2, <1>6, <2>1, <2>2, <2>3, Approaches DEF w
<1> QED
  BY <1>4, <1>5, <1>6 DEF Enqueue, w

\* The one that brings the count to zero is the last worker.
LEMMA CountDownStep ==
  ASSUME EventAssumption, IInv, NEW t \in Threads, NEW i \in Workers,
         Passed(t, Worker(i), "gate"), CountDown(t, Worker(i)),
         UNCHANGED <<singleVars, running, programVars>>
  PROVE  IInv'
<1> DEFINE w == Worker(i)
           l == IF count <= 1 THEN "set" ELSE "ready"
<1>1. /\ w \in Coros /\ Orderly /\ Labels /\ Top(t, w, "passed") /\ at[w] = "passed"
      /\ on[w] = "gate" /\ on \in [Coros -> Events]
  BY Names DEF IInv, Types, Values, Passed, Top
<1>2. Orderly' /\ at' = [at EXCEPT ![w] = l]
  <2>1. l \in Places \ Suspensions
    BY DEF Suspensions, Places, WorkerAt
  <2> QED
    BY <1>1, <2>1, GotoKeeps DEF CountDown
<1>3. /\ Labels' /\ at'[w] = l
      /\ \A j \in Workers : j # i => at'[Worker(j)] = at[Worker(j)]
      /\ at'[Parent] = at[Parent] /\ at'[Consumer] = at[Consumer]
      /\ \A x \in Coros : x # w => at'[x] = at[x]
  BY <1>1, <1>2, WorkerMoves DEF WorkerAt
<1>4. /\ on' = [on EXCEPT ![w] = "latch"] /\ count' = count - 1
      /\ UNCHANGED <<event, oldState, walk>>
  BY DEF CountDown
<1>5. /\ on'[w] = "latch" /\ \A x \in Coros : x # w => on'[x] = on[x]
      /\ on' \in [Coros -> Events]
  BY <1>1, <1>4 DEF Events
<1>6. /\ \A j \in Workers : j # i => Worker(j) # w
      /\ w # Controller /\ Controller \in Coros
  BY Names
<1> HIDE DEF w
<1>7. \A j \in Workers : on'[Worker(j)] = IF j = i THEN "latch" ELSE on[Worker(j)]
  BY <1>5, <1>6, Names DEF w
<1>8. Types'
  BY <1>2, <1>3, <1>4, <1>5, <1>6 DEF IInv, Types, Values, singleVars, programVars
<1>9. QueuedOnce'
  BY <1>1, <1>3, <1>4, <1>5, SameQueues DEF IInv
<1>10. /\ Counted' = Counted \cup {i} /\ i \notin Counted /\ IsFiniteSet(Counted)
       /\ Counted' \subseteq Workers
  <2>1. Counted \subseteq Workers /\ IsFiniteSet(Workers)
    BY Names DEF Counted
  <2>2. IsFiniteSet(Counted)
    BY <2>1, FS_Subset
  <2> QED
    BY <1>1, <1>7, <2>2 DEF Counted, w
<1>11. /\ count' = LatchCount - Cardinality(Counted') /\ Cardinality(Counted') \in Nat
       /\ IsFiniteSet(Counted')
  <2>1. count = LatchCount - Cardinality(Counted)
    BY DEF IInv, Latched
  <2>2. /\ Cardinality(Counted') = Cardinality(Counted) + 1 /\ Cardinality(Counted) \in Nat
        /\ IsFiniteSet(Counted')
    BY <1>10, OneMore
  <2> QED
    BY <1>4, <2>1, <2>2 DEF EventAssumption
<1>12. l = "set" => AllCounted'
  <2> SUFFICES ASSUME count <= 1 PROVE AllCounted'
    OBVIOUS
  <2>1. count \in Int
    BY DEF IInv, Types, Values
  <2>2. Cardinality(Counted') >= Cardinality(Workers)
    BY <1>4, <1>11, <2>1, Names DEF EventAssumption
  <2>3. /\ Cardinality(Counted') <= Cardinality(Workers)
        /\ Cardinality(Workers) = Cardinality(Counted') => Workers = Counted'
    BY <1>10, Names, FS_Subset
  <2>4. Counted' = Workers
    BY <1>11, <2>2, <2>3, Names DEF EventAssumption
  <2> QED
    BY <2>4 DEF Counted, AllCounted
<1>13. Latched'
  <2>1. AllCounted => AllCounted'
    BY <1>7 DEF AllCounted
  <2>2. \A j \in Workers :
          /\ at'[Worker(j)] \in AfterLatch => AllCounted'
          /\ at'[Worker(j)] = "passed" /\ on'[Worker(j)] = "latch" => AllCounted'
          /\ at'[Worker(j)] = "enqueue" /\ on'[Worker(j)] = "latch" /\ oldState'[Worker(j)] = SetState
               => AllCounted'
    <3>1. at'[Worker(i)] = l /\ l \in {"set", "ready"}
      BY <1>3 DEF w
    <3>2. ASSUME NEW j \in Workers, j # i
          PROVE  at'[Worker(j)] = at[Worker(j)] /\ on'[Worker(j)] = on[Worker(j)]
      BY <1>3, <1>7, <3>2
    <3> HIDE DEF l
    <3> QED
      BY <1>4, <1>12, <2>1, <3>1, <3>2 DEF IInv, Latched, AfterLatch
  <2>3. ASSUME NEW c \in Coros, NEW j \in Workers, Has(walk[c], Worker(j)), on'[Worker(j)] = "latch"
        PROVE  AllCounted'
    <3>1. at[Worker(j)] = "queued"
      BY <2>3, Names DEF IInv, QueuedOnce
    <3>2. j # i
      BY <1>1, <3>1 DEF w
    <3> QED
      BY <1>7, <2>1, <2>3, <3>2 DEF IInv, Latched
  <2>4. event["latch"].set => AllCounted'
    BY <2>1 DEF IInv, Latched
  <2> QED
    BY <1>4, <1>11, <2>2, <2>3, <2>4 DEF Latched
<1>14. Scoped'
  BY <1>1, <1>3, SameScope DEF IInv, programVars, w
<1>15. Signalled'
  BY <1>1, <1>3, SameSignals DEF IInv, programVars, singleVars, w
<1>16. Told'
  BY <1>3, SameNews DEF IInv, programVars, singleVars
<1> QED
  BY <1>8, <1>9, <1>13, <1>14, <1>15, <1>16 DEF IInv

-----------------------------------------------------------------------------
(* set, and the walk along the list that it has taken.                     *)

LEMMA SetStep ==
  ASSUME EventAssumption, IInv, NEW t \in Threads,
         NEW c \in Coros, c = Controller \/ \E i \in Workers : c = Worker(i),
         Set(t, c), UNCHANGED <<singleVars, running, programVars>>
  PROVE  IInv'
<1> DEFINE e == on[c]
           n == event[e].list
<1>1. /\ Orderly /\ Labels /\ Top(t, c, "set") /\ at[c] = "set" /\ e \in Events
      /\ event \in [Events -> [set : BOOLEAN, list : Seq(Coros)]]
      /\ walk \in [Coros -> Seq(Coros)]
      /\ n \in Seq(Coros)
  BY DEF IInv, Types, Values, Set, Top
<1>2. Orderly' /\ at' = [at EXCEPT ![c] = "walk"]
  BY <1>1, GotoKeeps DEF Set, Suspensions, Places, WorkerAt
<1>3. /\ Labels' /\ \A x \in Coros : at'[x] = IF x = c THEN "walk" ELSE at[x]
      /\ at'[Parent] = at[Parent] /\ at'[Consumer] = at[Consumer]
      /\ \A j \in Workers : at'[Worker(j)] = IF Worker(j) = c THEN "walk" ELSE at[Worker(j)]
  <2>1. \A x \in Coros : at'[x] = IF x = c THEN "walk" ELSE at[x]
    BY <1>1, <1>2, OneMoves
  <2>2. Labels'
    BY <1>1, <1>2, WorkerMoves, ControllerMoves DEF WorkerAt, ControllerAt
  <2> QED
    BY <2>1, <2>2, Names
<1>4. /\ event' = [event EXCEPT ![e] = [set |-> TRUE, list |-> <<>>]]
      /\ walk' = [walk EXCEPT ![c] = n]
      /\ UNCHANGED <<on, oldState, count>>
  BY DEF Set
<1>5. /\ event' \in [Events -> [set : BOOLEAN, list : Seq(Coros)]]
      /\ walk' \in [Coros -> Seq(Coros)]
      /\ event'[e].list = <<>> /\ event'[e].set
      /\ \A f \in Events : f # e => event'[f] = event[f]
      /\ walk'[c] = n /\ \A x \in Coros : x # c => walk'[x] = walk[x]
  <2>1. [set |-> TRUE, list |-> <<>>] \in [set : BOOLEAN, list : Seq(Coros)]
    OBVIOUS
  <2> QED
    BY <1>1, <1>4, <2>1
<1>6. Types'
  BY <1>2, <1>3, <1>4, <1>5 DEF IInv, Types, Values, singleVars, programVars
<1>7. (\A x : ~Has(<<>>, x)) /\ Once(<<>>)
  BY DEF Has, Once
<1>8. QueuedOnce'
  <2>1. \A f \in Events : \A x : Has(event'[f].list, x) => f # e /\ Has(event[f].list, x)
    BY <1>5, <1>7
  <2>2. Once(n) /\ \A d, x \in Coros : ~(Has(n, x) /\ Has(walk[d], x))
    BY <1>1 DEF IInv, QueuedOnce
  <2>3. \A x : Has(n, x) => ~OnSome(walk, x)
    <3>1. \A x : Has(n, x) => x \in Coros
      BY <1>1 DEF Has
    <3> HIDE DEF n
    <3> QED
      BY <1>1, <2>2, <3>1 DEF OnSome
  <2>4. OnceInAll(walk')
    <3>1. OnceInAll(walk)
      BY DEF IInv, QueuedOnce
    <3> HIDE DEF n
    <3> QED
      BY <1>1, <1>4, <2>2, <2>3, <3>1, OneStackChanges
  <2>5. \A f \in Events : Once(event'[f].list)
    BY <1>5, <1>7 DEF IInv, QueuedOnce
  <2>6. ASSUME NEW f \in Events, NEW g \in Events, NEW x \in Coros,
               Has(event'[f].list, x), Has(event'[g].list, x)
        PROVE  f = g
    BY <2>1, <2>6 DEF IInv, QueuedOnce
  <2>7. ASSUME NEW f \in Events, NEW d \in Coros, NEW x \in Coros,
               Has(event'[f].list, x), Has(walk'[d], x)
        PROVE  FALSE
    <3>1. f # e /\ Has(event[f].list, x)
      BY <2>1, <2>7
    <3>2. d = c /\ Has(event[e].list, x)
      BY <1>5, <2>7, <3>1 DEF IInv, QueuedOnce
    <3> QED
      BY <1>1, <3>1, <3>2 DEF IInv, QueuedOnce
  <2>8. \A f \in Events : \A x \in Coros : Has(event'[f].list, x) => at'[x] = "queued" /\ on'[x] = f
    BY <1>1, <1>3, <1>4, <2>1 DEF IInv, QueuedOnce
  <2>9. ASSUME NEW d \in Coros, NEW x \in Coros, Has(walk'[d], x) PROVE at'[x] = "queued"
    <3>1. Has(n, x) \/ Has(walk[d], x)
      BY <1>5, <2>9
    <3>2. at[x] = "queued"
      BY <1>1, <3>1 DEF IInv, QueuedOnce
    <3> QED
      BY <1>1, <1>3, <3>2
  <2> QED
    BY <2>4, <2>5, <2>6, <2>7, <2>8, <2>9 DEF QueuedOnce
<1>9. Latched'
  <2>1. AllCounted' = AllCounted /\ Counted' = Counted
    BY <1>4 DEF AllCounted, Counted
  <2>2. e = "latch" => AllCounted
    BY <1>1 DEF IInv, Types, Values, Latched, AfterLatch
  <2>3. event'["latch"].set => AllCounted
    BY <1>5, <2>2 DEF IInv, Latched, Events
  <2>4. ASSUME NEW d \in Coros, NEW j \in Workers, Has(walk'[d], Worker(j)), on[Worker(j)] = "latch"
        PROVE  AllCounted
    <3>1. CASE Has(walk[d], Worker(j))
      BY <2>4, <3>1 DEF IInv, Latched
    <3>2. CASE d = c /\ Has(n, Worker(j))
      BY <1>1, <2>2, <2>4, <3>2, Names DEF IInv, QueuedOnce
    <3> QED
      BY <1>5, <2>4, <3>1, <3>2
  <2>5. \A j \in Workers : at'[Worker(j)] = at[Worker(j)] \/ {at[Worker(j)], at'[Worker(j)]} \subseteq AfterLatch
    BY <1>1, <1>3 DEF AfterLatch
  <2>6. \A j \in Workers :
          /\ at'[Worker(j)] \in AfterLatch => AllCounted
          /\ at'[Worker(j)] = "passed" /\ on'[Worker(j)] = "latch" => AllCounted
          /\ at'[Worker(j)] = "enqueue" /\ on'[Worker(j)] = "latch" /\ oldState'[Worker(j)] = SetState
               => AllCounted
    BY <1>4, <2>5 DEF IInv, Latched, AfterLatch
  <2> QED
    BY <1>4, <2>1, <2>3, <2>4, <2>6 DEF IInv, Latched
<1>10. Scoped'
  BY <1>1, <1>3, SameScope DEF IInv, programVars
<1>11. Signalled'
  BY <1>1, <1>3, SameSignals DEF IInv, programVars, singleVars
<1>12. Told'
  BY <1>3, SameNews DEF IInv, programVars, singleVars
<1> QED
  BY <1>6, <1>8, <1>9, <1>10, <1>11, <1>12 DEF IInv

LEMMA WalkStep ==
  ASSUME EventAssumption, IInv, NEW t \in Threads, NEW l,
         NEW c \in Coros, c = Controller \/ \E i \in Workers : c = Worker(i),
         Walk(t, c, l), walk[c] # <<>>, UNCHANGED <<singleVars, running, programVars>>
  PROVE  IInv'
<1> DEFINE o == Head(walk[c])
           n == Tail(walk[c])
<1>1. /\ Orderly /\ Labels /\ Top(t, c, "walk") /\ at[c] = "walk"
      /\ walk \in [Coros -> Seq(Coros)] /\ OnceInAll(walk)
      /\ Call(t, c, "walk", o, "passed") /\ walk' = [walk EXCEPT ![c] = n]
      /\ UNCHANGED <<event, on, oldState, count>>
  BY DEF IInv, Types, Values, QueuedOnce, Walk, Top
<1>2. /\ o \in Coros /\ Has(walk[c], o) /\ n \in Seq(Coros) /\ Once(n)
      /\ \A x \in Coros : Has(n, x) <=> x # o /\ Has(walk[c], x)
  <2>1. walk[c] \in Seq(Coros) /\ Once(walk[c])
    BY <1>1 DEF OnceInAll
  <2> QED
    BY <2>1, TailHas
<1>3. at[o] = "queued" /\ o # c
  BY <1>1, <1>2 DEF IInv, QueuedOnce
<1>4. PICK j \in Workers : o = Worker(j)
  BY <1>1, <1>2, <1>3, Names DEF Labels, ConsumerAt, ParentAt, ControllerAt
<1>5. Orderly' /\ at' = [at EXCEPT ![c] = "walk", ![o] = "passed"]
  BY <1>1, <1>2, <1>3, CallKeeps DEF Suspensions, Places, WorkerAt
<1>6. at' = [at EXCEPT ![Worker(j)] = "passed"]
  BY <1>1, <1>2, <1>3, <1>4, <1>5 DEF Orderly, Scheduled
<1>7. /\ Labels' /\ at'[o] = "passed"
      /\ \A i \in Workers : i # j => at'[Worker(i)] = at[Worker(i)]
      /\ at'[Parent] = at[Parent] /\ at'[Consumer] = at[Consumer]
      /\ \A x \in Coros : x # o => at'[x] = at[x]
  BY <1>1, <1>4, <1>6, WorkerMoves DEF WorkerAt
<1> HIDE DEF n, o
<1>8. /\ walk' \in [Coros -> Seq(Coros)] /\ walk'[c] = n
      /\ \A x \in Coros : x # c => walk'[x] = walk[x]
  BY <1>1, <1>2
<1>9. Types'
  BY <1>1, <1>5, <1>7, <1>8 DEF IInv, Types, Values, singleVars, programVars
<1>10. \A d, x \in Coros : Has(walk'[d], x) => x # o /\ Has(walk[d], x)
  <2>1. \A d \in Coros : Has(walk[d], o) => d = c
    BY <1>1, <1>2, OneStackEach
  <2> QED
    BY <1>2, <1>8, <2>1
<1>11. QueuedOnce'
  <2>1. OnceInAll(walk')
    <3>1. \A x : Has(n, x) => x \in Coros
      BY <1>2 DEF Has
    <3>2. \A x : Has(n, x) => Has(walk[c], x)
      BY <1>2, <3>1
    <3> QED
      BY <1>1, <1>2, <3>2, OneStackChanges
  <2>2. \A f \in Events : \A x \in Coros : Has(event[f].list, x) => x # o
    BY <1>2 DEF IInv, QueuedOnce
  <2>3. \A f \in Events : \A x \in Coros : Has(event[f].list, x) => at'[x] = "queued" /\ on'[x] = f
    BY <1>1, <1>7, <2>2, ZenonT(60) DEF IInv, QueuedOnce
  <2>4. \A f \in Events : \A d, x \in Coros : ~(Has(event[f].list, x) /\ Has(walk'[d], x))
    BY <1>10 DEF IInv, QueuedOnce
  <2>5. \A d, x \in Coros : Has(walk'[d], x) => at'[x] = "queued"
    BY <1>7, <1>10 DEF IInv, QueuedOnce
  <2> QED
    BY <1>1, <2>1, <2>3, <2>4, <2>5 DEF IInv, QueuedOnce
<1>12. Latched'
  <2>1. AllCounted' = AllCounted /\ Counted' = Counted
    BY <1>1 DEF AllCounted, Counted
  <2>2. on[o] = "latch" => AllCounted
    BY <1>2, <1>4 DEF IInv, Latched
  <2>3. \A i \in Workers : i = j \/ at'[Worker(i)] = at[Worker(i)]
    BY <1>7
  <2>4. \A i \in Workers :
          /\ at'[Worker(i)] \in AfterLatch => AllCounted
          /\ at'[Worker(i)] = "passed" /\ on'[Worker(i)] = "latch" => AllCounted
          /\ at'[Worker(i)] = "enqueue" /\ on'[Worker(i)] = "latch" /\ oldState'[Worker(i)] = SetState
               => AllCounted
    BY <1>1, <1>4, <1>7, <2>2, <2>3 DEF IInv, Latched, AfterLatch
  <2>5. \A d \in Coros, i \in Workers : Has(walk'[d], Worker(i)) /\ on'[Worker(i)] = "latch" => AllCounted
    BY <1>1, <1>10, Names DEF IInv, Latched
  <2> QED
    BY <1>1, <2>1, <2>4, <2>5 DEF IInv, Latched
<1>13. \A i \in Workers : at'[Worker(i)] = at[Worker(i)]
                          \/ (at[Worker(i)] = "queued" /\ at'[Worker(i)] = "passed")
  BY <1>3, <1>4, <1>7
<1>14. Scoped'
  BY <1>7, <1>13, SameScope DEF IInv, programVars
<1>15. Signalled'
  BY <1>7, <1>13, SameSignals DEF IInv, programVars, singleVars
<1>16. Told'
  BY <1>7, SameNews DEF IInv, programVars, singleVars
<1> QED
  BY <1>9, <1>11, <1>12, <1>14, <1>15, <1>16 DEF IInv

\* The last turn: set() returns.
LEMMA WalkEnds ==
  ASSUME EventAssumption, IInv, NEW t \in Threads, NEW i \in Workers,
         Walk(t, Worker(i), "ready"), walk[Worker(i)] = <<>>,
         UNCHANGED <<singleVars, running, programVars>>
  PROVE  IInv'
<1> DEFINE w == Worker(i)
<1>1. /\ w \in Coros /\ Orderly /\ Labels /\ Top(t, w, "walk") /\ at[w] = "walk"
      /\ UNCHANGED <<event, on, oldState, count, walk>> /\ Goto(w, "ready")
  BY Names DEF IInv, Types, Values, Walk, Top
<1>2. Orderly' /\ at' = [at EXCEPT ![w] = "ready"]
  BY <1>1, GotoKeeps DEF Suspensions, Places, WorkerAt
<1>3. /\ Labels' /\ at'[w] = "ready"
      /\ \A j \in Workers : j # i => at'[Worker(j)] = at[Worker(j)]
      /\ at'[Parent] = at[Parent] /\ at'[Consumer] = at[Consumer]
      /\ \A x \in Coros : x # w => at'[x] = at[x]
  BY <1>1, <1>2, WorkerMoves DEF WorkerAt
<1>4. Types'
  BY <1>1, <1>2, <1>3 DEF IInv, Types, Values, singleVars, programVars
<1>5. QueuedOnce'
  BY <1>1, <1>3, SameQueues DEF IInv
<1>6. Latched'
  BY <1>1, <1>3, SameLatch DEF IInv, AfterLatch
<1>7. Scoped'
  BY <1>1, <1>3, SameScope DEF IInv, programVars
<1>8. Signalled'
  BY <1>1, <1>3, SameSignals DEF IInv, programVars, singleVars
<1>9. Told'
  BY <1>3, SameNews DEF IInv, programVars, singleVars
<1> QED
  BY <1>4, <1>5, <1>6, <1>7, <1>8, <1>9 DEF IInv

-----------------------------------------------------------------------------
(* The controller.                                                         *)

LEMMA ClearsTheFlag ==
  ASSUME NEW S, NEW r \in [set : BOOLEAN, list : S], NEW g, g = [r EXCEPT !.set = FALSE]
  PROVE  g \in [set : BOOLEAN, list : S] /\ g.list = r.list
<1>1. g.set = FALSE /\ g.list = r.list /\ r.list \in S
  OBVIOUS
<1>2. g.set \in BOOLEAN
  BY <1>1
<1>3. g = [set |-> g.set, list |-> g.list]
  OBVIOUS
<1> QED
  BY <1>1, <1>2, <1>3

LEMMA ControllerGoes ==
  ASSUME EventAssumption, IInv, NEW l \in ControllerAt, Orderly', at' = [at EXCEPT ![Controller] = l],
         UNCHANGED <<on, oldState, walk, count, singleVars, running>>,
         UNCHANGED <<spawned, published, taken>>,
         event' = event \/ event' = [event EXCEPT !["gate"].set = FALSE],
         at[Controller] # "queued"
  PROVE  IInv'
<1>1. /\ Orderly /\ Labels /\ event \in [Events -> [set : BOOLEAN, list : Seq(Coros)]]
      /\ "gate" \in Events /\ "latch" \in Events
  BY DEF IInv, Types, Values, Events
<1>2. /\ Labels' /\ at'[Consumer] = at[Consumer] /\ at'[Parent] = at[Parent]
      /\ \A j \in Workers : at'[Worker(j)] = at[Worker(j)]
      /\ \A x \in Coros : x # Controller => at'[x] = at[x]
  BY <1>1, ControllerMoves
<1>3. /\ event' \in [Events -> [set : BOOLEAN, list : Seq(Coros)]]
      /\ \A e \in Events : event'[e].list = event[e].list
      /\ event'["latch"] = event["latch"]
  <2>1. CASE event' = event
    BY <1>1, <2>1
  <2>2. CASE event' = [event EXCEPT !["gate"].set = FALSE]
    <3>1. event["gate"] \in [set : BOOLEAN, list : Seq(Coros)]
      BY <1>1
    <3>2. PICK g \in [set : BOOLEAN, list : Seq(Coros)] :
             g = [event["gate"] EXCEPT !.set = FALSE] /\ g.list = event["gate"].list
      BY <3>1, ClearsTheFlag
    <3>3. event' = [event EXCEPT !["gate"] = g]
      BY <2>2, <3>2
    <3>5. /\ event'["gate"] = g /\ \A e \in Events : e # "gate" => event'[e] = event[e]
          /\ event' \in [Events -> [set : BOOLEAN, list : Seq(Coros)]]
      BY <1>1, <3>3
    <3>6. "latch" # "gate"
      OBVIOUS
    <3> QED
      BY <1>1, <3>2, <3>5, <3>6
  <2> QED
    BY <2>1, <2>2
<1>4. Types'
  BY <1>2, <1>3 DEF IInv, Types, Values, singleVars
<1>5. \A x \in Coros : at[x] = "queued" => at'[x] = "queued"
  BY <1>2
<1>6. QueuedOnce'
  BY <1>3, <1>5 DEF IInv, QueuedOnce
<1>7. Latched'
  <2>1. AllCounted' = AllCounted /\ Counted' = Counted
    BY DEF AllCounted, Counted
  <2> QED
    BY <1>2, <1>3, <2>1 DEF IInv, Latched
<1>8. Scoped'
  BY <1>2, SameScope DEF IInv
<1>9. Signalled'
  BY <1>2, SameSignals DEF IInv, singleVars
<1>10. Told'
  BY <1>2, SameNews DEF IInv, singleVars
<1> QED
  BY <1>4, <1>6, <1>7, <1>8, <1>9, <1>10 DEF IInv

LEMMA ControlStep ==
  ASSUME EventAssumption, IInv, NEW t \in Threads, Control(t)
  PROVE  IInv'
<1>1. Controller \in Coros /\ Orderly
  BY Names DEF IInv, Types
<1>2. CASE /\ Top(t, Controller, "command")
           /\ \/ Goto(Controller, "set") /\ UNCHANGED <<event, resets>>
              \/ /\ resets < MaxResets
                 /\ resets' = resets + 1
                 /\ Reset("gate") /\ UNCHANGED stackVars
           /\ UNCHANGED <<on, oldState, walk, count, singleVars, running, spawned, published, taken>>
  <2>1. at[Controller] = "command"
    BY <1>2 DEF Top
  <2>2. CASE Goto(Controller, "set") /\ UNCHANGED <<event, resets>>
    <3>1. Orderly' /\ at' = [at EXCEPT ![Controller] = "set"]
      BY <1>1, <1>2, <2>2, GotoKeeps DEF Suspensions, Places, ControllerAt
    <3> QED
      BY <1>2, <2>1, <2>2, <3>1, ControllerGoes DEF ControllerAt
  <2>3. CASE Reset("gate") /\ UNCHANGED stackVars
    <3>1. Orderly' /\ at' = [at EXCEPT ![Controller] = "command"]
      BY <1>1, <2>1, <2>3 DEF Orderly, Scheduled, stackVars
    <3> QED
      BY <1>2, <2>1, <2>3, <3>1, ControllerGoes DEF ControllerAt, Reset
  <2> QED
    BY <1>2, <2>2, <2>3
<1>3. CASE Set(t, Controller) /\ UNCHANGED <<singleVars, running, programVars>>
  BY <1>1, <1>3, SetStep
<1>4. ASSUME NEW l \in {"command", "end"}, Walk(t, Controller, l),
             UNCHANGED <<singleVars, running, programVars>>
      PROVE  IInv'
  <2>1. CASE walk[Controller] # <<>>
    BY <1>1, <1>4, <2>1, WalkStep
  <2>2. CASE walk[Controller] = <<>>
    <3>1. /\ Top(t, Controller, "walk") /\ at[Controller] = "walk" /\ Goto(Controller, l)
          /\ UNCHANGED <<event, on, oldState, count, walk>>
      BY <1>4, <2>2 DEF Walk, Top
    <3>2. Orderly' /\ at' = [at EXCEPT ![Controller] = l]
      BY <1>1, <3>1, GotoKeeps DEF Suspensions, Places, ControllerAt
    <3> QED
      BY <1>4, <3>1, <3>2, ControllerGoes DEF ControllerAt, programVars
  <2> QED
    BY <2>1, <2>2
<1> QED
  BY <1>2, <1>3, <1>4 DEF Control

-----------------------------------------------------------------------------
(* The workers past the latch.                                             *)

LEMMA PublishStep ==
  ASSUME EventAssumption, IInv, NEW t \in Threads, NEW i \in Workers, Publish(t, i)
  PROVE  IInv'
<1> DEFINE w == Worker(i)
<1>1. /\ w \in Coros /\ Orderly /\ Labels /\ Top(t, w, "passed") /\ at[w] = "passed" /\ on[w] = "latch"
      /\ Goto(w, "signal") /\ published' = published \cup {i}
      /\ UNCHANGED <<eventVars, singleVars, running, spawned, taken, resets>>
  BY Names DEF IInv, Types, Values, Publish, Passed, Top
<1>2. Orderly' /\ at' = [at EXCEPT ![w] = "signal"]
  BY <1>1, GotoKeeps DEF Suspensions, Places, WorkerAt
<1>3. /\ Labels' /\ at'[w] = "signal"
      /\ \A j \in Workers : j # i => at'[Worker(j)] = at[Worker(j)]
      /\ at'[Parent] = at[Parent] /\ at'[Consumer] = at[Consumer]
      /\ \A x \in Coros : x # w => at'[x] = at[x]
  BY <1>1, <1>2, WorkerMoves DEF WorkerAt
<1>4. Types'
  BY <1>1, <1>2, <1>3 DEF IInv, Types, Values, singleVars, eventVars
<1>5. QueuedOnce'
  BY <1>1, <1>3, SameQueues DEF IInv, eventVars
<1>6. Latched'
  <2>1. AllCounted' = AllCounted /\ Counted' = Counted /\ AllCounted
    BY <1>1 DEF AllCounted, Counted, eventVars, IInv, Latched
  <2> QED
    BY <1>1, <2>1 DEF IInv, Latched, eventVars
<1>7. Scoped'
  BY <1>1, <1>3, SameScope DEF IInv
<1>8. Signalled'
  BY <1>1, <1>3 DEF IInv, Signalled, singleVars
<1>9. Told'
  BY <1>1, <1>3, SameNews DEF IInv, singleVars
<1> QED
  BY <1>4, <1>5, <1>6, <1>7, <1>8, <1>9 DEF IInv

LEMMA AutoSetStep ==
  ASSUME EventAssumption, IInv, NEW t \in Threads, NEW i \in Workers,
         AutoSet(t, Worker(i), "leave"), UNCHANGED <<eventVars, running, programVars>>
  PROVE  IInv'
<1> DEFINE w == Worker(i)
           l == IF auto = "waiting" THEN "clear" ELSE "leave"
<1>1. /\ w \in Coros /\ Orderly /\ Labels /\ Top(t, w, "signal") /\ at[w] = "signal"
      /\ Goto(w, l) /\ auto' = "set" /\ manual' = manual
  BY Names DEF IInv, Types, AutoSet, Top
<1>2. Orderly' /\ at' = [at EXCEPT ![w] = l]
  <2>1. l \in Places \ Suspensions
    BY DEF Suspensions, Places, WorkerAt
  <2> QED
    BY <1>1, <2>1, GotoKeeps
<1>3. /\ Labels' /\ at'[w] = l
      /\ \A j \in Workers : j # i => at'[Worker(j)] = at[Worker(j)]
      /\ at'[Parent] = at[Parent] /\ at'[Consumer] = at[Consumer]
      /\ \A x \in Coros : x # w => at'[x] = at[x]
  BY <1>1, <1>2, WorkerMoves DEF WorkerAt
<1>4. Types'
  BY <1>1, <1>2, <1>3 DEF IInv, Types, Values, eventVars, programVars, States
<1>5. QueuedOnce'
  BY <1>1, <1>3, SameQueues DEF IInv, eventVars
<1>6. Latched'
  BY <1>1, <1>3, SameLatch DEF IInv, AfterLatch, eventVars
<1>7. Scoped'
  BY <1>1, <1>3, SameScope DEF IInv, programVars
<1>8. Signalled'
  <2>1. CASE auto = "waiting"
    BY <1>1, <1>3, <2>1 DEF IInv, Signalled, programVars
  <2>2. CASE auto # "waiting"
    BY <1>1, <1>3, <2>2 DEF IInv, Signalled, programVars
  <2> QED
    BY <2>1, <2>2
<1>9. Told'
  BY <1>1, <1>3, SameNews DEF IInv, programVars
<1> QED
  BY <1>4, <1>5, <1>6, <1>7, <1>8, <1>9 DEF IInv

\* It resumes the consumer, which is still suspended.
LEMMA AutoClearStep ==
  ASSUME EventAssumption, IInv, NEW t \in Threads, NEW i \in Workers,
         AutoClear(t, Worker(i), "leave", Consumer, "take"),
         UNCHANGED <<eventVars, running, programVars>>
  PROVE  IInv'
<1> DEFINE w == Worker(i)
<1>1. /\ w \in Coros /\ Consumer \in Coros /\ w # Consumer
      /\ Orderly /\ Labels /\ Top(t, w, "clear") /\ at[w] = "clear"
      /\ Call(t, w, "leave", Consumer, "take") /\ auto' = "unset" /\ manual' = manual
  BY Names DEF IInv, Types, AutoClear, Top
<1>2. at[Consumer] = "suspended"
  BY <1>1 DEF IInv, Signalled
<1>3. Orderly' /\ at' = [at EXCEPT ![w] = "leave", ![Consumer] = "take"]
  <2>1. /\ "leave" \in Places \ Suspensions /\ "take" \in Places \ Suspensions
        /\ at[Consumer] \in Suspensions
    BY <1>2 DEF Suspensions, Places, WorkerAt, ConsumerAt
  <2> QED
    BY <1>1, <2>1, CallKeeps
<1>4. /\ at'[w] = "leave" /\ at'[Consumer] = "take"
      /\ \A x \in Coros : x # w /\ x # Consumer => at'[x] = at[x]
  BY <1>1, <1>3, TwoMove
<1>5. /\ \A j \in Workers : j # i => at'[Worker(j)] = at[Worker(j)]
      /\ at'[Parent] = at[Parent] /\ at'[Controller] = at[Controller]
  BY <1>4, Names
<1>6. Types'
  BY <1>1, <1>3, <1>4, <1>5 DEF IInv, Types, Labels, WorkerAt, ConsumerAt, Values, eventVars,
     programVars, States
<1>7. QueuedOnce'
  BY <1>1, <1>2, <1>4, SameQueues DEF IInv, eventVars
<1>8. Latched'
  BY <1>1, <1>4, <1>5, SameLatch DEF IInv, AfterLatch, eventVars
<1>9. Scoped'
  BY <1>1, <1>4, <1>5, SameScope DEF IInv, programVars
<1>10. Signalled'
  <2>1. \A j \in Workers : at'[Worker(j)] # "clear"
    BY <1>1, <1>4, <1>5 DEF IInv, Signalled
  <2>2. \A j \in Workers : j \in published' <=> at'[Worker(j)] \in {"signal", "clear", "leave", "done"}
    BY <1>1, <1>4, <1>5 DEF IInv, Signalled, programVars
  <2> QED
    BY <1>1, <1>4, <2>1, <2>2 DEF Signalled
<1>11. Told'
  BY <1>1, <1>2, <1>4, <1>5 DEF IInv, Told, programVars
<1> QED
  BY <1>6, <1>7, <1>8, <1>9, <1>10, <1>11 DEF IInv

\* The last one finds the owner of the scope in join().
LEMMA WorkFinishedStep ==
  ASSUME EventAssumption, IInv, NEW t \in Threads, NEW i \in Workers,
         WorkFinished(t, Worker(i), Parent), UNCHANGED <<eventVars, singleVars, programVars>>
  PROVE  IInv'
<1> DEFINE w == Worker(i)
<1>1. /\ w \in Coros /\ Parent \in Coros /\ w # Parent
      /\ Orderly /\ Labels /\ Top(t, w, "leave") /\ at[w] = "leave" /\ running' = running - 1
  BY Names DEF IInv, Types, WorkFinished, Top
<1>2. /\ IsFiniteSet(Active) /\ i \in Active /\ Active \subseteq Workers
      /\ running = Cardinality(Active) + (IF at[Parent] \in Unjoined THEN 1 ELSE 0)
  <2>1. Active \subseteq Workers /\ i \in Active
    BY <1>1 DEF Active
  <2> QED
    BY <2>1, Names, FS_Subset DEF IInv, Scoped
<1>3. /\ Cardinality(Active \ {i}) \in Nat
      /\ Cardinality(Active) = Cardinality(Active \ {i}) + 1
  BY <1>2, OneFewer
<1>4. running \in Int /\ running >= 1
  BY <1>2, <1>3
<1>5. CASE running = 1
  <2>1. at[Parent] \notin Unjoined
    BY <1>2, <1>3, <1>5
  <2>2. at[Parent] = "joining"
    BY <1>5, <2>1 DEF IInv, Scoped
  <2>3. Orderly' /\ at' = [at EXCEPT ![w] = "done", ![Parent] = "joined"]
    BY <1>1, <1>5, <2>2, TransferKeeps DEF Suspensions, Places, WorkerAt, ParentAt, WorkFinished
  <2>4. /\ at'[w] = "done" /\ at'[Parent] = "joined"
        /\ \A x \in Coros : x # w /\ x # Parent => at'[x] = at[x]
    BY <1>1, <2>3, TwoMove
  <2>5. /\ \A j \in Workers : j # i => at'[Worker(j)] = at[Worker(j)]
        /\ at'[Consumer] = at[Consumer] /\ at'[Controller] = at[Controller]
    BY <2>4, Names
  <2>6. Types'
    <3>1. Labels'
      BY <1>1, <2>4, <2>5 DEF Labels, WorkerAt, ParentAt
    <3>2. Values'
      BY <1>1, <1>4 DEF IInv, Types, Values, eventVars, singleVars, programVars
    <3> QED
      BY <2>3, <3>1, <3>2 DEF Types
  <2>7. QueuedOnce'
    BY <1>1, <2>2, <2>4, SameQueues DEF IInv, eventVars
  <2>8. Latched'
    BY <1>1, <2>4, <2>5, SameLatch DEF IInv, AfterLatch, eventVars
  <2>9. Scoped'
    <3>1. Active' = Active \ {i}
      BY <1>2, <2>4, <2>5 DEF Active
    <3>2. running' = 0 /\ Cardinality(Active') = 0
      BY <1>1, <1>2, <1>3, <1>5, <2>1, <3>1
    <3>3. spawned' = LatchCount
      BY <2>2 DEF IInv, Scoped, programVars
    <3>4. \A j \in Workers : j <= spawned' <=> at'[Worker(j)] # "created"
      BY <1>1, <2>4, <2>5 DEF IInv, Scoped, programVars
    <3> QED
      BY <2>4, <3>2, <3>3, <3>4 DEF Scoped, Unjoined
  <2>10. Signalled'
    BY <1>1, <2>4, <2>5, SameSignals DEF IInv, programVars, singleVars
  <2>11. Told'
    BY <2>2, <2>4, <2>5, SameNews DEF IInv, programVars, singleVars
  <2> QED
    BY <2>6, <2>7, <2>8, <2>9, <2>10, <2>11 DEF IInv
<1>6. CASE running # 1
  <2>1. Orderly' /\ at' = [at EXCEPT ![w] = "done"]
    BY <1>1, <1>6, SuspendKeeps DEF Suspensions, Places, WorkerAt, WorkFinished
  <2>2. /\ Labels' /\ at'[w] = "done"
        /\ \A j \in Workers : j # i => at'[Worker(j)] = at[Worker(j)]
        /\ at'[Parent] = at[Parent] /\ at'[Consumer] = at[Consumer]
        /\ \A x \in Coros : x # w => at'[x] = at[x]
    BY <1>1, <2>1, WorkerMoves DEF WorkerAt
  <2>3. Types'
    BY <1>1, <1>4, <2>1, <2>2 DEF IInv, Types, Values, eventVars, singleVars, programVars
  <2>4. QueuedOnce'
    BY <1>1, <2>2, SameQueues DEF IInv, eventVars
  <2>5. Latched'
    BY <1>1, <2>2, SameLatch DEF IInv, AfterLatch, eventVars
  <2>6. Scoped'
    <3>1. Active' = Active \ {i}
      BY <1>2, <2>2 DEF Active
    <3>2. running' = Cardinality(Active') + (IF at'[Parent] \in Unjoined THEN 1 ELSE 0)
      BY <1>1, <1>2, <1>3, <2>2, <3>1
    <3>3. \A j \in Workers : j <= spawned' <=> at'[Worker(j)] # "created"
      BY <1>1, <2>2 DEF IInv, Scoped, programVars
    <3>4. at[Parent] \in Unjoined \cup {"joining"}
      BY <1>4 DEF IInv, Scoped
    <3> QED
      BY <2>2, <3>2, <3>3, <3>4 DEF IInv, Scoped, programVars
  <2>7. Signalled'
    BY <1>1, <2>2, SameSignals DEF IInv, programVars, singleVars
  <2>8. Told'
    BY <2>2, SameNews DEF IInv, programVars, singleVars
  <2> QED
    BY <2>3, <2>4, <2>5, <2>6, <2>7, <2>8 DEF IInv
<1> QED
  BY <1>5, <1>6

-----------------------------------------------------------------------------
(* The consumer.                                                           *)

LEMMA ConsumerGoes ==
  ASSUME EventAssumption, IInv, NEW l \in ConsumerAt, Orderly', at' = [at EXCEPT ![Consumer] = l],
         UNCHANGED <<eventVars, running, spawned, published>>,
         auto' \in States, manual' \in States, taken' \subseteq published,
         at'[Consumer] = l /\ at'[Parent] = at[Parent]
           /\ (\A j \in Workers : at'[Worker(j)] = at[Worker(j)]) => Signalled' /\ Told'
  PROVE  IInv'
<1>1. Orderly /\ Labels
  BY DEF IInv, Types
<1>2. /\ Labels' /\ at'[Consumer] = l /\ at'[Parent] = at[Parent]
      /\ \A j \in Workers : at'[Worker(j)] = at[Worker(j)]
      /\ \A x \in Coros : x # Consumer => at'[x] = at[x]
  BY <1>1, ConsumerMoves
<1>3. Types'
  BY <1>2 DEF IInv, Types, Values, eventVars
<1>4. QueuedOnce'
  <2>1. at[Consumer] # "queued"
    BY <1>1 DEF Labels, ConsumerAt
  <2> QED
    BY <1>2, <2>1, SameQueues DEF IInv, eventVars
<1>5. Latched'
  BY <1>2, SameLatch DEF IInv, eventVars
<1>6. Scoped'
  BY <1>2, SameScope DEF IInv
<1> QED
  BY <1>2, <1>3, <1>4, <1>5, <1>6 DEF IInv

LEMMA TakeStep ==
  ASSUME EventAssumption, IInv, NEW t \in Threads, Take(t)
  PROVE  IInv'
<1>1. /\ Consumer \in Coros /\ Orderly /\ Top(t, Consumer, "take") /\ at[Consumer] = "take"
      /\ taken' = published /\ Goto(Consumer, "tell")
      /\ UNCHANGED <<eventVars, singleVars, running, spawned, published, resets>>
  BY Names DEF IInv, Types, Take, Top
<1>2. Orderly' /\ at' = [at EXCEPT ![Consumer] = "tell"]
  BY <1>1, GotoKeeps DEF Suspensions, Places, ConsumerAt
<1>3. ASSUME at'[Consumer] = "tell", at'[Parent] = at[Parent],
             \A j \in Workers : at'[Worker(j)] = at[Worker(j)]
      PROVE  Signalled' /\ Told'
  <2>1. Signalled'
    BY <1>1, <1>3 DEF IInv, Signalled, singleVars
  <2>2. Told'
    BY <1>1, <1>3 DEF IInv, Told, singleVars
  <2> QED
    BY <2>1, <2>2
<1>4. auto \in States /\ manual \in States
  BY DEF IInv, Types, Values
<1> QED
  BY <1>1, <1>2, <1>3, <1>4, ConsumerGoes DEF ConsumerAt, singleVars

LEMMA AutoAwaitStep ==
  ASSUME EventAssumption, IInv, NEW t \in Threads,
         AutoAwait(t, Consumer) \/ AutoUseUp(t, Consumer, "take"),
         UNCHANGED <<eventVars, running, programVars>>
  PROVE  IInv'
<1>1. /\ Consumer \in Coros /\ Orderly /\ auto \in States /\ manual \in States
      /\ taken \subseteq published
  BY Names DEF IInv, Types, Values
<1>2. CASE AutoAwait(t, Consumer) /\ auto = "unset"
  <2>1. /\ Top(t, Consumer, "await") /\ at[Consumer] = "await" /\ auto' = "waiting"
        /\ Suspend(t, Consumer, "suspended") /\ manual' = manual
    BY <1>2 DEF AutoAwait, Top
  <2>2. Orderly' /\ at' = [at EXCEPT ![Consumer] = "suspended"]
    BY <1>1, <2>1, SuspendKeeps DEF Suspensions, Places, ConsumerAt
  <2>3. ASSUME at'[Consumer] = "suspended", at'[Parent] = at[Parent],
               \A j \in Workers : at'[Worker(j)] = at[Worker(j)]
        PROVE  Signalled' /\ Told'
    <3>1. \A j \in Workers : at[Worker(j)] # "clear"
      BY <2>1 DEF IInv, Signalled
    <3>2. Signalled'
      BY <1>2, <2>1, <2>3, <3>1 DEF IInv, Signalled, programVars
    <3>3. Told'
      BY <2>1, <2>3 DEF IInv, Told, programVars
    <3> QED
      BY <3>2, <3>3
  <2> QED
    BY <1>1, <2>1, <2>2, <2>3, ConsumerGoes DEF ConsumerAt, States, programVars
<1>3. CASE AutoAwait(t, Consumer) /\ auto # "unset"
  <2>1. /\ Top(t, Consumer, "await") /\ at[Consumer] = "await" /\ auto' = auto
        /\ Goto(Consumer, "use up") /\ manual' = manual
    BY <1>3 DEF AutoAwait, Top
  <2>2. Orderly' /\ at' = [at EXCEPT ![Consumer] = "use up"]
    BY <1>1, <2>1, GotoKeeps DEF Suspensions, Places, ConsumerAt
  <2>3. ASSUME at'[Consumer] = "use up", at'[Parent] = at[Parent],
               \A j \in Workers : at'[Worker(j)] = at[Worker(j)]
        PROVE  Signalled' /\ Told'
    <3>1. \A j \in Workers : at[Worker(j)] # "clear"
      BY <2>1 DEF IInv, Signalled
    <3>2. Signalled'
      BY <1>3, <2>1, <2>3, <3>1 DEF IInv, Signalled, programVars
    <3>3. Told'
      BY <2>1, <2>3 DEF IInv, Told, programVars
    <3> QED
      BY <3>2, <3>3
  <2> QED
    BY <1>1, <2>1, <2>2, <2>3, ConsumerGoes DEF ConsumerAt, programVars
<1>4. CASE AutoUseUp(t, Consumer, "take")
  <2>1. /\ Top(t, Consumer, "use up") /\ at[Consumer] = "use up" /\ auto' = "unset"
        /\ Goto(Consumer, "take") /\ manual' = manual
    BY <1>4 DEF AutoUseUp, Top
  <2>2. Orderly' /\ at' = [at EXCEPT ![Consumer] = "take"]
    BY <1>1, <2>1, GotoKeeps DEF Suspensions, Places, ConsumerAt
  <2>3. ASSUME at'[Consumer] = "take", at'[Parent] = at[Parent],
               \A j \in Workers : at'[Worker(j)] = at[Worker(j)]
        PROVE  Signalled' /\ Told'
    <3>1. \A j \in Workers : at[Worker(j)] # "clear"
      BY <2>1 DEF IInv, Signalled
    <3>2. Signalled'
      BY <2>1, <2>3, <3>1 DEF IInv, Signalled, programVars
    <3>3. Told'
      BY <2>1, <2>3 DEF IInv, Told, programVars
    <3> QED
      BY <3>2, <3>3
  <2> QED
    BY <1>1, <2>1, <2>2, <2>3, ConsumerGoes DEF ConsumerAt, States, programVars
<1> QED
  BY <1>2, <1>3, <1>4

\* It tells the parent, and resumes it if it is suspended.
LEMMA ManualSetStep ==
  ASSUME EventAssumption, IInv, NEW t \in Threads,
         ManualSet(t, Consumer, IF taken = Workers THEN "end" ELSE "await", Parent, "reset"),
         UNCHANGED <<eventVars, running, programVars>>
  PROVE  IInv'
<1> DEFINE l == IF taken = Workers THEN "end" ELSE "await"
<1>1. /\ Consumer \in Coros /\ Parent \in Coros /\ Consumer # Parent
      /\ Orderly /\ Labels /\ auto \in States /\ taken \subseteq published
      /\ Top(t, Consumer, "tell") /\ at[Consumer] = "tell" /\ manual' = "set" /\ auto' = auto
  BY Names DEF IInv, Types, Values, ManualSet, Top
<1>2. l \in Places \ Suspensions /\ "reset" \in Places \ Suspensions /\ l \in {"end", "await"}
  BY DEF Suspensions, Places, ConsumerAt, ParentAt
<1>3. \A j \in Workers : at[Worker(j)] # "clear"
  BY <1>1 DEF IInv, Signalled
<1> HIDE DEF l
<1>4. CASE manual = "waiting"
  <2>1. at[Parent] = "suspended" /\ at[Parent] \in Suspensions /\ Call(t, Consumer, l, Parent, "reset")
    BY <1>4 DEF IInv, Told, Suspensions, ManualSet, l
  <2>2. Orderly' /\ at' = [at EXCEPT ![Consumer] = l, ![Parent] = "reset"]
    BY <1>1, <1>2, <2>1, CallKeeps
  <2>3. /\ at'[Consumer] = l /\ at'[Parent] = "reset"
        /\ \A x \in Coros : x # Consumer /\ x # Parent => at'[x] = at[x]
    BY <1>1, <2>2, TwoMove, ZenonT(60)
  <2>4. /\ \A j \in Workers : at'[Worker(j)] = at[Worker(j)]
        /\ at'[Controller] = at[Controller]
    BY <2>3, Names
  <2>5. Types'
    <3>1. Labels'
      BY <1>1, <1>2, <2>3, <2>4 DEF Labels, ConsumerAt, ParentAt
    <3>2. Values'
      BY <1>1 DEF IInv, Types, Values, eventVars, programVars, States
    <3> QED
      BY <2>2, <3>1, <3>2 DEF Types
  <2>6. QueuedOnce'
    BY <1>1, <2>1, <2>3, SameQueues DEF IInv, eventVars
  <2>7. Latched'
    BY <2>4, SameLatch DEF IInv, eventVars
  <2>8. Scoped'
    BY <2>1, <2>3, <2>4, SameScope DEF IInv, programVars, Unjoined
  <2>9. Signalled'
    BY <1>1, <1>2, <1>3, <2>3, <2>4 DEF IInv, Signalled, programVars
  <2>10. Told'
    BY <1>1, <1>2, <2>3 DEF IInv, Told, programVars, l
  <2> QED
    BY <2>5, <2>6, <2>7, <2>8, <2>9, <2>10 DEF IInv
<1>5. CASE manual # "waiting"
  <2>1. Orderly' /\ at' = [at EXCEPT ![Consumer] = l]
    BY <1>1, <1>2, <1>5, GotoKeeps DEF ManualSet, l
  <2>2. ASSUME at'[Consumer] = l, at'[Parent] = at[Parent],
               \A j \in Workers : at'[Worker(j)] = at[Worker(j)]
        PROVE  Signalled' /\ Told'
    <3>1. Signalled'
      BY <1>1, <1>2, <1>3, <2>2 DEF IInv, Signalled, programVars
    <3>2. Told'
      BY <1>1, <1>2, <1>5, <2>2 DEF IInv, Told, programVars, l
    <3> QED
      BY <3>1, <3>2
  <2> QED
    BY <1>1, <1>2, <2>1, <2>2, ConsumerGoes DEF ConsumerAt, States, programVars
<1> QED
  BY <1>4, <1>5

-----------------------------------------------------------------------------
(* The parent.                                                             *)

LEMMA ParentGoes ==
  ASSUME EventAssumption, IInv, NEW l \in ParentAt, Orderly', at' = [at EXCEPT ![Parent] = l],
         UNCHANGED <<eventVars, programVars, auto>>, manual' \in States, running' \in Int,
         at'[Parent] = l /\ at'[Consumer] = at[Consumer]
           /\ (\A j \in Workers : at'[Worker(j)] = at[Worker(j)]) => Scoped' /\ Told'
  PROVE  IInv'
<1>1. Orderly /\ Labels
  BY DEF IInv, Types
<1>2. /\ Labels' /\ at'[Parent] = l /\ at'[Consumer] = at[Consumer]
      /\ \A j \in Workers : at'[Worker(j)] = at[Worker(j)]
      /\ \A x \in Coros : x # Parent => at'[x] = at[x]
  BY <1>1, ParentMoves
<1>3. Types'
  BY <1>2 DEF IInv, Types, Values, eventVars, programVars
<1>4. QueuedOnce'
  <2>1. at[Parent] # "queued"
    BY <1>1 DEF Labels, ParentAt
  <2> QED
    BY <1>2, <2>1, SameQueues DEF IInv, eventVars
<1>5. Latched'
  BY <1>2, SameLatch DEF IInv, eventVars
<1>6. Signalled'
  BY <1>2, SameSignals DEF IInv, programVars
<1> QED
  BY <1>2, <1>3, <1>4, <1>5, <1>6 DEF IInv

\* Spawning a worker runs it, which has not been started before.
LEMMA SpawnStep ==
  ASSUME EventAssumption, IInv, NEW t \in Threads, SpawnNext(t)
  PROVE  IInv'
<1>1. /\ spawned \in 0..LatchCount /\ spawned < LatchCount /\ spawned' = spawned + 1
      /\ spawned + 1 \in Workers
  BY Names DEF SpawnNext, IInv, Types, Values, EventAssumption
<1>2. PICK i \in Workers : i = spawned'
  BY <1>1
<1>3. /\ spawned \in 0..LatchCount /\ spawned < LatchCount /\ spawned' = spawned + 1
      /\ i \in Workers /\ i = spawned' /\ i > spawned
  BY <1>1, <1>2
<1>4. PICK l \in {"join", "spawn"} :
        l = IF spawned' = Cardinality(Workers) THEN "join" ELSE "spawn"
  OBVIOUS
<1> DEFINE w == Worker(i)
<1>5. /\ w \in Coros /\ Parent \in Coros /\ w # Parent
      /\ \A j \in Workers : j # i => Worker(j) # w
  BY <1>3, Names
<1>6. /\ Orderly /\ Labels /\ Top(t, Parent, "spawn") /\ at[Parent] = "spawn" /\ running' = running + 1
      /\ Call(t, Parent, l, w, "begin")
      /\ UNCHANGED <<eventVars, singleVars, published, taken, resets>>
  BY <1>3, <1>4 DEF SpawnNext, Spawn, Top, IInv, Types
<1>7. at[w] = "created"
  BY <1>3 DEF IInv, Scoped
<1>8. l \in {"join", "spawn"} /\ (l = "join" => spawned' = LatchCount)
  BY <1>4, Names
<1> HIDE DEF w
<1>9. Orderly' /\ at' = [at EXCEPT ![Parent] = l, ![w] = "begin"]
  <2>1. l \in Places \ Suspensions /\ "begin" \in Places \ Suspensions /\ at[w] \in Suspensions
    BY <1>7, <1>8 DEF Suspensions, Places, ParentAt, WorkerAt
  <2> QED
    BY <1>5, <1>6, <2>1, CallKeeps
<1>10. /\ at'[Parent] = l /\ at'[w] = "begin"
      /\ \A x \in Coros : x # w /\ x # Parent => at'[x] = at[x]
  <2>1. at \in [Coros -> Places] /\ w \in Coros /\ Parent \in Coros /\ w # Parent
    BY <1>5, <1>6 DEF Orderly, Scheduled
  <2> QED
    BY <1>9, <2>1
<1>11. /\ \A j \in Workers : j # i => at'[Worker(j)] = at[Worker(j)]
      /\ at'[Consumer] = at[Consumer] /\ at'[Controller] = at[Controller]
  <2>1. w # Consumer /\ w # Controller
    BY <1>3, Names DEF w
  <2>2. ASSUME NEW j \in Workers, j # i PROVE at'[Worker(j)] = at[Worker(j)]
    BY <1>5, <1>10, <2>2, Names
  <2> QED
    BY <1>10, <2>1, <2>2, Names
<1>12. at'[Worker(i)] = "begin" /\ at[Worker(i)] = "created"
  BY <1>7, <1>10 DEF w
<1>13. Types'
  <2>1. Labels'
    <3>1. \A j \in Workers : at'[Worker(j)] \in WorkerAt
      BY <1>6, <1>11, <1>12 DEF Labels, WorkerAt
    <3> QED
      BY <1>6, <1>8, <1>10, <1>11, <3>1 DEF Labels, ParentAt
  <2>2. spawned' \in 0..LatchCount
    BY <1>3 DEF EventAssumption
  <2>3. Values'
    BY <1>6, <2>2 DEF IInv, Types, Values, eventVars, singleVars
  <2> QED
    BY <1>9, <2>1, <2>3 DEF Types
<1>14. QueuedOnce'
  BY <1>6, <1>7, <1>10, SameQueues DEF IInv, eventVars
<1>15. Latched'
  BY <1>6, <1>11, <1>12, SameLatch DEF IInv, AfterLatch, eventVars
<1>16. Scoped'
  <2>1. /\ Active \subseteq Workers /\ i \notin Active /\ IsFiniteSet(Active)
        /\ running = Cardinality(Active) + 1
    <3>1. Active \subseteq Workers /\ i \notin Active
      BY <1>12 DEF Active
    <3> QED
      BY <1>6, <3>1, Names, FS_Subset DEF IInv, Scoped, Unjoined
  <2>2. Active' = Active \cup {i}
    BY <1>3, <1>11, <1>12 DEF Active
  <2>3. Cardinality(Active) \in Nat /\ Cardinality(Active') = Cardinality(Active) + 1
    BY <2>1, <2>2, OneMore
  <2>4. running' = Cardinality(Active') + 1 /\ at'[Parent] \in Unjoined
    BY <1>6, <1>8, <1>10, <2>1, <2>3 DEF Unjoined
  <2>5. \A j \in Workers : j <= spawned' <=> at'[Worker(j)] # "created"
    <3>1. ASSUME NEW j \in Workers, j # i PROVE j <= spawned' <=> at'[Worker(j)] # "created"
      <4>1. j \in Int /\ (j <= spawned' <=> j <= spawned)
        BY <1>3, <3>1 DEF EventAssumption
      <4> QED
        BY <1>11, <3>1, <4>1 DEF IInv, Scoped
    <3>2. i <= spawned' /\ at'[Worker(i)] # "created"
      BY <1>3, <1>12 DEF EventAssumption
    <3> QED
      BY <3>1, <3>2
  <2> QED
    BY <1>8, <1>10, <2>4, <2>5 DEF Scoped, Unjoined
<1>17. Signalled'
  BY <1>6, <1>11, <1>12, SameSignals DEF IInv, singleVars
<1>18. Told'
  BY <1>6, <1>8, <1>10, <1>11, SameNews DEF IInv, singleVars
<1> QED
  BY <1>13, <1>14, <1>15, <1>16, <1>17, <1>18 DEF IInv

\* join() gives up the count of the scope itself.
LEMMA JoinStep ==
  ASSUME EventAssumption, IInv, NEW t \in Threads, Join(t, Parent),
         UNCHANGED <<eventVars, singleVars, programVars>>
  PROVE  IInv'
<1>1. /\ Parent \in Coros /\ Orderly /\ Top(t, Parent, "join") /\ at[Parent] = "join"
      /\ running \in Int /\ running' = running - 1 /\ manual \in States
  BY Names DEF Join, Top, IInv, Types, Values
<1>2. /\ Cardinality(Active) \in Nat /\ running = Cardinality(Active) + 1
      /\ spawned = LatchCount /\ \A j \in Workers : j <= spawned <=> at[Worker(j)] # "created"
  <2>1. Active \subseteq Workers
    BY DEF Active
  <2> QED
    BY <1>1, <2>1, Names, FS_Subset, FS_CardinalityType DEF IInv, Scoped, Unjoined
<1>3. ASSUME NEW l \in {"joining", "joined"}, l = "joined" => running = 1, at'[Parent] = l,
             at'[Consumer] = at[Consumer], \A j \in Workers : at'[Worker(j)] = at[Worker(j)]
      PROVE  Scoped' /\ Told'
  <2>1. Active' = Active
    BY <1>3 DEF Active
  <2>2. Scoped'
    BY <1>1, <1>2, <1>3, <2>1 DEF Scoped, Unjoined, programVars
  <2>3. Told'
    BY <1>1, <1>3, SameNews DEF IInv, programVars, singleVars
  <2> QED
    BY <2>2, <2>3
<1>4. CASE running > 1
  <2>1. Orderly' /\ at' = [at EXCEPT ![Parent] = "joining"]
    BY <1>1, <1>4, SuspendKeeps DEF Join, Suspensions, Places, ParentAt
  <2> QED
    BY <1>1, <1>3, <2>1, ParentGoes DEF ParentAt, singleVars
<1>5. CASE ~(running > 1)
  <2>1. running = 1
    BY <1>2, <1>5
  <2>2. Orderly' /\ at' = [at EXCEPT ![Parent] = "joined"]
    BY <1>1, <1>5, GotoKeeps DEF Join, Suspensions, Places, ParentAt
  <2> QED
    BY <1>1, <1>3, <2>1, <2>2, ParentGoes DEF ParentAt, singleVars
<1> QED
  BY <1>4, <1>5

\* Past the join, the parent only follows what the consumer tells.
LEMMA ParentLooks ==
  ASSUME EventAssumption, IInv, NEW l \in ParentAt, Orderly', at' = [at EXCEPT ![Parent] = l],
         UNCHANGED <<eventVars, running, programVars, auto>>, manual' \in States,
         at[Parent] \notin Unjoined \cup {"joining"}, l \notin Unjoined \cup {"joining"},
         manual' = "waiting" <=> l = "suspended",
         at[Consumer] \in {"end", "done"} =>
           manual' = "set" \/ l \in {"check", "end", "done"}
  PROVE  IInv'
<1>1. ASSUME at'[Parent] = l, at'[Consumer] = at[Consumer],
             \A j \in Workers : at'[Worker(j)] = at[Worker(j)]
      PROVE  Scoped' /\ Told'
  <2>1. Scoped'
    BY <1>1, SameScope DEF IInv, programVars
  <2>2. Told'
    BY <1>1 DEF IInv, Told, programVars
  <2> QED
    BY <2>1, <2>2
<1>2. running' \in Int
  BY DEF IInv, Types, Values
<1> QED
  BY <1>1, <1>2, ParentGoes

LEMMA ParentStepKeeps ==
  ASSUME EventAssumption, IInv, NEW t \in Threads, ParentStep(t)
  PROVE  IInv'
<1>1. Parent \in Coros /\ Orderly /\ Told /\ manual \in States
  BY Names DEF IInv, Types, Values
<1>2. CASE Joined(t)
  <2>1. at[Parent] = "joined" /\ UNCHANGED <<eventVars, singleVars, running, programVars>>
    BY <1>2 DEF Joined, Top
  <2>2. Orderly' /\ at' = [at EXCEPT ![Parent] = "look"]
    BY <1>1, <1>2, GotoKeeps DEF Joined, Suspensions, Places, ParentAt
  <2> QED
    BY <1>1, <2>1, <2>2, ParentLooks DEF Told, ParentAt, Unjoined, singleVars
<1>3. CASE Check(t)
  <2> DEFINE l == IF taken = Workers THEN "end" ELSE "look"
  <2>1. at[Parent] = "check" /\ UNCHANGED <<eventVars, singleVars, running, programVars>>
    BY <1>3 DEF Check, Top
  <2>2. l \in Places \ Suspensions /\ l \in {"end", "look"} /\ (l = "look" => taken # Workers)
    BY DEF Suspensions, Places, ParentAt
  <2>3. Top(t, Parent, "check") /\ Goto(Parent, l)
    BY <1>3 DEF Check
  <2> HIDE DEF l
  <2>4. Orderly' /\ at' = [at EXCEPT ![Parent] = l]
    BY <1>1, <2>2, <2>3, GotoKeeps
  <2> QED
    BY <1>1, <2>1, <2>2, <2>4, ParentLooks DEF Told, ParentAt, Unjoined, singleVars
<1>4. CASE ManualReady(t, Parent, "reset") /\ UNCHANGED <<eventVars, running, programVars>>
  <2> DEFINE l == IF manual = "set" THEN "reset" ELSE "wait"
  <2>1. at[Parent] = "look" /\ UNCHANGED singleVars
    BY <1>4 DEF ManualReady, Top
  <2>2. l \in Places \ Suspensions /\ l \in {"reset", "wait"}
    BY DEF Suspensions, Places, ParentAt
  <2>3. Top(t, Parent, "look") /\ Goto(Parent, l)
    BY <1>4 DEF ManualReady
  <2> HIDE DEF l
  <2>4. Orderly' /\ at' = [at EXCEPT ![Parent] = l]
    BY <1>1, <2>2, <2>3, GotoKeeps
  <2> QED
    BY <1>1, <1>4, <2>1, <2>2, <2>4, ParentLooks DEF Told, ParentAt, Unjoined, singleVars
<1>5. CASE ManualAwait(t, Parent, "reset") /\ UNCHANGED <<eventVars, running, programVars>>
  <2>1. at[Parent] = "wait" /\ UNCHANGED auto
    BY <1>5 DEF ManualAwait, Top
  <2>2. CASE manual = "unset"
    <3>1. manual' = "waiting" /\ Orderly' /\ at' = [at EXCEPT ![Parent] = "suspended"]
      BY <1>1, <1>5, <2>2, SuspendKeeps DEF ManualAwait, Suspensions, Places, ParentAt
    <3> QED
      BY <1>1, <1>5, <2>1, <2>2, <3>1, ParentLooks DEF Told, ParentAt, Unjoined, States
  <2>3. CASE manual # "unset"
    <3>1. manual' = manual /\ Orderly' /\ at' = [at EXCEPT ![Parent] = "reset"]
      BY <1>1, <1>5, <2>3, GotoKeeps DEF ManualAwait, Suspensions, Places, ParentAt
    <3> QED
      BY <1>1, <1>5, <2>1, <2>3, <3>1, ParentLooks DEF Told, ParentAt, Unjoined
  <2> QED
    BY <2>2, <2>3
<1>6. CASE ManualReset(t, Parent, "check") /\ UNCHANGED <<eventVars, running, programVars>>
  <2>1. at[Parent] = "reset" /\ UNCHANGED auto /\ manual' = (IF manual = "set" THEN "unset" ELSE manual)
    BY <1>6 DEF ManualReset, Top
  <2>2. Orderly' /\ at' = [at EXCEPT ![Parent] = "check"]
    BY <1>1, <1>6, GotoKeeps DEF ManualReset, Suspensions, Places, ParentAt
  <2> QED
    BY <1>1, <1>6, <2>1, <2>2, ParentLooks DEF Told, ParentAt, Unjoined, States
<1> QED
  BY <1>2, <1>3, <1>4, <1>5, <1>6, SpawnStep, JoinStep DEF ParentStep

-----------------------------------------------------------------------------
(* Starting and ending.                                                    *)

LEMMA StartStep ==
  ASSUME EventAssumption, IInv, NEW c \in {Parent, Consumer, Controller},
         NEW l, c = Parent => l = "spawn", c = Consumer => l = "await",
         c = Controller => l = "command", Start(c, l)
  PROVE  IInv'
<1>1. /\ c \in Coros /\ Orderly /\ at[c] = "created" /\ ResumeOn(StartOn[c], c, l)
      /\ UNCHANGED <<eventVars, singleVars, running, programVars>>
      /\ auto \in States /\ manual \in States /\ running \in Int /\ taken \subseteq published
  BY Names DEF Start, IInv, Types, Values
<1>2. StartOn[c] \in Threads
  <2>1. LatchCount \in Nat /\ Cardinality(Workers) = LatchCount
    BY Names DEF EventAssumption
  <2>2. StartOn[c] \in {LatchCount + 1, LatchCount + 2, LatchCount + 3}
    BY <2>1 DEF StartOn
  <2> QED
    BY <2>1, <2>2 DEF EventAssumption
<1>3. l \in {"spawn", "await", "command"} /\ l \in Places \ Suspensions
  BY DEF Suspensions, Places, ParentAt, ConsumerAt, ControllerAt
<1>4. Orderly' /\ at' = [at EXCEPT ![c] = l]
  <2>1. at[c] \in Suspensions
    BY <1>1 DEF Suspensions
  <2> QED
    BY <1>1, <1>2, <1>3, <2>1, ResumeOnKeeps
<1>5. CASE c = Parent
  <2>1. ASSUME at'[Parent] = "spawn", at'[Consumer] = at[Consumer],
               \A j \in Workers : at'[Worker(j)] = at[Worker(j)]
        PROVE  Scoped' /\ Told'
    <3>1. Active' = Active
      BY <2>1 DEF Active
    <3>2. Scoped'
      BY <1>1, <1>5, <2>1, <3>1 DEF IInv, Scoped, Unjoined, programVars
    <3>3. Told'
      BY <1>1, <1>5, <2>1, SameNews DEF IInv, programVars, singleVars
    <3> QED
      BY <3>2, <3>3
  <2> QED
    BY <1>1, <1>4, <1>5, <2>1, ParentGoes DEF ParentAt, singleVars
<1>6. CASE c = Consumer
  <2>1. ASSUME at'[Consumer] = "await", at'[Parent] = at[Parent],
               \A j \in Workers : at'[Worker(j)] = at[Worker(j)]
        PROVE  Signalled' /\ Told'
    <3>1. Signalled'
      BY <1>1, <1>6, <2>1 DEF IInv, Signalled, programVars, singleVars
    <3>2. Told'
      BY <1>1, <1>6, <2>1 DEF IInv, Told, programVars, singleVars
    <3> QED
      BY <3>1, <3>2
  <2> QED
    BY <1>1, <1>4, <1>6, <2>1, ConsumerGoes DEF ConsumerAt, singleVars, programVars
<1>7. CASE c = Controller
  BY <1>1, <1>4, <1>7, ControllerGoes DEF ControllerAt, eventVars, programVars
<1> QED
  BY <1>5, <1>6, <1>7

LEMMA EndStep ==
  ASSUME EventAssumption, IInv, NEW t \in Threads, NEW c \in {Parent, Consumer, Controller}, Ends(t, c)
  PROVE  IInv'
<1>1. /\ c \in Coros /\ Orderly /\ Top(t, c, "end") /\ at[c] = "end" /\ Suspend(t, c, "done")
      /\ UNCHANGED <<eventVars, singleVars, running, programVars>>
      /\ auto \in States /\ manual \in States /\ taken \subseteq published
  BY Names DEF Ends, Top, IInv, Types, Values
<1>2. Orderly' /\ at' = [at EXCEPT ![c] = "done"]
  BY <1>1, SuspendKeeps DEF Suspensions, Places, ParentAt
<1>3. CASE c = Parent
  BY <1>1, <1>2, <1>3, ParentLooks DEF IInv, Told, ParentAt, Unjoined, singleVars
<1>4. CASE c = Consumer
  <2>1. ASSUME at'[Consumer] = "done", at'[Parent] = at[Parent],
               \A j \in Workers : at'[Worker(j)] = at[Worker(j)]
        PROVE  Signalled' /\ Told'
    <3>1. Signalled'
      BY <1>1, <1>4, <2>1 DEF IInv, Signalled, programVars, singleVars
    <3>2. Told'
      BY <1>1, <1>4, <2>1 DEF IInv, Told, programVars, singleVars
    <3> QED
      BY <3>1, <3>2
  <2> QED
    BY <1>1, <1>2, <1>4, <2>1, ConsumerGoes DEF ConsumerAt, singleVars, programVars
<1>5. CASE c = Controller
  BY <1>1, <1>2, <1>5, ControllerGoes DEF ControllerAt, eventVars, programVars
<1> QED
  BY <1>3, <1>4, <1>5

-----------------------------------------------------------------------------
(* The invariant.                                                          *)

LEMMA InitIInv == EventAssumption /\ Init => IInv
<1> SUFFICES ASSUME EventAssumption, Init PROVE IInv
  OBVIOUS
<1>1. /\ Parent \in Coros /\ Consumer \in Coros /\ Controller \in Coros
      /\ \A i \in Workers : Worker(i) \in Coros
  BY Names
<1>2. /\ stack = [t \in Threads |-> <<>>] /\ at = [c \in Coros |-> "created"]
      /\ event = [e \in Events |-> [set |-> FALSE, list |-> <<>>]]
      /\ on = [c \in Coros |-> "gate"] /\ oldState = [c \in Coros |-> <<>>]
      /\ walk = [c \in Coros |-> <<>>] /\ count = LatchCount
      /\ auto = "unset" /\ manual = "unset" /\ running = 1
      /\ spawned = 0 /\ published = {} /\ taken = {}
  BY DEF Init, EventInit, SingleInit, ScopeInit
<1>3. Once(<<>>) /\ \A x : ~Has(<<>>, x)
  BY DEF Once, Has
<1>4. Types
  <2>1. Orderly
    <3>1. /\ "created" \in Places /\ "created" \in Suspensions
      BY DEF Places, Suspensions, WorkerAt
    <3>2. /\ DOMAIN stack = Threads /\ \A t \in Threads : stack[t] = <<>> /\ stack[t] \in Seq(Coros)
          /\ \A c \in Coros : at[c] = "created"
      BY <1>2
    <3>3. stack \in [Threads -> Seq(Coros)] /\ at \in [Coros -> Places]
      BY <1>2, <3>1
    <3>4. OnceInAll(stack)
      BY <1>3, <3>2 DEF OnceInAll
    <3>5. \A c \in Coros : ~OnSome(stack, c)
      BY <1>3, <3>2 DEF OnSome
    <3> QED
      BY <3>1, <3>2, <3>3, <3>4, <3>5 DEF Orderly, Scheduled
  <2>2. Labels
    BY <1>1, <1>2 DEF Labels, WorkerAt, ConsumerAt, ControllerAt, ParentAt
  <2>3. Values
    BY <1>1, <1>2 DEF Values, Events, States, EventAssumption
  <2> QED
    BY <2>1, <2>2, <2>3 DEF Types
<1>5. QueuedOnce
  <2>1. \A e \in Events : event[e].list = <<>>
    BY <1>2
  <2>2. DOMAIN walk = Coros /\ \A c \in Coros : walk[c] = <<>>
    BY <1>2
  <2>3. OnceInAll(walk)
    BY <1>3, <2>2 DEF OnceInAll
  <2> QED
    BY <1>3, <2>1, <2>2, <2>3 DEF QueuedOnce
<1>6. Latched
  <2>1. Counted = {}
    BY <1>1, <1>2 DEF Counted
  <2>2. ~event["latch"].set /\ \A c \in Coros : walk[c] = <<>>
    BY <1>2 DEF Events
  <2>3. count = LatchCount - Cardinality(Counted)
    BY <1>2, <2>1, FS_EmptySet DEF EventAssumption
  <2> QED
    BY <1>1, <1>2, <1>3, <2>2, <2>3 DEF Latched, AfterLatch
<1>7. Scoped
  <2>1. Active = {}
    BY <1>1, <1>2 DEF Active
  <2> QED
    BY <1>1, <1>2, <2>1, FS_EmptySet DEF Scoped, Unjoined, EventAssumption
<1>8. Signalled
  BY <1>1, <1>2 DEF Signalled
<1>9. Told
  <2>1. Workers # {}
    BY DEF EventAssumption
  <2> QED
    BY <1>1, <1>2, <2>1 DEF Told
<1> QED
  BY <1>4, <1>5, <1>6, <1>7, <1>8, <1>9 DEF IInv

LEMMA WorkerStepKeeps ==
  ASSUME EventAssumption, IInv, NEW t \in Threads, NEW i \in Workers, WorkerStep(t, i)
  PROVE  IInv'
<1>1. Worker(i) \in Coros
  BY Names
<1>2. CASE Begin(t, Worker(i))
  BY <1>2, ApproachSteps
<1>3. CASE Publish(t, i)
  BY <1>3, PublishStep
<1>4. CASE /\ \/ IsSet(t, Worker(i)) \/ Load(t, Worker(i)) \/ Enqueue(t, Worker(i))
              \/ Passed(t, Worker(i), "gate") /\ CountDown(t, Worker(i))
              \/ Set(t, Worker(i)) \/ Walk(t, Worker(i), "ready")
           /\ UNCHANGED <<singleVars, running, programVars>>
  <2>1. CASE IsSet(t, Worker(i)) \/ Load(t, Worker(i))
    BY <1>4, <2>1, ApproachSteps
  <2>2. CASE Enqueue(t, Worker(i))
    BY <1>4, <2>2, EnqueueStep
  <2>3. CASE Passed(t, Worker(i), "gate") /\ CountDown(t, Worker(i))
    BY <1>4, <2>3, CountDownStep
  <2>4. CASE Set(t, Worker(i))
    BY <1>1, <1>4, <2>4, SetStep
  <2>5. CASE Walk(t, Worker(i), "ready")
    BY <1>1, <1>4, <2>5, WalkStep, WalkEnds
  <2> QED
    BY <1>4, <2>1, <2>2, <2>3, <2>4, <2>5
<1>5. CASE /\ AutoSet(t, Worker(i), "leave") \/ AutoClear(t, Worker(i), "leave", Consumer, "take")
           /\ UNCHANGED <<eventVars, running, programVars>>
  BY <1>5, AutoSetStep, AutoClearStep
<1>6. CASE WorkFinished(t, Worker(i), Parent) /\ UNCHANGED <<eventVars, singleVars, programVars>>
  BY <1>6, WorkFinishedStep
<1> QED
  BY <1>2, <1>3, <1>4, <1>5, <1>6 DEF WorkerStep

LEMMA NextIInv == EventAssumption /\ IInv /\ [Next]_vars => IInv'
<1> SUFFICES ASSUME EventAssumption, IInv, [Next]_vars PROVE IInv'
  OBVIOUS
<1>1. ASSUME NEW t \in Threads, Run(t) PROVE IInv'
  <2>1. CASE \E i \in Workers : WorkerStep(t, i)
    BY <2>1, WorkerStepKeeps
  <2>2. CASE Control(t)
    BY <2>2, ControlStep
  <2>3. CASE Consume(t)
    BY <2>3, TakeStep, AutoAwaitStep, ManualSetStep DEF Consume
  <2>4. CASE ParentStep(t)
    BY <2>4, ParentStepKeeps
  <2>5. CASE \E c \in {Parent, Consumer, Controller} : Ends(t, c)
    BY <2>5, EndStep
  <2> QED
    BY <1>1, <2>1, <2>2, <2>3, <2>4, <2>5 DEF Run
<1>2. ASSUME NEW i \in Workers, OperationDone(i) PROVE IInv'
  BY <1>2, OperationDoneStep
<1>3. CASE Starts
  <2>1. Parent # Consumer /\ Parent # Controller /\ Consumer # Controller
    BY Names
  <2> QED
    BY <1>3, <2>1, StartStep DEF Starts
<1>4. CASE UNCHANGED vars
  <2>1. UNCHANGED <<stack, at, event, on, oldState, walk, count, auto, manual, running, spawned,
                    published, taken>>
    BY <1>4 DEF vars, stackVars, eventVars, singleVars, programVars
  <2>2. Types'
    BY <2>1 DEF IInv, Types, Orderly, Labels, Values
  <2>3. QueuedOnce'
    BY <2>1 DEF IInv, QueuedOnce
  <2>4. Latched'
    BY <2>1 DEF IInv, Latched, AllCounted, Counted
  <2>5. Scoped'
    BY <2>1 DEF IInv, Scoped, Active
  <2>6. Signalled'
    BY <2>1 DEF IInv, Signalled
  <2>7. Told'
    BY <2>1 DEF IInv, Told
  <2> QED
    BY <2>2, <2>3, <2>4, <2>5, <2>6, <2>7 DEF IInv
<1> QED
  BY <1>1, <1>2, <1>3, <1>4 DEF Next

\* What the coroutines, the lists of waiters, the latch, the scope and the two
\* single consumer events are to each other, in every state that is reached.
THEOREM Consistent == EventAssumption => (Spec => []IInv)
<1> SUFFICES ASSUME EventAssumption PROVE Spec => []IInv
  OBVIOUS
<1>1. Init => IInv
  BY InitIInv
<1>2. IInv /\ [Next]_vars => IInv'
  BY NextIInv
<1> QED
  BY <1>1, <1>2, PTL DEF Spec

\* However many workers wait, and whenever the gate, the latch and the two
\* single consumer events are set: no coroutine is resumed while it runs, or
\* by two threads.
THEOREM ResumedByOne == EventAssumption => (Spec => []OneActivation)
<1> SUFFICES ASSUME EventAssumption PROVE Spec => []OneActivation
  OBVIOUS
<1>1. IInv => OneActivation
  <2> SUFFICES ASSUME IInv, NEW c \in Coros
               PROVE  Activations(c) = IF at[c] \in Suspensions THEN 0 ELSE 1
    BY DEF OneActivation
  <2>1. IsFiniteSet(Coros) /\ Scheduled(Threads, Coros, Places, Suspensions, stack, at)
    BY Names DEF IInv, Types, Orderly
  <2>2. PICK P : P = {p \in Threads \X (1..Cardinality(Coros)) :
                        p[2] <= Len(stack[p[1]]) /\ stack[p[1]][p[2]] = c}
    OBVIOUS
  <2>3. \A p : p \in P <=> /\ p \in Threads \X (1..Cardinality(Coros))
                          /\ p[2] <= Len(stack[p[1]]) /\ stack[p[1]][p[2]] = c
    BY <2>2
  <2>4. Cardinality(P) = IF at[c] \in Suspensions THEN 0 ELSE 1
    BY <2>1, <2>3, RunsOnce
  <2> QED
    BY <2>2, <2>4 DEF Activations
<1>2. Spec => []IInv
  BY Consistent
<1> QED
  BY <1>1, <1>2, PTL

\* For every number of workers: who passes the latch finds that all have
\* counted down, and who has joined the scope finds all of its work done.
THEOREM WaitersFindIt == EventAssumption => (Spec => []WaitersFindWhatTheyWaitedFor)
<1> SUFFICES ASSUME EventAssumption PROVE Spec => []WaitersFindWhatTheyWaitedFor
  OBVIOUS
<1>1. IInv => WaitersFindWhatTheyWaitedFor
  <2> SUFFICES ASSUME IInv PROVE WaitersFindWhatTheyWaitedFor
    OBVIOUS
  <2>1. ASSUME published # {} PROVE \A i \in Workers : on[Worker(i)] = "latch"
    <3>1. PICK i \in Workers : i \in published
      BY <2>1 DEF IInv, Types, Values
    <3>2. at[Worker(i)] \in AfterLatch
      BY <3>1 DEF IInv, Signalled, AfterLatch
    <3> QED
      BY <3>2 DEF IInv, Latched, AllCounted
  <2>2. ASSUME at[Parent] \notin {"created", "spawn", "join", "joining"}
        PROVE  published = Workers /\ \A i \in Workers : at[Worker(i)] = "done"
    <3>1. running = 0 /\ spawned = LatchCount /\ running = Cardinality(Active)
      <4>1. Active \subseteq Workers /\ IsFiniteSet(Workers)
        BY Names DEF Active
      <4>2. Cardinality(Active) \in Nat
        BY <4>1, FS_Subset, FS_CardinalityType
      <4> QED
        BY <2>2, <4>2 DEF IInv, Scoped, Unjoined
    <3>2. IsFiniteSet(Active)
      BY Names, FS_Subset DEF Active
    <3>3. Active = {}
      BY <3>1, <3>2, FS_EmptySet
    <3>4. \A i \in Workers : at[Worker(i)] # "created"
      BY <3>1 DEF IInv, Scoped, EventAssumption
    <3>5. \A i \in Workers : at[Worker(i)] = "done"
      BY <3>3, <3>4 DEF Active
    <3> QED
      BY <3>5 DEF IInv, Signalled, Types, Values
  <2> QED
    BY <2>1, <2>2 DEF WaitersFindWhatTheyWaitedFor
<1>2. Spec => []IInv
  BY Consistent
<1> QED
  BY <1>1, <1>2, PTL

\* For every number of workers: the consumer is suspended before an item, and
\* the parent before the last one, only while somebody is on the way to it.
THEOREM NoSignalIsLost == EventAssumption => (Spec => []SignalIsNotLost)
<1> SUFFICES ASSUME EventAssumption PROVE Spec => []SignalIsNotLost
  OBVIOUS
<1>1. IInv => SignalIsNotLost
  <2> SUFFICES ASSUME IInv PROVE SignalIsNotLost
    OBVIOUS
  <2>1. ASSUME at[Consumer] = "suspended", taken # published
        PROVE  \E i \in Workers : at[Worker(i)] \in {"signal", "clear"}
    BY <2>1 DEF IInv, Signalled
  <2>2. ASSUME at[Parent] = "suspended", taken = Workers PROVE at[Consumer] = "tell"
    BY <2>2 DEF IInv, Told
  <2> QED
    BY <2>1, <2>2 DEF SignalIsNotLost
<1>2. Spec => []IInv
  BY Consistent
<1> QED
  BY <1>1, <1>2, PTL

-----------------------------------------------------------------------------
(* The echo server.                                                        *)

TypeOK ==
    /\ acceptor \in {"accepting", "completed"}
    /\ session \in [Clients -> {"none", "read", "write", "ended"}]
    /\ data \in [Clients -> Seq(Nat)] /\ \A c \in Clients : Len(data[c]) = BufferSize
    /\ length \in [Clients -> 0..BufferSize]
    /\ ready \in Seq(Completion)
    /\ connection \in [Clients -> {"none", "pending", "accepted", "aborted"}]
    /\ closed \subseteq Clients
    /\ sent \in [Clients -> Nat]
    /\ inbox \in [Clients -> Seq(Nat)]
    /\ written \in [Clients -> 0..BufferSize]
    /\ received \in [Clients -> Seq(Nat)]

\* A completion is of the operation that its session, or the accept loop,
\* waits for; a write completes when all is out.
Awaited(r) ==
    /\ r.of = "accept" => /\ acceptor = "completed" /\ session[r.from] = "none"
                          /\ connection[r.from] \in {"accepted", "aborted"}
    /\ r.of # "accept" => session[r.from] = r.of
    /\ r.of = "write" /\ ~r.error => written[r.from] = length[r.from]

AllAwaited == \A i \in 1..Len(ready) : Awaited(ready[i])

\* Of the accept loop, and of a session, there is one completion at most.
SameOwner(r, q) == (r.of = "accept" /\ q.of = "accept")
                   \/ (r.of # "accept" /\ q.of # "accept" /\ r.from = q.from)
OneEach == \A i, j \in 1..Len(ready) : SameOwner(ready[i], ready[j]) => i = j

\* A session starts when its client is accepted, and writes what it has.
Sessions == \A c \in Clients :
    /\ connection[c] \in {"none", "pending"} => session[c] = "none"
    /\ session[c] = "write" => written[c] <= length[c]

InOrder == TypeOK /\ AllAwaited /\ OneEach /\ Sessions
EchoInv == InOrder /\ EchoIsTheStream

-----------------------------------------------------------------------------
(* The completions.                                                        *)

LEMMA ReadyGrows ==
  ASSUME ready \in Seq(Completion), NEW r \in Completion, ready' = Append(ready, r)
  PROVE  /\ ready' \in Seq(Completion) /\ Len(ready') = Len(ready) + 1
         /\ \A i \in 1..Len(ready) : i \in 1..Len(ready') /\ ready'[i] = ready[i]
         /\ Len(ready) + 1 \in 1..Len(ready') /\ ready'[Len(ready) + 1] = r
         /\ \A i \in 1..Len(ready') : i \in 1..Len(ready) \/ i = Len(ready) + 1
<1>1. /\ ready' \in Seq(Completion) /\ Len(ready') = Len(ready) + 1
      /\ ready'[Len(ready) + 1] = r /\ \A i \in 1..Len(ready) : ready'[i] = ready[i]
  BY AppendProperties
<1>2. Len(ready) \in Nat
  BY LenProperties
<1> QED
  BY <1>1, <1>2

LEMMA ReadyShrinks ==
  ASSUME ready \in Seq(Completion), ready # <<>>, ready' = Tail(ready)
  PROVE  /\ ready' \in Seq(Completion) /\ 1 \in 1..Len(ready) /\ ready[1] = Head(ready)
         /\ Head(ready) \in Completion
         /\ \A i \in 1..Len(ready') :
               i + 1 \in 1..Len(ready) /\ i + 1 # 1 /\ ready'[i] = ready[i + 1]
         /\ \A i \in 1..Len(ready) :
               i = 1 \/ (i - 1 \in 1..Len(ready') /\ ready'[i - 1] = ready[i])
         /\ \A i, j \in 1..Len(ready') : i + 1 = j + 1 => i = j
<1>1. /\ ready' \in Seq(Completion) /\ Len(ready') = Len(ready) - 1
      /\ \A i \in 1..Len(ready') : ready'[i] = ready[i + 1]
      /\ Head(ready) \in Completion
  BY HeadTailProperties
<1>2. Len(ready) \in Nat \ {0} /\ Len(ready') \in Nat /\ Head(ready) = ready[1]
  BY <1>1, EmptySeq, LenProperties
<1>3. \A i \in 1..Len(ready) : i = 1 \/ (i - 1 \in 1..Len(ready') /\ (i - 1) + 1 = i)
  BY <1>1, <1>2
<1> QED
  BY <1>1, <1>2, <1>3

LEMMA Fields ==
  ASSUME NEW r \in Completion
  PROVE  /\ r.of \in {"accept", "read", "write"} /\ r.from \in Clients
         /\ r.error \in BOOLEAN /\ r.size \in 0..BufferSize
BY DEF Completion

\* A completion arrives that nobody else may have.
LEMMA Arrives ==
  ASSUME TypeOK, AllAwaited, OneEach, NEW r \in Completion, ready' = Append(ready, r),
         \A q \in Completion : Awaited(q) /\ ~SameOwner(q, r) => Awaited(q)',
         Awaited(r)', \A i \in 1..Len(ready) : ~SameOwner(ready[i], r)
  PROVE  ready' \in Seq(Completion) /\ AllAwaited' /\ OneEach'
<1>0. ready \in Seq(Completion) /\ \A i \in 1..Len(ready) : ready[i] \in Completion
  BY ElementOfSeq DEF TypeOK
<1>1. /\ ready' \in Seq(Completion)
      /\ \A i \in 1..Len(ready) : i \in 1..Len(ready') /\ ready'[i] = ready[i]
      /\ Len(ready) + 1 \in 1..Len(ready') /\ ready'[Len(ready) + 1] = r
      /\ \A i \in 1..Len(ready') : i \in 1..Len(ready) \/ i = Len(ready) + 1
  BY <1>0, ReadyGrows
<1>2. AllAwaited'
  <2> SUFFICES ASSUME NEW i \in 1..Len(ready') PROVE Awaited(ready[i])'
    BY DEF AllAwaited
  <2>1. CASE i \in 1..Len(ready)
    BY <1>0, <1>1, <2>1 DEF AllAwaited
  <2>2. CASE i = Len(ready) + 1
    BY <1>1, <2>2
  <2> QED
    BY <1>1, <2>1, <2>2
<1>3. OneEach'
  BY <1>1 DEF OneEach, SameOwner
<1> QED
  BY <1>1, <1>2, <1>3

\* The first completion is handled.
LEMMA Handled ==
  ASSUME TypeOK, AllAwaited, OneEach, ready # <<>>, ready' = Tail(ready),
         \A q \in Completion : Awaited(q) /\ ~SameOwner(q, Head(ready)) => Awaited(q)'
  PROVE  ready' \in Seq(Completion) /\ AllAwaited' /\ OneEach'
<1>0. ready \in Seq(Completion) /\ \A i \in 1..Len(ready) : ready[i] \in Completion
  BY ElementOfSeq DEF TypeOK
<1>1. /\ ready' \in Seq(Completion) /\ 1 \in 1..Len(ready) /\ ready[1] = Head(ready)
      /\ \A i \in 1..Len(ready') :
            i + 1 \in 1..Len(ready) /\ i + 1 # 1 /\ ready'[i] = ready[i + 1]
      /\ \A i, j \in 1..Len(ready') : i + 1 = j + 1 => i = j
  BY <1>0, ReadyShrinks
<1>2. AllAwaited'
  <2> SUFFICES ASSUME NEW i \in 1..Len(ready') PROVE Awaited(ready[i])'
    BY DEF AllAwaited
  <2>1. ~SameOwner(ready[i + 1], Head(ready)) /\ Awaited(ready[i + 1])
    BY <1>1 DEF OneEach, AllAwaited
  <2> QED
    BY <1>0, <1>1, <2>1
<1>3. OneEach'
  BY <1>1 DEF OneEach, SameOwner
<1> QED
  BY <1>1, <1>2, <1>3

\* No completion comes or goes.
LEMMA Unanswered ==
  ASSUME TypeOK, AllAwaited, OneEach, ready' = ready,
         \A q \in Completion : Awaited(q) => Awaited(q)'
  PROVE  ready' \in Seq(Completion) /\ AllAwaited' /\ OneEach'
BY ElementOfSeq DEF TypeOK, AllAwaited, OneEach, SameOwner

-----------------------------------------------------------------------------
(* Every step keeps the order of the operations.                           *)

LEMMA ClientStep ==
  ASSUME InOrder, NEW c \in Clients, Connect(c) \/ Send(c) \/ Close(c)
  PROVE  InOrder'
<1>1. ready' = ready /\ UNCHANGED <<server, data, written, received>>
  BY DEF Connect, Send, Close
<1>2. \/ connection[c] = "none" /\ connection' = [connection EXCEPT ![c] = "pending"]
      \/ connection' = connection
  BY DEF Connect, Send, Close
<1>3. \A q \in Completion : Awaited(q) => Awaited(q)'
  BY <1>1, <1>2, Fields DEF Awaited, server, InOrder, TypeOK
<1>4. ready' \in Seq(Completion) /\ AllAwaited' /\ OneEach'
  BY <1>1, <1>3, Unanswered DEF InOrder
<1>5. TypeOK'
  <2>1. closed' \subseteq Clients /\ sent' \in [Clients -> Nat]
        /\ connection' \in [Clients -> {"none", "pending", "accepted", "aborted"}]
    <3>1. CASE Connect(c)
      BY <1>2, <3>1 DEF Connect, InOrder, TypeOK
    <3>2. CASE Send(c)
      BY <3>2 DEF Send, InOrder, TypeOK
    <3>3. CASE Close(c)
      BY <3>3 DEF Close, InOrder, TypeOK
    <3> QED
      BY <3>1, <3>2, <3>3
  <2>2. inbox' \in [Clients -> Seq(Nat)]
    <3>1. CASE Send(c)
      <4>1. inbox[c] \in Seq(Nat) /\ sent[c] + 1 \in Nat
        BY DEF InOrder, TypeOK
      <4>2. Append(inbox[c], sent[c] + 1) \in Seq(Nat)
        BY <4>1, AppendProperties
      <4>3. inbox' = [inbox EXCEPT ![c] = Append(inbox[c], sent[c] + 1)]
        BY <3>1 DEF Send
      <4> QED
        BY <4>2, <4>3 DEF InOrder, TypeOK
    <3>2. CASE inbox' = inbox
      BY <3>2 DEF InOrder, TypeOK
    <3> QED
      BY <3>1, <3>2 DEF Connect, Close
  <2> QED
    BY <1>1, <1>4, <2>1, <2>2 DEF server, InOrder, TypeOK
<1>6. Sessions'
  BY <1>1, <1>2 DEF server, Sessions, InOrder, TypeOK
<1> QED
  BY <1>4, <1>5, <1>6 DEF InOrder

LEMMA AcceptStep ==
  ASSUME InOrder, NEW c \in Clients, AcceptSome(c) \/ AcceptFails(c)
  PROVE  InOrder'
<1>1. PICK e \in BOOLEAN :
         /\ ready' = Append(ready, [of |-> "accept", from |-> c, error |-> e, size |-> 0])
         /\ connection' = [connection EXCEPT ![c] = IF e THEN "aborted" ELSE "accepted"]
  BY DEF AcceptSome, AcceptFails, Complete
<1>2. /\ acceptor = "accepting" /\ connection[c] = "pending" /\ acceptor' = "completed"
      /\ UNCHANGED <<session, data, length, closed, sent, inbox, written, received>>
  BY DEF AcceptSome, AcceptFails, Accepting
<1> DEFINE r == [of |-> "accept", from |-> c, error |-> e, size |-> 0]
<1>3. /\ r \in Completion /\ r.of = "accept" /\ r.from = c /\ ready' = Append(ready, r)
      /\ session[c] = "none"
  BY <1>1, <1>2, SizeAssumption DEF Completion, InOrder, Sessions
<1> HIDE DEF r
<1>4. \A q \in Completion : Awaited(q) /\ ~SameOwner(q, r) => Awaited(q)'
  BY <1>2, <1>3 DEF Awaited, SameOwner
<1>5. Awaited(r)'
  BY <1>1, <1>2, <1>3 DEF Awaited, InOrder, TypeOK
<1>6. \A i \in 1..Len(ready) : ~SameOwner(ready[i], r)
  BY <1>2, <1>3 DEF InOrder, AllAwaited, Awaited, SameOwner
<1>7. ready' \in Seq(Completion) /\ AllAwaited' /\ OneEach'
  BY <1>3, <1>4, <1>5, <1>6, Arrives DEF InOrder
<1>8. TypeOK' /\ Sessions'
  BY <1>1, <1>2, <1>7 DEF InOrder, TypeOK, Sessions
<1> QED
  BY <1>7, <1>8 DEF InOrder

\* A completion of a session's own operation.
LEMMA OwnArrives ==
  ASSUME InOrder, NEW c \in Clients, NEW r \in Completion, r.of # "accept", r.from = c,
         InProgress(r.of, c), ready' = Append(ready, r),
         r.of = "write" /\ ~r.error => written'[c] = length[c],
         UNCHANGED <<server, connection>>,
         \A d \in Clients : d # c => written'[d] = written[d]
  PROVE  ready' \in Seq(Completion) /\ AllAwaited' /\ OneEach'
<1>1. \A q \in Completion : Awaited(q) /\ ~SameOwner(q, r) => Awaited(q)'
  BY Fields DEF Awaited, SameOwner, server
<1>2. Awaited(r)'
  BY DEF Awaited, InProgress, server
<1>3. \A i \in 1..Len(ready) : ~SameOwner(ready[i], r)
  BY LenProperties DEF SameOwner, InProgress, InOrder, TypeOK
<1> QED
  BY <1>1, <1>2, <1>3, Arrives DEF InOrder

\* What is read fills the buffer from its start.
Filled(c, n) == [i \in 1..BufferSize |-> IF i <= n THEN inbox[c][i] ELSE data[c][i]]

LEMMA FilledType ==
  ASSUME TypeOK, NEW c \in Clients, NEW n \in 1..BufferSize, n <= Len(inbox[c])
  PROVE  /\ Filled(c, n) \in Seq(Nat) /\ Len(Filled(c, n)) = BufferSize
         /\ SubSeq(inbox[c], n + 1, Len(inbox[c])) \in Seq(Nat)
         /\ SubSeq(Filled(c, n), 1, n) = SubSeq(inbox[c], 1, n)
<1>1. /\ inbox[c] \in Seq(Nat) /\ data[c] \in Seq(Nat) /\ Len(data[c]) = BufferSize
      /\ BufferSize \in Nat /\ Len(inbox[c]) \in Nat
  BY SizeAssumption DEF TypeOK
<1>2. \A i \in 1..BufferSize : (IF i <= n THEN inbox[c][i] ELSE data[c][i]) \in Nat
  BY <1>1, ElementOfSeq
<1>3. Filled(c, n) \in [1..BufferSize -> Nat]
  BY <1>2 DEF Filled
<1>4. Filled(c, n) \in Seq(Nat) /\ Len(Filled(c, n)) = BufferSize
  BY <1>1, <1>3
<1>5. /\ \A i \in (n + 1)..Len(inbox[c]) : inbox[c][i] \in Nat
      /\ \A i \in 1..n : inbox[c][i] \in Nat /\ Filled(c, n)[i] = inbox[c][i]
  BY <1>1, ElementOfSeq, SMTT(30) DEF Filled
<1>6. SubSeq(inbox[c], n + 1, Len(inbox[c])) \in Seq(Nat)
  BY <1>1, <1>5, SubSeqProperties
<1>7. SubSeq(Filled(c, n), 1, n) = SubSeq(inbox[c], 1, n)
  <2> DEFINE s == SubSeq(Filled(c, n), 1, n)
             u == SubSeq(inbox[c], 1, n)
  <2>1. /\ s \in Seq(Nat) /\ Len(s) = n /\ \A i \in 1..n : s[i] = Filled(c, n)[i]
        /\ u \in Seq(Nat) /\ Len(u) = n /\ \A i \in 1..n : u[i] = inbox[c][i]
    <3> DEFINE f == Filled(c, n)
               b == inbox[c]
    <3>1. n \in Int /\ 1 \in Int /\ 1 <= n /\ (n - 1) + 1 = n /\ \A i \in 1..n : (1 + i) - 1 = i
      OBVIOUS
    <3>2. \A i \in 1..n : f[i] \in Nat /\ b[i] \in Nat
      BY <1>5
    <3> HIDE DEF f, b
    <3>3. /\ SubSeq(f, 1, n) \in Seq(Nat) /\ Len(SubSeq(f, 1, n)) = n
          /\ \A i \in 1..n : SubSeq(f, 1, n)[i] = f[i]
      BY <3>1, <3>2, SubSeqProperties
    <3>4. /\ SubSeq(b, 1, n) \in Seq(Nat) /\ Len(SubSeq(b, 1, n)) = n
          /\ \A i \in 1..n : SubSeq(b, 1, n)[i] = b[i]
      BY <3>1, <3>2, SubSeqProperties
    <3> QED
      BY <3>3, <3>4 DEF f, b
  <2> HIDE DEF s, u
  <2> QED
    BY <1>5, <2>1, SeqEqual DEF s, u
<1> QED
  BY <1>4, <1>6, <1>7

LEMMA ReadStep ==
  ASSUME InOrder, NEW c \in Clients, ReadSome(c) \/ ReadFails(c)
  PROVE  InOrder'
<1>0. UNCHANGED <<server, client, written, received>> /\ InProgress("read", c)
  BY DEF ReadSome, ReadFails
<1>1. CASE ReadSome(c)
  <2>1. PICK n \in 1..BufferSize :
           /\ n <= Len(inbox[c])
           /\ data' = [data EXCEPT ![c] = Filled(c, n)]
           /\ inbox' = [inbox EXCEPT ![c] = SubSeq(inbox[c], n + 1, Len(inbox[c]))]
           /\ ready' = Append(ready, [of |-> "read", from |-> c, error |-> FALSE, size |-> n])
    BY <1>1 DEF ReadSome, Complete, Filled
  <2>2. /\ Filled(c, n) \in Seq(Nat) /\ Len(Filled(c, n)) = BufferSize
        /\ SubSeq(inbox[c], n + 1, Len(inbox[c])) \in Seq(Nat)
    BY <2>1, FilledType DEF InOrder
  <2> DEFINE r == [of |-> "read", from |-> c, error |-> FALSE, size |-> n]
  <2>3. r \in Completion /\ r.of = "read" /\ r.from = c /\ ready' = Append(ready, r)
    BY <2>1, SizeAssumption DEF Completion
  <2> HIDE DEF r
  <2>4. ready' \in Seq(Completion) /\ AllAwaited' /\ OneEach'
    BY <1>0, <2>3, OwnArrives DEF client
  <2>5. TypeOK'
    BY <1>0, <2>1, <2>2, <2>4 DEF InOrder, TypeOK, server, client
  <2>6. Sessions'
    BY <1>0 DEF InOrder, Sessions, server, client
  <2> QED
    BY <2>4, <2>5, <2>6 DEF InOrder
<1>2. CASE ReadFails(c)
  <2> DEFINE r == [of |-> "read", from |-> c, error |-> TRUE, size |-> 0]
  <2>3. r \in Completion /\ r.of = "read" /\ r.from = c /\ ready' = Append(ready, r)
        /\ UNCHANGED <<data, inbox>>
    BY <1>2, SizeAssumption DEF Completion, ReadFails, Complete
  <2> HIDE DEF r
  <2>4. ready' \in Seq(Completion) /\ AllAwaited' /\ OneEach'
    BY <1>0, <2>3, OwnArrives DEF client
  <2>5. TypeOK'
    BY <1>0, <2>3, <2>4 DEF InOrder, TypeOK, server, client
  <2>6. Sessions'
    BY <1>0 DEF InOrder, Sessions, server, client
  <2> QED
    BY <2>4, <2>5, <2>6 DEF InOrder
<1> QED
  BY <1>1, <1>2

LEMMA WriteStep ==
  ASSUME InOrder, NEW c \in Clients, WriteSome(c) \/ WriteFails(c)
  PROVE  InOrder'
<1>0. UNCHANGED <<server, client, data, inbox>> /\ InProgress("write", c)
      /\ session[c] = "write" /\ written[c] \in 0..BufferSize /\ length[c] \in 0..BufferSize
  BY DEF WriteSome, WriteFails, InProgress, InOrder, TypeOK
<1>1. CASE WriteSome(c)
  <2>1. PICK n \in 1..length[c] :
           /\ written[c] + n <= length[c]
           /\ written' = [written EXCEPT ![c] = written[c] + n]
           /\ received' = [received EXCEPT ![c] =
                 received[c] \o SubSeq(data[c], written[c] + 1, written[c] + n)]
           /\ IF written[c] + n = length[c]
              THEN ready' = Append(ready, [of |-> "write", from |-> c, error |-> FALSE,
                                           size |-> length[c]])
              ELSE ready' = ready
    BY <1>1 DEF WriteSome, Complete
  <2>2. /\ written'[c] = written[c] + n /\ \A d \in Clients : d # c => written'[d] = written[d]
        /\ written' \in [Clients -> 0..BufferSize]
    <3>1. written[c] + n \in 0..BufferSize
      BY <1>0, <2>1, SizeAssumption
    <3> QED
      BY <2>1, <3>1 DEF InOrder, TypeOK
  <2>3. received' \in [Clients -> Seq(Nat)]
    <3>1. data[c] \in Seq(Nat) /\ received[c] \in Seq(Nat) /\ Len(data[c]) = BufferSize
      BY DEF InOrder, TypeOK
    <3>2. \A i \in (written[c] + 1)..(written[c] + n) : i \in 1..Len(data[c])
      BY <1>0, <2>1, <3>1, SizeAssumption
    <3>3. SubSeq(data[c], written[c] + 1, written[c] + n) \in Seq(Nat)
      <4>1. \A i \in (written[c] + 1)..(written[c] + n) : data[c][i] \in Nat
        BY <3>1, <3>2, ElementOfSeq
      <4>2. written[c] + 1 \in Int /\ written[c] + n \in Int
        BY <1>0
      <4> QED
        BY <4>1, <4>2, SubSeqProperties
    <3>4. received[c] \o SubSeq(data[c], written[c] + 1, written[c] + n) \in Seq(Nat)
      BY <3>1, <3>3, ConcatProperties
    <3> QED
      BY <2>1, <3>4 DEF InOrder, TypeOK
  <2>4. ready' \in Seq(Completion) /\ AllAwaited' /\ OneEach'
    <3>1. CASE written[c] + n = length[c]
      <4> DEFINE r == [of |-> "write", from |-> c, error |-> FALSE, size |-> length[c]]
      <4>1. r \in Completion /\ r.of = "write" /\ r.from = c /\ ready' = Append(ready, r)
        BY <1>0, <2>1, <3>1 DEF Completion
      <4> HIDE DEF r
      <4>2. written'[c] = length[c]
        BY <2>2, <3>1
      <4> QED
        BY <1>0, <2>2, <4>1, <4>2, OwnArrives DEF client
    <3>2. CASE written[c] + n # length[c]
      <4>1. ready' = ready
        BY <2>1, <3>2
      <4>2. written[c] # length[c]
        BY <1>0, <2>1
      <4>3. \A q \in Completion : Awaited(q) => Awaited(q)'
        BY <1>0, <2>2, <4>2, Fields DEF Awaited, server, client
      <4> QED
        BY <4>1, <4>3, Unanswered DEF InOrder
    <3> QED
      BY <3>1, <3>2
  <2>5. TypeOK'
    BY <1>0, <2>2, <2>3, <2>4 DEF InOrder, TypeOK, server, client
  <2>6. Sessions'
    BY <1>0, <2>1, <2>2 DEF InOrder, Sessions, server, client
  <2> QED
    BY <2>4, <2>5, <2>6 DEF InOrder
<1>2. CASE WriteFails(c)
  <2> DEFINE r == [of |-> "write", from |-> c, error |-> TRUE, size |-> written[c]]
  <2>3. r \in Completion /\ r.of = "write" /\ r.from = c /\ r.error
        /\ ready' = Append(ready, r) /\ UNCHANGED <<written, received>>
    BY <1>0, <1>2 DEF Completion, WriteFails, Complete
  <2> HIDE DEF r
  <2>4. ready' \in Seq(Completion) /\ AllAwaited' /\ OneEach'
    BY <1>0, <2>3, OwnArrives DEF client
  <2>5. TypeOK'
    BY <1>0, <2>3, <2>4 DEF InOrder, TypeOK, server, client
  <2>6. Sessions'
    BY <1>0, <2>3 DEF InOrder, Sessions, server, client
  <2> QED
    BY <2>4, <2>5, <2>6 DEF InOrder
<1> QED
  BY <1>1, <1>2

LEMMA HandlerStep ==
  ASSUME InOrder, EchoRun
  PROVE  InOrder'
<1> DEFINE h == Head(ready)
           c == h.from
<1>0. /\ ready # <<>> /\ ready' = Tail(ready) /\ UNCHANGED <<data, client, inbox, received>>
      /\ ready \in Seq(Completion)
  BY DEF EchoRun, OnAccept, OnRead, OnWrite, Handle, InOrder, TypeOK
<1>1. h \in Completion /\ Awaited(h)
  BY <1>0, ReadyShrinks DEF InOrder, AllAwaited
<1>2. c \in Clients /\ h.size \in 0..BufferSize
  BY <1>1, Fields
<1>3. /\ session' \in [Clients -> {"none", "read", "write", "ended"}]
      /\ acceptor' \in {"accepting", "completed"}
      /\ length' \in [Clients -> 0..BufferSize] /\ written' \in [Clients -> 0..BufferSize]
      /\ \A d \in Clients : d # c => /\ session'[d] = session[d] /\ length'[d] = length[d]
                                     /\ written'[d] = written[d]
      /\ session'[c] = "write" => written'[c] <= length'[c]
      /\ session[c] = "none" => /\ acceptor' = "accepting"
                                /\ connection[c] \in {"accepted", "aborted"}
      /\ session[c] # "none" => acceptor' = acceptor
      /\ session[c] = "none" <=> h.of = "accept"
  <2>1. CASE OnAccept
    <3>1. h.of = "accept" /\ acceptor' = "accepting" /\ UNCHANGED <<length, written>>
          /\ session' = IF h.error THEN session ELSE [session EXCEPT ![c] = "read"]
      BY <2>1 DEF OnAccept, Handle
    <3> HIDE DEF h, c
    <3> QED
      BY <1>1, <1>2, <3>1 DEF InOrder, TypeOK, Awaited, c
  <2>2. CASE OnRead
    <3>1. h.of = "read" /\ acceptor' = acceptor
          /\ \/ session' = [session EXCEPT ![c] = "ended"] /\ UNCHANGED <<length, written>>
             \/ /\ session' = [session EXCEPT ![c] = "write"]
                /\ length' = [length EXCEPT ![c] = h.size]
                /\ written' = [written EXCEPT ![c] = 0]
      BY <2>2 DEF OnRead, Handle, WriteBack
    <3> HIDE DEF h, c
    <3>2. h.from = c /\ session[c] = "read" /\ 0 \in 0..BufferSize /\ 0 <= h.size
      BY <1>1, <1>2, <3>1, SizeAssumption DEF Awaited, c
    <3>3. CASE session' = [session EXCEPT ![c] = "ended"] /\ UNCHANGED <<length, written>>
      BY <1>2, <3>1, <3>2, <3>3 DEF InOrder, TypeOK
    <3>4. CASE /\ session' = [session EXCEPT ![c] = "write"]
               /\ length' = [length EXCEPT ![c] = h.size]
               /\ written' = [written EXCEPT ![c] = 0]
      BY <1>2, <3>1, <3>2, <3>4 DEF InOrder, TypeOK
    <3> QED
      BY <3>1, <3>3, <3>4
  <2>3. CASE OnWrite
    <3>1. h.of = "write" /\ UNCHANGED <<acceptor, length, written>>
          /\ session' = [session EXCEPT ![c] = IF h.error THEN "ended" ELSE "read"]
      BY <2>3 DEF OnWrite, Handle
    <3> HIDE DEF h, c
    <3> QED
      BY <1>1, <1>2, <3>1 DEF InOrder, TypeOK, Awaited, c
  <2> QED
    BY <2>1, <2>2, <2>3 DEF EchoRun
<1> HIDE DEF c
<1>4. \A q \in Completion : Awaited(q) /\ ~SameOwner(q, h) => Awaited(q)'
  <2> SUFFICES ASSUME NEW q \in Completion, Awaited(q), ~SameOwner(q, h) PROVE Awaited(q)'
    OBVIOUS
  <2>1. q.from # c
    BY <1>1, <1>3, Fields DEF Awaited, SameOwner, c
  <2>2. q.from \in Clients /\ q.of \in {"accept", "read", "write"}
    BY Fields
  <2>3. q.of = "accept" => acceptor' = acceptor
    BY <1>1, <1>3 DEF SameOwner
  <2> QED
    BY <1>0, <1>3, <2>1, <2>2, <2>3 DEF Awaited, client
<1>5. ready' \in Seq(Completion) /\ AllAwaited' /\ OneEach'
  BY <1>0, <1>4, Handled DEF InOrder
<1>6. TypeOK'
  BY <1>0, <1>3, <1>5 DEF InOrder, TypeOK, client
<1>7. Sessions'
  BY <1>0, <1>2, <1>3 DEF InOrder, Sessions, client
<1> QED
  BY <1>5, <1>6, <1>7 DEF InOrder

-----------------------------------------------------------------------------
(* What a session holds.                                                   *)

IsRead(c, r) == r.of = "read" /\ r.from = c

LEMMA BufferedIs ==
  ASSUME InOrder, NEW c \in Clients
  PROVE  /\ session[c] = "write" => Buffered(c) = SubSeq(data[c], written[c] + 1, length[c])
         /\ session[c] # "write" =>
              /\ (\A i \in 1..Len(ready) : ~IsRead(c, ready[i])) => Buffered(c) = <<>>
              /\ \A i \in 1..Len(ready) : IsRead(c, ready[i]) =>
                    Buffered(c) = SubSeq(data[c], 1, ready[i].size)
<1>0. DOMAIN ready = 1..Len(ready)
  BY LenProperties DEF InOrder, TypeOK
<1> DEFINE reads == {i \in DOMAIN ready : ready[i].of = "read" /\ ready[i].from = c}
<1>1. ASSUME NEW i \in 1..Len(ready), IsRead(c, ready[i])
      PROVE  reads = {i} /\ Min(reads) = i
  <2>1. \A j \in 1..Len(ready) : IsRead(c, ready[j]) => j = i
    BY <1>1 DEF InOrder, OneEach, SameOwner, IsRead
  <2>2. reads = {i}
    BY <1>0, <1>1, <2>1 DEF IsRead
  <2>3. i <= i
    OBVIOUS
  <2> QED
    BY <2>2, <2>3 DEF Min
<1>2. (\A i \in 1..Len(ready) : ~IsRead(c, ready[i])) => reads = {}
  BY <1>0 DEF IsRead
<1> QED
  BY <1>1, <1>2 DEF Buffered

Holds(c) ==
    /\ session[c] = "write" => Buffered(c) = SubSeq(data[c], written[c] + 1, length[c])
    /\ session[c] # "write" =>
         /\ (\A i \in 1..Len(ready) : ~IsRead(c, ready[i])) => Buffered(c) = <<>>
         /\ \A i \in 1..Len(ready) : IsRead(c, ready[i]) =>
               Buffered(c) = SubSeq(data[c], 1, ready[i].size)

LEMMA HoldsNow == InOrder => \A c \in Clients : Holds(c)
BY BufferedIs DEF Holds

LEMMA HoldsNext == (InOrder => \A c \in Clients : Holds(c))'
BY HoldsNow, PTL

\* The reads of client c that wait to be handled are the same.
SameReads(c) ==
    /\ \A i \in 1..Len(ready') : IsRead(c, ready'[i]) =>
          \E j \in 1..Len(ready) : ready[j] = ready'[i]
    /\ \A j \in 1..Len(ready) : IsRead(c, ready[j]) =>
          \E i \in 1..Len(ready') : ready'[i] = ready[j]

LEMMA SameReadsWhen ==
  ASSUME InOrder, NEW c \in Clients,
         \/ ready' = ready
         \/ \E r \in Completion : ~IsRead(c, r) /\ ready' = Append(ready, r)
         \/ ready # <<>> /\ ready' = Tail(ready) /\ ~IsRead(c, Head(ready))
  PROVE  SameReads(c)
<1>0. ready \in Seq(Completion)
  BY DEF InOrder, TypeOK
<1>1. CASE ready' = ready
  BY <1>1 DEF SameReads
<1>2. CASE \E r \in Completion : ~IsRead(c, r) /\ ready' = Append(ready, r)
  <2>1. PICK r \in Completion : ~IsRead(c, r) /\ ready' = Append(ready, r)
    BY <1>2
  <2> QED
    BY <1>0, <2>1, ReadyGrows DEF SameReads
<1>3. CASE ready # <<>> /\ ready' = Tail(ready) /\ ~IsRead(c, Head(ready))
  BY <1>0, <1>3, ReadyShrinks DEF SameReads
<1> QED
  BY <1>1, <1>2, <1>3

LEMMA SameBuffer ==
  ASSUME InOrder, InOrder', NEW c \in Clients, SameReads(c), session'[c] = session[c],
         data'[c] = data[c], session[c] = "write" => written'[c] = written[c],
         length'[c] = length[c]
  PROVE  Buffered(c)' = Buffered(c)
<1>1. CASE session[c] = "write"
  <2>1. Buffered(c) = SubSeq(data[c], written[c] + 1, length[c])
    BY <1>1, BufferedIs
  <2>2. Buffered(c)' = SubSeq(data[c], written[c] + 1, length[c])'
    BY <1>1, HoldsNext DEF Holds
  <2> QED
    BY <1>1, <2>1, <2>2
<1>2. CASE session[c] # "write" /\ \A i \in 1..Len(ready) : ~IsRead(c, ready[i])
  <2>1. Buffered(c) = <<>>
    BY <1>2, BufferedIs
  <2>2. \A i \in 1..Len(ready') : ~IsRead(c, ready'[i])
    BY <1>2 DEF SameReads
  <2>3. Buffered(c)' = <<>>
    BY <1>2, <2>2, HoldsNext DEF Holds, IsRead
  <2> QED
    BY <2>1, <2>3
<1>3. CASE session[c] # "write" /\ \E i \in 1..Len(ready) : IsRead(c, ready[i])
  <2>1. PICK i \in 1..Len(ready) : IsRead(c, ready[i])
    BY <1>3
  <2>2. PICK j \in 1..Len(ready') : ready'[j] = ready[i]
    BY <2>1 DEF SameReads
  <2>3. Buffered(c) = SubSeq(data[c], 1, ready[i].size)
    BY <1>3, <2>1, BufferedIs
  <2>4. Buffered(c)' = SubSeq(data'[c], 1, ready'[j].size)
    BY <1>3, <2>1, <2>2, HoldsNext DEF Holds, IsRead
  <2> QED
    BY <2>2, <2>3, <2>4
<1> QED
  BY <1>1, <1>2, <1>3

Stream(c) ==
    session[c] # "ended" => received[c] \o Buffered(c) \o inbox[c] = [i \in 1..sent[c] |-> i]

LEMMA SameStream ==
  ASSUME EchoInv, InOrder', NEW c \in Clients, SameReads(c), session'[c] = session[c],
         data'[c] = data[c], written'[c] = written[c], length'[c] = length[c],
         received'[c] = received[c], inbox'[c] = inbox[c], sent'[c] = sent[c]
  PROVE  Stream(c)'
<1>1. Buffered(c)' = Buffered(c)
  BY SameBuffer DEF EchoInv
<1> QED
  BY <1>1 DEF Stream, EchoInv, EchoIsTheStream

\* What is in the buffer of a session is bytes.
LEMMA BufferedType ==
  ASSUME InOrder, NEW c \in Clients
  PROVE  Buffered(c) \in Seq(Nat)
<1>0. /\ data[c] \in Seq(Nat) /\ Len(data[c]) = BufferSize /\ BufferSize \in Nat
      /\ written[c] \in 0..BufferSize /\ length[c] \in 0..BufferSize
  BY SizeAssumption DEF InOrder, TypeOK
<1>1. \A m \in 1..(BufferSize + 1), n \in 0..BufferSize : SubSeq(data[c], m, n) \in Seq(Nat)
  <2> SUFFICES ASSUME NEW m \in 1..(BufferSize + 1), NEW n \in 0..BufferSize
               PROVE  SubSeq(data[c], m, n) \in Seq(Nat)
    OBVIOUS
  <2>1. \A i \in m..n : i \in 1..Len(data[c])
    BY <1>0
  <2>2. \A i \in m..n : data[c][i] \in Nat
    BY <1>0, <2>1, ElementOfSeq
  <2>3. m \in Int /\ n \in Int
    BY <1>0
  <2> QED
    BY <2>2, <2>3, SubSeqProperties
<1>2. written[c] + 1 \in 1..(BufferSize + 1) /\ 1 \in 1..(BufferSize + 1)
  BY <1>0
<1>3. \A i \in 1..Len(ready) : ready[i].size \in 0..BufferSize
  BY ElementOfSeq, Fields DEF InOrder, TypeOK
<1>4. <<>> \in Seq(Nat)
  OBVIOUS
<1> QED
  BY <1>0, <1>1, <1>2, <1>3, <1>4, BufferedIs

LEMMA BufferedTypeNow == InOrder => \A c \in Clients : Buffered(c) \in Seq(Nat)
BY BufferedType

LEMMA BufferedTypeNext == (InOrder => \A c \in Clients : Buffered(c) \in Seq(Nat))'
BY BufferedTypeNow, PTL

-----------------------------------------------------------------------------
(* Every step keeps the stream.                                            *)

LEMMA Concat3 == \A s, t, u \in Seq(Nat) : (s \o t) \o u = s \o (t \o u)
BY ConcatAssociative

LEMMA SendStream ==
  ASSUME EchoInv, InOrder', NEW c \in Clients, Send(c)
  PROVE  EchoIsTheStream'
<1>0. InOrder /\ ready' = ready
      /\ UNCHANGED <<session, data, length, written, received>>
      /\ sent' = [sent EXCEPT ![c] = sent[c] + 1]
      /\ inbox' = [inbox EXCEPT ![c] = Append(inbox[c], sent[c] + 1)]
  BY DEF Send, server, EchoInv
<1>1. \A d \in Clients : SameReads(d)
  BY <1>0, SameReadsWhen
<1>2. \A d \in Clients : d # c => Stream(d)'
  <2>1. \A d \in Clients : d # c => sent'[d] = sent[d] /\ inbox'[d] = inbox[d]
    BY <1>0 DEF InOrder, TypeOK
  <2> QED
    BY <1>0, <1>1, <2>1, SameStream
<1>3. Stream(c)'
  <2> SUFFICES ASSUME session[c] # "ended"
               PROVE  (received[c] \o Buffered(c) \o inbox[c] = [i \in 1..sent[c] |-> i])'
    BY <1>0 DEF Stream
  <2> DEFINE s == received[c] \o Buffered(c)
             b == inbox[c]
             n == sent[c]
  <2>1. s \in Seq(Nat) /\ b \in Seq(Nat) /\ n \in Nat
    BY <1>0, BufferedType, ConcatProperties DEF InOrder, TypeOK
  <2>2. s \o b = [i \in 1..n |-> i]
    BY DEF EchoInv, EchoIsTheStream
  <2>3. Buffered(c)' = Buffered(c)
    BY <1>0, <1>1, SameBuffer
  <2>4. sent'[c] = n + 1 /\ inbox'[c] = Append(b, n + 1)
    BY <1>0 DEF InOrder, TypeOK
  <2>5. (received[c] \o Buffered(c) \o inbox[c])' = s \o Append(b, n + 1)
    BY <1>0, <2>3, <2>4
  <2> HIDE DEF s, b, n
  <2>6. s \o Append(b, n + 1) = Append(s \o b, n + 1)
    BY <2>1
  <2>7. Append([i \in 1..n |-> i], n + 1) = [i \in 1..(n + 1) |-> i]
    BY <2>1
  <2> QED
    BY <2>2, <2>4, <2>5, <2>6, <2>7
<1> QED
  BY <1>2, <1>3 DEF EchoIsTheStream, Stream

LEMMA QuietStream ==
  ASSUME EchoInv, InOrder', NEW c \in Clients,
         Connect(c) \/ Close(c) \/ AcceptSome(c) \/ AcceptFails(c)
  PROVE  EchoIsTheStream'
<1>0. UNCHANGED <<session, data, length, written, received, inbox, sent>> /\ InOrder
  BY DEF Connect, Close, AcceptSome, AcceptFails, Accepting, server, EchoInv
<1>1. \A d \in Clients : SameReads(d)
  <2>1. CASE Connect(c) \/ Close(c)
    BY <1>0, <2>1, SameReadsWhen DEF Connect, Close
  <2>2. CASE AcceptSome(c) \/ AcceptFails(c)
    <3>1. PICK e \in BOOLEAN :
             ready' = Append(ready, [of |-> "accept", from |-> c, error |-> e, size |-> 0])
      BY <2>2 DEF AcceptSome, AcceptFails, Complete
    <3> DEFINE r == [of |-> "accept", from |-> c, error |-> e, size |-> 0]
    <3>2. r \in Completion /\ ready' = Append(ready, r) /\ \A d \in Clients : ~IsRead(d, r)
      BY <3>1, SizeAssumption DEF Completion, IsRead
    <3> HIDE DEF r
    <3> QED
      BY <1>0, <3>2, SameReadsWhen
  <2> QED
    BY <2>1, <2>2
<1>2. \A d \in Clients : Stream(d)'
  BY <1>0, <1>1, SameStream
<1> QED
  BY <1>2 DEF EchoIsTheStream, Stream

LEMMA ReadStream ==
  ASSUME EchoInv, InOrder', NEW c \in Clients, ReadSome(c) \/ ReadFails(c)
  PROVE  EchoIsTheStream'
<1>0. /\ UNCHANGED <<session, length, written, received, sent>> /\ InOrder
      /\ session[c] = "read" /\ \A i \in 1..Len(ready) : ~IsRead(c, ready[i])
      /\ ready \in Seq(Completion) /\ BufferSize \in Nat \ {0}
  BY LenProperties, SizeAssumption
  DEF ReadSome, ReadFails, server, client, InProgress, IsRead, EchoInv, InOrder, TypeOK
<1>1. received[c] \in Seq(Nat) /\ inbox[c] \in Seq(Nat)
  BY <1>0 DEF InOrder, TypeOK
<1>2. received[c] \o inbox[c] = [i \in 1..sent[c] |-> i]
  <2>1. Buffered(c) = <<>>
    BY <1>0, BufferedIs
  <2>2. received[c] \o <<>> = received[c]
    BY <1>1
  <2> QED
    BY <1>0, <2>1, <2>2 DEF EchoInv, EchoIsTheStream
<1>3. \E n \in 0..BufferSize, e \in BOOLEAN :
         /\ ready' = Append(ready, [of |-> "read", from |-> c, error |-> e, size |-> n])
         /\ \A d \in Clients : d # c => data'[d] = data[d] /\ inbox'[d] = inbox[d]
         /\ SubSeq(data'[c], 1, n) \o inbox'[c] = inbox[c]
  <2>1. CASE ReadSome(c)
    <3>1. PICK n \in 1..BufferSize :
             /\ n <= Len(inbox[c])
             /\ data' = [data EXCEPT ![c] = Filled(c, n)]
             /\ inbox' = [inbox EXCEPT ![c] = SubSeq(inbox[c], n + 1, Len(inbox[c]))]
             /\ ready' = Append(ready, [of |-> "read", from |-> c, error |-> FALSE, size |-> n])
      BY <2>1 DEF ReadSome, Complete, Filled
    <3>2. /\ data'[c] = Filled(c, n) /\ inbox'[c] = SubSeq(inbox[c], n + 1, Len(inbox[c]))
          /\ \A d \in Clients : d # c => data'[d] = data[d] /\ inbox'[d] = inbox[d]
      BY <1>0, <3>1 DEF InOrder, TypeOK
    <3>3. SubSeq(data'[c], 1, n) = SubSeq(inbox[c], 1, n)
      BY <1>0, <3>1, <3>2, FilledType DEF InOrder
    <3>4. SubSeq(inbox[c], 1, n) \o SubSeq(inbox[c], n + 1, Len(inbox[c])) = inbox[c]
      <4> DEFINE b == inbox[c]
      <4>1. b \in Seq(Nat) /\ 1 \in 1..(Len(b) + 1) /\ n \in (1 - 1)..Len(b)
            /\ Len(b) \in n..Len(b)
        BY <1>1, <3>1
      <4> HIDE DEF b
      <4> QED
        BY <4>1, ConcatAdjacentSubSeq, SubSeqFull DEF b
    <3>5. n \in 0..BufferSize
      BY <1>0
    <3> QED
      BY <3>1, <3>2, <3>3, <3>4, <3>5
  <2>2. CASE ReadFails(c)
    <3>1. /\ ready' = Append(ready, [of |-> "read", from |-> c, error |-> TRUE, size |-> 0])
          /\ UNCHANGED <<data, inbox>>
      BY <2>2 DEF ReadFails, Complete
    <3>2. SubSeq(data[c], 1, 0) = <<>> /\ <<>> \o inbox[c] = inbox[c] /\ 0 \in 0..BufferSize
      BY <1>0, <1>1, SubSeqEmpty, ConcatEmptySeq
    <3> QED
      BY <3>1, <3>2
  <2> QED
    BY <2>1, <2>2
<1>4. PICK n \in 0..BufferSize, e \in BOOLEAN :
         /\ ready' = Append(ready, [of |-> "read", from |-> c, error |-> e, size |-> n])
         /\ \A d \in Clients : d # c => data'[d] = data[d] /\ inbox'[d] = inbox[d]
         /\ SubSeq(data'[c], 1, n) \o inbox'[c] = inbox[c]
  BY <1>3
<1> DEFINE r == [of |-> "read", from |-> c, error |-> e, size |-> n]
<1>5. /\ r \in Completion /\ ready' = Append(ready, r) /\ r.size = n
      /\ IsRead(c, r) /\ \A d \in Clients : d # c => ~IsRead(d, r)
  BY <1>4 DEF Completion, IsRead
<1> HIDE DEF r
<1>6. \A d \in Clients : d # c => Stream(d)'
  BY <1>0, <1>4, <1>5, SameReadsWhen, SameStream
<1>7. Stream(c)'
  <2>1. Len(ready) + 1 \in 1..Len(ready') /\ ready'[Len(ready) + 1] = r
    BY <1>0, <1>5, ReadyGrows
  <2>2. Buffered(c)' = SubSeq(data'[c], 1, n)
    BY <1>0, <1>5, <2>1, HoldsNext DEF Holds, IsRead
  <2>3. Buffered(c)' \in Seq(Nat) /\ inbox'[c] \in Seq(Nat)
    BY BufferedTypeNext DEF InOrder, TypeOK
  <2>4. (received[c] \o Buffered(c)') \o inbox'[c] = received[c] \o (Buffered(c)' \o inbox'[c])
    <3> DEFINE b == Buffered(c)'
    <3>1. b \in Seq(Nat)
      BY <2>3
    <3> HIDE DEF b
    <3>2. (received[c] \o b) \o inbox'[c] = received[c] \o (b \o inbox'[c])
      BY <1>1, <2>3, <3>1, Concat3
    <3> QED
      BY <3>2 DEF b
  <2> QED
    BY <1>0, <1>2, <1>4, <2>2, <2>4 DEF Stream
<1> QED
  BY <1>6, <1>7 DEF EchoIsTheStream, Stream

LEMMA WriteStream ==
  ASSUME EchoInv, InOrder', NEW c \in Clients, WriteSome(c) \/ WriteFails(c)
  PROVE  EchoIsTheStream'
<1>0. /\ UNCHANGED <<session, length, data, sent, inbox>> /\ InOrder
      /\ session[c] = "write" /\ written[c] \in 0..BufferSize /\ length[c] \in 0..BufferSize
      /\ data[c] \in Seq(Nat) /\ Len(data[c]) = BufferSize /\ BufferSize \in Nat
      /\ received[c] \in Seq(Nat) /\ inbox[c] \in Seq(Nat)
  BY SizeAssumption
  DEF WriteSome, WriteFails, server, client, InProgress, EchoInv, InOrder, TypeOK
<1>1. \A d \in Clients : SameReads(d)
  <2>1. ready' = ready \/ \E e \in BOOLEAN, n \in 0..BufferSize :
           ready' = Append(ready, [of |-> "write", from |-> c, error |-> e, size |-> n])
    BY <1>0 DEF WriteSome, WriteFails, Complete
  <2>2. CASE ready' = ready
    BY <1>0, <2>2, SameReadsWhen
  <2>3. ASSUME NEW e \in BOOLEAN, NEW n \in 0..BufferSize,
               ready' = Append(ready, [of |-> "write", from |-> c, error |-> e, size |-> n])
        PROVE  \A d \in Clients : SameReads(d)
    <3> DEFINE r == [of |-> "write", from |-> c, error |-> e, size |-> n]
    <3>1. r \in Completion /\ ready' = Append(ready, r) /\ \A d \in Clients : ~IsRead(d, r)
      BY <2>3 DEF Completion, IsRead
    <3> HIDE DEF r
    <3> QED
      BY <1>0, <3>1, SameReadsWhen
  <2> QED
    BY <2>1, <2>2, <2>3
<1>2. CASE WriteSome(c)
  <2>1. PICK n \in 1..length[c] :
           /\ written[c] + n <= length[c]
           /\ written' = [written EXCEPT ![c] = written[c] + n]
           /\ received' = [received EXCEPT ![c] =
                 received[c] \o SubSeq(data[c], written[c] + 1, written[c] + n)]
    BY <1>2 DEF WriteSome
  <2>2. /\ written'[c] = written[c] + n
        /\ received'[c] = received[c] \o SubSeq(data[c], written[c] + 1, written[c] + n)
        /\ \A d \in Clients : d # c => written'[d] = written[d] /\ received'[d] = received[d]
    BY <2>1 DEF EchoInv, InOrder, TypeOK
  <2>3. \A d \in Clients : d # c => Stream(d)'
    BY <1>0, <1>1, <2>2, SameStream
  <2>4. Stream(c)'
    <3> DEFINE w == written[c]
               k == length[c]
               a == SubSeq(data[c], w + 1, w + n)
               z == SubSeq(data[c], (w + n) + 1, k)
    <3>1. Buffered(c) = SubSeq(data[c], w + 1, k)
      BY <1>0, BufferedIs
    <3>2. Buffered(c)' = z
      BY <1>0, <2>2, HoldsNext DEF Holds
    <3>3. a \o z = SubSeq(data[c], w + 1, k)
      <4>1. w + 1 \in 1..(Len(data[c]) + 1) /\ w + n \in ((w + 1) - 1)..Len(data[c])
            /\ k \in (w + n)..Len(data[c])
        <5>1. w \in Nat /\ k \in 0..BufferSize /\ BufferSize \in Nat /\ Len(data[c]) = BufferSize
          BY <1>0
        <5>2. n \in 1..k /\ w + n <= k
          BY <2>1
        <5> HIDE DEF w, k
        <5>3. n \in Nat /\ 1 <= n /\ k \in Nat /\ k <= BufferSize
          BY <5>1, <5>2
        <5> QED
          BY <5>1, <5>2, <5>3
      <4> HIDE DEF w, k
      <4> QED
        BY <1>0, <4>1, ConcatAdjacentSubSeq
    <3>4. a \in Seq(Nat) /\ z \in Seq(Nat)
      <4>1. \A m \in 1..(BufferSize + 1), j \in 0..BufferSize :
               SubSeq(data[c], m, j) \in Seq(Nat)
        <5> SUFFICES ASSUME NEW m \in 1..(BufferSize + 1), NEW j \in 0..BufferSize
                     PROVE  SubSeq(data[c], m, j) \in Seq(Nat)
          OBVIOUS
        <5>1. \A i \in m..j : i \in 1..Len(data[c])
          BY <1>0
        <5>2. \A i \in m..j : data[c][i] \in Nat
          BY <1>0, <5>1, ElementOfSeq
        <5>3. m \in Int /\ j \in Int
          BY <1>0
        <5> QED
          BY <5>2, <5>3, SubSeqProperties
      <4>2. w + 1 \in 1..(BufferSize + 1) /\ w + n \in 0..BufferSize
            /\ (w + n) + 1 \in 1..(BufferSize + 1) /\ k \in 0..BufferSize
        BY <1>0, <2>1, SMTT(30)
      <4> QED
        BY <4>1, <4>2
    <3>5. received[c] \o Buffered(c) \o inbox[c] = [i \in 1..sent[c] |-> i]
      BY <1>0 DEF EchoInv, EchoIsTheStream
    <3>6. received'[c] = received[c] \o a
      BY <2>2
    <3> HIDE DEF a, z
    <3>7. (received[c] \o a) \o z = received[c] \o (a \o z)
      BY <1>0, <3>4, Concat3
    <3> QED
      BY <1>0, <3>1, <3>2, <3>3, <3>5, <3>6, <3>7 DEF Stream
  <2> QED
    BY <2>3, <2>4 DEF EchoIsTheStream, Stream
<1>3. CASE WriteFails(c)
  <2>1. UNCHANGED <<written, received>>
    BY <1>3 DEF WriteFails
  <2>2. \A d \in Clients : Stream(d)'
    BY <1>0, <1>1, <2>1, SameStream
  <2> QED
    BY <2>2 DEF EchoIsTheStream, Stream
<1> QED
  BY <1>2, <1>3

\* A handler moves nothing but what its session holds: from the read to the
\* write, and at the end of the write there is nothing left.
LEMMA HandlerStream ==
  ASSUME EchoInv, InOrder', EchoRun
  PROVE  EchoIsTheStream'
<1>0. /\ ready # <<>> /\ ready' = Tail(ready) /\ UNCHANGED <<data, sent, inbox, received>>
      /\ ready \in Seq(Completion) /\ InOrder
  BY DEF EchoRun, OnAccept, OnRead, OnWrite, Handle, client, EchoInv, InOrder, TypeOK
<1>a. Head(ready) \in Completion /\ Head(ready).from \in Clients
  BY <1>0, ReadyShrinks, Fields
<1>b. PICK h \in Completion, c \in Clients : h = Head(ready) /\ c = h.from
  BY <1>a
<1>1. /\ Awaited(h) /\ 1 \in 1..Len(ready) /\ ready[1] = h
      /\ \A i \in 1..Len(ready') :
            i + 1 \in 1..Len(ready) /\ i + 1 # 1 /\ ready'[i] = ready[i + 1]
  BY <1>0, <1>b, ReadyShrinks DEF InOrder, AllAwaited
<1>3. \A d \in Clients : d # c => /\ session'[d] = session[d] /\ length'[d] = length[d]
                                  /\ written'[d] = written[d]
  BY <1>b, ZenonT(60) DEF EchoRun, OnAccept, OnRead, OnWrite, Handle, WriteBack, EchoInv, InOrder, TypeOK
<1>4. \A d \in Clients : d # c => Stream(d)'
  <2>1. \A d \in Clients : d # c => ~IsRead(d, h)
    BY <1>b DEF IsRead
  <2>2. \A d \in Clients : d # c => SameReads(d)
    BY <1>0, <1>b, <2>1, SameReadsWhen
  <2> QED
    BY <1>0, <1>3, <2>2, SameStream
<1>5. ASSUME h.of # "accept" PROVE \A i \in 1..Len(ready') : ~IsRead(c, ready'[i])
  BY <1>1, <1>b, <1>5 DEF InOrder, OneEach, SameOwner, IsRead, EchoInv
<1>6. Buffered(c)' = Buffered(c) \/ session'[c] = "ended"
  <2>1. CASE OnAccept
    <3>1. h.of = "accept" /\ UNCHANGED <<length, written>>
          /\ session' = IF h.error THEN session ELSE [session EXCEPT ![c] = "read"]
      BY <1>b, <2>1 DEF OnAccept, Handle
    <3>2. session[c] = "none" /\ session'[c] \in {"none", "read"}
      BY <1>b, <1>1, <3>1 DEF Awaited, EchoInv, InOrder, TypeOK
    <3>3. \A i \in 1..Len(ready) : ~IsRead(c, ready[i])
      BY <1>0, <3>2 DEF InOrder, AllAwaited, Awaited, IsRead
    <3>4. \A i \in 1..Len(ready') : ~IsRead(c, ready'[i])
      BY <1>1, <3>3
    <3>5. Buffered(c) = <<>>
      BY <1>0, <3>2, <3>3, BufferedIs
    <3>6. Buffered(c)' = <<>>
      BY <3>2, <3>4, HoldsNext DEF Holds, IsRead
    <3> QED
      BY <3>5, <3>6
  <2>2. CASE OnRead
    <3>1. h.of = "read" /\ session[c] = "read"
      BY <1>b, <1>1, <2>2 DEF OnRead, Handle, Awaited
    <3>2. CASE h.error
      BY <1>0, <1>b, <2>2, <3>2 DEF OnRead, InOrder, TypeOK
    <3>3. CASE ~h.error
      <4>1. /\ session' = [session EXCEPT ![c] = "write"]
            /\ length' = [length EXCEPT ![c] = h.size] /\ written' = [written EXCEPT ![c] = 0]
        BY <1>b, <2>2, <3>3 DEF OnRead, WriteBack
      <4>2. session'[c] = "write" /\ length'[c] = h.size /\ written'[c] = 0
        BY <1>0, <4>1 DEF InOrder, TypeOK
      <4>3. IsRead(c, ready[1])
        BY <1>b, <1>1, <3>1 DEF IsRead
      <4>4. Buffered(c) = SubSeq(data[c], 1, h.size)
        BY <1>0, <1>1, <3>1, <4>3, BufferedIs
      <4>5. Buffered(c)' = SubSeq(data[c], 0 + 1, h.size)
        BY <1>0, <4>2, HoldsNext DEF Holds
      <4> QED
        BY <4>4, <4>5
    <3> QED
      BY <3>2, <3>3
  <2>3. CASE OnWrite
    <3>1. h.of = "write" /\ session[c] = "write" /\ (~h.error => written[c] = length[c])
          /\ session' = [session EXCEPT ![c] = IF h.error THEN "ended" ELSE "read"]
      BY <1>b, <1>1, <2>3 DEF OnWrite, Handle, Awaited
    <3>2. CASE h.error
      BY <1>0, <3>1, <3>2 DEF InOrder, TypeOK
    <3>3. CASE ~h.error
      <4>1. session'[c] = "read"
        BY <1>0, <3>1, <3>3 DEF InOrder, TypeOK
      <4>2. Buffered(c)' = <<>>
        BY <1>5, <3>1, <4>1, HoldsNext DEF Holds, IsRead
      <4>3. Buffered(c) = SubSeq(data[c], length[c] + 1, length[c])
        BY <1>0, <3>1, <3>3, BufferedIs
      <4>4. length[c] \in Nat
        BY <1>0, SizeAssumption DEF InOrder, TypeOK
      <4> QED
        BY <4>2, <4>3, <4>4, SubSeqEmpty
    <3> QED
      BY <3>2, <3>3
  <2> QED
    BY <2>1, <2>2, <2>3 DEF EchoRun
<1>7. session'[c] # "ended" => session[c] # "ended"
  BY <1>0, <1>1, <1>b, Fields DEF Awaited
<1>8. Stream(c)'
  BY <1>0, <1>6, <1>7 DEF Stream, EchoInv, EchoIsTheStream
<1> QED
  BY <1>4, <1>8 DEF EchoIsTheStream, Stream

-----------------------------------------------------------------------------

LEMMA InitInvariant == EchoInit => EchoInv
<1> SUFFICES ASSUME EchoInit PROVE EchoInv
  OBVIOUS
<1>1. /\ <<>> \in Seq(Nat) /\ <<>> \in Seq(Completion) /\ Len(<<>>) = 0 /\ BufferSize \in Nat
      /\ NoData \in Seq(Nat) /\ Len(NoData) = BufferSize /\ 0 \in 0..BufferSize
  BY SizeAssumption DEF NoData
<1>2. TypeOK
  BY <1>1 DEF EchoInit, TypeOK
<1>3. InOrder
  BY <1>1, <1>2 DEF EchoInit, InOrder, AllAwaited, OneEach, Sessions
<1>4. EchoIsTheStream
  <2> SUFFICES ASSUME NEW c \in Clients
               PROVE  received[c] \o Buffered(c) \o inbox[c] = [i \in 1..sent[c] |-> i]
    BY DEF EchoIsTheStream
  <2>1. Buffered(c) = <<>>
    BY <1>1, <1>3, BufferedIs DEF EchoInit
  <2>2. received[c] = <<>> /\ inbox[c] = <<>> /\ sent[c] = 0
    BY DEF EchoInit
  <2>3. <<>> \o <<>> \o <<>> = [i \in 1..0 |-> i]
    OBVIOUS
  <2> QED
    BY <2>1, <2>2, <2>3
<1> QED
  BY <1>3, <1>4 DEF EchoInv

LEMMA Step == EchoInv /\ [EchoNext]_echoVars => EchoInv'
<1> SUFFICES ASSUME EchoInv, [EchoNext]_echoVars PROVE EchoInv'
  OBVIOUS
<1>0. InOrder
  BY DEF EchoInv
<1>1. CASE EchoRun
  BY <1>0, <1>1, HandlerStep, HandlerStream DEF EchoInv
<1>2. CASE AsioAccepts
  BY <1>0, <1>2, AcceptStep, QuietStream DEF AsioAccepts, EchoInv
<1>3. ASSUME NEW c \in Clients, Connect(c) \/ Send(c) \/ Close(c) PROVE EchoInv'
  BY <1>0, <1>3, ClientStep, SendStream, QuietStream DEF EchoInv
<1>4. ASSUME NEW c \in Clients, AsioServes(c) PROVE EchoInv'
  <2>1. CASE ReadSome(c) \/ ReadFails(c)
    BY <1>0, <2>1, ReadStep, ReadStream DEF EchoInv
  <2>2. CASE WriteSome(c) \/ WriteFails(c)
    BY <1>0, <2>2, WriteStep, WriteStream DEF EchoInv
  <2> QED
    BY <1>4, <2>1, <2>2 DEF AsioServes
<1>5. CASE UNCHANGED echoVars
  <2>1. UNCHANGED <<acceptor, session, length, data, ready, connection, closed, sent, inbox,
                    written, received>>
    BY <1>5 DEF echoVars, server, client
  <2>2. InOrder'
    BY <1>0, <2>1 DEF InOrder, TypeOK, AllAwaited, Awaited, OneEach, Sessions
  <2>3. \A c \in Clients : Stream(c)'
    BY <1>0, <2>1, <2>2, SameReadsWhen, SameStream
  <2> QED
    BY <2>2, <2>3 DEF EchoInv, EchoIsTheStream, Stream
<1> QED
  BY <1>1, <1>2, <1>3, <1>4, <1>5 DEF EchoNext

(* Every completion is of an operation that its session, or the accept     *)
(* loop, is suspended for, there is one at most of each, and the echo is   *)
(* the stream (AsyncTCPEchoServer.cpp:113-137, 191-203).                   *)
THEOREM EchoConsistent == EchoSpec => []EchoInv
BY InitInvariant, Step, PTL DEF EchoSpec

(* The echo is the stream, for every number of clients, every buffer size  *)
(* and whatever they send: what a client got back, what is in its          *)
(* session's buffer and what has still to be read are together what it     *)
(* sent, byte for byte (AsyncTCPEchoServer.cpp:113-137).                   *)
THEOREM EchoIsFaithful == EchoSpec => []EchoIsTheStream
<1>1. EchoInv => EchoIsTheStream
  BY DEF EchoInv
<1> QED
  BY <1>1, EchoConsistent, PTL

-----------------------------------------------------------------------------
(* The generators.                                                         *)

SourceAt == {"created", "produce", "operation", "yield", "suspended", "yielded", "suspend",
             "destroy", "destroyed"}
MiddleAt == {"created", "advance", "advanced", "await", "suspended", "got", "yield", "yielded",
             "suspend", "destroy", "drop", "destroyed"}
SinkAt == {"created", "advance", "advanced", "await", "suspended", "got", "use", "operation",
           "drop", "done"}
ChainPlaces == SourceAt \cup MiddleAt \cup SinkAt
ChainStates == {"VNRCA", "VNRCS", "VRPA", "VRPS", "cancelled"}

ChainTyped ==
    /\ OnStacks(ChainPlaces)
    /\ \A k \in Coros : at[k] \in IF k = 1 THEN SourceAt ELSE IF k = Sink THEN SinkAt ELSE MiddleAt
    /\ symmetric \in BOOLEAN
    /\ state \in [Generators -> ChainStates]
    /\ value \in [Generators -> Nat \cup {End}]
    /\ exception \in [Generators -> BOOLEAN]
    /\ seen \in [Coros -> ChainStates]
    /\ target \in [Coros -> Nat]
    /\ yielded \in Nat /\ obtained \in Seq(Nat) /\ ending \in {"none", "break", "end", "exception"}

\* What a destructor is about to destroy: its own source, or the source of what it has destroyed.
Dropping ==
    /\ \A j \in Coros : at[j] = "drop" =>
          /\ target[j] \in Generators /\ target[j] < j
          /\ target[j] + 1 = j \/ at[target[j] + 1] = "destroyed"
    /\ at[Sink] \notin {"created", "drop", "done"} => target[Sink] = N

\* A coroutine waits for its source, and not to be asked by its consumer.
Asks(k) == k # 1 /\ state[k - 1] = "VNRCS"

\* The producer makes a value; it has one that was not yet taken and settles how
\* to wait; it waits to be asked.
Makes(k) == \/ at[k] \in {"produce", "operation", "yield", "advance", "advanced", "await", "got"}
            \/ at[k] = "suspended" /\ Asks(k)
Offers(k) == at[k] = "suspend" /\ seen[k] = "VNRCA"
Offered(k) == at[k] = "yielded" \/ (at[k] = "suspend" /\ seen[k] = "VRPA")
Rests(k) == at[k] = "suspended" /\ ~Asks(k)

\* The consumer is done with the generator, or uses it.
Gone(c) == at[c] \in {"drop", "destroyed", "done"}
Reads(c) == \/ at[c] \in {"got", "use", "operation", "yield", "yielded", "suspend", "destroy", "advance"}
            \/ at[c] = "suspended"
            \/ at[c] = "await" /\ seen[c] = "VRPA"
            \/ Gone(c)
Wants(c) == at[c] = "advanced" \/ (at[c] = "await" /\ seen[c] = "VNRCA")

\* Without symmetric transfer: what each state says of the two ends.
EndsAgree(k) ==
    /\ state[k] = "VNRCA" => (Makes(k) \/ Offers(k)) /\ Wants(k + 1)
    /\ state[k] = "VNRCS" => (Makes(k) \/ Offers(k) \/ Offered(k)) /\ at[k + 1] = "suspended"
    /\ state[k] = "VRPA" => Offered(k) /\ Reads(k + 1)
    /\ state[k] = "VRPS" => \/ Rests(k) /\ (Reads(k + 1) \/ Wants(k + 1))
                            \/ at[k] = "created" /\ (at[k + 1] \in {"created", "advance"} \/ Gone(k + 1))
    /\ state[k] = "cancelled" =>
          /\ at[k] \in {"yielded", "destroy", "drop", "destroyed"}
             \/ (at[k] = "suspend" /\ seen[k] \in {"VRPA", "cancelled"})
          /\ Gone(k + 1)

EndsSettled == ~symmetric => \A k \in Generators : EndsAgree(k)

\* With it: one coroutine goes on, those before it wait to be asked, those
\* after it for what they asked for.
Baton(b) ==
    /\ at[b] \notin {"suspended", "destroyed"}
    /\ at[b] = "created" => b = Sink
    /\ at[b] = "drop" => b = Sink
    /\ \A j \in Coros : j < b => at[j] \in {"created", "suspended"} \/ (at[j] = "destroyed" /\ Gone(Sink))
    /\ \A j \in Coros : b < j => at[j] = "suspended" /\ (j # Sink => value[j] # End)
OneGoesOn ==
    symmetric => /\ \E b \in Coros : Baton(b)
                 /\ \A j \in Coros : at[j] \notin {"advanced", "await", "yielded", "suspend", "destroy"}
                 /\ \A k \in Generators : state[k] \in {"VRPS", "cancelled"}
                 /\ \A k \in Generators :
                       /\ at[k] = "created" => at[k + 1] \in {"created", "advance"} \/ Gone(k + 1)
                       /\ at[k] = "destroyed" \/ state[k] = "cancelled" => Gone(k + 1)

\* The value was made and its consumer has not yet read it.
Fresh(k) == \/ at[k] = "yield" \/ Offers(k) \/ at[k + 1] = "got"
            \/ state[k] = "VRPS" /\ Wants(k + 1)
\* What its consumer read last.
LastRead(k) == IF k # N THEN value[k + 1]
               ELSE IF at[Sink] = "use" THEN Len(obtained) + 1 ELSE Len(obtained)

\* Where a producer stands that has the end for its value.
AtEnd(k) == /\ at[k] \in {"yield", "suspend", "yielded", "suspended", "destroy", "drop", "destroyed"}
            /\ ~(at[k] = "suspended" /\ Asks(k))

Passes(k) ==
    /\ value[k] # End => /\ LastRead(k) # End /\ value[k] <= yielded /\ ~exception[k]
                         /\ value[k] = IF Fresh(k) THEN LastRead(k) + 1 ELSE LastRead(k)
    /\ value[k] = End =>
          /\ value[1] = End /\ exception[k] = exception[1]
          /\ k = N \/ value[k + 1] # End => LastRead(k) = yielded
          /\ ~Fresh(k) => IF k = N THEN Gone(Sink) ELSE value[k + 1] = End
          /\ Fresh(k) => k = N \/ value[k + 1] # End
    \* The last value was the last.
    /\ value[k] = End => AtEnd(k)

ValuesInOrder ==
    /\ \A k \in Generators : Passes(k)
    /\ value[1] # End => value[1] = yielded
    /\ \A i \in 1..Len(obtained) : obtained[i] = i
    /\ ending \in {"end", "exception"} => /\ value[N] = End /\ Gone(Sink)
                                          /\ ending = "exception" <=> exception[1]

ChainInv == ChainTyped /\ Dropping /\ EndsSettled /\ OneGoesOn /\ ValuesInOrder

-----------------------------------------------------------------------------
LEMMA ChainSizes ==
  ASSUME GeneratorAssumption
  PROVE  /\ N \in Nat /\ N >= 1 /\ Sink = N + 1 /\ Sink \in Coros /\ 1 \in Coros /\ 1 # Sink /\ N \in Generators
         /\ \A k \in Generators : k \in Nat /\ k >= 1 /\ k <= N /\ k \in Coros /\ k + 1 \in Coros /\ k # Sink
         /\ \A k \in Coros : k \in Nat /\ k >= 1 /\ k <= N + 1 /\ (k # Sink => k \in Generators)
                              /\ (k # 1 => k - 1 \in Generators /\ (k - 1) + 1 = k)
         /\ 1 \in Generators /\ Sink \in Threads /\ 1 \in Threads /\ End \notin Nat
BY DEF GeneratorAssumption, Sink, Generators

\* What a step leaves alone of a generator and of its ends.
SameEnds(j) == /\ at'[j] = at[j] /\ at'[j + 1] = at[j + 1]
               /\ state'[j] = state[j] /\ seen'[j] = seen[j] /\ seen'[j + 1] = seen[j + 1]
               /\ j # 1 => state'[j - 1] = state[j - 1]

LEMMA SameEndsAgree ==
  ASSUME NEW j, SameEnds(j), EndsAgree(j)
  PROVE  EndsAgree(j)'
BY DEF SameEnds, EndsAgree, Makes, Offers, Offered, Rests, Reads, Wants, Gone, Asks

\* A producer goes on making the value.
LEMMA MakerMoves ==
  ASSUME NEW j, EndsAgree(j), Makes(j), Makes(j)',
         at'[j + 1] = at[j + 1], state'[j] = state[j], seen'[j + 1] = seen[j + 1]
  PROVE  EndsAgree(j)'
BY DEF EndsAgree, Makes, Offers, Offered, Rests, Reads, Wants, Gone, Asks

\* A consumer that reads goes on reading.
LEMMA ReaderMoves ==
  ASSUME NEW j, EndsAgree(j), Reads(j + 1), Reads(j + 1)', state[j] # "VNRCS",
         Gone(j + 1) => Gone(j + 1)',
         at[j + 1] = "advance" => state[j] # "VRPS" \/ Gone(j + 1)',
         at'[j] = at[j], state'[j] = state[j], seen'[j] = seen[j],
         j # 1 => state'[j - 1] = state[j - 1]
  PROVE  EndsAgree(j)'
BY DEF EndsAgree, Makes, Offers, Offered, Rests, Reads, Wants, Gone, Asks

SameLog == value' = value /\ exception' = exception /\ yielded' = yielded /\ obtained' = obtained

\* The ends go on without the value being read, or made.
LEMMA PassesOn ==
  ASSUME GeneratorAssumption, NEW j \in Generators, SameLog, Passes(j), Fresh(j)' = Fresh(j),
         value[j] = End => AtEnd(j)',
         j = N => (at[Sink] = "use" <=> at'[Sink] = "use") /\ (Gone(Sink) => Gone(Sink)')
  PROVE  Passes(j)'
<1>1. LastRead(j)' = LastRead(j)
  BY ChainSizes DEF SameLog, LastRead
<1>2. j = N => (Gone(Sink) => Gone(Sink)')
  OBVIOUS
<1> QED
  BY <1>1, <1>2 DEF SameLog, Passes

LEMMA SamePasses ==
  ASSUME GeneratorAssumption, NEW j \in Generators, SameLog, SameEnds(j), Passes(j)
  PROVE  Passes(j)'
<1>1. Fresh(j)' = Fresh(j) /\ (value[j] = End => AtEnd(j)')
  BY DEF SameEnds, Passes, AtEnd, Fresh, Offers, Wants, Asks
<1>2. j = N => at'[Sink] = at[Sink]
  BY ChainSizes DEF SameEnds
<1> QED
  BY <1>1, <1>2, PassesOn DEF Gone

\* A consumer that asks for the next value has not read the end.
LEMMA AskedForMore ==
  ASSUME GeneratorAssumption, ChainInv, NEW k \in Generators, ~Fresh(k),
         \/ at[k + 1] = "advance"
         \/ at[k + 1] = "await" /\ seen[k + 1] = "VRPA"
         \/ at[k + 1] = "suspended" /\ state[k] = "VNRCS"
  PROVE  /\ value[k] # End /\ GoOn(k) = (IF k = 1 THEN "produce" ELSE "advance")
         /\ GoOn(k) \in {"produce", "advance"}
<1>1. ASSUME value[k] = End PROVE FALSE
  <2>1. Passes(k) /\ (k # N => k + 1 \in Generators /\ Passes(k + 1))
    BY ChainSizes DEF ChainInv, ValuesInOrder, Generators
  <2>2. CASE k = N
    BY <1>1, <2>1, <2>2, ChainSizes DEF Passes, Gone
  <2>3. CASE k # N
    <3>1. value[k + 1] = End
      BY <1>1, <2>1, <2>3 DEF Passes
    <3>2. Asks(k + 1) <=> state[k] = "VNRCS"
      BY ChainSizes DEF Asks
    <3> QED
      BY <2>1, <2>3, <3>1, <3>2 DEF Passes, AtEnd
  <2> QED
    BY <2>2, <2>3
<1> QED
  BY <1>1 DEF GoOn

LEMMA HoldsBaton ==
  ASSUME GeneratorAssumption, ChainInv, symmetric, NEW k \in Coros,
         at[k] \notin {"created", "suspended", "destroyed"}
  PROVE  Baton(k)
<1>1. PICK b \in Coros : Baton(b)
  BY DEF ChainInv, OneGoesOn
<1> QED
  BY <1>1, ChainSizes DEF Baton

\* What the invariant says of one generator, for the steps of its ends.
LEMMA OfOne ==
  ASSUME GeneratorAssumption, ChainInv
  PROVE  /\ \A k \in Generators : Passes(k) /\ (~symmetric => EndsAgree(k))
         /\ at \in [Coros -> ChainPlaces] /\ seen \in [Coros -> ChainStates] /\ target \in [Coros -> Nat]
         /\ state \in [Generators -> ChainStates] /\ value \in [Generators -> Nat \cup {End}]
         /\ exception \in [Generators -> BOOLEAN]
         /\ symmetric => \A k \in Generators : state[k] # "VNRCS" /\ state[k] # "VRPA" /\ state[k] # "VNRCA"
BY DEF ChainInv, ChainTyped, OnStacks, Scheduled, EndsSettled, OneGoesOn, ValuesInOrder

-----------------------------------------------------------------------------
(* One generator at a step of its producer, of its consumer, or of one     *)
(* that it only shares a coroutine with.                                   *)

Good(j) == (~symmetric => EndsAgree(j)) /\ Passes(j)

LEMMA SameGood ==
  ASSUME GeneratorAssumption, NEW j \in Generators, SameLog, symmetric' = symmetric, SameEnds(j), Good(j)
  PROVE  Good(j)'
BY SameEndsAgree, SamePasses DEF Good

LEMMA GoodReload ==
  ASSUME GeneratorAssumption, ChainInv, NEW t \in Threads, NEW k \in Generators, Reload(t, k),
         NEW j \in Generators
  PROVE  Good(j)'
<1> USE ChainSizes, OfOne
<1>1. /\ at[k] = "yielded" /\ state' = state /\ seen' = [seen EXCEPT ![k] = state[k]]
      /\ at' = [at EXCEPT ![k] = IF state[k] = "VNRCS" THEN GoOn(k) ELSE "suspend"]
      /\ SameLog /\ symmetric' = symmetric
  BY DEF Reload, Top, Goto, generatorVars, logVars, SameLog
<1>2. ~symmetric /\ EndsAgree(k) /\ Passes(k)
  BY <1>1 DEF ChainInv, OneGoesOn
<1>3. IF state[k] = "VNRCS" THEN value[k] # End /\ at'[k] = (IF k = 1 THEN "produce" ELSE "advance")
                             ELSE at'[k] = "suspend"
  BY <1>1, <1>2, AskedForMore DEF EndsAgree, Fresh, Offers
<1>4. CASE j = k
  <2>1. k # 1 => state[k - 1] # "VNRCS"
    BY <1>1, <1>2 DEF EndsAgree
  <2>2. EndsAgree(j)'
    BY <1>1, <1>2, <1>3, <1>4, <2>1 DEF EndsAgree, Makes, Offers, Offered, Rests, Reads, Wants, Gone, Asks
  <2>3. Fresh(j)' = Fresh(j)
    BY <1>1, <1>2, <1>3, <1>4 DEF Fresh, EndsAgree, Makes, Offers, Rests, Wants
  <2>4. value[j] = End => AtEnd(j)'
    BY <1>1, <1>3, <1>4 DEF AtEnd
  <2> QED
    BY <1>1, <1>4, <2>2, <2>3, <2>4, PassesOn DEF Good, Gone
<1>5. CASE j + 1 = k
  <2>1. EndsAgree(j) /\ Passes(j) /\ k # 1 /\ k # Sink
    BY <1>2, <1>5
  <2>2. EndsAgree(j)'
    BY <1>1, <1>3, <1>5, <2>1, ReaderMoves DEF Reads, Gone, EndsAgree
  <2>3. Fresh(j)' = Fresh(j) /\ (value[j] = End => AtEnd(j)')
    BY <1>1, <1>3, <1>5, <2>1 DEF Fresh, Offers, Wants, EndsAgree, Passes, AtEnd, Asks
  <2> QED
    BY <1>1, <1>5, <2>1, <2>2, <2>3, PassesOn DEF Good, Gone
<1>6. CASE j # k /\ j + 1 # k
  BY <1>1, <1>6, SameGood DEF SameEnds, Good
<1> QED
  BY <1>4, <1>5, <1>6

LEMMA GoodProduce ==
  ASSUME GeneratorAssumption, ChainInv, NEW t \in Threads, Produce(t), NEW j \in Generators
  PROVE  Good(j)'
<1> USE ChainSizes, OfOne
<1>1. /\ at[1] = "produce" /\ state' = state /\ seen' = seen /\ obtained' = obtained /\ symmetric' = symmetric
      /\ \/ at' = [at EXCEPT ![1] = "operation"] /\ SameLog
         \/ /\ at' = [at EXCEPT ![1] = "yield"] /\ yielded' = yielded + 1
            /\ value' = [value EXCEPT ![1] = yielded + 1] /\ exception' = exception
         \/ /\ at' = [at EXCEPT ![1] = "yield"] /\ yielded' = yielded
            /\ value' = [value EXCEPT ![1] = End] /\ \E e \in BOOLEAN : exception' = [exception EXCEPT ![1] = e]
  BY DEF Produce, Top, Goto, Suspend, Kept, SameLog
<1>2. value[1] # End /\ value[1] = yielded /\ \A i \in Generators : value[i] # End
  BY <1>1 DEF Passes, AtEnd, ChainInv, ValuesInOrder
<1>3. ~Fresh(1)
  <2>1. CASE symmetric
    BY <1>1, <2>1, HoldsBaton DEF Baton, Fresh, Offers, Wants
  <2>2. CASE ~symmetric
    BY <1>1, <2>2 DEF EndsAgree, Makes, Offers, Offered, Rests, Wants, Fresh, ChainStates
  <2> QED
    BY <2>1, <2>2
<1>4. at'[1] \in {"operation", "yield"} /\ \A i \in Coros \ {1} : at'[i] = at[i]
  BY <1>1
<1>5. ~symmetric => EndsAgree(j)'
  <2> SUFFICES ASSUME ~symmetric PROVE EndsAgree(j)'
    BY <1>1
  <2>1. CASE j = 1
    BY <1>1, <1>4, <2>1, MakerMoves DEF Makes
  <2>2. CASE j # 1
    BY <1>1, <1>4, <2>2, SameEndsAgree DEF SameEnds
  <2> QED
    BY <2>1, <2>2
<1>6. Fresh(j)' = (IF j = 1 THEN at'[1] = "yield" ELSE Fresh(j))
  BY <1>1, <1>3, <1>4 DEF Fresh, Offers, Wants
<1>7. LastRead(j)' = LastRead(j) /\ LastRead(j) # End
  <2>1. LastRead(j) # End
    BY <1>2 DEF Passes
  <2>2. \A i \in Generators \ {1} : value'[i] = value[i]
    BY <1>1 DEF SameLog
  <2>3. j + 1 # 1 /\ (j # N => j + 1 \in Generators)
    BY DEF Generators
  <2>4. at'[Sink] = at[Sink]
    BY <1>4
  <2> QED
    BY <1>1, <2>1, <2>2, <2>3, <2>4 DEF LastRead
<1>8. yielded \in Nat
  BY DEF ChainInv, ChainTyped
<1>9. Passes(j)'
  <2>1. CASE j # 1
    <3>1. /\ value'[j] = value[j] /\ exception'[j] = exception[j] /\ yielded' \in Nat /\ yielded <= yielded'
      BY <1>1, <1>8, <2>1 DEF SameLog
    <3>2. value[j] # End /\ Passes(j) /\ value[j] \in Nat
      BY <1>2
    <3>3. /\ value[j] <= yielded /\ ~exception[j]
          /\ value[j] = IF Fresh(j) THEN LastRead(j) + 1 ELSE LastRead(j)
      BY <3>2 DEF Passes
    <3>4. value'[j] <= yielded'
      BY <1>8, <3>1, <3>2, <3>3
    <3> QED
      BY <1>6, <1>7, <2>1, <3>1, <3>2, <3>3, <3>4 DEF Passes
  <2>2. CASE j = 1 /\ at'[1] = "operation"
    <3>1. SameLog
      BY <1>1, <2>2
    <3>2. Fresh(j)' = Fresh(j)
      BY <1>1, <1>3, <1>4, <2>2 DEF Fresh, Offers, Wants
    <3>3. value[j] # End /\ at'[Sink] = at[Sink]
      BY <1>2, <1>4
    <3> QED
      BY <3>1, <3>2, <3>3, PassesOn DEF Gone
  <2>3. CASE j = 1 /\ at'[1] = "yield"
    <3>1. LastRead(j) = yielded /\ ~exception[j] /\ ~Fresh(j)
      BY <1>2, <1>3, <2>3 DEF Passes
    <3>2. Fresh(j)' /\ AtEnd(j)'
      BY <1>6, <2>3 DEF AtEnd
    <3>3. CASE value'[j] = yielded + 1 /\ yielded' = yielded + 1 /\ exception' = exception
      <4>1. value'[j] # End /\ value'[j] = LastRead(j)' + 1 /\ value'[j] <= yielded'
        BY <1>7, <1>8, <3>1, <3>3
      <4> QED
        BY <1>7, <3>1, <3>2, <3>3, <4>1 DEF Passes
    <3>4. CASE value'[j] = End /\ value'[1] = End /\ yielded' = yielded /\ exception'[j] = exception'[1]
      <4>1. j # N => value'[j + 1] # End
        BY <1>1, <1>2, <2>3 DEF SameLog
      <4> QED
        BY <1>7, <3>1, <3>2, <3>4, <4>1 DEF Passes
    <3> QED
      BY <1>1, <1>2, <2>3, <3>3, <3>4
  <2> QED
    BY <1>4, <2>1, <2>2, <2>3
<1> QED
  BY <1>5, <1>9, <1>1 DEF Good

LEMMA GoodYield ==
  ASSUME GeneratorAssumption, ChainInv, NEW t \in Threads, NEW k \in Generators, Yield(t, k),
         NEW j \in Generators
  PROVE  Good(j)'
<1> USE ChainSizes, OfOne
<1>1. /\ at[k] = "yield" /\ SameLog /\ symmetric' = symmetric
      /\ \/ /\ symmetric /\ state' = state /\ seen' = seen
            /\ at' = [at EXCEPT ![k] = "suspended", ![k + 1] = "got"]
         \/ /\ ~symmetric /\ state[k] = "VNRCS" /\ seen' = seen
            /\ state' = [state EXCEPT ![k] = "VRPA"]
            /\ at' = [at EXCEPT ![k] = "yielded", ![k + 1] = "got"]
         \/ /\ ~symmetric /\ state[k] # "VNRCS" /\ state' = state
            /\ seen' = [seen EXCEPT ![k] = state[k]] /\ at' = [at EXCEPT ![k] = "suspend"]
  BY DEF Yield, Top, Transfer, Call, Goto, logVars, SameLog
<1>2. Passes(k) /\ Passes(j) /\ (~symmetric => EndsAgree(k) /\ EndsAgree(j))
  OBVIOUS
<1>3. CASE symmetric
  <2>1. /\ at' = [at EXCEPT ![k] = "suspended", ![k + 1] = "got"]
        /\ state' = state /\ seen' = seen
    BY <1>1, <1>3
  <2>2. at[k + 1] = "suspended" /\ (k # N => value[k + 1] # End)
    BY <1>1, <1>3, HoldsBaton DEF Baton
  <2>3. ~Asks(j)'
    BY <1>3, <2>1 DEF Asks
  <2>4. Fresh(j)' = Fresh(j)
    BY <1>1, <2>1, <2>2 DEF Fresh, Offers, Wants
  <2>5. value[j] = End => AtEnd(j)'
    BY <1>1, <1>2, <2>1, <2>2, <2>3 DEF AtEnd, Passes
  <2>6. j = N => at'[Sink] = at[Sink] \/ (at[Sink] = "suspended" /\ at'[Sink] = "got")
    BY <2>1, <2>2
  <2> QED
    BY <1>1, <1>3, <2>4, <2>5, <2>6, PassesOn DEF Good, Gone
<1>4. CASE ~symmetric /\ state[k] = "VNRCS"
  <2>1. /\ at' = [at EXCEPT ![k] = "yielded", ![k + 1] = "got"]
        /\ state' = [state EXCEPT ![k] = "VRPA"] /\ seen' = seen
    BY <1>1, <1>4
  <2>2. at[k + 1] = "suspended"
    BY <1>2, <1>4 DEF EndsAgree
  <2>3. EndsAgree(j)'
    <3>1. CASE j = k
      BY <1>1, <2>1, <3>1 DEF EndsAgree, Offered, Reads
    <3>2. CASE j + 1 = k
      BY <1>1, <1>2, <1>4, <2>1, <3>2, ReaderMoves DEF Reads, Gone, EndsAgree
    <3>3. CASE j = k + 1
      <4>1. Makes(j) /\ Makes(j)'
        BY <1>4, <2>1, <2>2, <3>3 DEF Makes, Asks
      <4> QED
        BY <1>2, <1>4, <2>1, <3>3, <4>1, MakerMoves
    <3>4. CASE j # k /\ j + 1 # k /\ j # k + 1
      BY <1>2, <1>4, <2>1, <3>4, SameEndsAgree DEF SameEnds
    <3> QED
      BY <3>1, <3>2, <3>3, <3>4
  <2>4. Fresh(j)' = Fresh(j)
    BY <1>1, <1>4, <2>1, <2>2 DEF Fresh, Offers, Wants
  <2>5. value[j] = End => AtEnd(j)'
    BY <1>1, <1>2, <1>4, <2>1, <2>2 DEF AtEnd, Passes, Asks
  <2>6. j = N => at'[Sink] = at[Sink] \/ (at[Sink] = "suspended" /\ at'[Sink] = "got")
    BY <2>1, <2>2
  <2> QED
    BY <1>1, <2>3, <2>4, <2>5, <2>6, PassesOn DEF Good, Gone
<1>5. CASE ~symmetric /\ state[k] # "VNRCS"
  <2>1. /\ at' = [at EXCEPT ![k] = "suspend"] /\ state' = state
        /\ seen' = [seen EXCEPT ![k] = state[k]]
    BY <1>1, <1>5
  <2>2. state[k] = "VNRCA"
    BY <1>1, <1>2, <1>5 DEF EndsAgree, Makes, Offers, Offered, Rests, ChainStates
  <2>3. EndsAgree(j)'
    <3>1. CASE j = k
      BY <1>1, <1>2, <2>1, <2>2, <3>1 DEF EndsAgree, Offers, Wants
    <3>2. CASE j + 1 = k
      BY <1>1, <1>2, <1>5, <2>1, <3>2, ReaderMoves DEF Reads, Gone, EndsAgree
    <3>3. CASE j # k /\ j + 1 # k
      BY <1>2, <1>5, <2>1, <3>3, SameEndsAgree DEF SameEnds
    <3> QED
      BY <3>1, <3>2, <3>3
  <2>4. Fresh(j)' = Fresh(j) /\ (value[j] = End => AtEnd(j)')
    BY <1>1, <1>2, <2>1, <2>2 DEF Fresh, Offers, Wants, AtEnd, Passes, Asks
  <2>5. j = N => at'[Sink] = at[Sink]
    BY <2>1
  <2> QED
    BY <1>1, <2>3, <2>4, <2>5, PassesOn DEF Good, Gone
<1> QED
  BY <1>3, <1>4, <1>5

LEMMA GoodTrySuspend ==
  ASSUME GeneratorAssumption, ChainInv, NEW t \in Threads, NEW k \in Generators, TrySuspend(t, k),
         NEW j \in Generators
  PROVE  Good(j)'
<1> USE ChainSizes, OfOne
<1>1. /\ at[k] = "suspend" /\ SameLog /\ symmetric' = symmetric /\ seen' = seen
      /\ \/ /\ seen[k] \in {"VNRCA", "VRPA"} /\ state[k] = seen[k]
            /\ state' = [state EXCEPT ![k] = "VRPS"] /\ at' = [at EXCEPT ![k] = "suspended"]
         \/ /\ seen[k] = "VNRCA" /\ state[k] = "VNRCS"
            /\ state' = [state EXCEPT ![k] = "VRPA"]
            /\ at' = [at EXCEPT ![k] = "yielded", ![k + 1] = "got"]
         \/ /\ seen[k] = "VRPA" /\ state[k] = "VNRCS" /\ state' = state
            /\ at' = [at EXCEPT ![k] = GoOn(k)]
         \/ /\ "cancelled" \in {seen[k], state[k]} /\ state' = state
            /\ at' = [at EXCEPT ![k] = "destroy"]
  BY DEF TrySuspend, Top, Suspend, Call, Goto, logVars, SameLog
<1>2. ~symmetric
  BY <1>1 DEF ChainInv, OneGoesOn
<1>3. Passes(k) /\ Passes(j) /\ EndsAgree(k) /\ EndsAgree(j)
  BY <1>2
<1>4. k # 1 => state[k - 1] # "VNRCS"
  BY <1>1, <1>2 DEF EndsAgree
<1>5. CASE /\ seen[k] \in {"VNRCA", "VRPA"} /\ state[k] = seen[k]
           /\ state' = [state EXCEPT ![k] = "VRPS"] /\ at' = [at EXCEPT ![k] = "suspended"]
  <2>1. EndsAgree(j)'
    <3>1. CASE j = k
      BY <1>1, <1>3, <1>4, <1>5, <3>1 DEF EndsAgree, Makes, Offers, Offered, Rests, Reads, Wants, Gone, Asks
    <3>2. CASE j + 1 = k
      BY <1>1, <1>3, <1>4, <1>5, <3>2, ReaderMoves DEF Reads, Gone
    <3>3. CASE j = k + 1
      BY <1>1, <1>3, <1>5, <3>3 DEF EndsAgree, Makes, Offers, Offered, Rests, Reads, Wants, Gone, Asks
    <3>4. CASE j # k /\ j + 1 # k /\ j # k + 1
      BY <1>1, <1>3, <1>5, <3>4, SameEndsAgree DEF SameEnds
    <3> QED
      BY <3>1, <3>2, <3>3, <3>4
  <2>2. Fresh(j)' = Fresh(j)
    BY <1>1, <1>3, <1>5 DEF Fresh, EndsAgree, Makes, Offers, Offered, Wants, Reads, Gone
  <2>3. value[j] = End => AtEnd(j)'
    BY <1>1, <1>3, <1>4, <1>5 DEF AtEnd, Passes, Asks
  <2>4. j = N => at'[Sink] = at[Sink]
    BY <1>5
  <2> QED
    BY <1>1, <2>1, <2>2, <2>3, <2>4, PassesOn DEF Good, Gone
<1>6. CASE /\ seen[k] = "VNRCA" /\ state[k] = "VNRCS" /\ state' = [state EXCEPT ![k] = "VRPA"]
           /\ at' = [at EXCEPT ![k] = "yielded", ![k + 1] = "got"]
  <2>1. at[k + 1] = "suspended"
    BY <1>3, <1>6 DEF EndsAgree
  <2>2. EndsAgree(j)'
    <3>1. CASE j = k
      BY <1>1, <1>6, <3>1 DEF EndsAgree, Offered, Reads
    <3>2. CASE j + 1 = k
      BY <1>1, <1>3, <1>4, <1>6, <3>2, ReaderMoves DEF Reads, Gone
    <3>3. CASE j = k + 1
      <4>1. Makes(j) /\ Makes(j)'
        BY <1>6, <2>1, <3>3 DEF Makes, Asks
      <4> QED
        BY <1>1, <1>3, <1>6, <3>3, <4>1, MakerMoves
    <3>4. CASE j # k /\ j + 1 # k /\ j # k + 1
      BY <1>1, <1>3, <1>6, <3>4, SameEndsAgree DEF SameEnds
    <3> QED
      BY <3>1, <3>2, <3>3, <3>4
  <2>3. Fresh(j)' = Fresh(j)
    BY <1>1, <1>6, <2>1 DEF Fresh, Offers, Wants
  <2>4. value[j] = End => AtEnd(j)'
    BY <1>1, <1>3, <1>4, <1>6, <2>1 DEF AtEnd, Passes, Asks
  <2>5. j = N => at'[Sink] = at[Sink] \/ (at[Sink] = "suspended" /\ at'[Sink] = "got")
    BY <1>6, <2>1
  <2> QED
    BY <1>1, <2>2, <2>3, <2>4, <2>5, PassesOn DEF Good, Gone
<1>7. CASE /\ seen[k] = "VRPA" /\ state[k] = "VNRCS" /\ state' = state
           /\ at' = [at EXCEPT ![k] = GoOn(k)]
  <2>1. value[k] # End /\ at'[k] = (IF k = 1 THEN "produce" ELSE "advance") /\ at[k + 1] = "suspended"
    BY <1>1, <1>3, <1>7, AskedForMore DEF EndsAgree, Fresh, Offers
  <2>2. EndsAgree(j)'
    <3>1. CASE j = k
      BY <1>1, <1>3, <1>7, <2>1, <3>1 DEF EndsAgree, Makes
    <3>2. CASE j + 1 = k
      BY <1>1, <1>3, <1>4, <1>7, <2>1, <3>2, ReaderMoves DEF Reads, Gone
    <3>3. CASE j # k /\ j + 1 # k
      BY <1>1, <1>3, <1>7, <3>3, SameEndsAgree DEF SameEnds
    <3> QED
      BY <3>1, <3>2, <3>3
  <2>3. Fresh(j)' = Fresh(j)
    BY <1>1, <1>7, <2>1 DEF Fresh, Offers, Wants
  <2>4. value[j] = End => AtEnd(j)'
    BY <1>1, <1>3, <1>7, <2>1 DEF AtEnd, Passes, Asks
  <2>5. j = N => at'[Sink] = at[Sink]
    BY <1>7
  <2> QED
    BY <1>1, <2>2, <2>3, <2>4, <2>5, PassesOn DEF Good, Gone
<1>8. CASE /\ "cancelled" \in {seen[k], state[k]} /\ state' = state
           /\ at' = [at EXCEPT ![k] = "destroy"]
  <2>1. state[k] = "cancelled"
    BY <1>1, <1>3, <1>8 DEF EndsAgree, Makes, Offers, Offered, Rests, ChainStates
  <2>2. EndsAgree(j)'
    <3>1. CASE j = k
      BY <1>1, <1>3, <1>8, <2>1, <3>1 DEF EndsAgree, Gone
    <3>2. CASE j + 1 = k
      BY <1>1, <1>3, <1>4, <1>8, <3>2, ReaderMoves DEF Reads, Gone
    <3>3. CASE j # k /\ j + 1 # k
      BY <1>1, <1>3, <1>8, <3>3, SameEndsAgree DEF SameEnds
    <3> QED
      BY <3>1, <3>2, <3>3
  <2>3. Fresh(j)' = Fresh(j)
    BY <1>1, <1>3, <1>8, <2>1 DEF Fresh, EndsAgree, Offers, Wants
  <2>4. value[j] = End => AtEnd(j)'
    BY <1>1, <1>3, <1>8 DEF AtEnd, Passes, Asks
  <2>5. j = N => at'[Sink] = at[Sink]
    BY <1>8
  <2> QED
    BY <1>1, <2>2, <2>3, <2>4, <2>5, PassesOn DEF Good, Gone
<1> QED
  BY <1>1, <1>5, <1>6, <1>7, <1>8

LEMMA GoodAdvance ==
  ASSUME GeneratorAssumption, ChainInv, NEW t \in Threads, NEW k \in Coros \ {1}, Advance(t, k),
         NEW j \in Generators
  PROVE  Good(j)'
<1> USE ChainSizes, OfOne
<1> DEFINE p == k - 1
<1>1. p \in Generators /\ p + 1 = k
  OBVIOUS
<1>2. /\ at[k] = "advance" /\ SameLog /\ symmetric' = symmetric
      /\ \/ /\ symmetric /\ state' = state /\ seen' = seen
            /\ at' = [at EXCEPT ![k] = "suspended", ![p] = GoOn(p)]
         \/ /\ ~symmetric /\ state[p] = "VRPS" /\ seen' = seen
            /\ state' = [state EXCEPT ![p] = "VNRCA"]
            /\ at' = [at EXCEPT ![k] = "advanced", ![p] = GoOn(p)]
         \/ /\ ~symmetric /\ state[p] # "VRPS" /\ state' = state
            /\ seen' = [seen EXCEPT ![k] = state[p]] /\ at' = [at EXCEPT ![k] = "await"]
  BY DEF Advance, Top, Transfer, Call, Goto, logVars, SameLog
<1> HIDE DEF p
<1>3. Passes(p) /\ Passes(j) /\ (~symmetric => EndsAgree(p) /\ EndsAgree(j))
  BY <1>1
<1>4. CASE symmetric
  <2>1. at' = [at EXCEPT ![k] = "suspended", ![p] = GoOn(p)] /\ state' = state /\ seen' = seen
    BY <1>2, <1>4
  <2>2. at[p] \in {"created", "suspended"}
    <3>1. Baton(k) /\ p \in Coros /\ p < k
      BY <1>1, <1>2, <1>4, HoldsBaton
    <3>2. ~Gone(Sink)
      BY <1>2, <3>1 DEF Baton, Gone
    <3> QED
      BY <3>1, <3>2 DEF Baton
  <2>3. value[p] # End /\ at'[p] = (IF p = 1 THEN "produce" ELSE "advance")
    BY <1>1, <1>2, <1>4, <2>1, <2>2, AskedForMore DEF Fresh, Offers, Wants
  <2>4. ~Asks(j)'
    BY <1>4, <2>1 DEF Asks
  <2>5. Fresh(j)' = Fresh(j)
    BY <1>1, <1>2, <2>1, <2>2, <2>3 DEF Fresh, Offers, Wants
  <2>6. value[j] = End => AtEnd(j)'
    BY <1>1, <1>2, <1>3, <2>1, <2>3, <2>4 DEF AtEnd, Passes
  <2>7. j = N => at'[Sink] = at[Sink] \/ (at[Sink] = "advance" /\ at'[Sink] = "suspended")
    BY <1>1, <1>2, <2>1
  <2> QED
    BY <1>2, <1>4, <2>5, <2>6, <2>7, PassesOn DEF Good, Gone
<1>5. CASE ~symmetric /\ state[p] = "VRPS"
  <2>1. /\ at' = [at EXCEPT ![k] = "advanced", ![p] = GoOn(p)] /\ seen' = seen
        /\ state' = [state EXCEPT ![p] = "VNRCA"]
    BY <1>2, <1>5
  <2>2. at[p] = "created" \/ (at[p] = "suspended" /\ ~Asks(p))
    BY <1>3, <1>5 DEF EndsAgree, Rests
  <2>3. value[p] # End /\ at'[p] = (IF p = 1 THEN "produce" ELSE "advance")
    BY <1>1, <1>2, <1>5, <2>1, <2>2, AskedForMore DEF Fresh, Offers, Wants
  <2>4. EndsAgree(j)'
    <3>1. CASE j = p
      BY <1>1, <2>1, <2>3, <3>1 DEF EndsAgree, Makes, Wants
    <3>2. CASE j + 1 = p /\ at[p] = "created"
      BY <1>1, <1>3, <1>5, <2>1, <2>3, <3>2 DEF EndsAgree, Reads, Wants, Gone, ChainStates
    <3>3. CASE j + 1 = p /\ at[p] = "suspended"
      <4>1. state[j] # "VNRCS"
        BY <2>2, <3>3 DEF Asks
      <4> QED
        BY <1>1, <1>3, <1>5, <2>1, <2>3, <3>3, <4>1, ReaderMoves DEF Reads, Gone
    <3>4. CASE j = k
      <4>1. Makes(j) /\ Makes(j)'
        BY <1>1, <1>2, <2>1, <3>4 DEF Makes
      <4> QED
        BY <1>1, <1>3, <1>5, <2>1, <3>4, <4>1, MakerMoves
    <3>5. CASE j # p /\ j + 1 # p /\ j # k
      BY <1>1, <1>3, <1>5, <2>1, <3>5, SameEndsAgree DEF SameEnds
    <3> QED
      BY <2>2, <3>1, <3>2, <3>3, <3>4, <3>5
  <2>5. Fresh(j)' = Fresh(j)
    BY <1>1, <1>2, <1>5, <2>1, <2>2, <2>3 DEF Fresh, Offers, Wants
  <2>6. value[j] = End => AtEnd(j)'
    BY <1>1, <1>2, <1>3, <1>5, <2>1, <2>3 DEF AtEnd, Passes, Asks
  <2>7. j = N => at'[Sink] = at[Sink] \/ (at[Sink] = "advance" /\ at'[Sink] = "advanced")
    BY <1>1, <1>2, <2>1
  <2> QED
    BY <1>2, <2>4, <2>5, <2>6, <2>7, PassesOn DEF Good, Gone
<1>6. CASE ~symmetric /\ state[p] # "VRPS"
  <2>1. at' = [at EXCEPT ![k] = "await"] /\ state' = state /\ seen' = [seen EXCEPT ![k] = state[p]]
    BY <1>2, <1>6
  <2>2. state[p] = "VRPA"
    BY <1>1, <1>2, <1>3, <1>6 DEF EndsAgree, Wants, Gone, ChainStates
  <2>3. EndsAgree(j)'
    <3>1. CASE j = p
      BY <1>1, <1>2, <1>3, <1>6, <2>1, <2>2, <3>1, ReaderMoves DEF Reads, Gone
    <3>2. CASE j = k
      <4>1. Makes(j) /\ Makes(j)'
        BY <1>1, <1>2, <2>1, <3>2 DEF Makes
      <4> QED
        BY <1>1, <1>3, <1>6, <2>1, <3>2, <4>1, MakerMoves
    <3>3. CASE j # p /\ j # k
      BY <1>1, <1>3, <1>6, <2>1, <3>3, SameEndsAgree DEF SameEnds
    <3> QED
      BY <3>1, <3>2, <3>3
  <2>4. Fresh(j)' = Fresh(j)
    BY <1>1, <1>2, <2>1, <2>2 DEF Fresh, Offers, Wants
  <2>5. value[j] = End => AtEnd(j)'
    BY <1>1, <1>2, <1>3, <2>1 DEF AtEnd, Passes, Asks
  <2>6. j = N => at'[Sink] = at[Sink] \/ (at[Sink] = "advance" /\ at'[Sink] = "await")
    BY <1>1, <1>2, <2>1
  <2> QED
    BY <1>2, <2>3, <2>4, <2>5, <2>6, PassesOn DEF Good, Gone
<1> QED
  BY <1>4, <1>5, <1>6

LEMMA GoodAdvanced ==
  ASSUME GeneratorAssumption, ChainInv, NEW t \in Threads, NEW k \in Coros \ {1}, Advanced(t, k),
         NEW j \in Generators
  PROVE  Good(j)'
<1> USE ChainSizes, OfOne
<1> DEFINE p == k - 1
<1>1. p \in Generators /\ p + 1 = k
  OBVIOUS
<1>2. /\ at[k] = "advanced" /\ SameLog /\ symmetric' = symmetric /\ state' = state
      /\ seen' = [seen EXCEPT ![k] = state[p]]
      /\ at' = [at EXCEPT ![k] = IF state[p] = "VRPS" THEN "got" ELSE "await"]
  BY DEF Advanced, Top, Goto, generatorVars, logVars, SameLog
<1> HIDE DEF p
<1>3. ~symmetric /\ EndsAgree(p) /\ EndsAgree(j) /\ Passes(j)
  BY <1>1, <1>2 DEF ChainInv, OneGoesOn
<1>4. state[p] = "VRPS" \/ state[p] = "VNRCA"
  BY <1>1, <1>2, <1>3 DEF EndsAgree, Reads, Gone, ChainStates
<1>5. EndsAgree(j)'
  <2>1. CASE j = p
    BY <1>1, <1>2, <1>3, <1>4, <2>1 DEF EndsAgree, Makes, Offers, Offered, Rests, Reads, Wants, Gone, Asks
  <2>2. CASE j = k
    <3>1. Makes(j) /\ Makes(j)'
      BY <1>1, <1>2, <2>2 DEF Makes
    <3> QED
      BY <1>1, <1>2, <1>3, <2>2, <3>1, MakerMoves
  <2>3. CASE j # p /\ j # k
    BY <1>1, <1>2, <1>3, <2>3, SameEndsAgree DEF SameEnds
  <2> QED
    BY <2>1, <2>2, <2>3
<1>6. Fresh(j)' = Fresh(j)
  BY <1>1, <1>2, <1>4 DEF Fresh, Offers, Wants
<1>7. value[j] = End => AtEnd(j)'
  BY <1>1, <1>2, <1>3 DEF AtEnd, Passes, Asks
<1>8. j = N => at'[Sink] = at[Sink] \/ (at[Sink] = "advanced" /\ at'[Sink] \in {"got", "await"})
  BY <1>1, <1>2
<1> QED
  BY <1>2, <1>5, <1>6, <1>7, <1>8, PassesOn DEF Good, Gone

LEMMA GoodAwait ==
  ASSUME GeneratorAssumption, ChainInv, NEW t \in Threads, NEW k \in Coros \ {1}, Await(t, k),
         NEW j \in Generators
  PROVE  Good(j)'
<1> USE ChainSizes, OfOne
<1> DEFINE p == k - 1
<1>1. p \in Generators /\ p + 1 = k
  OBVIOUS
<1>2. /\ at[k] = "await" /\ SameLog /\ symmetric' = symmetric /\ seen' = seen
      /\ \/ /\ state[p] = seen[k] /\ state' = [state EXCEPT ![p] = "VNRCS"]
            /\ at' = [at EXCEPT ![k] = "suspended"]
         \/ /\ seen[k] = "VRPA" /\ state[p] # "VRPA" /\ state' = [state EXCEPT ![p] = "VNRCA"]
            /\ at' = [at EXCEPT ![k] = "advanced", ![p] = GoOn(p)]
         \/ /\ seen[k] = "VNRCA" /\ state[p] # "VNRCA" /\ state' = state
            /\ at' = [at EXCEPT ![k] = "got"]
  BY DEF Await, Top, Suspend, Call, Goto, logVars, SameLog
<1> HIDE DEF p
<1>3. ~symmetric /\ EndsAgree(p) /\ EndsAgree(j) /\ Passes(j)
  BY <1>1, <1>2 DEF ChainInv, OneGoesOn
<1>4. \/ seen[k] = "VNRCA" /\ state[p] \in {"VNRCA", "VRPS"}
      \/ seen[k] = "VRPA" /\ state[p] \in {"VRPA", "VRPS"}
  BY <1>1, <1>2, <1>3 DEF EndsAgree, Reads, Wants, Gone, ChainStates
<1>5. CASE /\ state[p] = seen[k] /\ state' = [state EXCEPT ![p] = "VNRCS"]
           /\ at' = [at EXCEPT ![k] = "suspended"]
  <2>1. EndsAgree(j)'
    <3>1. CASE j = p
      BY <1>1, <1>2, <1>3, <1>4, <1>5, <3>1 DEF EndsAgree, Makes, Offers, Offered, Rests, Reads, Wants, Gone, Asks
    <3>2. CASE j = k
      <4>1. Makes(j) /\ Makes(j)'
        BY <1>1, <1>2, <1>5, <3>2 DEF Makes, Asks
      <4> QED
        BY <1>1, <1>2, <1>3, <1>5, <3>2, <4>1, MakerMoves
    <3>3. CASE j # p /\ j # k
      BY <1>1, <1>2, <1>3, <1>5, <3>3, SameEndsAgree DEF SameEnds
    <3> QED
      BY <3>1, <3>2, <3>3
  <2>2. Fresh(j)' = Fresh(j)
    BY <1>1, <1>2, <1>4, <1>5 DEF Fresh, Offers, Wants
  <2>3. value[j] = End => AtEnd(j)'
    BY <1>1, <1>2, <1>3, <1>5 DEF AtEnd, Passes, Asks
  <2>4. j = N => at'[Sink] = at[Sink] \/ (at[Sink] = "await" /\ at'[Sink] = "suspended")
    BY <1>1, <1>2, <1>5
  <2> QED
    BY <1>2, <2>1, <2>2, <2>3, <2>4, PassesOn DEF Good, Gone
<1>6. CASE /\ seen[k] = "VRPA" /\ state[p] # "VRPA" /\ state' = [state EXCEPT ![p] = "VNRCA"]
           /\ at' = [at EXCEPT ![k] = "advanced", ![p] = GoOn(p)]
  <2>1. state[p] = "VRPS" /\ at[p] = "suspended" /\ ~Asks(p)
    BY <1>1, <1>2, <1>3, <1>4, <1>6 DEF EndsAgree, Rests, Gone
  <2>2. value[p] # End /\ at'[p] = (IF p = 1 THEN "produce" ELSE "advance")
    BY <1>1, <1>2, <1>6, <2>1, AskedForMore DEF Fresh, Offers, Wants
  <2>3. EndsAgree(j)'
    <3>1. CASE j = p
      BY <1>1, <1>6, <2>2, <3>1 DEF EndsAgree, Makes, Wants
    <3>2. CASE j + 1 = p
      <4>1. state[j] # "VNRCS"
        BY <2>1, <3>2 DEF Asks
      <4> QED
        BY <1>1, <1>2, <1>3, <1>6, <2>1, <2>2, <3>2, <4>1, ReaderMoves DEF Reads, Gone
    <3>3. CASE j = k
      <4>1. Makes(j) /\ Makes(j)'
        BY <1>1, <1>2, <1>6, <3>3 DEF Makes
      <4> QED
        BY <1>1, <1>2, <1>3, <1>6, <3>3, <4>1, MakerMoves
    <3>4. CASE j # p /\ j + 1 # p /\ j # k
      BY <1>1, <1>2, <1>3, <1>6, <3>4, SameEndsAgree DEF SameEnds
    <3> QED
      BY <3>1, <3>2, <3>3, <3>4
  <2>4. Fresh(j)' = Fresh(j)
    BY <1>1, <1>2, <1>6, <2>1, <2>2 DEF Fresh, Offers, Wants
  <2>5. value[j] = End => AtEnd(j)'
    BY <1>1, <1>2, <1>3, <1>6, <2>2 DEF AtEnd, Passes, Asks
  <2>6. j = N => at'[Sink] = at[Sink] \/ (at[Sink] = "await" /\ at'[Sink] = "advanced")
    BY <1>1, <1>2, <1>6
  <2> QED
    BY <1>2, <2>3, <2>4, <2>5, <2>6, PassesOn DEF Good, Gone
<1>7. CASE /\ seen[k] = "VNRCA" /\ state[p] # "VNRCA" /\ state' = state
           /\ at' = [at EXCEPT ![k] = "got"]
  <2>1. state[p] = "VRPS"
    BY <1>4, <1>7
  <2>2. EndsAgree(j)'
    <3>1. CASE j = p
      BY <1>1, <1>2, <1>3, <1>7, <2>1, <3>1 DEF EndsAgree, Makes, Offers, Offered, Rests, Reads, Wants, Gone, Asks
    <3>2. CASE j = k
      <4>1. Makes(j) /\ Makes(j)'
        BY <1>1, <1>2, <1>7, <3>2 DEF Makes
      <4> QED
        BY <1>1, <1>2, <1>3, <1>7, <3>2, <4>1, MakerMoves
    <3>3. CASE j # p /\ j # k
      BY <1>1, <1>2, <1>3, <1>7, <3>3, SameEndsAgree DEF SameEnds
    <3> QED
      BY <3>1, <3>2, <3>3
  <2>3. Fresh(j)' = Fresh(j)
    BY <1>1, <1>2, <1>7, <2>1 DEF Fresh, Offers, Wants
  <2>4. value[j] = End => AtEnd(j)'
    BY <1>1, <1>2, <1>3, <1>7 DEF AtEnd, Passes, Asks
  <2>5. j = N => at'[Sink] = at[Sink] \/ (at[Sink] = "await" /\ at'[Sink] = "got")
    BY <1>1, <1>2, <1>7
  <2> QED
    BY <1>2, <2>2, <2>3, <2>4, <2>5, PassesOn DEF Good, Gone
<1> QED
  BY <1>2, <1>5, <1>6, <1>7

LEMMA GoodGot ==
  ASSUME GeneratorAssumption, ChainInv, NEW t \in Threads, NEW k \in Coros \ {1}, Got(t, k),
         NEW j \in Generators
  PROVE  Good(j)'
<1> USE ChainSizes, OfOne
<1> DEFINE p == k - 1
<1>1. p \in Generators /\ p + 1 = k /\ p # k
  OBVIOUS
<1>2. /\ at[k] = "got" /\ symmetric' = symmetric /\ state' = state /\ seen' = seen
      /\ yielded' = yielded /\ obtained' = obtained
      /\ IF k = Sink
         THEN /\ at' = [at EXCEPT ![k] = IF value[N] = End THEN "drop" ELSE "use"]
              /\ value' = value /\ exception' = exception
         ELSE /\ at' = [at EXCEPT ![k] = "yield"] /\ value' = [value EXCEPT ![k] = value[p]]
              /\ exception' = [exception EXCEPT ![k] = exception[p] /\ state[k] # "cancelled"]
  BY DEF Got, Top, Goto, Kept
<1> HIDE DEF p
<1>3. Passes(p) /\ Passes(j) /\ (~symmetric => EndsAgree(p) /\ EndsAgree(j))
  BY <1>1
<1>4. at[p] # "yield" /\ ~Offers(p)
  <2>1. CASE symmetric
    BY <1>1, <1>2, <2>1, HoldsBaton DEF Baton, Offers
  <2>2. CASE ~symmetric
    BY <1>1, <1>2, <1>3, <2>2 DEF EndsAgree, Offers, Offered, Rests, Wants, Gone, ChainStates
  <2> QED
    BY <2>1, <2>2
<1>5. ~symmetric => EndsAgree(j)'
  <2> SUFFICES ASSUME ~symmetric PROVE EndsAgree(j)'
    BY <1>2
  <2>1. at'[k] \in {"drop", "use", "yield"} /\ \A i \in Coros \ {k} : at'[i] = at[i]
    BY <1>2
  <2>2. CASE j = p
    BY <1>1, <1>2, <1>3, <2>1, <2>2, ReaderMoves DEF Reads, Gone, EndsAgree
  <2>3. CASE j = k
    <3>1. Makes(j) /\ Makes(j)'
      BY <1>2, <2>3 DEF Makes
    <3> QED
      BY <1>2, <1>3, <2>1, <2>3, <3>1, MakerMoves
  <2>4. CASE j # p /\ j # k
    BY <1>1, <1>2, <1>3, <2>1, <2>4, SameEndsAgree DEF SameEnds
  <2> QED
    BY <2>2, <2>3, <2>4
<1>6. Fresh(p) /\ ~Fresh(p)'
  BY <1>1, <1>2, <1>4 DEF Fresh, Offers, Wants
<1>7. CASE k = Sink
  <2>1. p = N /\ (j = p <=> j = N)
    BY <1>1, <1>7
  <2>2. SameLog /\ at' = [at EXCEPT ![k] = IF value[N] = End THEN "drop" ELSE "use"]
    BY <1>2, <1>7 DEF SameLog
  <2>3. CASE j # N
    BY <1>1, <1>2, <1>3, <1>7, <2>1, <2>2, <2>3, SamePasses, <1>5 DEF SameEnds, Good
  <2>4. CASE j = N
    <3>1. LastRead(N) = Len(obtained) /\ AtEnd(N)' = AtEnd(N)
      BY <1>2, <1>7, <2>2 DEF LastRead, AtEnd, Asks
    <3>2. CASE value[N] = End
      <4>1. at'[Sink] = "drop" /\ LastRead(N)' = Len(obtained) /\ Gone(Sink)'
        BY <1>2, <1>7, <2>2, <3>2 DEF LastRead, Gone
      <4> QED
        BY <1>2, <1>3, <1>5, <1>6, <2>1, <2>2, <2>4, <3>1, <3>2, <4>1 DEF SameLog, Passes, Good
    <3>3. CASE value[N] # End
      <4>1. at'[Sink] = "use" /\ LastRead(N)' = Len(obtained) + 1
        BY <1>2, <1>7, <2>2, <3>3 DEF LastRead
      <4>2. Len(obtained) + 1 # End
        <5>1. obtained \in Seq(Nat)
          BY DEF ChainInv, ChainTyped
        <5>2. Len(obtained) \in Nat
          BY <5>1
        <5>3. Len(obtained) + 1 \in Nat
          BY <5>2
        <5> QED
          BY <5>3
      <4> QED
        BY <1>2, <1>3, <1>5, <1>6, <2>1, <2>2, <2>4, <3>1, <3>3, <4>1, <4>2 DEF SameLog, Passes, Good
    <3> QED
      BY <3>2, <3>3
  <2> QED
    BY <2>3, <2>4
<1>8. CASE k # Sink
  <2>1. /\ k \in Generators /\ p # N /\ Passes(k)
    BY <1>1, <1>8
  <2>2. /\ at' = [at EXCEPT ![k] = "yield"] /\ value' = [value EXCEPT ![k] = value[p]]
        /\ exception' = [exception EXCEPT ![k] = exception[p] /\ state[k] # "cancelled"]
    BY <1>2, <1>8
  <2>3. ~Fresh(k) /\ state[k] # "cancelled"
    <3>1. CASE symmetric
      BY <1>2, <2>1, <3>1, HoldsBaton DEF Baton, Fresh, Offers, Wants, Gone, ChainInv, OneGoesOn
    <3>2. CASE ~symmetric
      BY <1>2, <2>1, <3>2 DEF EndsAgree, Makes, Offers, Offered, Rests, Wants, Fresh, ChainStates
    <3> QED
      BY <3>1, <3>2
  <2>4. /\ value'[k] = value[p] /\ exception'[k] = exception[p]
        /\ \A i \in Generators \ {k} : value'[i] = value[i] /\ exception'[i] = exception[i]
    <3>1. (exception[p] /\ state[k] # "cancelled") = exception[p]
      BY <1>1, <2>3
    <3>2. exception' = [exception EXCEPT ![k] = exception[p]]
      BY <2>2, <3>1
    <3> QED
      BY <2>1, <2>2, <3>2, ZenonT(60)
  <2>5. value[k] # End /\ value[k] = LastRead(k) /\ LastRead(k) # End /\ LastRead(p) = value[k]
    BY <1>1, <1>2, <2>1, <2>3 DEF Passes, AtEnd, LastRead
  <2>6. at'[Sink] = at[Sink]
    BY <1>8, <2>2
  <2>7. CASE j = p
    <3>1. LastRead(j)' = value[p] /\ ~Fresh(j)'
      BY <1>1, <1>6, <2>1, <2>4, <2>7 DEF LastRead
    <3>2. AtEnd(j)' = AtEnd(j)
      BY <1>1, <1>2, <2>2, <2>7 DEF AtEnd, Asks
    <3>3. /\ value'[j] = value[p] /\ exception'[j] = exception[j] /\ yielded' = yielded
          /\ value'[j + 1] = value[p] /\ value'[1] = value[1] /\ exception'[1] = exception[1]
      BY <1>1, <1>2, <2>1, <2>4, <2>7
    <3> QED
      BY <1>3, <1>5, <1>2, <2>1, <2>7, <3>1, <3>2, <3>3 DEF Passes, Good
  <2>8. CASE j = k
    <3>0. j # N => /\ j + 1 \in Generators /\ j + 1 # k
                   /\ value'[j + 1] = value[j + 1] /\ value[j + 1] = LastRead(k)
      <4>1. j \in Nat /\ N \in Nat /\ j <= N
        OBVIOUS
      <4>2. j # N => j + 1 \in Generators /\ j + 1 # k
        BY <2>8, <4>1 DEF Generators
      <4> QED
        BY <2>4, <2>8, <4>2 DEF LastRead
    <3>1. LastRead(j)' = LastRead(k) /\ Fresh(j)' /\ AtEnd(j)'
      <4>1. LastRead(j)' = LastRead(k)
        BY <1>2, <2>6, <2>8, <3>0 DEF LastRead
      <4> QED
        BY <2>2, <2>8, <4>1 DEF Fresh, AtEnd
    <3>2. /\ value'[j] = value[p] /\ exception'[j] = exception[p] /\ yielded' = yielded
          /\ value'[1] = value[1] /\ exception'[1] = exception[1]
          /\ j # N => value'[j + 1] # End
      BY <1>2, <2>4, <2>5, <2>8, <3>0
    <3>3. CASE value[p] # End
      BY <1>2, <1>3, <1>5, <1>6, <2>5, <2>8, <3>1, <3>2, <3>3 DEF Passes, Good
    <3>4. CASE value[p] = End
      <4>1. LastRead(k) = yielded /\ value[1] = End /\ exception[p] = exception[1]
        BY <1>1, <1>3, <2>1, <2>5, <3>4 DEF Passes
      <4> QED
        BY <1>2, <1>5, <2>8, <3>1, <3>2, <3>4, <4>1 DEF Passes, Good
    <3> QED
      BY <3>3, <3>4
  <2>9. CASE j # p /\ j # k
    <3>1. Fresh(j)' = Fresh(j) /\ AtEnd(j)' = AtEnd(j)
      BY <1>1, <1>2, <2>2, <2>9 DEF Fresh, Offers, Wants, AtEnd, Asks
    <3>0. j # N => j + 1 \in Generators /\ j + 1 # k
      <4>1. j \in Nat /\ N \in Nat /\ j <= N /\ p \in Nat /\ k \in Nat
        BY <1>1
      <4>2. j + 1 # k
        BY <1>1, <2>9, <4>1
      <4> QED
        BY <4>1, <4>2 DEF Generators
    <3>2. LastRead(j)' = LastRead(j) /\ (Gone(Sink)' <=> Gone(Sink))
      BY <1>2, <2>4, <2>6, <3>0 DEF LastRead, Gone
    <3>3. /\ value'[j] = value[j] /\ exception'[j] = exception[j] /\ yielded' = yielded
          /\ value'[1] = value[1] /\ exception'[1] = exception[1]
          /\ j # N => value'[j + 1] = value[j + 1]
      BY <1>2, <2>4, <2>9, <3>0
    <3> QED
      BY <1>2, <1>3, <1>5, <3>1, <3>2, <3>3 DEF Passes, Good
  <2> QED
    BY <2>7, <2>8, <2>9
<1> QED
  BY <1>7, <1>8

LEMMA GoodUse ==
  ASSUME GeneratorAssumption, ChainInv, NEW t \in Threads, Use(t), NEW j \in Generators
  PROVE  Good(j)' /\ value[N] # End /\ value[N] = Len(obtained) + 1
<1> USE ChainSizes, OfOne
<1>1. /\ at[Sink] = "use" /\ symmetric' = symmetric /\ state' = state /\ seen' = seen
      /\ value' = value /\ exception' = exception /\ yielded' = yielded
      /\ obtained' = Append(obtained, value[N])
      /\ \E l \in {"advance", "operation", "drop"} : at' = [at EXCEPT ![Sink] = l]
  BY DEF Use, Top, Goto, Suspend, generatorVars
<1>2. PICK l \in {"advance", "operation", "drop"} : at' = [at EXCEPT ![Sink] = l]
  BY <1>1
<1>3. Passes(N) /\ Passes(j) /\ (~symmetric => EndsAgree(N) /\ EndsAgree(j))
  OBVIOUS
<1>4. at[N] # "yield" /\ ~Offers(N) /\ at[N] # "destroyed"
      /\ (~symmetric => state[N] \in {"VRPA", "VRPS"} /\ at[N] # "created")
  <2>1. CASE symmetric
    <3>0. Baton(Sink)
      BY <1>1, <2>1, HoldsBaton
    <3>1. N \in Coros /\ N < Sink /\ ~Gone(Sink) /\ Baton(Sink)
      BY <1>1, <3>0 DEF Gone
    <3>2. at[N] \in {"created", "suspended"}
      BY <3>1 DEF Baton
    <3> QED
      BY <2>1, <3>2 DEF Offers
  <2>2. CASE ~symmetric
    <3>1. at[N + 1] = "use" /\ state[N] \in ChainStates
      BY <1>1
    <3> QED
      BY <1>3, <2>2, <3>1 DEF EndsAgree, Makes, Offers, Offered, Rests, Wants, Gone, ChainStates
  <2> QED
    BY <2>1, <2>2
<1>5. ~Fresh(N) /\ ~Gone(Sink)
  BY <1>1, <1>4 DEF Fresh, Wants, Gone
<1>6. value[N] # End /\ value[N] = LastRead(N) /\ LastRead(N) = Len(obtained) + 1
  BY <1>1, <1>3, <1>5 DEF Passes, LastRead
<1>7. Len(obtained') = Len(obtained) + 1
  <2>1. obtained \in Seq(Nat)
    BY DEF ChainInv, ChainTyped
  <2>2. value[N] \in Nat
    BY <1>6
  <2> QED
    BY <1>1, <2>1, <2>2
<1>8. ~symmetric => EndsAgree(j)'
  <2> SUFFICES ASSUME ~symmetric PROVE EndsAgree(j)'
    BY <1>1
  <2>1. CASE j = N
    <3>1. Reads(j + 1) /\ Reads(j + 1)'
      BY <1>1, <1>2, <2>1 DEF Reads, Gone
    <3> QED
      BY <1>1, <1>2, <1>3, <1>4, <1>5, <2>1, <3>1, ReaderMoves
  <2>2. CASE j # N
    BY <1>1, <1>2, <1>3, <2>2, SameEndsAgree DEF SameEnds
  <2> QED
    BY <2>1, <2>2
<1>9. Passes(j)'
  <2>1. CASE j = N
    <3>1. ~Fresh(j)' /\ LastRead(j)' = Len(obtained) + 1
      BY <1>1, <1>2, <1>4, <1>7, <2>1 DEF Fresh, Offers, Wants, LastRead
    <3> QED
      BY <1>1, <1>3, <1>5, <1>6, <2>1, <3>1 DEF Passes
  <2>2. CASE j # N
    <3>1. at'[j] = at[j] /\ at'[j + 1] = at[j + 1]
      BY <1>2, <2>2
    <3>2. Fresh(j)' = Fresh(j) /\ AtEnd(j)' = AtEnd(j)
      BY <1>1, <3>1 DEF Fresh, Offers, Wants, AtEnd, Asks
    <3>3. LastRead(j)' = LastRead(j)
      BY <1>1, <2>2 DEF LastRead
    <3> QED
      BY <1>1, <1>3, <2>2, <3>2, <3>3 DEF Passes
  <2> QED
    BY <2>1, <2>2
<1> QED
  BY <1>1, <1>6, <1>8, <1>9 DEF Good

LEMMA GoodOperation ==
  ASSUME GeneratorAssumption, ChainInv, NEW k \in {1, Sink}, Operation(k), NEW j \in Generators
  PROVE  Good(j)'
<1> USE ChainSizes, OfOne
<1>1. /\ at[k] = "operation" /\ SameLog /\ symmetric' = symmetric /\ state' = state /\ seen' = seen
      /\ at' = [at EXCEPT ![k] = IF k = 1 THEN "produce" ELSE "advance"]
  BY DEF Operation, ResumeOn, generatorVars, logVars, SameLog
<1>2. Passes(j) /\ (~symmetric => EndsAgree(j))
  OBVIOUS
<1>3. CASE j # k /\ j + 1 # k
  BY <1>1, <1>2, <1>3, SameGood DEF SameEnds, Good
<1>4. CASE j = k
  <2>1. k = 1 /\ at' = [at EXCEPT ![j] = "produce"] /\ at[j] = "operation"
    BY <1>1, <1>4
  <2>2. Makes(j) /\ Makes(j)' /\ ~(value[j] = End)
    BY <1>2, <2>1 DEF Makes, Passes, AtEnd
  <2>3. Fresh(j)' = Fresh(j)
    BY <1>1, <2>1 DEF Fresh, Offers, Wants
  <2>4. ~symmetric => EndsAgree(j)'
    BY <1>1, <1>2, <2>1, <2>2, MakerMoves
  <2>5. at'[Sink] = at[Sink]
    BY <1>4, <2>1
  <2> QED
    BY <1>1, <1>2, <2>2, <2>3, <2>4, <2>5, PassesOn DEF Good, Gone
<1>5. CASE j + 1 = k
  <2>0. k = Sink /\ j = N
    <3>1. j \in Nat /\ j >= 1
      OBVIOUS
    <3> QED
      BY <1>5, <3>1
  <2>1. k = Sink /\ j = N /\ at' = [at EXCEPT ![Sink] = "advance"] /\ at[Sink] = "operation"
    BY <1>1, <2>0
  <2>2. Reads(j + 1) /\ Reads(j + 1)'
    BY <1>5, <2>1 DEF Reads
  <2>3. Fresh(j)' = Fresh(j) /\ AtEnd(j)' = AtEnd(j)
    BY <1>1, <2>1 DEF Fresh, Offers, Wants, AtEnd, Asks
  <2>4. ~symmetric => EndsAgree(j)'
    <3> SUFFICES ASSUME ~symmetric PROVE EndsAgree(j)'
      BY <1>1
    <3>1. state[j] # "VNRCS" /\ ~Gone(j + 1) /\ at[j + 1] # "advance"
      BY <1>2, <2>1 DEF EndsAgree, Gone
    <3> QED
      BY <1>1, <1>2, <2>1, <2>2, <3>1, ReaderMoves
  <2>5. at'[Sink] = "advance" /\ ~Gone(Sink)
    BY <2>1 DEF Gone
  <2> QED
    BY <1>1, <1>2, <2>1, <2>3, <2>4, <2>5, PassesOn DEF Good, Passes
<1> QED
  BY <1>3, <1>4, <1>5

LEMMA GoodBeginChain ==
  ASSUME GeneratorAssumption, ChainInv, BeginChain, NEW j \in Generators
  PROVE  Good(j)'
<1> USE ChainSizes, OfOne
<1>1. /\ at[Sink] = "created" /\ SameLog /\ symmetric' = symmetric /\ state' = state /\ seen' = seen
      /\ \E l \in {"advance", "drop"} : at' = [at EXCEPT ![Sink] = l]
  BY DEF BeginChain, ResumeOn, generatorVars, logVars, SameLog
<1>2. PICK l \in {"advance", "drop"} : at' = [at EXCEPT ![Sink] = l]
  BY <1>1
<1>3. Passes(j) /\ (~symmetric => EndsAgree(j))
  OBVIOUS
<1>4. CASE j # N
  BY <1>1, <1>2, <1>3, <1>4, SameGood DEF SameEnds, Good
<1>5. CASE j = N
  <2>1. at'[j] = at[j] /\ at'[j + 1] = l /\ at[j + 1] = "created"
    BY <1>1, <1>2, <1>5
  <2>2. Fresh(j)' = Fresh(j) /\ AtEnd(j)' = AtEnd(j)
    BY <1>1, <2>1 DEF Fresh, Offers, Wants, AtEnd, Asks
  <2>3. ~symmetric => EndsAgree(j)'
    <3> SUFFICES ASSUME ~symmetric PROVE EndsAgree(j)'
      BY <1>1
    <3>1. state[j] = "VRPS" /\ at[j] = "created"
      BY <1>1, <1>3, <2>1 DEF EndsAgree, Reads, Wants, Gone, ChainStates
    <3> QED
      BY <1>1, <2>1, <3>1 DEF EndsAgree, Gone
  <2>4. at[Sink] # "use" /\ at'[Sink] # "use" /\ ~Gone(Sink)
    BY <1>1, <1>2 DEF Gone
  <2> QED
    BY <1>1, <1>3, <1>5, <2>2, <2>3, <2>4, PassesOn DEF Good, Passes
<1> QED
  BY <1>4, <1>5

LEMMA GoodDestroySelf ==
  ASSUME GeneratorAssumption, ChainInv, NEW t \in Threads, NEW k \in Generators, DestroySelf(t, k),
         NEW j \in Generators
  PROVE  Good(j)'
<1> USE ChainSizes, OfOne
<1>1. /\ at[k] = "destroy" /\ SameLog /\ symmetric' = symmetric /\ state' = state /\ seen' = seen
      /\ \E l \in {"destroyed", "drop"} : at' = [at EXCEPT ![k] = l]
  BY DEF DestroySelf, Top, Goto, Suspend, generatorVars, logVars, SameLog
<1>2. PICK l \in {"destroyed", "drop"} : at' = [at EXCEPT ![k] = l]
  BY <1>1
<1>3. Passes(j) /\ Passes(k) /\ ~symmetric /\ EndsAgree(j) /\ EndsAgree(k)
  BY <1>1 DEF ChainInv, OneGoesOn
<1>4. state[k] = "cancelled"
  BY <1>1, <1>3 DEF EndsAgree, Makes, Offers, Offered, Rests, Reads, Wants, Gone, ChainStates
<1>5. CASE j # k /\ j + 1 # k
  BY <1>1, <1>2, <1>3, <1>5, SameGood DEF SameEnds, Good
<1>6. CASE j = k
  <2>1. at[j] = "destroy" /\ at'[j] = l /\ at'[j + 1] = at[j + 1] /\ at'[Sink] = at[Sink]
    BY <1>1, <1>2, <1>6
  <2>2. Fresh(j)' = Fresh(j) /\ AtEnd(j)'
    BY <1>1, <2>1 DEF Fresh, Offers, Wants, AtEnd, Asks
  <2>3. EndsAgree(j)'
    BY <1>1, <1>3, <1>4, <1>6, <2>1 DEF EndsAgree, Gone
  <2> QED
    BY <1>1, <1>3, <2>1, <2>2, <2>3, PassesOn DEF Good, Gone
<1>7. CASE j + 1 = k
  <2>1. at[j + 1] = "destroy" /\ at'[j + 1] = l /\ at'[j] = at[j] /\ at'[Sink] = at[Sink] /\ j # N
    BY <1>1, <1>2, <1>7
  <2>2. Fresh(j)' = Fresh(j) /\ AtEnd(j)' = AtEnd(j)
    BY <1>1, <2>1 DEF Fresh, Offers, Wants, AtEnd, Asks
  <2>3. EndsAgree(j)'
    <3>1. Reads(j + 1) /\ Reads(j + 1)' /\ Gone(j + 1)' /\ state[j] # "VNRCS"
      BY <1>3, <2>1 DEF Reads, Gone, EndsAgree
    <3> QED
      BY <1>1, <1>3, <2>1, <3>1, ReaderMoves
  <2> QED
    BY <1>1, <1>3, <2>1, <2>2, <2>3, PassesOn DEF Good, Passes
<1> QED
  BY <1>5, <1>6, <1>7

\* What a destructor does, and what it finds.
LEMMA DropDoes ==
  ASSUME GeneratorAssumption, ChainInv, NEW t \in Threads, NEW k \in Coros \ {1}, Drop(t, k),
         NEW g, g = target[k]
  PROVE  /\ at[k] = "drop" /\ Gone(k) /\ SameLog /\ symmetric' = symmetric /\ seen' = seen
         /\ g \in Generators /\ g < k /\ (g + 1 = k \/ at[g + 1] = "destroyed") /\ Gone(g + 1)
         /\ target' = [target EXCEPT ![k] = g - 1]
         /\ state' = [state EXCEPT ![g] = "cancelled"]
         /\ at'[k] \in (IF k = Sink THEN {"drop", "done"} ELSE {"drop", "destroyed"}) /\ Gone(k)'
         /\ at'[g] = IF symmetric \/ state[g] = "VRPS" THEN "destroyed" ELSE at[g]
         /\ \A i \in Coros \ {g, k} : at'[i] = at[i]
         /\ symmetric \/ state[g] = "VRPS" => at[g] \in {"created", "suspended", "destroyed"} /\ ~Asks(g)
         /\ symmetric => k = Sink /\ \A j \in Generators : at[j] \in {"created", "suspended", "destroyed"}
<1> USE ChainSizes, OfOne
<1>1. /\ at[k] = "drop" /\ SameLog /\ symmetric' = symmetric /\ seen' = seen
      /\ target' = [target EXCEPT ![k] = g - 1] /\ state' = [state EXCEPT ![g] = "cancelled"]
      /\ IF (symmetric \/ state[g] = "VRPS") /\ g > 1
         THEN at' = [at EXCEPT ![g] = "destroyed"]
         ELSE at' = [i \in Coros |->
                       IF i = k THEN IF k = Sink THEN "done" ELSE "destroyed"
                       ELSE IF i = g /\ (symmetric \/ state[g] = "VRPS") THEN "destroyed" ELSE at[i]]
  BY DEF Drop, Top, logVars, SameLog
<1>2. g \in Generators /\ g < k /\ (g + 1 = k \/ at[g + 1] = "destroyed")
  BY <1>1 DEF ChainInv, Dropping
<1>3. g # k /\ g \in Coros
  BY <1>2
<1>4. /\ at'[k] \in (IF k = Sink THEN {"drop", "done"} ELSE {"drop", "destroyed"})
      /\ at'[g] = (IF symmetric \/ state[g] = "VRPS" THEN "destroyed" ELSE at[g])
      /\ \A i \in Coros \ {g, k} : at'[i] = at[i]
  BY <1>1, <1>3
<1>5. Gone(k) /\ Gone(k)' /\ Gone(g + 1)
  BY <1>1, <1>2, <1>4 DEF Gone
<1>6. ASSUME symmetric
      PROVE  k = Sink /\ \A j \in Generators : at[j] \in {"created", "suspended", "destroyed"}
  <2>1. Baton(k)
    BY <1>1, <1>6, HoldsBaton
  <2>2. k = Sink
    BY <1>1, <2>1 DEF Baton
  <2>3. \A j \in Generators : j \in Coros /\ j < k
    BY <2>2
  <2> QED
    BY <2>1, <2>2, <2>3 DEF Baton
<1>7. ASSUME symmetric \/ state[g] = "VRPS"
      PROVE  at[g] \in {"created", "suspended", "destroyed"} /\ ~Asks(g)
  <2>1. CASE symmetric
    <3>1. ~Asks(g)
      BY <1>2, <2>1 DEF Asks
    <3> QED
      BY <1>2, <1>6, <2>1, <3>1
  <2>2. CASE ~symmetric
    <3>1. EndsAgree(g) /\ state[g] = "VRPS"
      BY <1>2, <1>7, <2>2
    <3>2. CASE Rests(g)
      BY <3>2 DEF Rests
    <3>3. CASE ~Rests(g)
      <4>1. at[g] = "created"
        BY <3>1, <3>3 DEF EndsAgree
      <4>2. ASSUME Asks(g) PROVE FALSE
        <5>1. g # 1 /\ g - 1 \in Generators /\ state[g - 1] = "VNRCS" /\ (g - 1) + 1 = g
          BY <1>3, <4>2 DEF Asks
        <5>2. EndsAgree(g - 1)
          BY <2>2, <5>1
        <5> QED
          BY <4>1, <5>1, <5>2 DEF EndsAgree
      <4> QED
        BY <4>1, <4>2
    <3> QED
      BY <3>2, <3>3
  <2> QED
    BY <2>1, <2>2
<1> QED
  BY <1>1, <1>2, <1>4, <1>5, <1>6, <1>7

LEMMA GoodDrop ==
  ASSUME GeneratorAssumption, ChainInv, NEW t \in Threads, NEW k \in Coros \ {1}, Drop(t, k),
         NEW j \in Generators
  PROVE  Good(j)'
<1> DEFINE g == target[k]
<1>1. /\ at[k] = "drop" /\ Gone(k) /\ SameLog /\ symmetric' = symmetric /\ seen' = seen
      /\ g \in Generators /\ g < k /\ (g + 1 = k \/ at[g + 1] = "destroyed") /\ Gone(g + 1)
      /\ target' = [target EXCEPT ![k] = g - 1]
      /\ state' = [state EXCEPT ![g] = "cancelled"]
      /\ at'[k] \in (IF k = Sink THEN {"drop", "done"} ELSE {"drop", "destroyed"}) /\ Gone(k)'
      /\ at'[g] = (IF symmetric \/ state[g] = "VRPS" THEN "destroyed" ELSE at[g])
      /\ \A i \in Coros \ {g, k} : at'[i] = at[i]
      /\ symmetric \/ state[g] = "VRPS" => at[g] \in {"created", "suspended", "destroyed"} /\ ~Asks(g)
      /\ symmetric => k = Sink /\ \A i \in Generators : at[i] \in {"created", "suspended", "destroyed"}
  BY DropDoes
<1> HIDE DEF g
<1> USE ChainSizes, OfOne
<1>2. Passes(j) /\ (~symmetric => EndsAgree(j) /\ EndsAgree(g))
  BY <1>1
<1>3. g # k /\ g # Sink /\ g \in Coros /\ g \in Nat /\ k \in Nat /\ j \in Nat
  BY <1>1
<1>4. state'[g] = "cancelled" /\ \A i \in Generators \ {g} : state'[i] = state[i]
  BY <1>1
<1>5. ~symmetric => EndsAgree(j)'
  <2> SUFFICES ASSUME ~symmetric PROVE EndsAgree(j)'
    BY <1>1
  <2>1. CASE j = g
    <3>1. Gone(j + 1)'
      BY <1>1, <1>3, <2>1 DEF Gone
    <3>2. at'[j] \in {"yielded", "destroy", "drop", "destroyed"}
          \/ (at'[j] = "suspend" /\ seen'[j] \in {"VRPA", "cancelled"})
      BY <1>1, <1>2, <1>3, <2>1 DEF EndsAgree, Offered, Wants, Gone, ChainStates
    <3> QED
      BY <1>4, <2>1, <3>1, <3>2 DEF EndsAgree, Gone
  <2>2. CASE j = k
    <3>1. at[j] = "drop" /\ at'[j] \in {"drop", "destroyed"} /\ state'[j] = state[j] /\ j # Sink
      BY <1>1, <1>3, <1>4, <2>2
    <3>2. at'[j + 1] = at[j + 1]
      BY <1>1, <1>3, <2>2
    <3>3. state[j] = "cancelled" /\ Gone(j + 1)
      BY <1>2, <3>1 DEF EndsAgree, Makes, Offers, Offered, Rests, ChainStates
    <3> QED
      BY <3>1, <3>2, <3>3 DEF EndsAgree, Gone
  <2>3. CASE j + 1 = g
    <3>1. at'[j] = at[j] /\ state'[j] = state[j] /\ j # g
      BY <1>1, <1>3, <1>4, <2>3
    <3>2. j # 1 => state'[j - 1] = state[j - 1]
      BY <1>3, <1>4, <2>3
    <3>3. CASE state[g] # "VRPS"
      BY <1>1, <1>2, <2>3, <3>1, <3>2, <3>3, SameEndsAgree DEF SameEnds
    <3>4. CASE state[g] = "VRPS"
      <4>1. at'[j + 1] = "destroyed" /\ Gone(j + 1)' /\ Reads(j + 1)'
            /\ at[j + 1] \in {"created", "suspended", "destroyed"}
        BY <1>1, <2>3, <3>4 DEF Gone, Reads
      <4>2. state[j] # "VNRCS"
        <5>1. ~Asks(j + 1)
          BY <1>1, <2>3, <3>4
        <5> QED
          BY <5>1 DEF Asks
      <4>3. CASE at[j + 1] = "created"
        <5>1. state[j] = "VRPS" /\ at[j] = "created"
          BY <1>2, <4>3 DEF EndsAgree, Reads, Wants, Gone, ChainStates
        <5> QED
          BY <3>1, <4>1, <5>1 DEF EndsAgree
      <4>4. CASE at[j + 1] # "created"
        <5>1. Reads(j + 1)
          BY <4>1, <4>4 DEF Reads, Gone
        <5> QED
          BY <1>1, <1>2, <3>1, <3>2, <4>1, <4>2, <5>1, ReaderMoves
      <4> QED
        BY <4>3, <4>4
    <3> QED
      BY <3>3, <3>4
  <2>4. CASE j # g /\ j # k /\ j + 1 # g
    <3>1. at'[j] = at[j] /\ state'[j] = state[j]
      BY <1>1, <1>4, <2>4
    <3>2. (j + 1 = k /\ Gone(j + 1)) \/ (j + 1 # k /\ at'[j + 1] = at[j + 1])
      BY <1>1, <2>4
    <3>3. CASE j = g + 1
      <4>1. at[j] = "destroyed"
        BY <1>1, <2>4, <3>3
      <4>2. state[j] = "cancelled" /\ Gone(j + 1)
        BY <1>2, <4>1 DEF EndsAgree, Makes, Offers, Offered, Rests, ChainStates
      <4>3. Gone(j + 1)'
        BY <1>1, <3>2, <4>2 DEF Gone
      <4> QED
        BY <3>1, <4>1, <4>2, <4>3 DEF EndsAgree
    <3>4. CASE j # g + 1
      <4>1. j # 1 => state'[j - 1] = state[j - 1]
        <5>1. j # 1 => j - 1 \in Generators \ {g}
          BY <1>3, <3>4
        <5> QED
          BY <1>4, <5>1
      <4>2. CASE j + 1 # k
        BY <1>1, <1>2, <3>1, <3>2, <4>1, <4>2, SameEndsAgree DEF SameEnds
      <4>3. CASE j + 1 = k
        <5>1. Reads(j + 1) /\ Reads(j + 1)' /\ Gone(j + 1)' /\ state[j] # "VNRCS"
          BY <1>1, <1>2, <4>3 DEF Reads, Gone, EndsAgree
        <5> QED
          BY <1>1, <1>2, <3>1, <4>1, <5>1, ReaderMoves
      <4> QED
        BY <4>2, <4>3
    <3> QED
      BY <3>3, <3>4
  <2> QED
    BY <2>1, <2>2, <2>3, <2>4
<1>6. Fresh(j)' = Fresh(j)
  <2>1. (at[j] = "yield" \/ Offers(j))' = (at[j] = "yield" \/ Offers(j))
    BY <1>1, <1>3 DEF Offers
  <2>2. at[j + 1] = "got" <=> at'[j + 1] = "got"
    BY <1>1, <1>3
  <2>3. Wants(j + 1)' = Wants(j + 1)
    BY <1>1, <1>3 DEF Wants
  <2>4. j = g => ~Wants(j + 1)
    BY <1>1 DEF Wants, Gone
  <2> QED
    BY <1>4, <2>1, <2>2, <2>3, <2>4 DEF Fresh
<1>7. value[j] = End => AtEnd(j)'
  <2> SUFFICES ASSUME value[j] = End PROVE AtEnd(j)'
    OBVIOUS
  <2>1. AtEnd(j)
    BY <1>2 DEF Passes
  <2>2. at'[j] = at[j] \/ at'[j] \in {"drop", "destroyed"}
    BY <1>1, <1>3
  <2>3. Asks(j)' => Asks(j)
    <3>1. j # 1 => j - 1 \in Generators
      OBVIOUS
    <3> QED
      BY <1>4, <3>1 DEF Asks
  <2> QED
    BY <2>1, <2>2, <2>3 DEF AtEnd
<1>8. (at[Sink] = "use" <=> at'[Sink] = "use") /\ (Gone(Sink) => Gone(Sink)')
  BY <1>1, <1>3 DEF Gone
<1> QED
  BY <1>1, <1>2, <1>5, <1>6, <1>7, <1>8, PassesOn DEF Good

-----------------------------------------------------------------------------
(* What the steps keep of the rest of the invariant.                       *)

\* Where each coroutine may stand.
Role(k) == IF k = 1 THEN SourceAt ELSE IF k = Sink THEN SinkAt ELSE MiddleAt
Placed == \A k \in Coros : at[k] \in Role(k)
DataTyped ==
    /\ symmetric \in BOOLEAN
    /\ state \in [Generators -> ChainStates]
    /\ value \in [Generators -> Nat \cup {End}]
    /\ exception \in [Generators -> BOOLEAN]
    /\ seen \in [Coros -> ChainStates]
    /\ target \in [Coros -> Nat]
    /\ yielded \in Nat /\ obtained \in Seq(Nat) /\ ending \in {"none", "break", "end", "exception"}

\* The invariant, from its parts and from what holds of each generator.
LEMMA ChainInvFrom ==
  ASSUME OnStacks(ChainPlaces)', Placed', DataTyped', Dropping', OneGoesOn',
         (value[1] # End => value[1] = yielded)',
         (\A i \in 1..Len(obtained) : obtained[i] = i)',
         (ending \in {"end", "exception"} => /\ value[N] = End /\ Gone(Sink)
                                             /\ ending = "exception" <=> exception[1])',
         \A j \in Generators : Good(j)'
  PROVE  ChainInv'
<1>1. ChainTyped'
  BY DEF ChainTyped, Placed, Role, DataTyped
<1>2. EndsSettled' /\ \A j \in Generators : Passes(j)'
  BY DEF EndsSettled, Good
<1>3. ValuesInOrder'
  BY <1>2 DEF ValuesInOrder
<1> QED
  BY <1>1, <1>2, <1>3 DEF ChainInv

LEMMA ChainParts ==
  ASSUME ChainInv
  PROVE  /\ OnStacks(ChainPlaces) /\ Placed /\ DataTyped /\ Dropping /\ OneGoesOn
         /\ value[1] # End => value[1] = yielded
         /\ \A i \in 1..Len(obtained) : obtained[i] = i
         /\ ending \in {"end", "exception"} => /\ value[N] = End /\ Gone(Sink)
                                               /\ ending = "exception" <=> exception[1]
BY DEF ChainInv, ChainTyped, Placed, Role, DataTyped, ValuesInOrder

LEMMA Roles ==
  ASSUME GeneratorAssumption
  PROVE  /\ \A k \in Generators :
              /\ "yield" \in Role(k) /\ "suspended" \in Role(k) /\ "yielded" \in Role(k)
              /\ "suspend" \in Role(k) /\ "destroy" \in Role(k) /\ "destroyed" \in Role(k)
              /\ (IF k = 1 THEN "produce" ELSE "advance") \in Role(k) /\ (k # 1 => "drop" \in Role(k))
         /\ \A k \in Coros \ {1} :
              /\ "advance" \in Role(k) /\ "advanced" \in Role(k) /\ "await" \in Role(k)
              /\ "suspended" \in Role(k) /\ "got" \in Role(k) /\ "drop" \in Role(k)
         /\ "use" \in Role(Sink) /\ "operation" \in Role(Sink) /\ "done" \in Role(Sink)
         /\ "produce" \in Role(1) /\ "operation" \in Role(1)
BY ChainSizes DEF Role, SourceAt, SinkAt, MiddleAt

LEMMA NextRole ==
  ASSUME GeneratorAssumption, NEW k \in Generators
  PROVE  k + 1 \in Coros \ {1} /\ k # k + 1
BY ChainSizes

LEMMA OneStands ==
  ASSUME Placed, at \in [Coros -> ChainPlaces], NEW c \in Coros, NEW l \in Role(c), at' = [at EXCEPT ![c] = l]
  PROVE  Placed' /\ at'[c] = l /\ \A j \in Coros \ {c} : at'[j] = at[j]
<1>1. at'[c] = l /\ \A j \in Coros \ {c} : at'[j] = at[j]
  OBVIOUS
<1>2. \A j \in Coros : at'[j] \in Role(j)
  BY <1>1 DEF Placed
<1>3. Placed' <=> \A j \in Coros : at'[j] \in Role(j)
  BY DEF Placed, Role
<1> QED
  BY <1>1, <1>2, <1>3

LEMMA TwoStand ==
  ASSUME Placed, at \in [Coros -> ChainPlaces], NEW c \in Coros, NEW l \in Role(c),
         NEW d \in Coros, NEW m \in Role(d), c # d, at' = [at EXCEPT ![c] = l, ![d] = m]
  PROVE  Placed' /\ at'[c] = l /\ at'[d] = m /\ \A j \in Coros \ {c, d} : at'[j] = at[j]
<1>1. at'[c] = l /\ at'[d] = m /\ \A j \in Coros \ {c, d} : at'[j] = at[j]
  OBVIOUS
<1>2. \A j \in Coros : at'[j] \in Role(j)
  BY <1>1 DEF Placed
<1>3. Placed' <=> \A j \in Coros : at'[j] \in Role(j)
  BY DEF Placed, Role
<1> QED
  BY <1>1, <1>2, <1>3

LEMMA SourceStands ==
  ASSUME GeneratorAssumption, ChainInv, NEW k \in Coros, NEW p \in Generators, p + 1 = k,
         NEW l \in Role(k), NEW m \in Role(p), at' = [at EXCEPT ![k] = l, ![p] = m]
  PROVE  Placed' /\ at'[k] = l /\ at'[p] = m /\ \A j \in Coros \ {k, p} : at'[j] = at[j]
<1>1. p \in Coros /\ k # p
  BY NextRole, ChainSizes
<1>2. Placed /\ at \in [Coros -> ChainPlaces]
  BY ChainParts, OfOne
<1> QED
  BY <1>1, <1>2, TwoStand

\* Steps that destroy nothing and leave what the consumer received.
LEMMA SameTargets ==
  ASSUME Dropping, target' = target,
         \A j \in Coros : at'[j] = "drop" => at[j] = "drop",
         \A j \in Coros : at[j] = "destroyed" => at'[j] = "destroyed",
         GeneratorAssumption,
         at[Sink] \in {"created", "drop", "done"} => at'[Sink] = at[Sink]
  PROVE  Dropping'
<1>1. Sink \in Coros /\ \A g \in Generators : g + 1 \in Coros
  BY ChainSizes
<1> QED
  BY <1>1 DEF Dropping

LEMMA QuietInv ==
  ASSUME GeneratorAssumption, ChainInv, SameLog, ending' = ending, target' = target, symmetric' = symmetric,
         OnStacks(ChainPlaces)', Placed', OneGoesOn',
         state' \in [Generators -> ChainStates], seen' \in [Coros -> ChainStates],
         \A j \in Coros : at'[j] = "drop" => at[j] = "drop",
         \A j \in Coros : at[j] = "destroyed" => at'[j] = "destroyed",
         at[Sink] \in {"created", "drop", "done"} => at'[Sink] = at[Sink],
         \A j \in Generators : Good(j)'
  PROVE  ChainInv'
<1>1. Dropping'
  BY ChainParts, SameTargets
<1>2. DataTyped'
  BY ChainParts DEF DataTyped, SameLog
<1>3. Gone(Sink) => Gone(Sink)'
  BY ChainSizes DEF Gone
<1> QED
  BY <1>1, <1>2, <1>3, ChainParts, ChainInvFrom DEF SameLog

\* The one that goes on with symmetric transfer stays the one.
LEMMA StaysTheOne ==
  ASSUME GeneratorAssumption, ChainInv, symmetric, symmetric' = symmetric, state' = state,
         NEW b \in Coros, Baton(b),
         NEW l \in {"produce", "operation", "yield", "advance", "got", "use", "drop"},
         at' = [at EXCEPT ![b] = l],
         at[b] = "created" => l \in {"advance", "drop"}, at[b] # "advance", l = "drop" => b = Sink,
         Gone(b) => l = "drop",
         \A j \in Generators : j # b => value'[j] = value[j]
  PROVE  OneGoesOn'
<1> USE ChainSizes
<1>1. OneGoesOn /\ at \in [Coros -> ChainPlaces]
  BY ChainParts, OfOne
<1>2. at'[b] = l /\ \A j \in Coros \ {b} : at'[j] = at[j]
  BY <1>1
<1>3. \A j \in Coros : Gone(j) => Gone(j)'
  BY <1>2 DEF Gone
<1>4. Baton(b)'
  <2>1. ASSUME NEW j \in Coros, j < b
        PROVE  at'[j] \in {"created", "suspended"} \/ (at'[j] = "destroyed" /\ Gone(Sink)')
    <3>1. at'[j] = at[j]
      BY <1>2, <2>1
    <3> QED
      BY <1>3, <2>1, <3>1 DEF Baton
  <2>2. ASSUME NEW j \in Coros, b < j
        PROVE  at'[j] = "suspended" /\ (j # Sink => value'[j] # End)
    <3>1. at'[j] = at[j] /\ (j # Sink => j \in Generators /\ value'[j] = value[j])
      BY <1>2, <2>2
    <3> QED
      BY <2>2, <3>1 DEF Baton
  <2> QED
    BY <1>2, <2>1, <2>2 DEF Baton
<1>5. ASSUME NEW k \in Generators
      PROVE  /\ at'[k] = "created" => at'[k + 1] \in {"created", "advance"} \/ Gone(k + 1)'
             /\ at'[k] = "destroyed" \/ state'[k] = "cancelled" => Gone(k + 1)'
  <2>1. k \in Coros /\ k + 1 \in Coros
    OBVIOUS
  <2>2. (at'[k] = "created" => at[k] = "created") /\ (at'[k] = "destroyed" => at[k] = "destroyed")
    BY <1>2, <2>1
  <2>3. at[k + 1] \in {"created", "advance"} => at'[k + 1] \in {"created", "advance"} \/ Gone(k + 1)'
    BY <1>2, <2>1 DEF Gone
  <2> QED
    BY <1>1, <1>3, <2>1, <2>2, <2>3 DEF OneGoesOn
<1>6. \A j \in Coros : at'[j] \notin {"advanced", "await", "yielded", "suspend", "destroy"}
  BY <1>1, <1>2 DEF OneGoesOn
<1> QED
  BY <1>1, <1>4, <1>5, <1>6 DEF OneGoesOn

-----------------------------------------------------------------------------
(* One lemma for each step.                                                *)

LEMMA ProduceKeeps ==
  ASSUME GeneratorAssumption, ChainInv, NEW t \in Threads, Produce(t)
  PROVE  ChainInv'
<1> USE ChainSizes, OfOne
<1>1. PICK l \in {"operation", "yield"} :
         /\ at' = [at EXCEPT ![1] = l]
         /\ l = "operation" => Suspend(t, 1, "operation") /\ SameLog
         /\ l = "yield" => /\ Goto(1, "yield")
                           /\ \/ /\ yielded' = yielded + 1 /\ exception' = exception
                                 /\ value' = [value EXCEPT ![1] = yielded + 1]
                              \/ /\ yielded' = yielded /\ value' = [value EXCEPT ![1] = End]
                                 /\ \E e \in BOOLEAN : exception' = [exception EXCEPT ![1] = e]
  BY DEF Produce, Goto, Suspend, Kept, SameLog
<1>2. /\ Top(t, 1, "produce") /\ at[1] = "produce" /\ symmetric' = symmetric /\ state' = state /\ seen' = seen
      /\ target' = target /\ obtained' = obtained /\ ending' = ending
  BY DEF Produce, Top
<1>3. OnStacks(ChainPlaces)'
  <2>1. l \in ChainPlaces
    BY DEF ChainPlaces, SourceAt
  <2>2. CASE l = "operation"
    BY <1>1, <1>2, <2>1, <2>2, ChainParts, OnSuspend DEF Suspensions
  <2>3. CASE l = "yield"
    BY <1>1, <1>2, <2>1, <2>3, ChainParts, OnGoto DEF Suspensions
  <2> QED
    BY <2>2, <2>3
<1>4. Placed' /\ \A j \in Coros : at'[j] = IF j = 1 THEN l ELSE at[j]
  <2>1. l \in Role(1)
    BY Roles
  <2> QED
    BY <1>1, <2>1, ChainParts, OneStands, ZenonT(60)
<1>5. DataTyped'
  <2>1. yielded \in Nat /\ yielded + 1 \in Nat /\ DataTyped
    BY ChainParts, SMTT(30) DEF DataTyped
  <2>2. CASE l = "operation"
    BY <1>1, <1>2, <2>1, <2>2 DEF DataTyped, SameLog
  <2>3. CASE l = "yield"
    <3>1. value' \in [Generators -> Nat \cup {End}] /\ exception' \in [Generators -> BOOLEAN]
          /\ yielded' \in Nat
      BY <1>1, <2>1, <2>3
    <3> QED
      BY <1>2, <2>1, <3>1 DEF DataTyped
  <2> QED
    BY <2>2, <2>3
<1>6. Dropping'
  BY <1>2, <1>4, ChainParts, SameTargets
<1>7. \A j \in Generators : j # 1 => value'[j] = value[j]
  BY <1>1 DEF SameLog
<1>8. OneGoesOn'
  <2>1. CASE ~symmetric
    BY <1>2, <2>1 DEF OneGoesOn
  <2>2. CASE symmetric
    <3>1. Baton(1)
      BY <1>2, <2>2, HoldsBaton
    <3> QED
      BY <1>1, <1>2, <1>7, <2>2, <3>1, StaysTheOne, ZenonT(60) DEF Gone
  <2> QED
    BY <2>1, <2>2
<1>9. value[1] # End
  BY <1>2 DEF Passes, AtEnd
<1>10. (value[1] # End => value[1] = yielded)'
  <2>1. CASE l = "operation"
    BY <1>1, <2>1, ChainParts DEF SameLog
  <2>2. CASE l = "yield"
    BY <1>1, <2>2
  <2> QED
    BY <2>1, <2>2
<1>11. value[N] # End
  BY <1>9 DEF Passes
<1>12. ending \notin {"end", "exception"}
  BY <1>11, ChainParts
<1> QED
  BY <1>2, <1>3, <1>4, <1>5, <1>6, <1>8, <1>10, <1>12, ChainParts, GoodProduce, ChainInvFrom

LEMMA YieldKeeps ==
  ASSUME GeneratorAssumption, ChainInv, NEW t \in Threads, NEW k \in Generators, Yield(t, k)
  PROVE  ChainInv'
<1> USE ChainSizes, OfOne
<1>1. /\ Top(t, k, "yield") /\ at[k] = "yield" /\ SameLog /\ symmetric' = symmetric
      /\ ending' = ending /\ target' = target /\ k \in Coros /\ k + 1 \in Coros
      /\ \/ /\ symmetric /\ Transfer(t, k, "suspended", k + 1, "got") /\ state' = state /\ seen' = seen
         \/ /\ ~symmetric /\ state[k] = "VNRCS" /\ state' = [state EXCEPT ![k] = "VRPA"]
            /\ Call(t, k, "yielded", k + 1, "got") /\ seen' = seen
         \/ /\ ~symmetric /\ seen' = [seen EXCEPT ![k] = state[k]] /\ Goto(k, "suspend") /\ state' = state
  BY DEF Yield, Top, logVars, SameLog
<1>2. {"suspended", "yielded", "suspend", "got"} \subseteq ChainPlaces
  BY DEF ChainPlaces, SourceAt, SinkAt
<1>3. state' \in [Generators -> ChainStates] /\ seen' \in [Coros -> ChainStates]
  BY <1>1 DEF ChainStates
<1>4. CASE symmetric
  <2>1. Transfer(t, k, "suspended", k + 1, "got") /\ at' = [at EXCEPT ![k] = "suspended", ![k + 1] = "got"]
    BY <1>1, <1>4 DEF Transfer
  <2>2. Baton(k) /\ at[k + 1] = "suspended"
    BY <1>1, <1>4, HoldsBaton DEF Baton
  <2>3. OnStacks(ChainPlaces)'
    BY <1>1, <1>2, <2>1, <2>2, ChainParts, OnTransfer DEF Suspensions
  <2>4. /\ at'[k] = "suspended" /\ at'[k + 1] = "got"
        /\ \A j \in Coros \ {k, k + 1} : at'[j] = at[j]
    BY <1>1, <2>1
  <2>5. Placed'
    <3>1. "suspended" \in Role(k) /\ "got" \in Role(k + 1) /\ k # k + 1 /\ Placed
      BY NextRole, Roles, ChainParts
    <3> QED
      BY <1>1, <2>1, <3>1, TwoStand
  <2>6. Baton(k + 1)'
    <3>1. ASSUME NEW j \in Coros, j < k + 1
          PROVE  at'[j] \in {"created", "suspended"} \/ (at'[j] = "destroyed" /\ Gone(Sink)')
      <4>1. j = k \/ (j < k /\ j \notin {k, k + 1})
        BY <3>1
      <4>2. ~Gone(Sink)
        <5>1. k < Sink /\ at[Sink] = "suspended"
          BY <2>2 DEF Baton
        <5> QED
          BY <5>1 DEF Gone
      <4> QED
        BY <2>2, <2>4, <4>1, <4>2 DEF Baton
    <3>2. ASSUME NEW j \in Coros, k + 1 < j
          PROVE  at'[j] = "suspended" /\ (j # Sink => value'[j] # End)
      <4>1. k < j /\ j \notin {k, k + 1}
        BY <3>2
      <4> QED
        BY <1>1, <2>2, <2>4, <4>1 DEF Baton, SameLog
    <3> QED
      BY <2>4, <3>1, <3>2 DEF Baton
  <2>7. ASSUME NEW i \in Generators
        PROVE  /\ at'[i] = "created" => at'[i + 1] \in {"created", "advance"} \/ Gone(i + 1)'
               /\ at'[i] = "destroyed" \/ state'[i] = "cancelled" => Gone(i + 1)'
    <3>1. /\ at[i] = "created" => at[i + 1] \in {"created", "advance"} \/ Gone(i + 1)
          /\ at[i] = "destroyed" \/ state[i] = "cancelled" => Gone(i + 1)
      BY <1>4, ChainParts DEF OneGoesOn
    <3>2. (at'[i] = "created" => at[i] = "created") /\ (at'[i] = "destroyed" => at[i] = "destroyed")
      BY <2>4
    <3>3. state'[i] = state[i]
      BY <1>1, <1>4
    <3>4. i + 1 \notin {k, k + 1} => at'[i + 1] = at[i + 1]
      BY <2>4
    <3>5. i + 1 \in {k, k + 1} => at[i + 1] \in {"yield", "suspended"}
      BY <1>1, <2>2
    <3> QED
      BY <3>1, <3>2, <3>3, <3>4, <3>5 DEF Gone
  <2>8. \A j \in Coros : at'[j] \notin {"advanced", "await", "yielded", "suspend", "destroy"}
    BY <1>4, <2>4, ChainParts DEF OneGoesOn
  <2>9. OneGoesOn'
    <3>1. \A i \in Generators : state'[i] \in {"VRPS", "cancelled"}
      BY <1>1, <1>4, ChainParts DEF OneGoesOn
    <3> QED
      BY <1>1, <2>6, <2>7, <2>8, <3>1 DEF OneGoesOn
  <2>10. /\ \A j \in Coros : at'[j] = "drop" => at[j] = "drop"
         /\ \A j \in Coros : at[j] = "destroyed" => at'[j] = "destroyed"
         /\ at[Sink] \in {"created", "drop", "done"} => at'[Sink] = at[Sink]
    BY <1>1, <2>2, <2>4
  <2> QED
    BY <1>1, <1>3, <2>3, <2>5, <2>9, <2>10, GoodYield, QuietInv
<1>5. CASE ~symmetric
  <2>0. EndsAgree(k)
    BY <1>5
  <2>1. OneGoesOn'
    BY <1>1, <1>5 DEF OneGoesOn
  <2>2. CASE Call(t, k, "yielded", k + 1, "got") /\ state[k] = "VNRCS"
    <3>1. at[k + 1] = "suspended"
      BY <2>0, <2>2 DEF EndsAgree
    <3>2. OnStacks(ChainPlaces)'
      BY <1>1, <1>2, <2>2, <3>1, ChainParts, OnCall DEF Suspensions
    <3>3. at' = [at EXCEPT ![k] = "yielded", ![k + 1] = "got"]
      BY <2>2 DEF Call
    <3>4. /\ Placed' /\ at'[k] = "yielded" /\ at'[k + 1] = "got"
          /\ \A j \in Coros \ {k, k + 1} : at'[j] = at[j]
      <4>1. "yielded" \in Role(k) /\ "got" \in Role(k + 1) /\ k # k + 1 /\ Placed
        BY NextRole, Roles, ChainParts
      <4> QED
        BY <1>1, <3>3, <4>1, TwoStand, ZenonT(60)
    <3>5. /\ \A j \in Coros : at'[j] = "drop" => at[j] = "drop"
          /\ \A j \in Coros : at[j] = "destroyed" => at'[j] = "destroyed"
          /\ at[Sink] \in {"created", "drop", "done"} => at'[Sink] = at[Sink]
      BY <1>1, <3>1, <3>4
    <3> QED
      BY <1>1, <1>3, <2>1, <3>2, <3>4, <3>5, GoodYield, QuietInv
  <2>3. CASE Goto(k, "suspend")
    <3>1. OnStacks(ChainPlaces)'
      BY <1>1, <1>2, <2>3, ChainParts, OnGoto DEF Suspensions
    <3>2. at' = [at EXCEPT ![k] = "suspend"]
      BY <2>3 DEF Goto
    <3>3. Placed' /\ at'[k] = "suspend" /\ \A j \in Coros \ {k} : at'[j] = at[j]
      BY <1>1, <3>2, ChainParts, Roles, OneStands
    <3>4. /\ \A j \in Coros : at'[j] = "drop" => at[j] = "drop"
          /\ \A j \in Coros : at[j] = "destroyed" => at'[j] = "destroyed"
          /\ at[Sink] \in {"created", "drop", "done"} => at'[Sink] = at[Sink]
      BY <1>1, <3>3
    <3> QED
      BY <1>1, <1>3, <2>1, <3>1, <3>3, <3>4, GoodYield, QuietInv
  <2> QED
    BY <1>1, <1>5, <2>2, <2>3
<1> QED
  BY <1>4, <1>5

LEMMA ReloadKeeps ==
  ASSUME GeneratorAssumption, ChainInv, NEW t \in Threads, NEW k \in Generators, Reload(t, k)
  PROVE  ChainInv'
<1> USE ChainSizes, OfOne
<1>1. /\ Top(t, k, "yielded") /\ at[k] = "yielded" /\ SameLog /\ symmetric' = symmetric
      /\ ending' = ending /\ target' = target /\ k \in Coros
      /\ state' = state /\ seen' = [seen EXCEPT ![k] = state[k]]
      /\ Goto(k, IF state[k] = "VNRCS" THEN GoOn(k) ELSE "suspend")
  BY DEF Reload, Top, generatorVars, logVars, SameLog
<1>2. ~symmetric /\ EndsAgree(k)
  BY <1>1 DEF ChainInv, OneGoesOn
<1>3. PICK l \in {"produce", "advance", "suspend"} : Goto(k, l) /\ l \in Role(k)
  <2>1. CASE state[k] = "VNRCS"
    BY <1>1, <1>2, <2>1, AskedForMore, Roles DEF EndsAgree, Fresh, Offers
  <2>2. CASE state[k] # "VNRCS"
    BY <1>1, <2>2, Roles
  <2> QED
    BY <2>1, <2>2
<1>4. at' = [at EXCEPT ![k] = l] /\ l \in ChainPlaces \ Suspensions
  BY <1>3 DEF Goto, ChainPlaces, SourceAt, MiddleAt, SinkAt, Suspensions
<1>5. OnStacks(ChainPlaces)'
  BY <1>1, <1>3, <1>4, ChainParts, OnGoto
<1>6. Placed' /\ at'[k] = l /\ \A j \in Coros \ {k} : at'[j] = at[j]
  BY <1>1, <1>3, <1>4, ChainParts, OneStands
<1>7. OneGoesOn' /\ state' \in [Generators -> ChainStates] /\ seen' \in [Coros -> ChainStates]
  BY <1>1, <1>2 DEF OneGoesOn
<1>8. /\ \A j \in Coros : at'[j] = "drop" => at[j] = "drop"
      /\ \A j \in Coros : at[j] = "destroyed" => at'[j] = "destroyed"
      /\ at[Sink] \in {"created", "drop", "done"} => at'[Sink] = at[Sink]
  BY <1>1, <1>6
<1> QED
  BY <1>1, <1>5, <1>6, <1>7, <1>8, GoodReload, QuietInv

LEMMA TrySuspendKeeps ==
  ASSUME GeneratorAssumption, ChainInv, NEW t \in Threads, NEW k \in Generators, TrySuspend(t, k)
  PROVE  ChainInv'
<1> USE ChainSizes, OfOne
<1>1. /\ Top(t, k, "suspend") /\ at[k] = "suspend" /\ SameLog /\ symmetric' = symmetric
      /\ ending' = ending /\ target' = target /\ k \in Coros /\ k + 1 \in Coros /\ seen' = seen
      /\ \/ Suspend(t, k, "suspended") /\ state' = [state EXCEPT ![k] = "VRPS"]
         \/ /\ state[k] = "VNRCS" /\ Call(t, k, "yielded", k + 1, "got")
            /\ state' = [state EXCEPT ![k] = "VRPA"]
         \/ seen[k] = "VRPA" /\ state[k] = "VNRCS" /\ Goto(k, GoOn(k)) /\ state' = state
         \/ Goto(k, "destroy") /\ state' = state
  BY DEF TrySuspend, Top, logVars, SameLog
<1>2. ~symmetric /\ EndsAgree(k)
  BY <1>1 DEF ChainInv, OneGoesOn
<1>3. OneGoesOn' /\ state' \in [Generators -> ChainStates] /\ seen' \in [Coros -> ChainStates]
  BY <1>1, <1>2 DEF OneGoesOn, ChainStates
<1>4. CASE Suspend(t, k, "suspended")
  <2>1. at' = [at EXCEPT ![k] = "suspended"] /\ "suspended" \in ChainPlaces /\ "suspended" \in Suspensions
    BY <1>4 DEF Suspend, ChainPlaces, SourceAt, Suspensions
  <2>2. OnStacks(ChainPlaces)'
    BY <1>1, <1>4, <2>1, ChainParts, OnSuspend
  <2>3. Placed' /\ at'[k] = "suspended" /\ \A j \in Coros \ {k} : at'[j] = at[j]
    BY <1>1, <2>1, Roles, ChainParts, OneStands
  <2>4. /\ \A j \in Coros : at'[j] = "drop" => at[j] = "drop"
        /\ \A j \in Coros : at[j] = "destroyed" => at'[j] = "destroyed"
        /\ at[Sink] \in {"created", "drop", "done"} => at'[Sink] = at[Sink]
    BY <1>1, <2>3
  <2> QED
    BY <1>1, <1>3, <2>2, <2>3, <2>4, GoodTrySuspend, QuietInv
<1>5. CASE state[k] = "VNRCS" /\ Call(t, k, "yielded", k + 1, "got")
  <2>1. /\ at' = [at EXCEPT ![k] = "yielded", ![k + 1] = "got"]
        /\ "yielded" \in ChainPlaces \ Suspensions /\ "got" \in ChainPlaces \ Suspensions
    BY <1>5 DEF Call, ChainPlaces, SourceAt, SinkAt, Suspensions
  <2>2. at[k + 1] = "suspended" /\ at[k + 1] \in Suspensions
    BY <1>2, <1>5 DEF EndsAgree, Suspensions
  <2>3. OnStacks(ChainPlaces)'
    BY <1>1, <1>5, <2>1, <2>2, ChainParts, OnCall
  <2>4. /\ Placed' /\ at'[k] = "yielded" /\ at'[k + 1] = "got"
        /\ \A j \in Coros \ {k, k + 1} : at'[j] = at[j]
    <3>1. "yielded" \in Role(k) /\ "got" \in Role(k + 1) /\ k # k + 1 /\ Placed
      BY NextRole, Roles, ChainParts
    <3> QED
      BY <1>1, <2>1, <3>1, TwoStand, ZenonT(60)
  <2>5. /\ \A j \in Coros : at'[j] = "drop" => at[j] = "drop"
        /\ \A j \in Coros : at[j] = "destroyed" => at'[j] = "destroyed"
        /\ at[Sink] \in {"created", "drop", "done"} => at'[Sink] = at[Sink]
    BY <1>1, <2>2, <2>4
  <2> QED
    BY <1>1, <1>3, <2>3, <2>4, <2>5, GoodTrySuspend, QuietInv
<1>6. CASE \/ seen[k] = "VRPA" /\ state[k] = "VNRCS" /\ Goto(k, GoOn(k))
           \/ Goto(k, "destroy")
  <2>1. PICK l \in {"produce", "advance", "destroy"} : Goto(k, l) /\ l \in Role(k)
    <3>1. CASE seen[k] = "VRPA" /\ state[k] = "VNRCS" /\ Goto(k, GoOn(k))
      BY <1>1, <1>2, <3>1, AskedForMore, Roles DEF EndsAgree, Fresh, Offers
    <3>2. CASE Goto(k, "destroy")
      BY <3>2, Roles
    <3> QED
      BY <1>6, <3>1, <3>2
  <2>2. at' = [at EXCEPT ![k] = l] /\ l \in ChainPlaces \ Suspensions
    BY <2>1 DEF Goto, ChainPlaces, SourceAt, MiddleAt, SinkAt, Suspensions
  <2>3. OnStacks(ChainPlaces)'
    BY <1>1, <2>1, <2>2, ChainParts, OnGoto
  <2>4. Placed' /\ at'[k] = l /\ \A j \in Coros \ {k} : at'[j] = at[j]
    BY <1>1, <2>1, <2>2, ChainParts, OneStands
  <2>5. /\ \A j \in Coros : at'[j] = "drop" => at[j] = "drop"
        /\ \A j \in Coros : at[j] = "destroyed" => at'[j] = "destroyed"
        /\ at[Sink] \in {"created", "drop", "done"} => at'[Sink] = at[Sink]
    BY <1>1, <2>4
  <2> QED
    BY <1>1, <1>3, <2>3, <2>4, <2>5, GoodTrySuspend, QuietInv
<1> QED
  BY <1>1, <1>4, <1>5, <1>6

LEMMA AdvanceKeeps ==
  ASSUME GeneratorAssumption, ChainInv, NEW t \in Threads, NEW k \in Coros \ {1}, Advance(t, k)
  PROVE  ChainInv'
<1> DEFINE p == k - 1
<1>1. p \in Generators /\ p + 1 = k /\ p # k /\ p \in Coros
  BY ChainSizes
<1>2. /\ Top(t, k, "advance") /\ at[k] = "advance" /\ SameLog /\ symmetric' = symmetric
      /\ ending' = ending /\ target' = target
      /\ \/ symmetric /\ Transfer(t, k, "suspended", p, GoOn(p)) /\ state' = state /\ seen' = seen
         \/ /\ ~symmetric /\ state[p] = "VRPS" /\ state' = [state EXCEPT ![p] = "VNRCA"] /\ seen' = seen
            /\ Call(t, k, "advanced", p, GoOn(p))
         \/ ~symmetric /\ Goto(k, "await") /\ seen' = [seen EXCEPT ![k] = state[p]] /\ state' = state
  BY ChainSizes, OfOne DEF Advance, Top, logVars, SameLog
<1> HIDE DEF p
<1>3. state' \in [Generators -> ChainStates] /\ seen' \in [Coros -> ChainStates]
  BY <1>1, <1>2, ChainSizes, OfOne DEF ChainStates
<1>4. /\ "suspended" \in ChainPlaces /\ "suspended" \in Suspensions
      /\ "advanced" \in ChainPlaces \ Suspensions /\ "await" \in ChainPlaces \ Suspensions
      /\ "produce" \in ChainPlaces \ Suspensions /\ "advance" \in ChainPlaces \ Suspensions
  BY ChainSizes, OfOne DEF ChainPlaces, SourceAt, SinkAt, Suspensions
<1>5. CASE symmetric
  <2>1. Transfer(t, k, "suspended", p, GoOn(p)) /\ at' = [at EXCEPT ![k] = "suspended", ![p] = GoOn(p)]
        /\ state' = state
    BY <1>2, <1>5, ChainSizes, OfOne DEF Transfer
  <2>2. Baton(k)
    BY <1>2, <1>5, HoldsBaton, ChainSizes, OfOne
  <2>3. at[p] \in {"created", "suspended"} /\ at[p] \in Suspensions
    <3>1. p \in Coros /\ p < k
      BY <1>1, ChainSizes, OfOne
    <3>2. ~Gone(Sink)
      BY <1>2, <2>2, ChainSizes, OfOne DEF Baton, Gone
    <3> QED
      BY <2>2, <3>1, <3>2, ChainSizes, OfOne DEF Baton, Suspensions
  <2>4. GoOn(p) = (IF p = 1 THEN "produce" ELSE "advance")
    BY <1>1, <1>2, <1>5, <2>3, AskedForMore, ChainSizes, OfOne DEF Fresh, Offers, Wants
  <2>5. OnStacks(ChainPlaces)'
    <3>1. GoOn(p) \in ChainPlaces \ Suspensions
      BY <1>4, <2>4, ChainSizes, OfOne
    <3> QED
      BY <1>1, <1>2, <1>4, <2>1, <2>3, <3>1, ChainParts, OnTransfer, ChainSizes, OfOne
  <2>6. /\ Placed' /\ at'[k] = "suspended" /\ at'[p] = GoOn(p)
        /\ \A j \in Coros \ {k, p} : at'[j] = at[j]
    <3>1. "suspended" \in Role(k) /\ Placed
      BY <1>1, Roles, ChainParts, ChainSizes, OfOne
    <3>2. PICK l \in Role(p) : l = GoOn(p)
      BY <1>1, <2>4, Roles, ChainSizes, OfOne
    <3>3. at' = [at EXCEPT ![k] = "suspended", ![p] = l]
      BY <2>1, <3>2, ChainSizes, OfOne
    <3>4. /\ Placed' /\ at'[k] = "suspended" /\ at'[p] = l
          /\ \A j \in Coros \ {k, p} : at'[j] = at[j]
      BY <1>1, <3>1, <3>3, SourceStands
    <3> QED
      BY <3>2, <3>4, ChainSizes, OfOne
  <2>7. Baton(p)'
    <3>1. ASSUME NEW j \in Coros, j < p
          PROVE  at'[j] \in {"created", "suspended"} \/ (at'[j] = "destroyed" /\ Gone(Sink)')
      <4>1. j < k /\ j \notin {k, p}
        BY <1>1, <3>1, ChainSizes, OfOne
      <4>2. ~Gone(Sink)
        BY <1>2, <2>2, ChainSizes, OfOne DEF Baton, Gone
      <4> QED
        BY <2>2, <2>6, <4>1, <4>2, ChainSizes, OfOne DEF Baton
    <3>2. ASSUME NEW j \in Coros, p < j
          PROVE  at'[j] = "suspended" /\ (j # Sink => value'[j] # End)
      <4>1. CASE j = k
        <5>1. j # Sink => Passes(j) /\ at[j] = "advance"
          BY <1>2, <4>1, ChainSizes, OfOne
        <5>2. j # Sink => value[j] # End
          BY <5>1, ChainSizes, OfOne DEF Passes, AtEnd
        <5> QED
          BY <1>2, <2>6, <4>1, <5>2, ChainSizes, OfOne DEF SameLog
      <4>2. CASE j # k
        <5>1. k < j /\ j \notin {k, p}
          BY <1>1, <3>2, <4>2, ChainSizes, OfOne
        <5> QED
          BY <1>2, <2>2, <2>6, <5>1, ChainSizes, OfOne DEF Baton, SameLog
      <4> QED
        BY <4>1, <4>2, ChainSizes, OfOne
    <3> QED
      BY <2>4, <2>6, <3>1, <3>2, ChainSizes, OfOne DEF Baton
  <2>8. ASSUME NEW i \in Generators
        PROVE  /\ at'[i] = "created" => at'[i + 1] \in {"created", "advance"} \/ Gone(i + 1)'
               /\ at'[i] = "destroyed" \/ state'[i] = "cancelled" => Gone(i + 1)'
    <3>1. /\ at[i] = "created" => at[i + 1] \in {"created", "advance"} \/ Gone(i + 1)
          /\ at[i] = "destroyed" \/ state[i] = "cancelled" => Gone(i + 1)
      BY <1>5, ChainParts, ChainSizes, OfOne DEF OneGoesOn
    <3>2. (at'[i] = "created" => at[i] = "created" /\ i # p) /\ (at'[i] = "destroyed" => at[i] = "destroyed")
      BY <2>4, <2>6, ChainSizes, OfOne
    <3>3. state'[i] = state[i] /\ i + 1 \in Coros
      BY <2>1, ChainSizes, OfOne
    <3>4. CASE i + 1 \notin {k, p}
      BY <2>6, <3>1, <3>2, <3>3, <3>4, ChainSizes, OfOne DEF Gone
    <3>5. CASE i + 1 = k
      BY <1>1, <1>2, <3>1, <3>2, <3>3, <3>5, ChainSizes, OfOne DEF Gone
    <3>6. CASE i + 1 = p
      <4>1. p # 1 /\ at'[i + 1] = "advance" /\ ~Gone(i + 1)
        BY <2>3, <2>4, <2>6, <3>6, ChainSizes, OfOne DEF Gone
      <4> QED
        BY <3>1, <3>2, <3>3, <4>1, ChainSizes, OfOne
    <3> QED
      BY <3>4, <3>5, <3>6, ChainSizes, OfOne
  <2>9. OneGoesOn'
    <3>1. \A i \in Generators : state'[i] \in {"VRPS", "cancelled"}
      BY <1>5, <2>1, ChainParts, ChainSizes, OfOne DEF OneGoesOn
    <3>2. \A j \in Coros : at'[j] \notin {"advanced", "await", "yielded", "suspend", "destroy"}
      BY <1>5, <2>4, <2>6, ChainParts, ChainSizes, OfOne DEF OneGoesOn
    <3> QED
      BY <1>1, <2>7, <2>8, <3>1, <3>2, ChainSizes, OfOne DEF OneGoesOn
  <2>10. /\ \A j \in Coros : at'[j] = "drop" => at[j] = "drop"
         /\ \A j \in Coros : at[j] = "destroyed" => at'[j] = "destroyed"
         /\ at[Sink] \in {"created", "drop", "done"} => at'[Sink] = at[Sink]
    BY <1>1, <1>2, <2>3, <2>4, <2>6, ChainSizes, OfOne
  <2> QED
    BY <1>2, <1>3, <2>5, <2>6, <2>9, <2>10, GoodAdvance, QuietInv, ChainSizes, OfOne
<1>6. CASE ~symmetric /\ state[p] = "VRPS" /\ Call(t, k, "advanced", p, GoOn(p))
  <2>1. at' = [at EXCEPT ![k] = "advanced", ![p] = GoOn(p)] /\ EndsAgree(p)
    BY <1>1, <1>6, ChainSizes, OfOne DEF Call
  <2>2. at[p] \in {"created", "suspended"} /\ at[p] \in Suspensions
    BY <1>6, <2>1, ChainSizes, OfOne DEF EndsAgree, Rests, Suspensions
  <2>3. GoOn(p) = (IF p = 1 THEN "produce" ELSE "advance")
    BY <1>1, <1>2, <1>6, <2>2, AskedForMore, ChainSizes, OfOne DEF Fresh, Offers, Wants
  <2>4. OnStacks(ChainPlaces)'
    <3>1. GoOn(p) \in ChainPlaces \ Suspensions
      BY <1>4, <2>3, ChainSizes, OfOne
    <3> QED
      BY <1>1, <1>2, <1>4, <1>6, <2>2, <3>1, ChainParts, OnCall, ChainSizes, OfOne
  <2>5. /\ Placed' /\ at'[k] = "advanced" /\ at'[p] = GoOn(p)
        /\ \A j \in Coros \ {k, p} : at'[j] = at[j]
    <3>1. "advanced" \in Role(k) /\ Placed
      BY <1>1, Roles, ChainParts, ChainSizes, OfOne
    <3>2. PICK l \in Role(p) : l = GoOn(p)
      BY <1>1, <2>3, Roles, ChainSizes, OfOne
    <3>3. at' = [at EXCEPT ![k] = "advanced", ![p] = l]
      BY <2>1, <3>2, ChainSizes, OfOne
    <3>4. /\ Placed' /\ at'[k] = "advanced" /\ at'[p] = l
          /\ \A j \in Coros \ {k, p} : at'[j] = at[j]
      BY <1>1, <3>1, <3>3, SourceStands
    <3> QED
      BY <3>2, <3>4, ChainSizes, OfOne
  <2>6. /\ \A j \in Coros : at'[j] = "drop" => at[j] = "drop"
        /\ \A j \in Coros : at[j] = "destroyed" => at'[j] = "destroyed"
        /\ at[Sink] \in {"created", "drop", "done"} => at'[Sink] = at[Sink]
    BY <1>1, <1>2, <2>2, <2>3, <2>5, ChainSizes, OfOne
  <2>7. OneGoesOn'
    BY <1>2, <1>6, ChainSizes, OfOne DEF OneGoesOn
  <2> QED
    BY <1>2, <1>3, <2>4, <2>5, <2>6, <2>7, GoodAdvance, QuietInv, ChainSizes, OfOne
<1>7. CASE ~symmetric /\ Goto(k, "await")
  <2>1. at' = [at EXCEPT ![k] = "await"]
    BY <1>7, ChainSizes, OfOne DEF Goto
  <2>2. OnStacks(ChainPlaces)'
    BY <1>2, <1>4, <1>7, ChainParts, OnGoto, ChainSizes, OfOne
  <2>3. Placed' /\ at'[k] = "await" /\ \A j \in Coros \ {k} : at'[j] = at[j]
    BY <2>1, Roles, ChainParts, OneStands, ChainSizes, OfOne
  <2>4. /\ \A j \in Coros : at'[j] = "drop" => at[j] = "drop"
        /\ \A j \in Coros : at[j] = "destroyed" => at'[j] = "destroyed"
        /\ at[Sink] \in {"created", "drop", "done"} => at'[Sink] = at[Sink]
    BY <1>2, <2>3, ChainSizes, OfOne
  <2>5. OneGoesOn'
    BY <1>2, <1>7, ChainSizes, OfOne DEF OneGoesOn
  <2> QED
    BY <1>2, <1>3, <2>2, <2>3, <2>4, <2>5, GoodAdvance, QuietInv, ChainSizes, OfOne
<1> QED
  BY <1>2, <1>5, <1>6, <1>7, ChainSizes, OfOne

LEMMA AdvancedKeeps ==
  ASSUME GeneratorAssumption, ChainInv, NEW t \in Threads, NEW k \in Coros \ {1}, Advanced(t, k)
  PROVE  ChainInv'
<1> DEFINE p == k - 1
<1>1. p \in Generators /\ p + 1 = k
  BY ChainSizes
<1>2. /\ Top(t, k, "advanced") /\ at[k] = "advanced" /\ SameLog /\ symmetric' = symmetric
      /\ ending' = ending /\ target' = target /\ state' = state /\ seen' = [seen EXCEPT ![k] = state[p]]
      /\ Goto(k, IF state[p] = "VRPS" THEN "got" ELSE "await")
  BY DEF Advanced, Top, generatorVars, logVars, SameLog
<1> HIDE DEF p
<1>3. ~symmetric
  BY <1>2 DEF ChainInv, OneGoesOn
<1>4. PICK l \in {"got", "await"} : Goto(k, l)
  BY <1>2
<1>5. at' = [at EXCEPT ![k] = l] /\ l \in ChainPlaces \ Suspensions
  BY <1>4 DEF Goto, ChainPlaces, SinkAt, Suspensions
<1>6. OnStacks(ChainPlaces)'
  BY <1>2, <1>4, <1>5, ChainParts, OnGoto
<1>7. Placed' /\ at'[k] = l /\ \A j \in Coros \ {k} : at'[j] = at[j]
  BY <1>5, Roles, ChainParts, OfOne, OneStands
<1>8. OneGoesOn' /\ state' \in [Generators -> ChainStates] /\ seen' \in [Coros -> ChainStates]
  BY <1>1, <1>2, <1>3, OfOne DEF OneGoesOn
<1>9. /\ \A j \in Coros : at'[j] = "drop" => at[j] = "drop"
      /\ \A j \in Coros : at[j] = "destroyed" => at'[j] = "destroyed"
      /\ at[Sink] \in {"created", "drop", "done"} => at'[Sink] = at[Sink]
  BY <1>2, <1>7, ChainSizes
<1> QED
  BY <1>2, <1>6, <1>7, <1>8, <1>9, GoodAdvanced, QuietInv

LEMMA AwaitKeeps ==
  ASSUME GeneratorAssumption, ChainInv, NEW t \in Threads, NEW k \in Coros \ {1}, Await(t, k)
  PROVE  ChainInv'
<1> DEFINE p == k - 1
<1>1. p \in Generators /\ p + 1 = k /\ p \in Coros /\ p # k
  BY ChainSizes
<1>2. /\ Top(t, k, "await") /\ at[k] = "await" /\ SameLog /\ symmetric' = symmetric
      /\ ending' = ending /\ target' = target /\ seen' = seen
      /\ \/ Suspend(t, k, "suspended") /\ state' = [state EXCEPT ![p] = "VNRCS"]
         \/ /\ seen[k] = "VRPA" /\ state[p] # "VRPA" /\ state' = [state EXCEPT ![p] = "VNRCA"]
            /\ Call(t, k, "advanced", p, GoOn(p))
         \/ Goto(k, "got") /\ state' = state
  BY DEF Await, Top, logVars, SameLog
<1> HIDE DEF p
<1>3. ~symmetric /\ EndsAgree(p)
  BY <1>1, <1>2, OfOne DEF ChainInv, OneGoesOn
<1>4. OneGoesOn' /\ state' \in [Generators -> ChainStates] /\ seen' \in [Coros -> ChainStates]
  BY <1>1, <1>2, <1>3, OfOne DEF OneGoesOn, ChainStates
<1>5. CASE Suspend(t, k, "suspended")
  <2>1. at' = [at EXCEPT ![k] = "suspended"] /\ "suspended" \in ChainPlaces /\ "suspended" \in Suspensions
    BY <1>5 DEF Suspend, ChainPlaces, SourceAt, Suspensions
  <2>2. OnStacks(ChainPlaces)'
    BY <1>2, <1>5, <2>1, ChainParts, OnSuspend
  <2>3. Placed' /\ at'[k] = "suspended" /\ \A j \in Coros \ {k} : at'[j] = at[j]
    BY <2>1, Roles, ChainParts, OfOne, OneStands
  <2>4. /\ \A j \in Coros : at'[j] = "drop" => at[j] = "drop"
        /\ \A j \in Coros : at[j] = "destroyed" => at'[j] = "destroyed"
        /\ at[Sink] \in {"created", "drop", "done"} => at'[Sink] = at[Sink]
    BY <1>2, <2>3, ChainSizes
  <2> QED
    BY <1>2, <1>4, <2>2, <2>3, <2>4, GoodAwait, QuietInv
<1>6. CASE seen[k] = "VRPA" /\ state[p] # "VRPA" /\ Call(t, k, "advanced", p, GoOn(p))
  <2>1. at' = [at EXCEPT ![k] = "advanced", ![p] = GoOn(p)] /\ EndsAgree(p)
    BY <1>3, <1>6 DEF Call
  <2>2. state[p] = "VRPS" /\ at[p] = "suspended" /\ at[p] \in Suspensions
    BY <1>1, <1>2, <1>6, <2>1, OfOne DEF EndsAgree, Rests, Reads, Wants, Gone, ChainStates, Suspensions
  <2>3. GoOn(p) = (IF p = 1 THEN "produce" ELSE "advance")
    BY <1>1, <1>2, <1>6, <2>2, AskedForMore DEF Fresh, Offers, Wants
  <2>4. OnStacks(ChainPlaces)'
    <3>1. GoOn(p) \in ChainPlaces \ Suspensions /\ "advanced" \in ChainPlaces \ Suspensions
      BY <2>3 DEF ChainPlaces, SourceAt, SinkAt, Suspensions
    <3> QED
      BY <1>1, <1>2, <1>6, <2>2, <3>1, ChainParts, OnCall
  <2>5. /\ Placed' /\ at'[k] = "advanced" /\ at'[p] = GoOn(p)
        /\ \A j \in Coros \ {k, p} : at'[j] = at[j]
    <3>1. "advanced" \in Role(k)
      BY Roles
    <3>2. PICK l \in Role(p) : l = GoOn(p)
      BY <1>1, <2>3, Roles
    <3>3. at' = [at EXCEPT ![k] = "advanced", ![p] = l]
      BY <2>1, <3>2
    <3>4. /\ Placed' /\ at'[k] = "advanced" /\ at'[p] = l
          /\ \A j \in Coros \ {k, p} : at'[j] = at[j]
      BY <1>1, <3>1, <3>3, SourceStands
    <3> QED
      BY <3>2, <3>4
  <2>6. /\ \A j \in Coros : at'[j] = "drop" => at[j] = "drop"
        /\ \A j \in Coros : at[j] = "destroyed" => at'[j] = "destroyed"
        /\ at[Sink] \in {"created", "drop", "done"} => at'[Sink] = at[Sink]
    BY <1>1, <1>2, <2>2, <2>3, <2>5, ChainSizes
  <2> QED
    BY <1>2, <1>4, <2>4, <2>5, <2>6, GoodAwait, QuietInv
<1>7. CASE Goto(k, "got")
  <2>1. at' = [at EXCEPT ![k] = "got"] /\ "got" \in ChainPlaces \ Suspensions
    BY <1>7 DEF Goto, ChainPlaces, SinkAt, Suspensions
  <2>2. OnStacks(ChainPlaces)'
    BY <1>2, <1>7, <2>1, ChainParts, OnGoto
  <2>3. Placed' /\ at'[k] = "got" /\ \A j \in Coros \ {k} : at'[j] = at[j]
    BY <2>1, Roles, ChainParts, OfOne, OneStands
  <2>4. /\ \A j \in Coros : at'[j] = "drop" => at[j] = "drop"
        /\ \A j \in Coros : at[j] = "destroyed" => at'[j] = "destroyed"
        /\ at[Sink] \in {"created", "drop", "done"} => at'[Sink] = at[Sink]
    BY <1>2, <2>3, ChainSizes
  <2> QED
    BY <1>2, <1>4, <2>2, <2>3, <2>4, GoodAwait, QuietInv
<1> QED
  BY <1>2, <1>5, <1>6, <1>7

\* A step of the one that goes on, if there is one such.
LEMMA StepOfOne ==
  ASSUME GeneratorAssumption, ChainInv, symmetric' = symmetric, state' = state,
         NEW b \in Coros, at[b] \notin {"suspended", "destroyed", "advance"}, Gone(b) => at[b] = "drop",
         at[b] = "created" => b = Sink,
         NEW l \in {"produce", "operation", "yield", "advance", "got", "use", "drop"},
         at' = [at EXCEPT ![b] = l],
         at[b] = "created" => l \in {"advance", "drop"}, l = "drop" => b = Sink,
         at[b] = "drop" => l = "drop",
         \A j \in Generators : j # b => value'[j] = value[j]
  PROVE  OneGoesOn'
<1>1. CASE ~symmetric
  BY <1>1 DEF OneGoesOn
<1>2. CASE symmetric
  <2>1. PICK c \in Coros : Baton(c)
    BY <1>2 DEF ChainInv, OneGoesOn
  <2>2. c = b
    <3>1. c < b => at[b] = "suspended"
      BY <2>1 DEF Baton
    <3>2. b < c => at[b] = "created" /\ b = Sink
      BY <2>1, ChainSizes DEF Baton
    <3> QED
      BY <3>1, <3>2, ChainSizes
  <2> QED
    BY <1>2, <2>1, <2>2, StaysTheOne
<1> QED
  BY <1>1, <1>2

LEMMA OperationKeeps ==
  ASSUME GeneratorAssumption, ChainInv, NEW k \in {1, Sink}, Operation(k)
  PROVE  ChainInv'
<1>1. /\ at[k] = "operation" /\ SameLog /\ symmetric' = symmetric /\ state' = state /\ seen' = seen
      /\ target' = target /\ ending' = ending /\ k \in Coros /\ k \in Threads
      /\ ResumeOn(k, k, IF k = 1 THEN "produce" ELSE "advance")
  BY ChainSizes DEF Operation, generatorVars, logVars, SameLog
<1>2. PICK l \in {"produce", "advance"} : ResumeOn(k, k, l) /\ l \in Role(k)
  BY <1>1, Roles, ChainSizes
<1>3. at' = [at EXCEPT ![k] = l] /\ l \in ChainPlaces \ Suspensions /\ at[k] \in Suspensions
  BY <1>1, <1>2 DEF ResumeOn, ChainPlaces, SourceAt, SinkAt, Suspensions
<1>4. OnStacks(ChainPlaces)'
  BY <1>1, <1>2, <1>3, ChainParts, OnResume
<1>5. Placed' /\ at'[k] = l /\ \A j \in Coros \ {k} : at'[j] = at[j]
  BY <1>1, <1>2, <1>3, ChainParts, OfOne, OneStands
<1>6. OneGoesOn'
  BY <1>1, <1>2, <1>3, StepOfOne DEF SameLog, Gone
<1>7. /\ \A j \in Coros : at'[j] = "drop" => at[j] = "drop"
      /\ \A j \in Coros : at[j] = "destroyed" => at'[j] = "destroyed"
      /\ at[Sink] \in {"created", "drop", "done"} => at'[Sink] = at[Sink]
  BY <1>1, <1>5, ChainSizes
<1> QED
  BY <1>1, <1>4, <1>5, <1>6, <1>7, OfOne, GoodOperation, QuietInv

LEMMA GotKeeps ==
  ASSUME GeneratorAssumption, ChainInv, NEW t \in Threads, NEW k \in Coros \ {1}, Got(t, k)
  PROVE  ChainInv'
<1>1. /\ Top(t, k, "got") /\ at[k] = "got" /\ symmetric' = symmetric /\ state' = state /\ seen' = seen
      /\ yielded' = yielded /\ obtained' = obtained
  BY DEF Got, Top
<1>2. PICK l \in {"use", "drop", "yield"} : Goto(k, l) /\ l \in Role(k) /\ (l = "drop" => k = Sink)
                                            /\ (l = "drop" <=> k = Sink /\ value[N] = End)
  BY Roles, ChainSizes DEF Got
<1>3. at' = [at EXCEPT ![k] = l] /\ l \in ChainPlaces \ Suspensions
  BY <1>2 DEF Goto, ChainPlaces, SourceAt, SinkAt, Suspensions
<1>4. OnStacks(ChainPlaces)'
  BY <1>1, <1>2, <1>3, ChainParts, OnGoto
<1>5. Placed' /\ at'[k] = l /\ \A j \in Coros \ {k} : at'[j] = at[j]
  BY <1>2, <1>3, ChainParts, OfOne, OneStands
<1>6. /\ value' \in [Generators -> Nat \cup {End}] /\ exception' \in [Generators -> BOOLEAN]
      /\ \A j \in Generators : j # k => value'[j] = value[j] /\ exception'[j] = exception[j]
      /\ ending' = IF k = Sink /\ value[N] = End THEN IF exception[N] THEN "exception" ELSE "end" ELSE ending
      /\ target' = IF k = Sink THEN [target EXCEPT ![k] = N] ELSE target
  <2>1. CASE k = Sink
    BY <2>1, OfOne DEF Got
  <2>2. CASE k # Sink
    <3>1. k \in Generators /\ k - 1 \in Generators
      BY <2>2, ChainSizes
    <3>2. value[k - 1] \in Nat \cup {End} /\ exception[k - 1] \in BOOLEAN
          /\ Kept(k, exception[k - 1]) \in BOOLEAN
      BY <3>1, OfOne DEF Kept
    <3>3. /\ value' = [value EXCEPT ![k] = value[k - 1]]
          /\ exception' = [exception EXCEPT ![k] = Kept(k, exception[k - 1])]
          /\ ending' = ending /\ target' = target
      BY <2>2 DEF Got
    <3> QED
      BY <2>2, <3>1, <3>2, <3>3, OfOne
  <2> QED
    BY <2>1, <2>2
<1>7. DataTyped'
  <2>1. target' \in [Coros -> Nat]
    BY <1>6, OfOne, ChainSizes
  <2>2. ending' \in {"none", "break", "end", "exception"}
    BY <1>6, ChainParts DEF DataTyped
  <2> QED
    BY <1>1, <1>6, <2>1, <2>2, ChainParts DEF DataTyped
<1>8. Dropping'
  <2>0. Dropping /\ Sink \in Coros /\ N \in Generators /\ N < Sink /\ N + 1 = Sink /\ target \in [Coros -> Nat]
    <3>1. Sink \in Coros /\ N \in Generators /\ N < Sink /\ N + 1 = Sink
      BY ChainSizes
    <3> QED
      BY <3>1, ChainParts, OfOne
  <2>1. ASSUME NEW j \in Coros, at'[j] = "drop"
        PROVE  /\ target'[j] \in Generators /\ target'[j] < j
               /\ target'[j] + 1 = j \/ at'[target'[j] + 1] = "destroyed"
    <3>1. CASE j = k
      <4>1. k = Sink
        BY <1>2, <1>5, <2>1, <3>1
      <4>2. target'[j] = N
        BY <1>6, <2>0, <3>1, <4>1
      <4> QED
        BY <2>0, <3>1, <4>1, <4>2
    <3>2. CASE j # k
      <4>1. at[j] = "drop" /\ target'[j] = target[j]
        BY <1>5, <1>6, <2>0, <2>1, <3>2
      <4>2. /\ target[j] \in Generators /\ target[j] < j
            /\ target[j] + 1 = j \/ at[target[j] + 1] = "destroyed"
        BY <2>0, <4>1 DEF Dropping
      <4>3. target[j] + 1 \in Coros
        BY <4>2, ChainSizes
      <4> QED
        BY <1>1, <1>5, <4>1, <4>2, <4>3
    <3> QED
      BY <3>1, <3>2
  <2>2. at'[Sink] \notin {"created", "drop", "done"} => target'[Sink] = N
    BY <1>1, <1>5, <1>6, <2>0 DEF Dropping
  <2> QED
    BY <2>1, <2>2 DEF Dropping
<1>9. OneGoesOn'
  BY <1>1, <1>2, <1>3, <1>6, StepOfOne DEF Gone
<1>10. (value[1] # End => value[1] = yielded)'
  BY <1>1, <1>6, ChainSizes, ChainParts
<1>11. ASSUME ending' \in {"end", "exception"}
       PROVE  /\ value'[N] = End /\ Gone(Sink)'
              /\ ending' = "exception" <=> exception'[1]
  <2>1. exception'[1] = exception[1] /\ N \in Generators /\ Passes(N) /\ exception \in [Generators -> BOOLEAN]
    BY <1>6, ChainSizes, OfOne
  <2>2. CASE k = Sink /\ value[N] = End
    <3>1. value'[N] = End /\ Gone(Sink)'
      BY <1>2, <1>5, <1>6, <2>1, <2>2, ChainSizes DEF Gone
    <3>2. exception[N] = exception[1]
      BY <2>1, <2>2 DEF Passes
    <3> QED
      BY <1>6, <2>1, <2>2, <3>1, <3>2
  <2>3. CASE ~(k = Sink /\ value[N] = End)
    <3>1. ending' = ending /\ value[N] = End /\ Gone(Sink) /\ (ending = "exception" <=> exception[1])
      BY <1>6, <1>11, <2>3, ChainParts
    <3>2. k # N /\ k # Sink
      <4>1. AtEnd(N)
        BY <2>1, <3>1 DEF Passes
      <4> QED
        BY <1>1, <2>3, <3>1, <4>1 DEF AtEnd
    <3>3. at'[Sink] = at[Sink] /\ value'[N] = value[N]
      BY <1>5, <1>6, <2>1, <3>2, ChainSizes
    <3> QED
      BY <2>1, <3>1, <3>3 DEF Gone
  <2> QED
    BY <2>2, <2>3
<1>12. (\A i \in 1..Len(obtained) : obtained[i] = i)'
  BY <1>1, ChainParts
<1> QED
  BY <1>4, <1>5, <1>7, <1>8, <1>9, <1>10, <1>11, <1>12, GoodGot, ChainInvFrom

LEMMA UseKeeps ==
  ASSUME GeneratorAssumption, ChainInv, NEW t \in Threads, Use(t)
  PROVE  ChainInv'
<1>1. /\ Top(t, Sink, "use") /\ at[Sink] = "use" /\ symmetric' = symmetric /\ state' = state /\ seen' = seen
      /\ yielded' = yielded /\ value' = value /\ exception' = exception /\ target' = target
      /\ obtained' = Append(obtained, value[N]) /\ ending' \in {ending, "break"}
  BY DEF Use, Top, generatorVars
<1>2. Sink \in Coros /\ N \in Generators /\ N \in Nat /\ 1 \in Generators
  BY ChainSizes
<1>3. PICK l \in {"advance", "operation", "drop"} :
         IF l = "operation" THEN Suspend(t, Sink, l) ELSE Goto(Sink, l)
  BY DEF Use
<1>4. at' = [at EXCEPT ![Sink] = l] /\ l \in ChainPlaces /\ (l \in Suspensions <=> l = "operation") /\ l \in Role(Sink)
  <2>1. l \in Role(Sink)
    BY Roles, ChainSizes
  <2> QED
    BY <1>3, <2>1 DEF Goto, Suspend, ChainPlaces, SinkAt, Suspensions
<1>5. OnStacks(ChainPlaces)'
  <2>1. CASE l = "operation"
    BY <1>1, <1>2, <1>3, <1>4, <2>1, ChainParts, OnSuspend
  <2>2. CASE l # "operation"
    BY <1>1, <1>2, <1>3, <1>4, <2>2, ChainParts, OnGoto
  <2> QED
    BY <2>1, <2>2
<1>6. Placed' /\ at'[Sink] = l /\ \A j \in Coros \ {Sink} : at'[j] = at[j]
  BY <1>2, <1>4, ChainParts, OfOne, OneStands
<1>7. value[N] # End /\ value[N] = Len(obtained) + 1 /\ value[N] \in Nat /\ obtained \in Seq(Nat)
  BY <1>2, GoodUse, OfOne, ChainParts DEF DataTyped
<1>8. /\ obtained' \in Seq(Nat) /\ Len(obtained') = Len(obtained) + 1
      /\ obtained'[Len(obtained) + 1] = Len(obtained) + 1
      /\ \A i \in 1..Len(obtained) : obtained'[i] = obtained[i]
  BY <1>1, <1>7
<1>9. \A i \in 1..Len(obtained') : obtained'[i] = i
  <2>1. \A i \in 1..Len(obtained') : i \in 1..Len(obtained) \/ i = Len(obtained) + 1
    BY <1>7, <1>8
  <2> QED
    BY <1>8, <2>1, ChainParts
<1>10. DataTyped'
  BY <1>1, <1>8, ChainParts DEF DataTyped
<1>11. Dropping'
  <2>1. Dropping /\ target[Sink] = N /\ N < Sink /\ N + 1 = Sink
    BY <1>1, ChainParts, ChainSizes DEF Dropping
  <2>2. ASSUME NEW j \in Coros, at'[j] = "drop"
        PROVE  /\ target[j] \in Generators /\ target[j] < j
               /\ target[j] + 1 = j \/ at'[target[j] + 1] = "destroyed"
    <3>1. CASE j = Sink
      BY <1>2, <2>1, <3>1
    <3>2. CASE j # Sink
      <4>1. /\ target[j] \in Generators /\ target[j] < j
            /\ target[j] + 1 = j \/ at[target[j] + 1] = "destroyed"
        BY <1>6, <2>1, <2>2, <3>2 DEF Dropping
      <4>2. target[j] + 1 \in Coros
        BY <4>1, ChainSizes
      <4> QED
        BY <1>1, <1>6, <4>1, <4>2
    <3> QED
      BY <3>1, <3>2
  <2> QED
    BY <1>1, <2>1, <2>2 DEF Dropping
<1>12. OneGoesOn'
  BY <1>1, <1>2, <1>4, StepOfOne DEF Gone
<1>13. ending' \notin {"end", "exception"}
  BY <1>1, ChainParts DEF Gone
<1>14. (value[1] # End => value[1] = yielded)'
  BY <1>1, ChainParts
<1> QED
  BY <1>5, <1>6, <1>9, <1>10, <1>11, <1>12, <1>13, <1>14, GoodUse, ChainInvFrom

LEMMA BeginChainKeeps ==
  ASSUME GeneratorAssumption, ChainInv, BeginChain
  PROVE  ChainInv'
<1>1. /\ at[Sink] = "created" /\ SameLog /\ symmetric' = symmetric /\ state' = state /\ seen' = seen
      /\ target' = [target EXCEPT ![Sink] = N] /\ ending' = ending
      /\ Sink \in Coros /\ Sink \in Threads /\ N \in Generators /\ N \in Nat /\ N < Sink /\ N + 1 = Sink
  BY ChainSizes DEF BeginChain, generatorVars, logVars, SameLog
<1>2. PICK l \in {"advance", "drop"} : ResumeOn(Sink, Sink, l)
  BY DEF BeginChain
<1>3. /\ at' = [at EXCEPT ![Sink] = l] /\ l \in ChainPlaces \ Suspensions /\ at[Sink] \in Suspensions
      /\ l \in Role(Sink)
  <2>1. l \in Role(Sink)
    BY Roles, ChainSizes
  <2> QED
    BY <1>1, <1>2, <2>1 DEF ResumeOn, ChainPlaces, SinkAt, Suspensions
<1>4. OnStacks(ChainPlaces)'
  BY <1>1, <1>2, <1>3, ChainParts, OnResume
<1>5. Placed' /\ at'[Sink] = l /\ \A j \in Coros \ {Sink} : at'[j] = at[j]
  BY <1>1, <1>3, ChainParts, OfOne, OneStands
<1>6. DataTyped'
  <2>1. target' \in [Coros -> Nat]
    BY <1>1, OfOne
  <2> QED
    BY <1>1, <2>1, ChainParts DEF DataTyped, SameLog
<1>7. Dropping'
  <2>1. Dropping /\ target'[Sink] = N /\ \A j \in Coros \ {Sink} : target'[j] = target[j]
    BY <1>1, ChainParts, OfOne
  <2>2. ASSUME NEW j \in Coros, at'[j] = "drop"
        PROVE  /\ target'[j] \in Generators /\ target'[j] < j
               /\ target'[j] + 1 = j \/ at'[target'[j] + 1] = "destroyed"
    <3>1. CASE j = Sink
      BY <1>1, <2>1, <3>1
    <3>2. CASE j # Sink
      <4>1. target'[j] = target[j] /\ at[j] = "drop"
        BY <1>5, <2>1, <2>2, <3>2
      <4>2. /\ target[j] \in Generators /\ target[j] < j
            /\ target[j] + 1 = j \/ at[target[j] + 1] = "destroyed"
        BY <2>1, <4>1 DEF Dropping
      <4>3. target[j] + 1 \in Coros
        BY <4>2, ChainSizes
      <4> QED
        BY <1>1, <1>5, <4>1, <4>2, <4>3
    <3> QED
      BY <3>1, <3>2
  <2> QED
    BY <2>1, <2>2 DEF Dropping
<1>8. OneGoesOn'
  BY <1>1, <1>3, StepOfOne DEF SameLog, Gone
<1>9. ending \notin {"end", "exception"}
  BY <1>1, ChainParts DEF Gone
<1> QED
  BY <1>1, <1>4, <1>5, <1>6, <1>7, <1>8, <1>9, ChainParts, GoodBeginChain, ChainInvFrom DEF SameLog

LEMMA DestroySelfKeeps ==
  ASSUME GeneratorAssumption, ChainInv, NEW t \in Threads, NEW k \in Generators, DestroySelf(t, k)
  PROVE  ChainInv'
<1>1. /\ Top(t, k, "destroy") /\ at[k] = "destroy" /\ SameLog /\ symmetric' = symmetric /\ state' = state
      /\ seen' = seen /\ ending' = ending /\ k \in Coros /\ k # Sink /\ Sink \in Coros
  BY ChainSizes DEF DestroySelf, Top, generatorVars, logVars, SameLog
<1>2. ~symmetric
  BY <1>1 DEF ChainInv, OneGoesOn
<1>3. PICK l \in {"destroyed", "drop"} :
         /\ IF l = "destroyed" THEN Suspend(t, k, l) /\ target' = target
                               ELSE Goto(k, l) /\ target' = [target EXCEPT ![k] = k - 1]
         /\ l = "drop" => k # 1
         /\ l \in Role(k)
  BY Roles DEF DestroySelf
<1>4. at' = [at EXCEPT ![k] = l] /\ l \in ChainPlaces /\ (l \in Suspensions <=> l = "destroyed")
  BY <1>3 DEF Goto, Suspend, ChainPlaces, SourceAt, SinkAt, Suspensions
<1>5. OnStacks(ChainPlaces)'
  <2>1. CASE l = "destroyed"
    BY <1>1, <1>3, <1>4, <2>1, ChainParts, OnSuspend
  <2>2. CASE l # "destroyed"
    BY <1>1, <1>3, <1>4, <2>2, ChainParts, OnGoto
  <2> QED
    BY <2>1, <2>2
<1>6. Placed' /\ at'[k] = l /\ \A j \in Coros \ {k} : at'[j] = at[j]
  BY <1>1, <1>3, <1>4, ChainParts, OfOne, OneStands
<1>7. l = "drop" => k - 1 \in Generators /\ k - 1 < k /\ (k - 1) + 1 = k /\ k - 1 \in Nat
  BY <1>3, ChainSizes
<1>8. /\ target' \in [Coros -> Nat] /\ (l = "drop" => target'[k] = k - 1)
      /\ \A j \in Coros \ {k} : target'[j] = target[j]
  BY <1>1, <1>3, <1>7, OfOne
<1>9. Dropping'
  <2>1. Dropping
    BY ChainParts
  <2>2. ASSUME NEW j \in Coros, at'[j] = "drop"
        PROVE  /\ target'[j] \in Generators /\ target'[j] < j
               /\ target'[j] + 1 = j \/ at'[target'[j] + 1] = "destroyed"
    <3>1. CASE j = k
      BY <1>3, <1>6, <1>7, <1>8, <2>2, <3>1
    <3>2. CASE j # k
      <4>1. target'[j] = target[j] /\ at[j] = "drop"
        BY <1>6, <1>8, <2>2, <3>2
      <4>2. /\ target[j] \in Generators /\ target[j] < j
            /\ target[j] + 1 = j \/ at[target[j] + 1] = "destroyed"
        BY <2>1, <4>1 DEF Dropping
      <4>3. target[j] + 1 \in Coros
        BY <4>2, ChainSizes
      <4> QED
        BY <1>1, <1>6, <4>1, <4>2, <4>3
    <3> QED
      BY <3>1, <3>2
  <2>3. at'[Sink] \notin {"created", "drop", "done"} => target'[Sink] = N
    BY <1>1, <1>6, <1>8, <2>1 DEF Dropping
  <2> QED
    BY <2>2, <2>3 DEF Dropping
<1>10. DataTyped'
  BY <1>1, <1>8, ChainParts DEF DataTyped, SameLog
<1>11. OneGoesOn'
  BY <1>1, <1>2 DEF OneGoesOn
<1>12. Gone(Sink) => Gone(Sink)'
  BY <1>1, <1>6 DEF Gone
<1> QED
  BY <1>1, <1>5, <1>6, <1>9, <1>10, <1>11, <1>12, ChainParts, GoodDestroySelf, ChainInvFrom DEF SameLog

LEMMA DropKeeps ==
  ASSUME GeneratorAssumption, ChainInv, NEW t \in Threads, NEW k \in Coros \ {1}, Drop(t, k)
  PROVE  ChainInv'
<1> DEFINE g == target[k]
           s == symmetric \/ state[g] = "VRPS"
<1>1. /\ at[k] = "drop" /\ Gone(k) /\ SameLog /\ symmetric' = symmetric /\ seen' = seen
      /\ g \in Generators /\ g < k /\ (g + 1 = k \/ at[g + 1] = "destroyed") /\ Gone(g + 1)
      /\ target' = [target EXCEPT ![k] = g - 1]
      /\ state' = [state EXCEPT ![g] = "cancelled"]
      /\ at'[k] \in (IF k = Sink THEN {"drop", "done"} ELSE {"drop", "destroyed"}) /\ Gone(k)'
      /\ at'[g] = (IF s THEN "destroyed" ELSE at[g])
      /\ \A i \in Coros \ {g, k} : at'[i] = at[i]
      /\ s => at[g] \in {"created", "suspended", "destroyed"}
      /\ symmetric => k = Sink /\ \A j \in Generators : at[j] \in {"created", "suspended", "destroyed"}
  BY DropDoes
<1>2. /\ Top(t, k, "drop") /\ ending' = ending
      /\ IF s /\ g > 1
         THEN at' = [at EXCEPT ![g] = "destroyed"] /\ stack' = stack
         ELSE /\ at' = [i \in Coros |-> IF i = k THEN IF k = Sink THEN "done" ELSE "destroyed"
                                        ELSE IF i = g /\ s THEN "destroyed" ELSE at[i]]
              /\ stack' = [stack EXCEPT ![t] = Tail(@)]
  BY DEF Drop, logVars
<1> HIDE DEF g, s
<1>3. /\ g \in Nat /\ g >= 1 /\ g \in Coros /\ g # Sink /\ g # k /\ g + 1 \in Coros /\ Sink \in Coros /\ k \in Coros
      /\ N \in Generators /\ 1 \in Generators
  BY <1>1, ChainSizes
<1>4. at \in [Coros -> ChainPlaces] /\ target \in [Coros -> Nat] /\ state \in [Generators -> ChainStates]
  BY OfOne
<1>5. OnStacks(ChainPlaces)'
  <2> DEFINE x == IF s THEN "destroyed" ELSE at[g]
             b == [at EXCEPT ![g] = x]
  <2>1. x \in ChainPlaces /\ (at[g] \in Suspensions <=> x \in Suspensions)
    BY <1>1, <1>3, <1>4 DEF Suspensions, ChainPlaces, SourceAt
  <2>2. Scheduled(Threads, Coros, ChainPlaces, Suspensions, stack, b)
    <3> HIDE DEF x
    <3> QED
      BY <1>3, <2>1, ChainParts, Goes DEF OnStacks
  <2>3. CASE s /\ g > 1
    <3>1. at' = b /\ stack' = stack
      BY <1>2, <2>3
    <3> QED
      BY <2>2, <3>1 DEF OnStacks
  <2>4. CASE ~(s /\ g > 1)
    <3> DEFINE last == IF k = Sink THEN "done" ELSE "destroyed"
    <3>1. last \in ChainPlaces /\ last \in Suspensions
      BY DEF ChainPlaces, SourceAt, SinkAt, Suspensions
    <3>2. at' = [b EXCEPT ![k] = last]
      <4>1. at' = [i \in Coros |-> IF i = k THEN last ELSE IF i = g /\ s THEN "destroyed" ELSE at[i]]
        BY <1>2, <2>4
      <4>2. [b EXCEPT ![k] = last]
             = [i \in Coros |-> IF i = k THEN last ELSE IF i = g /\ s THEN "destroyed" ELSE at[i]]
        BY <1>3, <1>4
      <4> QED
        BY <4>1, <4>2
    <3>3. stack' = [stack EXCEPT ![t] = Tail(@)] /\ stack[t] # <<>> /\ Head(stack[t]) = k
      BY <1>2, <2>4 DEF Top
    <3> HIDE DEF last, b
    <3>4. Scheduled(Threads, Coros, ChainPlaces, Suspensions, [stack EXCEPT ![t] = Tail(@)],
                    [b EXCEPT ![Head(stack[t])] = last])
      BY <2>2, <3>1, <3>3, Suspends
    <3> QED
      BY <3>2, <3>3, <3>4 DEF OnStacks
  <2> QED
    BY <2>3, <2>4
<1>6. Placed'
  <2>1. at'[k] \in Role(k)
    BY <1>1, <1>3, Roles, ChainSizes
  <2>2. at'[g] \in Role(g)
    BY <1>1, <1>3, Roles, ChainParts DEF Placed
  <2>3. \A j \in Coros : at'[j] \in Role(j)
    BY <1>1, <2>1, <2>2, ChainParts DEF Placed
  <2>4. Placed' <=> \A j \in Coros : at'[j] \in Role(j)
    BY DEF Placed, Role
  <2> QED
    BY <2>3, <2>4
<1>7. /\ target' \in [Coros -> Nat] /\ target'[k] = g - 1 /\ \A j \in Coros \ {k} : target'[j] = target[j]
      /\ state' \in [Generators -> ChainStates]
  <2>1. g - 1 \in Nat /\ "cancelled" \in ChainStates
    BY <1>3 DEF ChainStates
  <2> QED
    BY <1>1, <1>3, <1>4, <2>1
<1>8. DataTyped'
  BY <1>1, <1>2, <1>7, ChainParts DEF DataTyped, SameLog
<1>9. \A j \in Coros : at[j] = "destroyed" => at'[j] = "destroyed"
  BY <1>1
<1>10. Dropping'
  <2>1. Dropping
    BY ChainParts
  <2>2. ASSUME NEW j \in Coros, at'[j] = "drop"
        PROVE  /\ target'[j] \in Generators /\ target'[j] < j
               /\ target'[j] + 1 = j \/ at'[target'[j] + 1] = "destroyed"
    <3>1. CASE j = k
      <4>1. s /\ g > 1
        <5> SUFFICES ASSUME ~(s /\ g > 1) PROVE at'[k] # "drop"
          BY <2>2, <3>1
        <5> QED
          BY <1>2, <1>3
      <4>2. g - 1 \in Generators /\ g - 1 < k /\ (g - 1) + 1 = g
        BY <1>1, <1>3, <4>1, ChainSizes
      <4> QED
        BY <1>1, <1>7, <3>1, <4>1, <4>2
    <3>2. CASE j # k
      <4>1. target'[j] = target[j] /\ at[j] = "drop"
        BY <1>1, <1>7, <2>2, <3>2
      <4>2. /\ target[j] \in Generators /\ target[j] < j
            /\ target[j] + 1 = j \/ at[target[j] + 1] = "destroyed"
        BY <2>1, <4>1 DEF Dropping
      <4>3. target[j] + 1 \in Coros
        BY <4>2, ChainSizes
      <4> QED
        BY <1>9, <4>1, <4>2, <4>3
    <3> QED
      BY <3>1, <3>2
  <2>3. at'[Sink] \notin {"created", "drop", "done"} => target'[Sink] = N
    BY <1>1, <1>3, <1>7, <2>1 DEF Dropping
  <2> QED
    BY <2>2, <2>3 DEF Dropping
<1>11. Gone(Sink) => Gone(Sink)'
  BY <1>1, <1>3 DEF Gone
<1>12. OneGoesOn'
  <2>1. CASE ~symmetric
    BY <1>1, <2>1 DEF OneGoesOn
  <2>2. CASE symmetric
    <3>1. k = Sink /\ Baton(Sink) /\ OneGoesOn /\ s
      BY <1>1, <2>2, HoldsBaton, ChainParts DEF s
    <3>2. Gone(Sink)'
      BY <1>1, <3>1
    <3>3. Baton(Sink)'
      <4>1. ASSUME NEW j \in Coros, j < Sink
            PROVE  at'[j] \in {"created", "suspended"} \/ (at'[j] = "destroyed" /\ Gone(Sink)')
        <5>1. CASE j = g
          BY <1>1, <3>1, <3>2, <5>1
        <5>2. CASE j # g
          <6>1. at'[j] = at[j]
            BY <1>1, <3>1, <4>1, <5>2, ChainSizes
          <6> QED
            BY <3>1, <3>2, <4>1, <6>1 DEF Baton
        <5> QED
          BY <5>1, <5>2
      <4>2. \A j \in Coros : ~(Sink < j)
        BY ChainSizes
      <4>3. at'[Sink] \in {"drop", "done"}
        BY <1>1, <3>1
      <4> QED
        BY <4>1, <4>2, <4>3 DEF Baton
    <3>4. ASSUME NEW i \in Generators
          PROVE  /\ at'[i] = "created" => at'[i + 1] \in {"created", "advance"} \/ Gone(i + 1)'
                 /\ at'[i] = "destroyed" \/ state'[i] = "cancelled" => Gone(i + 1)'
      <4>1. i \in Coros /\ i + 1 \in Coros /\ i # k
        BY <3>1, ChainSizes
      <4>2. Gone(i + 1) => Gone(i + 1)'
        BY <1>1, <1>3, <4>1 DEF Gone
      <4>3. CASE i = g
        BY <1>1, <4>2, <4>3
      <4>4. CASE i # g
        <5>1. at'[i] = at[i] /\ state'[i] = state[i]
          BY <1>1, <1>4, <4>1, <4>4
        <5>2. /\ at[i] = "created" => at[i + 1] \in {"created", "advance"} \/ Gone(i + 1)
              /\ at[i] = "destroyed" \/ state[i] = "cancelled" => Gone(i + 1)
          BY <2>2, <3>1 DEF OneGoesOn
        <5>3. at'[i + 1] = at[i + 1] \/ Gone(i + 1)'
          BY <1>1, <3>1, <4>1 DEF Gone
        <5> QED
          BY <4>2, <5>1, <5>2, <5>3
      <4> QED
        BY <4>3, <4>4
    <3>5. \A j \in Coros : at'[j] \notin {"advanced", "await", "yielded", "suspend", "destroy"}
      BY <1>1, <2>2, <3>1 DEF OneGoesOn
    <3>6. \A i \in Generators : state'[i] \in {"VRPS", "cancelled"}
      BY <1>1, <1>4, <2>2, <3>1 DEF OneGoesOn
    <3> QED
      BY <1>3, <3>3, <3>4, <3>5, <3>6 DEF OneGoesOn
  <2> QED
    BY <2>1, <2>2
<1> QED
  BY <1>1, <1>2, <1>5, <1>6, <1>8, <1>10, <1>11, <1>12, ChainParts, GoodDrop, ChainInvFrom DEF SameLog

LEMMA ChainInitInv == GeneratorAssumption /\ ChainInit => ChainInv
<1> SUFFICES ASSUME GeneratorAssumption, ChainInit PROVE ChainInv
  OBVIOUS
<1>1. /\ \A k \in Coros : at[k] = "created" /\ seen[k] = "VRPS" /\ target[k] = 0
      /\ \A k \in Generators : state[k] = "VRPS" /\ value[k] = 0 /\ ~exception[k]
      /\ yielded = 0 /\ obtained = <<>> /\ ending = "none" /\ symmetric \in BOOLEAN
      /\ Sink \in Coros /\ N \in Generators /\ 1 \in Generators
  BY ChainSizes DEF ChainInit
<1>2. OnStacks(ChainPlaces)
  <2>1. stack \in [Threads -> Seq(Coros)] /\ \A t \in Threads : stack[t] = <<>> /\ Len(stack[t]) = 0
    BY DEF ChainInit
  <2>2. DOMAIN stack = Threads /\ \A t \in Threads : \A x : ~Has(stack[t], x)
    BY <2>1 DEF Has
  <2>3. OnceInAll(stack) /\ \A c \in Coros : ~OnSome(stack, c)
    BY <2>1, <2>2 DEF OnceInAll, OnSome, Once
  <2>4. at \in [Coros -> ChainPlaces] /\ \A c \in Coros : at[c] \in Suspensions
    BY <1>1 DEF ChainInit, ChainPlaces, SourceAt, Suspensions
  <2> QED
    BY <2>1, <2>3, <2>4 DEF OnStacks, Scheduled
<1>3. ChainTyped
  <2>1. state \in [Generators -> ChainStates] /\ seen \in [Coros -> ChainStates]
    BY DEF ChainInit, ChainStates
  <2>2. /\ value \in [Generators -> Nat \cup {End}] /\ exception \in [Generators -> BOOLEAN]
        /\ target \in [Coros -> Nat] /\ yielded \in Nat
    BY DEF ChainInit
  <2>3. obtained \in Seq(Nat) /\ ending \in {"none", "break", "end", "exception"}
    BY <1>1
  <2> QED
    BY <1>1, <1>2, <2>1, <2>2, <2>3 DEF ChainTyped, SourceAt, SinkAt, MiddleAt
<1>4. Dropping
  BY <1>1 DEF Dropping
<1>5. EndsSettled
  <2>1. ASSUME NEW k \in Generators PROVE at[k] = "created" /\ at[k + 1] = "created" /\ state[k] = "VRPS"
    BY <1>1, ChainSizes
  <2> QED
    BY <2>1 DEF EndsSettled, EndsAgree
<1>6. OneGoesOn
  <2>1. Baton(Sink)
    <3>1. \A j \in Coros : ~(Sink < j)
      BY ChainSizes
    <3> QED
      BY <1>1, <3>1 DEF Baton
  <2>2. \A k \in Generators : at[k] = "created" /\ at[k + 1] = "created" /\ state[k] = "VRPS"
    BY <1>1, ChainSizes
  <2> QED
    BY <1>1, <2>1, <2>2 DEF OneGoesOn
<1>7. ValuesInOrder
  <2>1. ASSUME NEW k \in Generators PROVE Passes(k)
    <3>1. value[k] = 0 /\ End \notin Nat /\ 0 \in Nat /\ yielded = 0 /\ ~exception[k]
      BY <1>1, ChainSizes
    <3>2. value[k] # End
      BY <3>1
    <3>3. at[k] = "created" /\ at[k + 1] = "created" /\ ~Fresh(k)
      BY <1>1, ChainSizes DEF Fresh, Offers, Wants
    <3>4. LastRead(k) = 0
      <4>1. CASE k = N
        BY <1>1, <4>1 DEF LastRead
      <4>2. CASE k # N
        <5>1. k + 1 \in Generators
          BY <4>2, ChainSizes DEF Generators
        <5> QED
          BY <1>1, <4>2, <5>1 DEF LastRead
      <4> QED
        BY <4>1, <4>2
    <3> QED
      BY <3>1, <3>2, <3>3, <3>4 DEF Passes
  <2> QED
    BY <1>1, <2>1 DEF ValuesInOrder
<1> QED
  BY <1>3, <1>4, <1>5, <1>6, <1>7 DEF ChainInv

LEMMA ChainStutters == ASSUME ChainInv, UNCHANGED chainVars PROVE ChainInv'
<1>1. /\ stack' = stack /\ at' = at /\ symmetric' = symmetric /\ state' = state /\ value' = value
      /\ exception' = exception /\ seen' = seen /\ target' = target /\ yielded' = yielded
      /\ obtained' = obtained /\ ending' = ending
  BY DEF chainVars, stackVars, generatorVars, logVars
<1>2. ChainTyped' /\ Dropping'
  BY <1>1 DEF ChainInv, ChainTyped, OnStacks, Dropping
<1>3. EndsSettled' /\ OneGoesOn'
  BY <1>1 DEF ChainInv, EndsSettled, OneGoesOn, EndsAgree, Baton, Makes, Offers, Offered, Rests, Reads,
              Wants, Gone, Asks
<1>4. ASSUME NEW k, Passes(k) PROVE Passes(k)'
  BY <1>1, <1>4 DEF Passes, LastRead, Fresh, AtEnd, Offers, Wants, Gone, Asks
<1>5. ValuesInOrder'
  BY <1>1, <1>4 DEF ChainInv, ValuesInOrder, Gone
<1> QED
  BY <1>2, <1>3, <1>5 DEF ChainInv

LEMMA ChainNextInv == GeneratorAssumption /\ ChainInv /\ [ChainNext]_chainVars => ChainInv'
<1> SUFFICES ASSUME GeneratorAssumption, ChainInv, [ChainNext]_chainVars PROVE ChainInv'
  OBVIOUS
<1>1. ASSUME NEW t \in Threads, RunChain(t) PROVE ChainInv'
  <2>1. CASE Produce(t)
    BY <2>1, ProduceKeeps
  <2>2. CASE Use(t)
    BY <2>2, UseKeeps
  <2>3. ASSUME NEW k \in Generators,
               Yield(t, k) \/ Reload(t, k) \/ TrySuspend(t, k) \/ DestroySelf(t, k)
        PROVE  ChainInv'
    BY <2>3, YieldKeeps, ReloadKeeps, TrySuspendKeeps, DestroySelfKeeps
  <2>4. ASSUME NEW k \in Coros \ {1},
               Advance(t, k) \/ Advanced(t, k) \/ Await(t, k) \/ Got(t, k) \/ Drop(t, k)
        PROVE  ChainInv'
    BY <2>4, AdvanceKeeps, AdvancedKeeps, AwaitKeeps, GotKeeps, DropKeeps
  <2> QED
    BY <1>1, <2>1, <2>2, <2>3, <2>4 DEF RunChain
<1>2. ASSUME NEW k \in {1, Sink}, Operation(k) PROVE ChainInv'
  BY <1>2, OperationKeeps
<1>3. CASE BeginChain
  BY <1>3, BeginChainKeeps
<1>4. CASE UNCHANGED chainVars
  BY <1>4, ChainStutters
<1> QED
  BY <1>1, <1>2, <1>3, <1>4 DEF ChainNext

\* The two ends of every generator of a chain agree on its state and on who of
\* them goes on, whatever the interleaving of producers and consumers and
\* however many generators there are (async_generator.hpp:566-800).
THEOREM ChainIsConsistent == GeneratorAssumption => (ChainSpec => []ChainInv)
<1> SUFFICES ASSUME GeneratorAssumption PROVE ChainSpec => []ChainInv
  OBVIOUS
<1>1. ChainInit => ChainInv
  BY ChainInitInv
<1>2. ChainInv /\ [ChainNext]_chainVars => ChainInv'
  BY ChainNextInv
<1> QED
  BY <1>1, <1>2, PTL DEF ChainSpec

\* No race of a suspension with the other end's look at the state resumes a
\* coroutine that runs, and none goes on past its end
\* (async_generator.hpp:604-700, 743-800).
THEOREM ChainRunsOnce == GeneratorAssumption => (ChainSpec => []EndsRunOnce)
<1> SUFFICES ASSUME GeneratorAssumption PROVE ChainSpec => []EndsRunOnce
  OBVIOUS
<1>1. ChainInv => EndsRunOnce
  <2> SUFFICES ASSUME ChainInv, NEW k \in Coros
               PROVE  /\ Activations(k) = IF at[k] \in Suspensions THEN 0 ELSE 1
                      /\ at[k] # "ranOff"
    BY DEF EndsRunOnce
  <2>1. IsFiniteSet(Coros)
    <3>1. Coros = 1..(N + 1) /\ 1 \in Int /\ N + 1 \in Int
      BY DEF GeneratorAssumption
    <3> QED
      BY <3>1, FS_Interval
  <2>2. Scheduled(Threads, Coros, ChainPlaces, Suspensions, stack, at)
    BY ChainParts DEF OnStacks
  <2> DEFINE P == {p \in Threads \X (1..Cardinality(Coros)) :
                     p[2] <= Len(stack[p[1]]) /\ stack[p[1]][p[2]] = k}
  <2>3. \A p : p \in P <=> /\ p \in Threads \X (1..Cardinality(Coros))
                           /\ p[2] <= Len(stack[p[1]]) /\ stack[p[1]][p[2]] = k
    OBVIOUS
  <2>4. Activations(k) = Cardinality(P)
    BY DEF Activations
  <2> HIDE DEF P
  <2>5. Cardinality(P) = IF at[k] \in Suspensions THEN 0 ELSE 1
    BY <2>1, <2>2, <2>3, RunsOnce
  <2>6. at[k] # "ranOff"
    BY OfOne DEF ChainPlaces, SourceAt, MiddleAt, SinkAt
  <2> QED
    BY <2>4, <2>5, <2>6
<1>2. ChainSpec => []ChainInv
  BY ChainIsConsistent
<1> QED
  BY <1>1, <1>2, PTL

\* The consumer receives what the source yields, each value once and in order,
\* and a loop that came to the end has received all of it, through any number
\* of fmaps, with the exception if there was one
\* (async_generator.hpp:560-591, 702-800, 1064-1086).
THEOREM ChainPassesEachValueOnce == GeneratorAssumption => (ChainSpec => []EachValueOnce)
<1> SUFFICES ASSUME GeneratorAssumption PROVE ChainSpec => []EachValueOnce
  OBVIOUS
<1>1. ChainInv => EachValueOnce
  <2> SUFFICES ASSUME ChainInv PROVE EachValueOnce
    OBVIOUS
  <2>1. /\ Passes(N) /\ yielded \in Nat /\ value[N] \in Nat \cup {End} /\ obtained \in Seq(Nat)
        /\ Len(obtained) \in Nat
    BY ChainSizes, OfOne, ChainParts DEF DataTyped
  <2>2. LastRead(N) = IF at[Sink] = "use" THEN Len(obtained) + 1 ELSE Len(obtained)
    BY DEF LastRead
  <2>3. Len(obtained) <= yielded
    <3>1. CASE value[N] = End
      <4>1. LastRead(N) = yielded
        BY <2>1, <3>1 DEF Passes
      <4> QED
        BY <2>1, <2>2, <4>1
    <3>2. CASE value[N] # End
      <4>1. /\ value[N] <= yielded /\ value[N] \in Nat
            /\ value[N] = LastRead(N) + 1 \/ value[N] = LastRead(N)
        BY <2>1, <3>2 DEF Passes
      <4> QED
        BY <2>1, <2>2, <4>1
    <3> QED
      BY <3>1, <3>2
  <2>4. ASSUME ending \in {"end", "exception"}
        PROVE  Len(obtained) = yielded /\ (ending = "exception" <=> exception[1])
    <3>1. value[N] = End /\ Gone(Sink) /\ (ending = "exception" <=> exception[1])
      BY <2>4, ChainParts
    <3>2. LastRead(N) = yielded
      BY <2>1, <3>1 DEF Passes
    <3> QED
      BY <2>2, <3>1, <3>2 DEF Gone
  <2> QED
    BY <2>3, <2>4, ChainParts DEF EachValueOnce
<1>2. ChainSpec => []ChainInv
  BY ChainIsConsistent
<1> QED
  BY <1>1, <1>2, PTL

\* A producer stays at its yield while its consumer reads the value in place,
\* and its frame is there for as long as the consumer uses the generator
\* (async_generator.hpp:443-591, 1035-1046).
THEOREM ChainKeepsItsFrames == GeneratorAssumption => (ChainSpec => []ProducerStaysWhileUsed)
<1> SUFFICES ASSUME GeneratorAssumption PROVE ChainSpec => []ProducerStaysWhileUsed
  OBVIOUS
<1>1. ChainInv => ProducerStaysWhileUsed
  <2> SUFFICES ASSUME ChainInv, NEW k \in Generators
               PROVE  /\ at[k + 1] \in {"use", "got"} => at[k] \in {"suspended", "yielded", "suspend"}
                      /\ at[k + 1] \in {"advance", "advanced", "await", "suspended", "use", "operation"}
                           => at[k] # "destroyed"
    BY DEF ProducerStaysWhileUsed
  <2>1. k \in Coros /\ k + 1 \in Coros /\ k < k + 1 /\ state[k] \in ChainStates
    BY ChainSizes, OfOne
  <2>2. CASE symmetric
    <3>1. /\ at[k] = "created" => at[k + 1] \in {"created", "advance"} \/ Gone(k + 1)
          /\ at[k] = "destroyed" => Gone(k + 1)
      BY <2>2, ChainParts DEF OneGoesOn
    <3>2. ASSUME at[k + 1] \in {"use", "got"}
          PROVE  at[k] = "suspended"
      <4>1. Baton(k + 1)
        BY <2>1, <2>2, <3>2, HoldsBaton
      <4>2. at[k] \in {"created", "suspended", "destroyed"}
        BY <2>1, <4>1 DEF Baton
      <4> QED
        BY <3>1, <3>2, <4>2 DEF Gone
    <3> QED
      BY <3>1, <3>2 DEF Gone
  <2>3. CASE ~symmetric
    <3>1. EndsAgree(k)
      BY <2>3, OfOne
    <3> QED
      BY <2>1, <3>1 DEF EndsAgree, Makes, Offers, Offered, Rests, Reads, Wants, Gone, ChainStates
  <2> QED
    BY <2>2, <2>3
<1>2. ChainSpec => []ChainInv
  BY ChainIsConsistent
<1> QED
  BY <1>1, <1>2, PTL
=============================================================================
