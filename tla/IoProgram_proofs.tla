-------------------------- MODULE IoProgram_proofs --------------------------
(***************************************************************************)
(* The program over an io_service, for every set of coroutines and of I/O  *)
(* threads, whatever the coroutines await: none is resumed twice, nobody   *)
(* uses a timer or an operation whose coroutine has gone on, a stop        *)
(* reaches every thread in its loop and the timer thread is woken.         *)
(***************************************************************************)
EXTENDS IoProgram, ListLemmas, WellFoundedInduction

ScheduleAt == {"created", "schedule", "push", "suspended", "resumed", "leave", "stop", "wakeUp", "done"}
TimerAt == ScheduleAt \cup {"timer", "register", "flag", "wakeForFlag", "enqueue", "wake", "letGo"}
OperationAt == {"created", "overlapped", "registerOp", "start", "flagStarted", "cancel", "flagAgain",
                "suspended", "resumed", "leave", "stop", "wakeUp", "done"}
LoopAt == {"absent", "out", "check", "reschedule", "repost", "wait", "run", "woken", "exit"}
TimerThreadAt == {"off", "check", "wait", "ended", "cancelled", "scan", "takeNew", "sort", "due",
                  "resume", "schedule", "push"}
CancellerAt == {"idle", "notify", "schedule", "timer", "wake", "overlapped", "cancelIo", "called",
                "ended"}
Plans == {"schedule", "timer", "overlapped"}
Places == TimerAt \cup OperationAt
Packets == {WakeUp} \cup {Resume(c) : c \in Coros} \cup {Done(c, e) : c \in Coros, e \in ErrorCodes}

-----------------------------------------------------------------------------
(* The inductive invariant.                                                *)

Orderly == Scheduled(Threads, Coros, Places, Suspensions, stack, at)

Labels ==
    \A c \in Coros : at[c] \in IF plan[c] = "schedule" THEN ScheduleAt
                               ELSE IF plan[c] = "timer" THEN TimerAt ELSE OperationAt

ServiceValues ==
    /\ port \in Seq(Packets) /\ overflow \in Seq(Coros)
    /\ batch \in [IoThreads -> Seq(Coros)] /\ loop \in [IoThreads -> LoopAt]
    /\ stopRequested \in BOOLEAN /\ activeThreads \in Int /\ workCount \in Int /\ wakes \in Nat

TimerValues ==
    /\ requested \in BOOLEAN /\ registered \subseteq Coros /\ running \subseteq Coros
    /\ refCount \in [Coros -> Int] /\ timer \in TimerThreadAt
    /\ newTimers \in Seq(Coros) /\ ready \in Seq(Coros) /\ queue \subseteq Coros /\ todo \subseteq Coros
    /\ now \in Nat /\ armed \in Nat /\ lastSet \in Nat

OperationValues ==
    /\ opState \in [Coros -> {"notStarted", "started", "cancellationRequested", "completed"}]
    /\ errorCode \in [Coros -> ErrorCodes]
    /\ kernel \in [Coros -> {"idle", "pending", "packet"}]

ProgramValues ==
    /\ plan \in [Coros -> Plans] /\ cancellable \in [Coros -> BOOLEAN] /\ dueTime \in [Coros -> Nat]
    /\ canceller \in CancellerAt

Values == ServiceValues /\ TimerValues /\ OperationValues /\ ProgramValues

\* A coroutine that is posted has one packet, or one place in one list.
In(c) == Has(port, Resume(c)) \/ Has(overflow, c) \/ OnSome(batch, c)

OnePacketEach(s) ==
    \A i, j \in 1..Len(s) : s[i] # WakeUp /\ s[j] # WakeUp /\ s[i][2] = s[j][2] => i = j

\* The timer thread keeps a timer in one of its lists; of the one that it has
\* let go of, it has the coroutine still to schedule.
Keeps(c) == Has(newTimers, c) \/ c \in queue \cup todo \/ Has(ready, c)
Gone(c) == timer \in {"schedule", "push"} /\ ready # <<>> /\ c = Head(ready)

Posted ==
    /\ OnePacketEach(port)
    /\ Once(overflow) /\ OnceInAll(batch)
    /\ \A c \in Coros : /\ ~(Has(port, Resume(c)) /\ (Has(overflow, c) \/ OnSome(batch, c)))
                        /\ ~(Has(overflow, c) /\ OnSome(batch, c))
                        /\ In(c) => at[c] = "suspended" /\ plan[c] # "overlapped" /\ ~Keeps(c)
    /\ \A t \in IoThreads : loop[t] = "repost" => batch[t] # <<>>

Kept ==
    /\ Once(newTimers) /\ Once(ready)
    /\ \A c \in Coros : /\ ~(Has(newTimers, c) /\ (c \in queue \cup todo \/ Has(ready, c)))
                        /\ ~(Has(ready, c) /\ c \in queue \cup todo)
    /\ timer = "scan" => todo \subseteq queue
    /\ timer = "sort" => todo \cap queue = {}
    /\ timer \notin {"scan", "sort"} => todo = {}
    /\ timer \in {"schedule", "push"} => ready # <<>>
    /\ \A c \in Coros :
         /\ Keeps(c) /\ Gone(c) => plan[c] = "timer" /\ at[c] = "suspended"
         /\ Keeps(c) /\ ~Gone(c) => /\ plan[c] = "timer"
                                    /\ \/ at[c] \in {"wake", "letGo"} /\ refCount[c] = 2
                                       \/ at[c] = "suspended" /\ refCount[c] = 1
         /\ at[c] \in {"wake", "letGo"} /\ ~Keeps(c) => refCount[c] = 1
         /\ at[c] \in {"created", "timer", "register", "flag", "wakeForFlag", "enqueue"} => refCount[c] = 2

\* The system holds an operation from its start until its packet is taken.
Operated ==
    /\ \A c \in Coros, e \in ErrorCodes : Has(port, Done(c, e)) => kernel[c] = "packet"
    /\ \A c \in Coros :
         /\ kernel[c] # "idle" =>
              /\ plan[c] = "overlapped"
              /\ \/ at[c] = "suspended" /\ opState[c] = "started"
                 \/ at[c] \in {"flagStarted", "cancel", "flagAgain"}
                    /\ opState[c] \in {"notStarted", "cancellationRequested"}
         /\ at[c] \in {"overlapped", "registerOp", "created"} =>
              opState[c] \in {"notStarted", "cancellationRequested"}
         /\ at[c] = "start" => IF cancellable[c]
                               THEN opState[c] \in {"notStarted", "cancellationRequested"}
                               ELSE opState[c] = "started"

\* A callback is registered or runs only while its coroutine awaits, and that
\* of a timer is there until cancellation is requested.
Finished == {"leave", "stop", "wakeUp", "done"}

Callbacks ==
    /\ \A c \in registered \cup running : at[c] \notin Finished
    /\ canceller = "idle" <=> ~requested
    /\ \A c \in Coros : /\ at[c] \in {"flag", "wakeForFlag"} => requested
                        /\ ~requested /\ cancellable[c] /\ (at[c] = "enqueue" \/ Keeps(c))
                             => c \in registered
    /\ \A c \in queue : cancellable[c] /\ c \notin registered /\ ~(c \in running /\ canceller = "timer")
                          => cancelFlag \/ (timer = "scan" /\ c \in todo)

\* Who has made the list of new timers non-empty wakes the timer thread, and
\* so does who has set the flag.
Awake ==
    /\ newTimers # <<>> => \/ wakeEvent \/ \E c \in Coros : at[c] = "wake"
                           \/ timer \in {"cancelled", "scan", "takeNew"}
    /\ cancelFlag => \/ wakeEvent \/ canceller = "wake" \/ \E c \in Coros : at[c] = "wakeForFlag"
                     \/ timer = "cancelled"
    /\ armed = lastSet
    /\ timer \in {"off", "resume", "schedule", "push", "check", "wait", "ended"} =>
         queue = {} \/ polls \/ \A c \in queue : armed <= dueTime[c]

\* The service is stopped once its work is over, by one thread.
Working == {c \in Coros : at[c] \notin {"created"} \cup (Finished \ {"leave"})}
InLoop == {t \in IoThreads : loop[t] \notin {"out", "absent"}}
ToWait == {t \in IoThreads : loop[t] \in {"reschedule", "repost", "wait"}}
Stopper(c) == at[c] \in {"stop", "wakeUp"}

Stopped ==
    /\ activeThreads = Cardinality(InLoop)
    /\ workCount = Cardinality(Working) + (IF main = "start" THEN 1 ELSE 0)
    /\ workCount # 0 => main \notin {"stop", "wakeUp"} /\ \A c \in Coros : ~Stopper(c)
    /\ \A c, d \in Coros : Stopper(c) /\ Stopper(d) => c = d
    /\ \A c \in Coros : Stopper(c) => main \notin {"stop", "wakeUp"}
    /\ wakes # 0 => main = "wakeUp" \/ \E c \in Coros : at[c] = "wakeUp"
    /\ stopRequested => Cardinality(ToWait) <= Len(port) + wakes
    /\ main \in {"wakeTimer", "joinTimer", "destroyed"} => AllDone /\ AllOut /\ stopRequested

IInv == Orderly /\ Labels /\ Values /\ Posted /\ Kept /\ Operated /\ Callbacks /\ Awake /\ Stopped

-----------------------------------------------------------------------------
(* Numbers and packets.                                                    *)

LEMMA LeastNumber ==
  ASSUME NEW S \in SUBSET Nat, S # {}
  PROVE  \E m \in S : \A n \in S : m <= n
<1>1. PICK m \in S : \A n \in S : ~(<<n, m>> \in OpToRel(<, Nat))
  BY NatLessThanWellFounded, WFMin
<1>2. \A n \in S : ~(n < m)
  BY <1>1 DEF OpToRel
<1> QED
  BY <1>2


PacketsOf(c) == {Resume(c)} \cup {Done(c, e) : e \in ErrorCodes}

LEMMA PacketNames ==
  /\ WakeUp \in Packets
  /\ \A c \in Coros : \A p \in PacketsOf(c) : p \in Packets /\ p # WakeUp /\ p[2] = c
  /\ \A p \in Packets : p # WakeUp => \E c \in Coros : p \in PacketsOf(c)
  /\ \A c, d \in Coros : Resume(c) = Resume(d) => c = d
  /\ \A c, d \in Coros : \A e, f \in ErrorCodes :
       /\ Done(c, e) = Done(d, f) => c = d /\ e = f
       /\ Resume(c) # Done(d, e)
  /\ \A c \in Coros : Resume(c) \in PacketsOf(c) /\ \A e \in ErrorCodes : Done(c, e) \in PacketsOf(c)
<1>1. \A c \in Coros : \A p \in PacketsOf(c) : Len(p) > 1 /\ p[2] = c
  BY DEF PacketsOf, Resume, Done
<1>2. Len(WakeUp) = 1
  BY DEF WakeUp
<1>3. \A c \in Coros : \A p \in PacketsOf(c) : p \in Packets
  BY DEF PacketsOf, Packets
<1>4. \A p \in Packets : p # WakeUp => \E c \in Coros : p \in PacketsOf(c)
  BY DEF PacketsOf, Packets
<1>5. \A c, d \in Coros : \A e, f \in ErrorCodes :
        /\ Done(c, e) = Done(d, f) => c = d /\ e = f
        /\ Resume(c) # Done(d, e)
  BY DEF Done, Resume
<1>6. \A c, d \in Coros : Resume(c) = Resume(d) => c = d
  BY DEF Resume
<1> QED
  BY <1>1, <1>2, <1>3, <1>4, <1>5, <1>6 DEF PacketsOf, Packets

\* A packet comes, and goes.
LEMMA PacketPosted ==
  ASSUME NEW s \in Seq(Packets), OnePacketEach(s), NEW c \in Coros, NEW p \in PacketsOf(c),
         \A q \in PacketsOf(c) : ~Has(s, q)
  PROVE  /\ Append(s, p) \in Seq(Packets) /\ OnePacketEach(Append(s, p))
         /\ Len(Append(s, p)) = Len(s) + 1
         /\ \A q \in Packets : Has(Append(s, p), q) <=> q = p \/ Has(s, q)
<1>1. p \in Packets /\ p # WakeUp /\ p[2] = c
  BY PacketNames
<1>2. \A i \in 1..Len(s) : s[i] \in Packets /\ (s[i] # WakeUp => s[i][2] # c)
  <2> SUFFICES ASSUME NEW i \in 1..Len(s), s[i] # WakeUp PROVE s[i] \in Packets /\ s[i][2] # c
    OBVIOUS
  <2>1. s[i] \in Packets
    OBVIOUS
  <2>2. PICK d \in Coros : s[i] \in PacketsOf(d)
    BY <2>1, PacketNames
  <2>3. s[i][2] = d
    BY <2>2, PacketNames
  <2>4. Has(s, s[i])
    BY DEF Has
  <2> QED
    BY <2>1, <2>2, <2>3, <2>4
<1> DEFINE r == Append(s, p)
<1>3. /\ r \in Seq(Packets) /\ Len(r) = Len(s) + 1 /\ Len(s) \in Nat
      /\ r[Len(s) + 1] = p /\ \A i \in 1..Len(s) : r[i] = s[i]
  BY <1>1, AppendProperties
<1>4. \A i \in 1..Len(r) : i \in 1..Len(s) \/ i = Len(s) + 1
  BY <1>3
<1> HIDE DEF r
<1>5. OnePacketEach(r)
  BY <1>1, <1>2, <1>3, <1>4 DEF OnePacketEach
<1>6. \A q \in Packets : Has(r, q) <=> q = p \/ Has(s, q)
  BY <1>1, AppendHas DEF r
<1> QED
  BY <1>3, <1>5, <1>6 DEF r

LEMMA WakeUpPosted ==
  ASSUME NEW s \in Seq(Packets), OnePacketEach(s)
  PROVE  /\ Append(s, WakeUp) \in Seq(Packets) /\ OnePacketEach(Append(s, WakeUp))
         /\ Len(Append(s, WakeUp)) = Len(s) + 1
         /\ \A q \in Packets : Has(Append(s, WakeUp), q) <=> q = WakeUp \/ Has(s, q)
<1> DEFINE r == Append(s, WakeUp)
<1>1. WakeUp \in Packets
  BY PacketNames
<1>3. /\ r \in Seq(Packets) /\ Len(r) = Len(s) + 1 /\ Len(s) \in Nat
      /\ r[Len(s) + 1] = WakeUp /\ \A i \in 1..Len(s) : r[i] = s[i]
  BY <1>1, AppendProperties
<1>4. \A i \in 1..Len(r) : i \in 1..Len(s) \/ i = Len(s) + 1
  BY <1>3
<1> HIDE DEF r
<1>5. OnePacketEach(r)
  BY <1>3, <1>4 DEF OnePacketEach
<1>6. \A q \in Packets : Has(r, q) <=> q = WakeUp \/ Has(s, q)
  BY <1>1, AppendHas DEF r
<1> QED
  BY <1>3, <1>5, <1>6 DEF r

LEMMA PacketTaken ==
  ASSUME NEW s \in Seq(Packets), OnePacketEach(s), s # <<>>
  PROVE  /\ Tail(s) \in Seq(Packets) /\ OnePacketEach(Tail(s)) /\ Len(Tail(s)) = Len(s) - 1
         /\ Head(s) \in Packets /\ Has(s, Head(s))
         /\ \A q : Has(Tail(s), q) => Has(s, q)
         /\ \A c \in Coros : Head(s) \in PacketsOf(c) => \A q \in PacketsOf(c) : ~Has(Tail(s), q)
<1> DEFINE r == Tail(s)
<1>1. /\ r \in Seq(Packets) /\ Len(r) = Len(s) - 1 /\ Len(s) \in Nat /\ Len(s) > 0
      /\ Head(s) = s[1] /\ \A i \in 1..Len(r) : r[i] = s[i + 1]
  BY HeadTailProperties
<1>2. /\ 1 \in 1..Len(s)
      /\ \A i \in 1..Len(r) : i + 1 \in 1..Len(s) /\ i + 1 # 1
      /\ \A i, j \in 1..Len(r) : i + 1 = j + 1 => i = j
  BY <1>1
<1> HIDE DEF r
<1>3. OnePacketEach(r)
  BY <1>1, <1>2 DEF OnePacketEach
<1>4. Head(s) \in Packets /\ Has(s, Head(s)) /\ \A q : Has(r, q) => Has(s, q)
  BY <1>1, <1>2 DEF Has
<1>5. ASSUME NEW c \in Coros, Head(s) \in PacketsOf(c), NEW q \in PacketsOf(c), Has(r, q)
      PROVE  FALSE
  <2>1. PICK i \in 1..Len(r) : r[i] = q
    BY <1>5 DEF Has
  <2>2. s[1] # WakeUp /\ s[i + 1] # WakeUp /\ s[1][2] = s[i + 1][2]
    BY <1>1, <1>5, <2>1, PacketNames
  <2> QED
    BY <1>2, <2>2 DEF OnePacketEach
<1> QED
  BY <1>1, <1>3, <1>4, <1>5 DEF r

-----------------------------------------------------------------------------
(* Where the coroutines stand.                                             *)

Moves(c, l) == at'[c] = l /\ \A x \in Coros : x # c => at'[x] = at[x]

LEMMA Where ==
  ASSUME Labels, Values, NEW c \in Coros
  PROVE  /\ at[c] \in {"timer", "register", "flag", "wakeForFlag", "enqueue", "wake", "letGo"}
              => plan[c] = "timer"
         /\ at[c] \in {"schedule", "push"} => plan[c] # "overlapped"
         /\ at[c] \in {"overlapped", "registerOp", "start", "flagStarted", "cancel", "flagAgain"}
              => plan[c] = "overlapped"
BY DEF Labels, ScheduleAt, TimerAt, OperationAt, Values, ProgramValues, Plans

LEMMA LabelsKeep ==
  ASSUME Labels, NEW c \in Coros, NEW l, Moves(c, l), plan' = plan,
         l \in IF plan[c] = "schedule" THEN ScheduleAt
               ELSE IF plan[c] = "timer" THEN TimerAt ELSE OperationAt
  PROVE  Labels'
BY DEF Labels, Moves

LEMMA GotoKeeps ==
  ASSUME Orderly, NEW t \in Threads, NEW c \in Coros, NEW k, NEW l \in Places \ Suspensions,
         Top(t, c, k), Goto(c, l)
  PROVE  Orderly' /\ Moves(c, l) /\ at[c] = k
<1>1. at[c] \notin Suspensions
  BY TopRuns DEF Orderly, Top
<1>2. at' = [at EXCEPT ![c] = l] /\ stack' = stack /\ at[c] = k
  BY DEF Goto, Top
<1>3. Scheduled(Threads, Coros, Places, Suspensions, stack, [at EXCEPT ![c] = l])
  BY <1>1, Goes DEF Orderly
<1>4. at \in [Coros -> Places]
  BY DEF Orderly, Scheduled
<1> QED
  BY <1>2, <1>3, <1>4 DEF Orderly, Moves

LEMMA SuspendKeeps ==
  ASSUME Orderly, NEW t \in Threads, NEW c \in Coros, NEW k, NEW l \in Places, l \in Suspensions,
         Top(t, c, k), Suspend(t, c, l)
  PROVE  Orderly' /\ Moves(c, l) /\ at[c] = k
<1>1. stack[t] # <<>> /\ Head(stack[t]) = c /\ at[c] = k
  BY DEF Top
<1>2. at' = [at EXCEPT ![c] = l] /\ stack' = [stack EXCEPT ![t] = Tail(@)]
  BY DEF Suspend
<1>3. Scheduled(Threads, Coros, Places, Suspensions, [stack EXCEPT ![t] = Tail(@)],
                [at EXCEPT ![c] = l])
  BY <1>1, Suspends DEF Orderly
<1>4. at \in [Coros -> Places]
  BY DEF Orderly, Scheduled
<1> QED
  BY <1>1, <1>2, <1>3, <1>4 DEF Orderly, Moves

LEMMA ResumeOnKeeps ==
  ASSUME Orderly, NEW t \in Threads, NEW c \in Coros, NEW l \in Places \ Suspensions,
         at[c] \in Suspensions, ResumeOn(t, c, l)
  PROVE  Orderly' /\ Moves(c, l)
<1>1. stack[t] = <<>> /\ at' = [at EXCEPT ![c] = l] /\ stack' = [stack EXCEPT ![t] = <<c>>]
  BY DEF ResumeOn
<1>2. Scheduled(Threads, Coros, Places, Suspensions, [stack EXCEPT ![t] = <<c>>],
                [at EXCEPT ![c] = l])
  BY <1>1, ResumesOn DEF Orderly
<1>3. at \in [Coros -> Places]
  BY DEF Orderly, Scheduled
<1> QED
  BY <1>1, <1>2, <1>3 DEF Orderly, Moves

LEMMA TopIsNotSuspended ==
  ASSUME Orderly, NEW t \in Threads, NEW c \in Coros, NEW k, Top(t, c, k)
  PROVE  at[c] = k /\ k \notin Suspensions
BY TopRuns DEF Orderly, Top

\* A coroutine that does not wait for it is not posted, and no timer of its is kept.
LEMMA Free ==
  ASSUME Posted, Kept, NEW c \in Coros
  PROVE  /\ at[c] # "suspended" => ~In(c)
         /\ at[c] \notin {"suspended", "wake", "letGo"} => ~Keeps(c)
         /\ plan[c] # "timer" => ~Keeps(c)
         /\ In(c) => ~Keeps(c)
BY DEF Posted, Kept

-----------------------------------------------------------------------------
(* What a step leaves alone.                                               *)

StillOrMoved(c) == \* as far as the timer thread can tell
    \/ at'[c] = at[c]
    \/ /\ ~Keeps(c) /\ at'[c] \notin {"wake", "letGo"}
       /\ at'[c] \in {"created", "timer", "register", "flag", "wakeForFlag", "enqueue"} =>
            at[c] \in {"created", "timer", "register", "flag", "wakeForFlag", "enqueue"}

LEMMA SamePosts ==
  ASSUME Posted, UNCHANGED <<overflow, batch, plan>>,
         port' = port \/ (/\ OnePacketEach(port')
                          /\ \A c \in Coros : Has(port', Resume(c)) => Has(port, Resume(c))),
         \A t \in IoThreads : loop'[t] = "repost" => loop[t] = "repost",
         \A c \in Coros : at[c] = "suspended" => at'[c] = "suspended" \/ ~In(c)',
         \A c \in Coros : Keeps(c)' => Keeps(c) \/ ~In(c)
  PROVE  Posted'
<1>1. \A c \in Coros : In(c)' => In(c)
  BY DEF In
<1>2. \A c \in Coros : In(c)' => at'[c] = "suspended" /\ plan'[c] # "overlapped" /\ ~Keeps(c)'
  BY <1>1 DEF Posted
<1>3. /\ OnePacketEach(port')
      /\ \A c \in Coros : Has(port', Resume(c)) => Has(port, Resume(c))
  BY DEF Posted
<1> QED
  BY <1>2, <1>3 DEF Posted

LEMMA SameKept ==
  ASSUME Kept, UNCHANGED <<newTimers, queue, todo, ready, plan, refCount>>,
         timer' = timer \/ {timer, timer'} \cap {"scan", "sort", "schedule", "push"} = {},
         \A c \in Coros : StillOrMoved(c)
  PROVE  Kept'
<1>1. \A c \in Coros : (Keeps(c)' <=> Keeps(c)) /\ (Gone(c)' <=> Gone(c))
  BY DEF Keeps, Gone
<1>2. \A c \in Coros :
        /\ Keeps(c)' /\ Gone(c)' => plan'[c] = "timer" /\ at'[c] = "suspended"
        /\ Keeps(c)' /\ ~Gone(c)' => /\ plan'[c] = "timer"
                                     /\ \/ at'[c] \in {"wake", "letGo"} /\ refCount'[c] = 2
                                        \/ at'[c] = "suspended" /\ refCount'[c] = 1
        /\ at'[c] \in {"wake", "letGo"} /\ ~Keeps(c)' => refCount'[c] = 1
        /\ at'[c] \in {"created", "timer", "register", "flag", "wakeForFlag", "enqueue"}
             => refCount'[c] = 2
  BY <1>1 DEF Kept, StillOrMoved
<1>3. /\ timer' = "scan" => todo' \subseteq queue'
      /\ timer' = "sort" => todo' \cap queue' = {}
      /\ timer' \notin {"scan", "sort"} => todo' = {}
      /\ timer' \in {"schedule", "push"} => ready' # <<>>
  BY DEF Kept
<1> QED
  BY <1>2, <1>3 DEF Kept

LEMMA SameOperations ==
  ASSUME Operated, UNCHANGED <<kernel, opState, plan, cancellable>>,
         \A c \in Coros, e \in ErrorCodes : Has(port', Done(c, e)) => Has(port, Done(c, e)),
         \A c \in Coros : \/ at'[c] = at[c]
                          \/ /\ kernel[c] = "idle" /\ at'[c] # "start"
                             /\ at'[c] \in {"overlapped", "registerOp", "created"}
                                  => at[c] \in {"overlapped", "registerOp", "created"}
  PROVE  Operated'
<1>1. \A c \in Coros, e \in ErrorCodes : Has(port', Done(c, e)) => kernel'[c] = "packet"
  BY DEF Operated
<1>2. \A c \in Coros :
         /\ kernel'[c] # "idle" =>
              /\ plan'[c] = "overlapped"
              /\ \/ at'[c] = "suspended" /\ opState'[c] = "started"
                 \/ at'[c] \in {"flagStarted", "cancel", "flagAgain"}
                    /\ opState'[c] \in {"notStarted", "cancellationRequested"}
         /\ at'[c] \in {"overlapped", "registerOp", "created"} =>
              opState'[c] \in {"notStarted", "cancellationRequested"}
         /\ at'[c] = "start" => IF cancellable'[c]
                                THEN opState'[c] \in {"notStarted", "cancellationRequested"}
                                ELSE opState'[c] = "started"
  BY DEF Operated
<1> QED
  BY <1>1, <1>2 DEF Operated

LEMMA SameCallbacks ==
  ASSUME Callbacks, UNCHANGED <<requested, registered, running, canceller, cancellable, cancelFlag,
                                queue>>,
         timer = "scan" => timer' = "scan" /\ todo' = todo,
         \A c \in Coros : /\ at'[c] \in Finished \cup {"flag", "wakeForFlag", "enqueue"}
                               => at'[c] = at[c] \/ (at[c] \in Finished /\ at'[c] \in Finished)
                          /\ Keeps(c)' => Keeps(c),
         registered \cup running \subseteq Coros
  PROVE  Callbacks'
<1>1. \A c \in registered' \cup running' : at'[c] \notin Finished
  BY DEF Callbacks
<1>2. canceller' = "idle" <=> ~requested'
  BY DEF Callbacks
<1>3. ASSUME NEW c \in Coros
      PROVE  /\ at'[c] \in {"flag", "wakeForFlag"} => requested'
             /\ ~requested' /\ cancellable'[c] /\ (at'[c] = "enqueue" \/ Keeps(c)') => c \in registered'
  BY DEF Callbacks, Finished
<1>4. \A c \in queue' : cancellable'[c] /\ c \notin registered' /\ ~(c \in running' /\ canceller' = "timer")
                          => cancelFlag' \/ (timer' = "scan" /\ c \in todo')
  BY DEF Callbacks
<1> QED
  BY <1>1, <1>2, <1>3, <1>4 DEF Callbacks

LEMMA SameWakes ==
  ASSUME Awake, UNCHANGED <<newTimers, wakeEvent, cancelFlag, canceller, armed, lastSet, queue, polls,
                            dueTime>>,
         timer' = timer \/ (timer = "off" /\ timer' = "check"),
         \A c \in Coros : at[c] \in {"wake", "wakeForFlag"} => at'[c] = at[c]
  PROVE  Awake'
BY DEF Awake

LEMMA FiniteParts ==
  /\ IsFiniteSet(Working) /\ IsFiniteSet(InLoop) /\ IsFiniteSet(ToWait)
  /\ IsFiniteSet(Working)' /\ IsFiniteSet(InLoop)' /\ IsFiniteSet(ToWait)'
  /\ Cardinality(Working) \in Nat /\ Cardinality(InLoop) \in Nat /\ Cardinality(ToWait) \in Nat
<1>1. IsFiniteSet(Working) /\ IsFiniteSet(InLoop) /\ IsFiniteSet(ToWait)
  BY FiniteAssumption, FS_Subset DEF Working, InLoop, ToWait
<1>2. IsFiniteSet(Working)' /\ IsFiniteSet(InLoop)' /\ IsFiniteSet(ToWait)'
  BY FiniteAssumption, FS_Subset DEF Working, InLoop, ToWait
<1> QED
  BY <1>1, <1>2, FS_CardinalityType

LEMMA SameStop ==
  ASSUME Stopped, UNCHANGED <<activeThreads, workCount, wakes, main>>,
         stopRequested' => stopRequested /\ Cardinality(ToWait') <= Len(port') + wakes',
         main \in {"wakeTimer", "joinTimer", "destroyed"} => stopRequested' = stopRequested,
         \A t \in IoThreads : loop'[t] \in {"out", "absent"} <=> loop[t] \in {"out", "absent"},
         \A c \in Coros : at'[c] = at[c]
                          \/ {at[c], at'[c]} \cap {"created", "stop", "wakeUp", "done"} = {}
  PROVE  Stopped'
<1>1. InLoop' = InLoop
  BY DEF InLoop
<1>2. Working' = Working
  <2>1. \A c \in Coros : c \in Working' <=> c \in Working
    BY DEF Working, Finished
  <2> QED
    BY <2>1 DEF Working
<1>3. \A c \in Coros : /\ at'[c] \in {"stop", "wakeUp"} <=> at[c] \in {"stop", "wakeUp"}
                       /\ at'[c] = "wakeUp" <=> at[c] = "wakeUp"
                       /\ at'[c] = "done" <=> at[c] = "done"
  OBVIOUS
<1>4. AllDone' <=> AllDone
  BY <1>3 DEF AllDone
<1>5. AllOut' <=> AllOut
  BY DEF AllOut
<1>6. \A c \in Coros : Stopper(c)' <=> Stopper(c)
  BY <1>3 DEF Stopper
<1> QED
  BY <1>1, <1>2, <1>3, <1>4, <1>5, <1>6 DEF Stopped

\* ... while no more threads wait, and no packet is taken.
LEMMA SameWaits ==
  ASSUME Stopped, Values, UNCHANGED <<stopRequested, wakes>>, Len(port') \in Nat, Len(port') >= Len(port),
         stopRequested => ToWait' \subseteq ToWait
  PROVE  stopRequested' => stopRequested /\ Cardinality(ToWait') <= Len(port') + wakes'
<1>1. Cardinality(ToWait') \in Nat /\ (stopRequested => Cardinality(ToWait') <= Cardinality(ToWait))
  BY FiniteParts, FS_Subset, FS_CardinalityType
<1>2. Len(port) \in Nat /\ wakes \in Nat
  BY DEF Values, ServiceValues
<1>3. stopRequested => Cardinality(ToWait) <= Len(port) + wakes
  BY DEF Stopped
<1> QED
  BY <1>1, <1>2, <1>3, FiniteParts

-----------------------------------------------------------------------------
(* A coroutine awaits a timer.                                             *)

\* What any step of it leaves alone.
LEMMA TimerAwaitFrame ==
  ASSUME IInv, NEW c \in Coros, NEW l \in TimerAt \ {"created", "stop", "wakeUp", "done"}, Moves(c, l),
         at[c] \in {"timer", "register", "flag", "wakeForFlag", "enqueue", "wake", "letGo"},
         UNCHANGED <<serviceVars, opVars, programVars, cancellable, dueTime>>
  PROVE  /\ Labels' /\ Operated' /\ Stopped'
         /\ ServiceValues' /\ OperationValues' /\ ProgramValues'
         /\ plan[c] = "timer" /\ at'[c] = l /\ \A x \in Coros : x # c => at'[x] = at[x]
<1>1. at'[c] = l /\ \A x \in Coros : x # c => at'[x] = at[x]
  BY DEF Moves
<1>2. plan[c] = "timer"
  BY Where DEF IInv
<1>3. Labels'
  BY <1>2, LabelsKeep DEF IInv, programVars
<1>4. ServiceValues' /\ OperationValues' /\ ProgramValues'
  BY DEF IInv, Values, ServiceValues, OperationValues, ProgramValues, serviceVars, opVars,
     programVars
<1>5. Operated'
  <2>1. kernel[c] = "idle"
    BY <1>2 DEF IInv, Operated
  <2>2. l \notin {"overlapped", "registerOp", "start"}
    BY DEF TimerAt, ScheduleAt
  <2> QED
    BY <1>1, <2>1, <2>2, SameOperations DEF IInv, opVars, programVars, serviceVars
<1>6. Stopped'
  <2>1. ToWait' = ToWait /\ port' = port /\ Len(port) \in Nat
    BY DEF ToWait, serviceVars, IInv, Values, ServiceValues
  <2>2. stopRequested' => stopRequested /\ Cardinality(ToWait') <= Len(port') + wakes'
    BY <2>1, SameWaits DEF IInv, serviceVars
  <2> QED
    BY <1>1, <2>2, SameStop DEF IInv, serviceVars, programVars
<1> QED
  BY <1>1, <1>2, <1>3, <1>4, <1>5, <1>6

LEMMA AwaitTimerKeeps ==
  ASSUME IInv, NEW t \in Threads, NEW c \in Coros, AwaitTimer(t, c), UNCHANGED <<opVars, programVars>>
  PROVE  IInv'
<1>1. PICK l \in {"resumed", "register"} : Orderly' /\ Moves(c, l) /\ at[c] = "timer"
  <2>1. CASE Goto(c, "resumed")
    BY <2>1, GotoKeeps DEF IInv, AwaitTimer, Places, TimerAt, ScheduleAt, Suspensions
  <2>2. CASE Goto(c, "register")
    BY <2>2, GotoKeeps DEF IInv, AwaitTimer, Places, TimerAt, ScheduleAt, Suspensions
  <2> QED
    BY <2>1, <2>2 DEF AwaitTimer
<1>2. /\ UNCHANGED <<serviceVars, tokenVars, now, dueTime, sharedVars, shutDown, armed, lastSet, polls,
                     queue, todo, ready, opVars, programVars>>
      /\ timer' = timer \/ (timer = "off" /\ timer' = "check")
  BY DEF AwaitTimer
<1>3. /\ Labels' /\ Operated' /\ Stopped' /\ ServiceValues' /\ OperationValues' /\ ProgramValues'
      /\ at'[c] = l /\ \A x \in Coros : x # c => at'[x] = at[x]
  BY <1>1, <1>2, TimerAwaitFrame DEF TimerAt, ScheduleAt, tokenVars
<1>4. \A x \in Coros : Keeps(x)' <=> Keeps(x)
  BY <1>2 DEF Keeps, sharedVars
<1>5. ~Keeps(c)
  BY <1>1, Free DEF IInv
<1>6. Values'
  BY <1>2, <1>3 DEF IInv, Values, TimerValues, tokenVars, sharedVars, TimerThreadAt
<1>7. Posted'
  BY <1>1, <1>2, <1>3, <1>4, SamePosts DEF IInv, serviceVars, programVars
<1>8. Kept'
  BY <1>1, <1>2, <1>3, <1>5, SameKept DEF IInv, StillOrMoved, sharedVars, programVars
<1>9. Callbacks'
  BY <1>1, <1>2, <1>3, <1>4, SameCallbacks
     DEF IInv, Values, TimerValues, tokenVars, sharedVars, programVars, Finished
<1>10. Awake'
  BY <1>1, <1>2, <1>3, SameWakes DEF IInv, sharedVars, programVars
<1> QED
  BY <1>1, <1>3, <1>6, <1>7, <1>8, <1>9, <1>10 DEF IInv

LEMMA RegisterTimerKeeps ==
  ASSUME IInv, NEW t \in Threads, NEW c \in Coros, RegisterTimer(t, c),
         UNCHANGED <<opVars, programVars>>
  PROVE  IInv'
<1>1. /\ UNCHANGED <<serviceVars, requested, running, cancellable, now, dueTime, sharedVars, shutDown,
                     threadVars, opVars, programVars>>
      /\ registered' = IF cancellable[c] /\ ~requested THEN registered \cup {c} ELSE registered
  BY DEF RegisterTimer
<1>2. PICK l \in {"flag", "enqueue"} :
        /\ Orderly' /\ Moves(c, l) /\ at[c] = "register"
        /\ l = "flag" <=> cancellable[c] /\ requested
  <2> DEFINE m == IF cancellable[c] /\ requested THEN "flag" ELSE "enqueue"
  <2>1. m \in {"flag", "enqueue"} /\ m \in Places \ Suspensions
    BY DEF Places, TimerAt, ScheduleAt, Suspensions
  <2>2. Orderly' /\ Moves(c, m) /\ at[c] = "register"
    BY <2>1, GotoKeeps DEF IInv, RegisterTimer
  <2> QED
    BY <2>1, <2>2
<1>3. /\ Labels' /\ Operated' /\ Stopped' /\ ServiceValues' /\ OperationValues' /\ ProgramValues'
      /\ at'[c] = l /\ \A x \in Coros : x # c => at'[x] = at[x]
  BY <1>1, <1>2, TimerAwaitFrame DEF TimerAt, ScheduleAt
<1>4. \A x \in Coros : Keeps(x)' <=> Keeps(x)
  BY <1>1 DEF Keeps, sharedVars, threadVars
<1>5. ~Keeps(c)
  BY <1>2, Free DEF IInv
<1>6. Values'
  BY <1>1, <1>3 DEF IInv, Values, TimerValues, sharedVars, threadVars
<1>7. Posted'
  BY <1>1, <1>2, <1>3, <1>4, SamePosts DEF IInv, serviceVars, programVars
<1>8. Kept'
  BY <1>1, <1>2, <1>3, <1>5, SameKept
  DEF IInv, StillOrMoved, sharedVars, threadVars, programVars
<1>9. Callbacks'
  <2>1. /\ registered \subseteq registered' /\ \A x \in registered' : x \in registered \/ x = c
        /\ registered' \subseteq Coros /\ running' \subseteq Coros
    BY <1>1, <1>6 DEF Values, TimerValues
  <2>2. UNCHANGED <<requested, running, canceller, cancellable, cancelFlag, queue, timer, todo>>
    BY <1>1 DEF sharedVars, threadVars, programVars
  <2>3. \A x \in registered' \cup running' : at'[x] \notin Finished
    BY <1>2, <1>3, <2>1, <2>2 DEF IInv, Callbacks, Finished
  <2>4. ASSUME NEW x \in Coros
        PROVE  /\ at'[x] \in {"flag", "wakeForFlag"} => requested
               /\ ~requested /\ cancellable[x] /\ (at'[x] = "enqueue" \/ Keeps(x)') => x \in registered'
    <3>1. CASE x = c
      BY <1>1, <1>2, <1>3, <1>4, <1>5, <3>1
    <3>2. CASE x # c
      BY <1>3, <1>4, <2>1, <3>2 DEF IInv, Callbacks
    <3> QED
      BY <3>1, <3>2
  <2> QED
    BY <2>1, <2>2, <2>3, <2>4 DEF IInv, Callbacks
<1>10. Awake'
  BY <1>1, <1>2, <1>3, SameWakes DEF IInv, sharedVars, threadVars, programVars
<1> QED
  BY <1>2, <1>3, <1>6, <1>7, <1>8, <1>9, <1>10 DEF IInv

LEMMA CallBackInlineKeeps ==
  ASSUME IInv, NEW t \in Threads, NEW c \in Coros, CallBackInline(t, c),
         UNCHANGED <<opVars, programVars>>
  PROVE  IInv'
<1>1. UNCHANGED <<serviceVars, tokenVars, now, dueTime, newTimers, refCount, shutDown, threadVars,
                  opVars, programVars>>
  BY DEF CallBackInline
<1>2. PICK l \in {"wakeForFlag", "enqueue"} :
        /\ Orderly' /\ Moves(c, l) /\ at[c] \in {"flag", "wakeForFlag"}
        /\ \/ at[c] = "flag" /\ cancelFlag' = TRUE /\ wakeEvent' = wakeEvent
              /\ (cancelFlag \/ l = "wakeForFlag")
           \/ at[c] = "wakeForFlag" /\ wakeEvent' = TRUE /\ cancelFlag' = cancelFlag
  <2>1. CASE Top(t, c, "flag")
    <3> DEFINE m == IF cancelFlag THEN "enqueue" ELSE "wakeForFlag"
    <3>1. m \in {"wakeForFlag", "enqueue"} /\ m \in Places \ Suspensions
      BY DEF Places, TimerAt, ScheduleAt, Suspensions
    <3>2. at[c] = "flag"
      BY <2>1 DEF Top
    <3>3. Goto(c, m) /\ cancelFlag' = TRUE /\ wakeEvent' = wakeEvent
      BY <3>2 DEF CallBackInline, Top
    <3>4. Orderly' /\ Moves(c, m)
      BY <2>1, <3>1, <3>3, GotoKeeps DEF IInv
    <3> QED
      BY <3>1, <3>2, <3>3, <3>4
  <2>2. CASE Top(t, c, "wakeForFlag")
    <3>2. at[c] = "wakeForFlag"
      BY <2>2 DEF Top
    <3>3. Goto(c, "enqueue") /\ wakeEvent' = TRUE /\ cancelFlag' = cancelFlag
      BY <3>2 DEF CallBackInline, Top
    <3>4. Orderly' /\ Moves(c, "enqueue")
      BY <2>2, <3>3, GotoKeeps DEF IInv, Places, TimerAt, ScheduleAt, Suspensions
    <3> QED
      BY <3>2, <3>3, <3>4
  <2> QED
    BY <2>1, <2>2 DEF CallBackInline
<1>3. /\ Labels' /\ Operated' /\ Stopped' /\ ServiceValues' /\ OperationValues' /\ ProgramValues'
      /\ at'[c] = l /\ \A x \in Coros : x # c => at'[x] = at[x]
  BY <1>1, <1>2, TimerAwaitFrame DEF TimerAt, ScheduleAt, tokenVars
<1>4. \A x \in Coros : Keeps(x)' <=> Keeps(x)
  BY <1>1 DEF Keeps, threadVars
<1>5. ~Keeps(c) /\ requested
  BY <1>2, Free DEF IInv, Callbacks
<1>6. Values'
  BY <1>1, <1>3 DEF IInv, Values, TimerValues, tokenVars, threadVars
<1>7. Posted'
  BY <1>1, <1>2, <1>3, <1>4, SamePosts DEF IInv, serviceVars, programVars
<1>8. Kept'
  BY <1>1, <1>2, <1>3, <1>5, SameKept DEF IInv, StillOrMoved, threadVars, programVars
<1>9. Callbacks'
  <2>1. UNCHANGED <<requested, registered, running, canceller, cancellable, queue, timer, todo>>
    BY <1>1 DEF tokenVars, threadVars, programVars
  <2>2. \A x \in registered \cup running : at'[x] \notin Finished
    BY <1>2, <1>3 DEF IInv, Callbacks, Finished, Values, TimerValues
  <2>3. cancelFlag => cancelFlag'
    BY <1>2
  <2> QED
    BY <1>5, <2>1, <2>2, <2>3 DEF IInv, Callbacks
<1>10. Awake'
  <2>1. UNCHANGED <<newTimers, canceller, armed, lastSet, queue, polls, dueTime, timer>>
    BY <1>1 DEF threadVars, programVars
  <2>2. \A x \in Coros : at[x] = "wake" => at'[x] = "wake"
    BY <1>2, <1>3
  <2>3. wakeEvent => wakeEvent'
    BY <1>2
  <2>4. newTimers' # <<>> => \/ wakeEvent' \/ \E x \in Coros : at'[x] = "wake"
                             \/ timer' \in {"cancelled", "scan", "takeNew"}
    BY <2>1, <2>2, <2>3 DEF IInv, Awake
  <2>5. cancelFlag' => \/ wakeEvent' \/ canceller' = "wake" \/ \E x \in Coros : at'[x] = "wakeForFlag"
                       \/ timer' = "cancelled"
    <3>1. CASE at[c] = "flag" /\ l = "wakeForFlag"
      BY <1>3, <3>1
    <3>2. CASE at[c] = "flag" /\ l # "wakeForFlag"
      <4>1. cancelFlag /\ \A x \in Coros : at[x] = "wakeForFlag" => at'[x] = "wakeForFlag"
        BY <1>2, <1>3, <3>2
      <4> QED
        BY <2>1, <2>3, <4>1 DEF IInv, Awake
    <3>3. CASE at[c] = "wakeForFlag"
      BY <1>2, <3>3
    <3> QED
      BY <1>2, <3>1, <3>2, <3>3
  <2> QED
    BY <2>1, <2>4, <2>5 DEF IInv, Awake
<1> QED
  BY <1>2, <1>3, <1>6, <1>7, <1>8, <1>9, <1>10 DEF IInv

LEMMA EnqueueKeeps ==
  ASSUME IInv, NEW t \in Threads, NEW c \in Coros, Enqueue(t, c), UNCHANGED <<opVars, programVars>>
  PROVE  IInv'
<1>1. /\ UNCHANGED <<serviceVars, tokenVars, now, dueTime, cancelFlag, wakeEvent, refCount, shutDown,
                     threadVars, opVars, programVars>>
      /\ newTimers' = <<c>> \o newTimers
  BY DEF Enqueue
<1>2. PICK l \in {"wake", "letGo"} :
        /\ Orderly' /\ Moves(c, l) /\ at[c] = "enqueue"
        /\ newTimers = <<>> => l = "wake"
  <2> DEFINE m == IF newTimers = <<>> THEN "wake" ELSE "letGo"
  <2>1. m \in {"wake", "letGo"} /\ m \in Places \ Suspensions
    BY DEF Places, TimerAt, ScheduleAt, Suspensions
  <2>2. Orderly' /\ Moves(c, m) /\ at[c] = "enqueue"
    BY <2>1, GotoKeeps DEF IInv, Enqueue
  <2> QED
    BY <2>1, <2>2
<1>3. /\ Labels' /\ Operated' /\ Stopped' /\ ServiceValues' /\ OperationValues' /\ ProgramValues'
      /\ at'[c] = l /\ (\A x \in Coros : x # c => at'[x] = at[x]) /\ plan[c] = "timer"
  BY <1>1, <1>2, TimerAwaitFrame DEF TimerAt, ScheduleAt, tokenVars
<1>4. ~Keeps(c) /\ ~In(c)
  BY <1>2, Free DEF IInv
<1>5. /\ newTimers' \in Seq(Coros) /\ newTimers' # <<>> /\ Once(newTimers')
      /\ \A x : Has(newTimers', x) <=> x = c \/ Has(newTimers, x)
  <2>1. newTimers \in Seq(Coros) /\ Once(newTimers) /\ ~Has(newTimers, c)
    BY <1>4 DEF IInv, Values, TimerValues, Kept, Keeps
  <2> QED
    BY <1>1, <2>1, PushHas
<1>6. \A x \in Coros : Keeps(x)' <=> x = c \/ Keeps(x)
  BY <1>1, <1>5 DEF Keeps, threadVars
<1>7. Values'
  BY <1>1, <1>3, <1>5 DEF IInv, Values, TimerValues, tokenVars, threadVars
<1>8. Posted'
  BY <1>1, <1>2, <1>3, <1>4, <1>6, SamePosts DEF IInv, serviceVars, programVars
<1>9. Kept'
  <2>1. UNCHANGED <<queue, todo, ready, timer, plan, refCount>>
    BY <1>1 DEF threadVars, programVars
  <2>2. \A x \in Coros : Gone(x)' <=> Gone(x)
    BY <2>1 DEF Gone
  <2>3. ~Gone(c)
    <3>1. timer \in {"schedule", "push"} /\ ready # <<>> => Has(ready, Head(ready))
      BY TailHas DEF IInv, Values, TimerValues, Kept
    <3> QED
      BY <1>4, <3>1 DEF Gone, Keeps
  <2>4. refCount[c] = 2
    BY <1>2 DEF IInv, Kept
  <2>5. ASSUME NEW x \in Coros
        PROVE  /\ Keeps(x)' /\ Gone(x)' => plan[x] = "timer" /\ at'[x] = "suspended"
               /\ Keeps(x)' /\ ~Gone(x)' => /\ plan[x] = "timer"
                                            /\ \/ at'[x] \in {"wake", "letGo"} /\ refCount[x] = 2
                                               \/ at'[x] = "suspended" /\ refCount[x] = 1
               /\ at'[x] \in {"wake", "letGo"} /\ ~Keeps(x)' => refCount[x] = 1
               /\ at'[x] \in {"created", "timer", "register", "flag", "wakeForFlag", "enqueue"}
                    => refCount[x] = 2
    <3>1. CASE x = c
      BY <1>3, <1>6, <2>2, <2>3, <2>4, <3>1
    <3>2. CASE x # c
      BY <1>3, <1>6, <2>2, <3>2 DEF IInv, Kept
    <3> QED
      BY <3>1, <3>2
  <2>6. \A x \in Coros : ~(Has(newTimers', x) /\ (x \in queue \cup todo \/ Has(ready, x)))
    BY <1>4, <1>5 DEF IInv, Kept, Keeps
  <2> QED
    BY <1>5, <2>1, <2>5, <2>6 DEF IInv, Kept
<1>10. Callbacks'
  <2>1. UNCHANGED <<requested, registered, running, canceller, cancellable, cancelFlag, queue, timer,
                    todo>>
    BY <1>1 DEF tokenVars, threadVars, programVars
  <2>2. \A x \in registered \cup running : at'[x] \notin Finished
    BY <1>2, <1>3 DEF IInv, Callbacks, Finished, Values, TimerValues
  <2>3. ASSUME NEW x \in Coros
        PROVE  /\ at'[x] \in {"flag", "wakeForFlag"} => requested
               /\ ~requested /\ cancellable[x] /\ (at'[x] = "enqueue" \/ Keeps(x)') => x \in registered
    BY <1>2, <1>3, <1>6 DEF IInv, Callbacks
  <2> QED
    BY <2>1, <2>2, <2>3 DEF IInv, Callbacks
<1>11. Awake'
  <2>1. UNCHANGED <<cancelFlag, wakeEvent, canceller, armed, lastSet, queue, polls, dueTime, timer>>
    BY <1>1 DEF threadVars, programVars
  <2>2. \A x \in Coros : at[x] \in {"wake", "wakeForFlag"} => at'[x] = at[x]
    BY <1>2, <1>3
  <2>3. \/ wakeEvent \/ (\E x \in Coros : at'[x] = "wake") \/ timer \in {"cancelled", "scan", "takeNew"}
    <3>1. CASE newTimers = <<>>
      BY <1>2, <1>3, <3>1
    <3>2. CASE newTimers # <<>>
      BY <2>2, <3>2 DEF IInv, Awake
    <3> QED
      BY <3>1, <3>2
  <2>4. cancelFlag => \/ wakeEvent \/ canceller = "wake" \/ \E x \in Coros : at'[x] = "wakeForFlag"
                      \/ timer = "cancelled"
    BY <2>2 DEF IInv, Awake
  <2> QED
    BY <2>1, <2>3, <2>4 DEF IInv, Awake
<1> QED
  BY <1>2, <1>3, <1>7, <1>8, <1>9, <1>10, <1>11 DEF IInv

LEMMA WakeTimerThreadKeeps ==
  ASSUME IInv, NEW t \in Threads, NEW c \in Coros, WakeTimerThread(t, c),
         UNCHANGED <<opVars, programVars>>
  PROVE  IInv'
<1>1. /\ UNCHANGED <<serviceVars, tokenVars, now, dueTime, newTimers, cancelFlag, refCount, shutDown,
                     threadVars, opVars, programVars>>
      /\ wakeEvent' = TRUE
  BY DEF WakeTimerThread
<1>2. Orderly' /\ Moves(c, "letGo") /\ at[c] = "wake"
  BY GotoKeeps DEF IInv, WakeTimerThread, Places, TimerAt, ScheduleAt, Suspensions
<1>3. /\ Labels' /\ Operated' /\ Stopped' /\ ServiceValues' /\ OperationValues' /\ ProgramValues'
      /\ at'[c] = "letGo" /\ \A x \in Coros : x # c => at'[x] = at[x]
  BY <1>1, <1>2, TimerAwaitFrame DEF TimerAt, ScheduleAt, tokenVars
<1>4. \A x \in Coros : (Keeps(x)' <=> Keeps(x)) /\ (Gone(x)' <=> Gone(x))
  BY <1>1 DEF Keeps, Gone, threadVars
<1>5. Values'
  BY <1>1, <1>3 DEF IInv, Values, TimerValues, tokenVars, threadVars
<1>6. Posted'
  BY <1>1, <1>2, <1>3, <1>4, SamePosts DEF IInv, serviceVars, programVars
<1>7. Kept'
  <2>1. UNCHANGED <<newTimers, queue, todo, ready, timer, plan, refCount>>
    BY <1>1 DEF threadVars, programVars
  <2>2. ASSUME NEW x \in Coros
        PROVE  /\ Keeps(x)' /\ Gone(x)' => plan[x] = "timer" /\ at'[x] = "suspended"
               /\ Keeps(x)' /\ ~Gone(x)' => /\ plan[x] = "timer"
                                            /\ \/ at'[x] \in {"wake", "letGo"} /\ refCount[x] = 2
                                               \/ at'[x] = "suspended" /\ refCount[x] = 1
               /\ at'[x] \in {"wake", "letGo"} /\ ~Keeps(x)' => refCount[x] = 1
               /\ at'[x] \in {"created", "timer", "register", "flag", "wakeForFlag", "enqueue"}
                    => refCount[x] = 2
    <3>1. CASE x = c
      BY <1>2, <1>3, <1>4, <3>1 DEF IInv, Kept
    <3>2. CASE x # c
      BY <1>3, <1>4, <3>2 DEF IInv, Kept
    <3> QED
      BY <3>1, <3>2
  <2> QED
    BY <2>1, <2>2 DEF IInv, Kept
<1>8. Callbacks'
  BY <1>1, <1>2, <1>3, <1>4, SameCallbacks
     DEF IInv, Values, TimerValues, tokenVars, threadVars, programVars, Finished
<1>9. Awake'
  <2>1. UNCHANGED <<newTimers, cancelFlag, canceller, armed, lastSet, queue, polls, dueTime, timer>>
    BY <1>1 DEF threadVars, programVars
  <2> QED
    BY <1>1, <2>1 DEF IInv, Awake
<1> QED
  BY <1>2, <1>3, <1>5, <1>6, <1>7, <1>8, <1>9 DEF IInv

LEMMA LetGoKeeps ==
  ASSUME IInv, NEW t \in Threads, NEW c \in Coros, LetGo(t, c), UNCHANGED <<opVars, programVars>>
  PROVE  IInv'
<1>1. /\ UNCHANGED <<serviceVars, tokenVars, now, dueTime, newTimers, cancelFlag, wakeEvent, shutDown,
                     threadVars, opVars, programVars>>
      /\ refCount' = [refCount EXCEPT ![c] = @ - 1]
  BY DEF LetGo
<1>2. PICK l \in {"schedule", "suspended"} :
        Orderly' /\ Moves(c, l) /\ at[c] = "letGo" /\ (l = "schedule" <=> refCount[c] = 1)
  <2>1. CASE refCount[c] = 1
    <3>1. Orderly' /\ Moves(c, "schedule") /\ at[c] = "letGo"
      BY <2>1, GotoKeeps DEF IInv, LetGo, Places, TimerAt, ScheduleAt, Suspensions
    <3> QED
      BY <2>1, <3>1
  <2>2. CASE refCount[c] # 1
    <3>1. Orderly' /\ Moves(c, "suspended") /\ at[c] = "letGo"
      BY <2>2, SuspendKeeps DEF IInv, LetGo, Places, TimerAt, ScheduleAt, Suspensions
    <3> QED
      BY <2>2, <3>1
  <2> QED
    BY <2>1, <2>2
<1>3. /\ Labels' /\ Operated' /\ Stopped' /\ ServiceValues' /\ OperationValues' /\ ProgramValues'
      /\ at'[c] = l /\ \A x \in Coros : x # c => at'[x] = at[x]
  BY <1>1, <1>2, TimerAwaitFrame DEF TimerAt, ScheduleAt, tokenVars
<1>4. \A x \in Coros : (Keeps(x)' <=> Keeps(x)) /\ (Gone(x)' <=> Gone(x))
  BY <1>1 DEF Keeps, Gone, threadVars
<1>5. ~In(c)
  BY <1>2, Free DEF IInv
<1>6. /\ refCount' \in [Coros -> Int] /\ refCount'[c] = refCount[c] - 1
      /\ \A x \in Coros : x # c => refCount'[x] = refCount[x]
  BY <1>1 DEF IInv, Values, TimerValues
<1>7. Values'
  BY <1>1, <1>3, <1>6 DEF IInv, Values, TimerValues, tokenVars, threadVars
<1>8. Posted'
  BY <1>1, <1>2, <1>3, <1>4, SamePosts DEF IInv, serviceVars, programVars
<1>9. Kept'
  <2>1. UNCHANGED <<newTimers, queue, todo, ready, timer, plan>>
    BY <1>1 DEF threadVars, programVars
  <2>2. ASSUME NEW x \in Coros
        PROVE  /\ Keeps(x)' /\ Gone(x)' => plan[x] = "timer" /\ at'[x] = "suspended"
               /\ Keeps(x)' /\ ~Gone(x)' => /\ plan[x] = "timer"
                                            /\ \/ at'[x] \in {"wake", "letGo"} /\ refCount'[x] = 2
                                               \/ at'[x] = "suspended" /\ refCount'[x] = 1
               /\ at'[x] \in {"wake", "letGo"} /\ ~Keeps(x)' => refCount'[x] = 1
               /\ at'[x] \in {"created", "timer", "register", "flag", "wakeForFlag", "enqueue"}
                    => refCount'[x] = 2
    <3>1. CASE x = c
      BY <1>2, <1>3, <1>4, <1>6, <3>1 DEF IInv, Kept
    <3>2. CASE x # c
      BY <1>3, <1>4, <1>6, <3>2 DEF IInv, Kept
    <3> QED
      BY <3>1, <3>2
  <2> QED
    BY <2>1, <2>2 DEF IInv, Kept
<1>10. Callbacks'
  BY <1>1, <1>2, <1>3, <1>4, SameCallbacks
     DEF IInv, Values, TimerValues, tokenVars, threadVars, programVars, Finished
<1>11. Awake'
  BY <1>1, <1>2, <1>3, SameWakes DEF IInv, threadVars, programVars
<1> QED
  BY <1>2, <1>3, <1>7, <1>8, <1>9, <1>10, <1>11 DEF IInv

-----------------------------------------------------------------------------
(* A coroutine awaits an operation.                                        *)

\* What any step of it leaves alone.
LEMMA OperationAwaitFrame ==
  ASSUME IInv, NEW c \in Coros, NEW l \in OperationAt \ {"created", "stop", "wakeUp", "done"},
         Moves(c, l), l \notin Finished,
         at[c] \in {"overlapped", "registerOp", "start", "flagStarted", "cancel", "flagAgain"},
         UNCHANGED <<outside, running, programVars>>,
         registered \subseteq registered', registered' \subseteq registered \cup {c},
         port' \in Seq(Packets), Len(port') >= Len(port)
  PROVE  /\ Labels' /\ Kept' /\ Callbacks' /\ Awake' /\ Stopped'
         /\ ServiceValues' /\ TimerValues' /\ ProgramValues'
         /\ plan[c] = "overlapped" /\ at'[c] = l /\ \A x \in Coros : x # c => at'[x] = at[x]
         /\ ~Keeps(c) /\ ~In(c) /\ \A x \in Coros : Keeps(x)' <=> Keeps(x)
<1>1. at'[c] = l /\ \A x \in Coros : x # c => at'[x] = at[x]
  BY DEF Moves
<1>2. plan[c] = "overlapped"
  BY Where DEF IInv
<1>3. ~Keeps(c) /\ ~In(c)
  BY Free DEF IInv
<1>4. Labels'
  BY <1>2, LabelsKeep DEF IInv, programVars
<1>5. registered' \subseteq Coros
  BY DEF IInv, Values, TimerValues
<1>6. ServiceValues' /\ TimerValues' /\ ProgramValues'
  BY <1>5
  DEF IInv, Values, ServiceValues, TimerValues, ProgramValues, outside, countVars, loopVars,
     sharedVars, threadVars, programVars
<1>7. \A x \in Coros : (Keeps(x)' <=> Keeps(x)) /\ (Gone(x)' <=> Gone(x))
  BY DEF Keeps, Gone, outside, sharedVars, threadVars
<1>8. l \notin {"timer", "register", "flag", "wakeForFlag", "enqueue", "wake", "letGo"}
  BY DEF OperationAt
<1>9. Kept'
  BY <1>1, <1>3, <1>8, SameKept
  DEF IInv, StillOrMoved, outside, sharedVars, threadVars, programVars
<1>10. Callbacks'
  <2>1. UNCHANGED <<requested, running, canceller, cancellable, cancelFlag, queue, timer, todo>>
    BY DEF outside, sharedVars, threadVars, programVars
  <2>2. \A x \in registered' \cup running : at'[x] \notin Finished
    BY <1>1 DEF IInv, Callbacks, Values, TimerValues
  <2>3. ASSUME NEW x \in Coros
        PROVE  /\ at'[x] \in {"flag", "wakeForFlag"} => requested
               /\ ~requested /\ cancellable[x] /\ (at'[x] = "enqueue" \/ Keeps(x)') => x \in registered'
    BY <1>1, <1>3, <1>7, <1>8 DEF IInv, Callbacks
  <2> QED
    BY <2>1, <2>2, <2>3 DEF IInv, Callbacks
<1>11. Awake'
  BY <1>1, SameWakes DEF IInv, outside, sharedVars, threadVars, programVars
<1>12. Stopped'
  <2>1. ToWait' = ToWait /\ Len(port') \in Nat /\ UNCHANGED <<stopRequested, wakes>>
    BY DEF ToWait, outside, loopVars, countVars
  <2>2. stopRequested' => stopRequested /\ Cardinality(ToWait') <= Len(port') + wakes'
    BY <2>1, SameWaits DEF IInv
  <2> QED
    BY <1>1, <2>2, SameStop DEF IInv, outside, countVars, loopVars, programVars
<1> QED
  BY <1>1, <1>2, <1>3, <1>4, <1>6, <1>7, <1>9, <1>10, <1>11, <1>12

\* ... and while it posts nothing either.
LEMMA OperationAwaitPosts ==
  ASSUME IInv, NEW c \in Coros, NEW l, Moves(c, l), ~In(c), port' = port,
         UNCHANGED <<outside, programVars>>
  PROVE  Posted' /\ port' \in Seq(Packets) /\ Len(port') >= Len(port)
<1>1. \A x \in Coros : (Keeps(x)' <=> Keeps(x)) /\ (In(x)' <=> In(x))
  BY DEF Keeps, In, outside, loopVars, sharedVars, threadVars
<1>2. port \in Seq(Packets) /\ Len(port) \in Nat
  BY DEF IInv, Values, ServiceValues
<1>3. Posted'
  BY <1>1, SamePosts DEF IInv, Moves, outside, loopVars, programVars
<1> QED
  BY <1>2, <1>3

\* An operation that its coroutine has not handed to the system yet.
LEMMA OperationIsIdle ==
  ASSUME IInv, NEW c \in Coros, at[c] \in {"overlapped", "registerOp", "start"}
  PROVE  kernel[c] = "idle" /\ opState[c] \in {"notStarted", "cancellationRequested", "started"}
BY DEF IInv, Operated

LEMMA AwaitOperationKeeps ==
  ASSUME IInv, NEW t \in Threads, NEW c \in Coros, AwaitOperation(t, c), UNCHANGED programVars
  PROVE  IInv'
<1>1. UNCHANGED <<port, outside, registered, running, errorCode, kernel, programVars>>
  BY DEF AwaitOperation
<1>2. PICK l \in {"resumed", "registerOp"} :
        /\ Orderly' /\ Moves(c, l) /\ at[c] = "overlapped"
        /\ opState' = IF l = "resumed" THEN [opState EXCEPT ![c] = "completed"] ELSE opState
  <2>1. CASE cancellable[c] /\ requested
    <3>1. Orderly' /\ Moves(c, "resumed") /\ at[c] = "overlapped"
      BY <2>1, GotoKeeps DEF IInv, AwaitOperation, Places, OperationAt, Suspensions
    <3> QED
      BY <2>1, <3>1 DEF AwaitOperation
  <2>2. CASE ~(cancellable[c] /\ requested)
    <3>1. Orderly' /\ Moves(c, "registerOp") /\ at[c] = "overlapped"
      BY <2>2, GotoKeeps DEF IInv, AwaitOperation, Places, OperationAt, Suspensions
    <3> QED
      BY <2>2, <3>1 DEF AwaitOperation
  <2> QED
    BY <2>1, <2>2
<1>3. ~In(c) /\ kernel[c] = "idle"
  BY <1>2, Free, OperationIsIdle DEF IInv
<1>4. Posted' /\ port' \in Seq(Packets) /\ Len(port') >= Len(port)
  BY <1>1, <1>2, <1>3, OperationAwaitPosts
<1>5. /\ Labels' /\ Kept' /\ Callbacks' /\ Awake' /\ Stopped'
      /\ ServiceValues' /\ TimerValues' /\ ProgramValues'
      /\ at'[c] = l /\ \A x \in Coros : x # c => at'[x] = at[x]
  BY <1>1, <1>2, <1>4, OperationAwaitFrame DEF OperationAt, Finished
<1>6. OperationValues'
  BY <1>1, <1>2 DEF IInv, Values, OperationValues
<1>7. \A x \in Coros : x # c \/ l = "registerOp" => opState'[x] = opState[x]
  BY <1>2 DEF IInv, Values, OperationValues
<1>8. Operated'
  BY <1>1, <1>2, <1>3, <1>5, <1>7 DEF IInv, Operated, outside, programVars
<1> QED
  BY <1>2, <1>4, <1>5, <1>6, <1>8 DEF IInv, Values

LEMMA RegisterOperationKeeps ==
  ASSUME IInv, NEW t \in Threads, NEW c \in Coros, RegisterOperation(t, c), UNCHANGED programVars
  PROVE  IInv'
<1>1. UNCHANGED <<port, outside, running, errorCode, kernel, programVars>>
  BY DEF RegisterOperation
<1>2. Orderly' /\ Moves(c, "start") /\ at[c] = "registerOp"
  BY GotoKeeps DEF IInv, RegisterOperation, Places, OperationAt, Suspensions
<1>3. ~In(c) /\ kernel[c] = "idle"
  BY <1>2, Free, OperationIsIdle DEF IInv
<1>4. Posted' /\ port' \in Seq(Packets) /\ Len(port') >= Len(port)
  BY <1>1, <1>2, <1>3, OperationAwaitPosts
<1>5. registered \subseteq registered' /\ registered' \subseteq registered \cup {c}
  BY DEF RegisterOperation
<1>6. /\ Labels' /\ Kept' /\ Callbacks' /\ Awake' /\ Stopped'
      /\ ServiceValues' /\ TimerValues' /\ ProgramValues'
      /\ at'[c] = "start" /\ \A x \in Coros : x # c => at'[x] = at[x]
  BY <1>1, <1>2, <1>4, <1>5, OperationAwaitFrame DEF OperationAt, Finished
<1>7. /\ OperationValues' /\ \A x \in Coros : x # c => opState'[x] = opState[x]
      /\ IF cancellable[c] THEN opState'[c] \in {opState[c], "cancellationRequested"}
         ELSE opState'[c] = "started"
  BY <1>1 DEF IInv, Values, OperationValues, RegisterOperation
<1>8. opState[c] \in {"notStarted", "cancellationRequested"}
  BY <1>2 DEF IInv, Operated
<1>9. cancellable' = cancellable /\ plan' = plan
  BY <1>1 DEF outside, programVars
<1>10. Operated'
  BY <1>1, <1>2, <1>3, <1>6, <1>7, <1>8, <1>9 DEF IInv, Operated
<1> QED
  BY <1>2, <1>4, <1>6, <1>7, <1>10 DEF IInv, Values

LEMMA TryStartKeeps ==
  ASSUME IInv, NEW t \in Threads, NEW c \in Coros, TryStart(t, c), UNCHANGED programVars
  PROVE  IInv'
<1>1. UNCHANGED <<port, outside, registered, running, opState, programVars>>
  BY DEF TryStart
<1>2. PICK l \in {"resumed", "flagStarted", "suspended"} :
        /\ Orderly' /\ Moves(c, l) /\ at[c] = "start"
        /\ l # "resumed" => (l = "flagStarted" <=> cancellable[c])
        /\ kernel' = IF l = "resumed" THEN kernel ELSE [kernel EXCEPT ![c] = "pending"]
  <2>1. CASE Goto(c, "resumed") /\ kernel' = kernel
    <3>1. Orderly' /\ Moves(c, "resumed") /\ at[c] = "start"
      BY <2>1, GotoKeeps DEF IInv, TryStart, Places, OperationAt, Suspensions
    <3> QED
      BY <2>1, <3>1
  <2>2. CASE Goto(c, "flagStarted") /\ cancellable[c] /\ kernel' = [kernel EXCEPT ![c] = "pending"]
    <3>1. Orderly' /\ Moves(c, "flagStarted") /\ at[c] = "start"
      BY <2>2, GotoKeeps DEF IInv, TryStart, Places, OperationAt, Suspensions
    <3> QED
      BY <2>2, <3>1
  <2>3. CASE /\ Suspend(t, c, "suspended") /\ ~cancellable[c]
             /\ kernel' = [kernel EXCEPT ![c] = "pending"]
    <3>1. Orderly' /\ Moves(c, "suspended") /\ at[c] = "start"
      BY <2>3, SuspendKeeps DEF IInv, TryStart, Places, OperationAt, Suspensions
    <3> QED
      BY <2>3, <3>1
  <2> QED
    BY <2>1, <2>2, <2>3 DEF TryStart
<1>3. ~In(c) /\ kernel[c] = "idle"
  BY <1>2, Free, OperationIsIdle DEF IInv
<1>4. Posted' /\ port' \in Seq(Packets) /\ Len(port') >= Len(port)
  BY <1>1, <1>2, <1>3, OperationAwaitPosts
<1>5. /\ Labels' /\ Kept' /\ Callbacks' /\ Awake' /\ Stopped'
      /\ ServiceValues' /\ TimerValues' /\ ProgramValues'
      /\ at'[c] = l /\ (\A x \in Coros : x # c => at'[x] = at[x]) /\ plan[c] = "overlapped"
  BY <1>1, <1>2, <1>4, OperationAwaitFrame DEF OperationAt, Finished
<1>6. errorCode' \in [Coros -> ErrorCodes]
  BY DEF TryStart, IInv, Values, OperationValues, ErrorCodes
<1>7. /\ OperationValues' /\ \A x \in Coros : x # c => kernel'[x] = kernel[x]
      /\ kernel'[c] = IF l = "resumed" THEN "idle" ELSE "pending"
  BY <1>1, <1>2, <1>3, <1>6 DEF IInv, Values, OperationValues
<1>8. IF cancellable[c] THEN opState[c] \in {"notStarted", "cancellationRequested"}
      ELSE opState[c] = "started"
  BY <1>2 DEF IInv, Operated
<1>9. cancellable' = cancellable /\ plan' = plan
  BY <1>1 DEF outside, programVars
<1>10. Operated'
  <2>1. ASSUME NEW x \in Coros, NEW e \in ErrorCodes, Has(port', Done(x, e))
        PROVE  kernel'[x] = "packet"
    <3>1. kernel[x] = "packet"
      BY <1>1, <2>1 DEF IInv, Operated
    <3> QED
      BY <1>3, <1>7, <3>1
  <2>2. ASSUME NEW x \in Coros
        PROVE  /\ kernel'[x] # "idle" =>
                    /\ plan[x] = "overlapped"
                    /\ \/ at'[x] = "suspended" /\ opState[x] = "started"
                       \/ at'[x] \in {"flagStarted", "cancel", "flagAgain"}
                          /\ opState[x] \in {"notStarted", "cancellationRequested"}
               /\ at'[x] \in {"overlapped", "registerOp", "created"} =>
                    opState[x] \in {"notStarted", "cancellationRequested"}
               /\ at'[x] = "start" => IF cancellable[x]
                                      THEN opState[x] \in {"notStarted", "cancellationRequested"}
                                      ELSE opState[x] = "started"
    <3>1. CASE x = c
      BY <1>2, <1>5, <1>7, <1>8, <3>1
    <3>2. CASE x # c
      BY <1>5, <1>7, <3>2 DEF IInv, Operated
    <3> QED
      BY <3>1, <3>2
  <2> QED
    BY <1>1, <1>9, <2>1, <2>2 DEF Operated
<1> QED
  BY <1>2, <1>4, <1>5, <1>7, <1>10 DEF IInv, Values

LEMMA FlagStartedKeeps ==
  ASSUME IInv, NEW t \in Threads, NEW c \in Coros, FlagStarted(t, c) \/ FlagAgain(t, c),
         UNCHANGED programVars
  PROVE  IInv'
<1>1. UNCHANGED <<port, outside, registered, running, errorCode, kernel, programVars>>
  BY DEF FlagStarted, FlagAgain
<1>2. PICK l \in {"suspended", "cancel", "resumed"} :
        /\ Orderly' /\ Moves(c, l) /\ at[c] \in {"flagStarted", "flagAgain"}
        /\ opState' = IF l = "suspended" THEN [opState EXCEPT ![c] = "started"] ELSE opState
        /\ l = "cancel" => opState[c] = "cancellationRequested"
        /\ l = "resumed" => opState[c] = "completed"
  <2>1. PICK k \in {"flagStarted", "flagAgain"} : Top(t, c, k)
    BY DEF FlagStarted, FlagAgain
  <2>2. at[c] = k
    BY <2>1 DEF Top
  <2>3. CASE Suspend(t, c, "suspended") /\ opState' = [opState EXCEPT ![c] = "started"]
    <3>1. Orderly' /\ Moves(c, "suspended")
      BY <2>1, <2>3, SuspendKeeps DEF IInv, Places, OperationAt, Suspensions
    <3> QED
      BY <2>2, <2>3, <3>1
  <2>4. CASE Goto(c, "cancel") /\ opState' = opState /\ opState[c] = "cancellationRequested"
    <3>1. Orderly' /\ Moves(c, "cancel")
      BY <2>1, <2>4, GotoKeeps DEF IInv, Places, OperationAt, Suspensions
    <3> QED
      BY <2>2, <2>4, <3>1
  <2>5. CASE Goto(c, "resumed") /\ opState' = opState /\ opState[c] = "completed"
    <3>1. Orderly' /\ Moves(c, "resumed")
      BY <2>1, <2>5, GotoKeeps DEF IInv, Places, OperationAt, Suspensions
    <3> QED
      BY <2>2, <2>5, <3>1
  <2> QED
    BY <2>3, <2>4, <2>5 DEF FlagStarted, FlagAgain
<1>3. ~In(c)
  BY <1>2, Free DEF IInv
<1>4. Posted' /\ port' \in Seq(Packets) /\ Len(port') >= Len(port)
  BY <1>1, <1>2, <1>3, OperationAwaitPosts
<1>5. /\ Labels' /\ Kept' /\ Callbacks' /\ Awake' /\ Stopped'
      /\ ServiceValues' /\ TimerValues' /\ ProgramValues'
      /\ at'[c] = l /\ (\A x \in Coros : x # c => at'[x] = at[x])
  BY <1>1, <1>2, <1>4, OperationAwaitFrame DEF OperationAt, Finished
<1>6. /\ OperationValues' /\ \A x \in Coros : x # c => opState'[x] = opState[x]
      /\ opState'[c] = IF l = "suspended" THEN "started" ELSE opState[c]
  BY <1>1, <1>2 DEF IInv, Values, OperationValues
<1>7. cancellable' = cancellable /\ plan' = plan
  BY <1>1 DEF outside, programVars
<1>8. Operated'
  <2>1. ASSUME NEW x \in Coros
        PROVE  /\ kernel[x] # "idle" =>
                    /\ plan[x] = "overlapped"
                    /\ \/ at'[x] = "suspended" /\ opState'[x] = "started"
                       \/ at'[x] \in {"flagStarted", "cancel", "flagAgain"}
                          /\ opState'[x] \in {"notStarted", "cancellationRequested"}
               /\ at'[x] \in {"overlapped", "registerOp", "created"} =>
                    opState'[x] \in {"notStarted", "cancellationRequested"}
               /\ at'[x] = "start" => IF cancellable[x]
                                      THEN opState'[x] \in {"notStarted", "cancellationRequested"}
                                      ELSE opState'[x] = "started"
    <3>1. CASE x = c
      BY <1>2, <1>5, <1>6, <3>1 DEF IInv, Operated
    <3>2. CASE x # c
      BY <1>5, <1>6, <3>2 DEF IInv, Operated
    <3> QED
      BY <3>1, <3>2
  <2> QED
    BY <1>1, <1>7, <2>1 DEF IInv, Operated
<1> QED
  BY <1>2, <1>4, <1>5, <1>6, <1>8 DEF IInv, Values

\* An operation completes, in time or by CancelIoEx.
LEMMA Completes ==
  ASSUME IInv, NEW c \in Coros, NEW e \in ErrorCodes, kernel[c] = "pending",
         port' = Append(port, Done(c, e)), kernel' = [kernel EXCEPT ![c] = "packet"]
  PROVE  /\ port' \in Seq(Packets) /\ Len(port') = Len(port) + 1 /\ OnePacketEach(port')
         /\ \A x \in Coros : Has(port', Resume(x)) => Has(port, Resume(x))
         /\ \A x \in Coros, f \in ErrorCodes : Has(port', Done(x, f)) => kernel'[x] = "packet"
         /\ kernel' \in [Coros -> {"idle", "pending", "packet"}] /\ kernel'[c] = "packet"
         /\ \A x \in Coros : x # c => kernel'[x] = kernel[x]
<1>1. port \in Seq(Packets) /\ OnePacketEach(port) /\ Done(c, e) \in PacketsOf(c)
  BY PacketNames DEF IInv, Values, ServiceValues, Posted
<1>2. plan[c] = "overlapped"
  BY DEF IInv, Operated
<1>3. \A q \in PacketsOf(c) : ~Has(port, q)
  <2>1. ~Has(port, Resume(c))
    BY <1>2 DEF IInv, Posted, In
  <2>2. \A f \in ErrorCodes : ~Has(port, Done(c, f))
    BY DEF IInv, Operated
  <2> QED
    BY <2>1, <2>2 DEF PacketsOf
<1>4. /\ port' \in Seq(Packets) /\ OnePacketEach(port') /\ Len(port') = Len(port) + 1
      /\ \A q \in Packets : Has(port', q) <=> q = Done(c, e) \/ Has(port, q)
  BY <1>1, <1>3, PacketPosted
<1>5. /\ kernel' \in [Coros -> {"idle", "pending", "packet"}] /\ kernel'[c] = "packet"
      /\ \A x \in Coros : x # c => kernel'[x] = kernel[x]
  BY DEF IInv, Values, OperationValues
<1>6. \A x \in Coros : Resume(x) \in Packets /\ Resume(x) # Done(c, e)
  BY PacketNames
<1>7. ASSUME NEW x \in Coros, NEW f \in ErrorCodes, Has(port', Done(x, f))
      PROVE  kernel'[x] = "packet"
  <2>1. Done(x, f) \in Packets /\ (Done(x, f) = Done(c, e) => x = c)
    BY PacketNames
  <2>2. x = c \/ Has(port, Done(x, f))
    BY <1>4, <1>7, <2>1
  <2>3. Has(port, Done(x, f)) => kernel[x] = "packet"
    BY DEF IInv, Operated
  <2> QED
    BY <1>5, <2>2, <2>3
<1> QED
  BY <1>4, <1>5, <1>6, <1>7

LEMMA CancelsIo ==
  ASSUME IInv, NEW c \in Coros, CancelIo(c)
  PROVE  /\ port' \in Seq(Packets) /\ Len(port') >= Len(port) /\ OnePacketEach(port')
         /\ \A x \in Coros : Has(port', Resume(x)) => Has(port, Resume(x))
         /\ \A x \in Coros, f \in ErrorCodes : Has(port', Done(x, f)) => kernel'[x] = "packet"
         /\ kernel' \in [Coros -> {"idle", "pending", "packet"}]
         /\ \A x \in Coros : kernel'[x] = "idle" <=> kernel[x] = "idle"
<1>1. /\ port \in Seq(Packets) /\ Len(port) \in Nat /\ OnePacketEach(port)
      /\ kernel \in [Coros -> {"idle", "pending", "packet"}]
  BY DEF IInv, Values, ServiceValues, OperationValues, Posted
<1>2. CASE kernel[c] = "pending"
  <2>1. port' = Append(port, Done(c, "aborted")) /\ kernel' = [kernel EXCEPT ![c] = "packet"]
    BY <1>2 DEF CancelIo
  <2>2. /\ port' \in Seq(Packets) /\ Len(port') = Len(port) + 1 /\ OnePacketEach(port')
        /\ \A x \in Coros : Has(port', Resume(x)) => Has(port, Resume(x))
        /\ \A x \in Coros, f \in ErrorCodes : Has(port', Done(x, f)) => kernel'[x] = "packet"
        /\ kernel' \in [Coros -> {"idle", "pending", "packet"}] /\ kernel'[c] = "packet"
        /\ \A x \in Coros : x # c => kernel'[x] = kernel[x]
    <3>1. "aborted" \in ErrorCodes
      BY DEF ErrorCodes
    <3> QED
      BY <1>2, <2>1, <3>1, Completes
  <2> QED
    BY <1>1, <1>2, <2>2
<1>3. CASE kernel[c] # "pending"
  <2>1. port' = port /\ kernel' = kernel
    BY <1>3 DEF CancelIo
  <2> QED
    BY <1>1, <2>1 DEF IInv, Operated
<1> QED
  BY <1>2, <1>3

LEMMA CancelKeeps ==
  ASSUME IInv, NEW t \in Threads, NEW c \in Coros, Cancel(t, c), UNCHANGED programVars
  PROVE  IInv'
<1>1. UNCHANGED <<outside, registered, running, opState, errorCode, programVars>> /\ CancelIo(c)
  BY DEF Cancel
<1>2. Orderly' /\ Moves(c, "flagAgain") /\ at[c] = "cancel"
  BY GotoKeeps DEF IInv, Cancel, Places, OperationAt, Suspensions
<1>3. /\ port' \in Seq(Packets) /\ Len(port') >= Len(port) /\ OnePacketEach(port')
      /\ \A x \in Coros : Has(port', Resume(x)) => Has(port, Resume(x))
      /\ \A x \in Coros, f \in ErrorCodes : Has(port', Done(x, f)) => kernel'[x] = "packet"
      /\ kernel' \in [Coros -> {"idle", "pending", "packet"}]
      /\ \A x \in Coros : kernel'[x] = "idle" <=> kernel[x] = "idle"
  BY <1>1, CancelsIo
<1>4. /\ Labels' /\ Kept' /\ Callbacks' /\ Awake' /\ Stopped'
      /\ ServiceValues' /\ TimerValues' /\ ProgramValues'
      /\ at'[c] = "flagAgain" /\ (\A x \in Coros : x # c => at'[x] = at[x])
      /\ ~In(c) /\ \A x \in Coros : Keeps(x)' <=> Keeps(x)
  BY <1>1, <1>2, <1>3, OperationAwaitFrame DEF OperationAt, Finished
<1>5. Posted'
  <2>1. UNCHANGED <<overflow, batch, loop, plan>>
    BY <1>1 DEF outside, loopVars, programVars
  <2>2. ~In(c)'
    BY <1>3, <1>4, <2>1 DEF In
  <2> QED
    BY <1>2, <1>3, <1>4, <2>1, <2>2, SamePosts DEF IInv
<1>6. OperationValues'
  BY <1>1, <1>3 DEF IInv, Values, OperationValues
<1>7. cancellable' = cancellable /\ plan' = plan
  BY <1>1 DEF outside, programVars
<1>8. Operated'
  BY <1>1, <1>2, <1>3, <1>4, <1>7 DEF IInv, Operated
<1> QED
  BY <1>2, <1>4, <1>5, <1>6, <1>8 DEF IInv, Values

-----------------------------------------------------------------------------
(* A coroutine is scheduled, and goes on.                                  *)

LEMMA PostsResume ==
  ASSUME IInv, NEW c \in Coros, ~Has(port, Resume(c)), plan[c] # "overlapped",
         port' = Append(port, Resume(c))
  PROVE  /\ port' \in Seq(Packets) /\ Len(port') = Len(port) + 1 /\ OnePacketEach(port')
         /\ \A x \in Coros : Has(port', Resume(x)) <=> x = c \/ Has(port, Resume(x))
         /\ \A x \in Coros, f \in ErrorCodes : Has(port', Done(x, f)) => Has(port, Done(x, f))
<1>1. port \in Seq(Packets) /\ OnePacketEach(port) /\ Resume(c) \in PacketsOf(c)
  BY PacketNames DEF IInv, Values, ServiceValues, Posted
<1>2. \A q \in PacketsOf(c) : ~Has(port, q)
  <2>1. \A f \in ErrorCodes : ~Has(port, Done(c, f))
    BY DEF IInv, Operated
  <2> QED
    BY <2>1 DEF PacketsOf
<1>3. /\ port' \in Seq(Packets) /\ OnePacketEach(port') /\ Len(port') = Len(port) + 1
      /\ \A q \in Packets : Has(port', q) <=> q = Resume(c) \/ Has(port, q)
  BY <1>1, <1>2, PacketPosted
<1>4. \A x \in Coros : Resume(x) \in Packets /\ (Resume(x) = Resume(c) <=> x = c)
  BY PacketNames
<1>5. \A x \in Coros, f \in ErrorCodes : Done(x, f) \in Packets /\ Done(x, f) # Resume(c)
  BY PacketNames
<1> QED
  BY <1>3, <1>4, <1>5

\* What schedule_impl leaves alone.
LEMMA ScheduleFrame ==
  ASSUME IInv, NEW c \in Coros, NEW l \in {"push", "suspended"}, Moves(c, l),
         at[c] \in {"schedule", "push"},
         UNCHANGED <<countVars, loopVars, timerVars, opVars, programVars>>,
         port' \in Seq(Packets), Len(port') >= Len(port), overflow' \in Seq(Coros),
         \A x \in Coros, f \in ErrorCodes : Has(port', Done(x, f)) => Has(port, Done(x, f))
  PROVE  /\ Labels' /\ Values' /\ Kept' /\ Operated' /\ Callbacks' /\ Awake' /\ Stopped'
         /\ ~Keeps(c) /\ ~In(c) /\ plan[c] # "overlapped"
         /\ at'[c] = l /\ (\A x \in Coros : x # c => at'[x] = at[x])
         /\ \A x \in Coros : Keeps(x)' <=> Keeps(x)
<1>1. at'[c] = l /\ \A x \in Coros : x # c => at'[x] = at[x]
  BY DEF Moves
<1>2. plan[c] # "overlapped" /\ ~In(c) /\ ~Keeps(c)
  BY Where, Free DEF IInv
<1>3. \A x \in Coros : Keeps(x)' <=> Keeps(x)
  BY DEF Keeps, timerVars, sharedVars, threadVars
<1>4. Labels'
  <2>1. plan[c] \in {"schedule", "timer"}
    BY <1>2 DEF IInv, Values, ProgramValues, Plans
  <2> QED
    BY <2>1, LabelsKeep DEF IInv, ScheduleAt, TimerAt, programVars
<1>5. Values'
  BY DEF IInv, Values, ServiceValues, TimerValues, OperationValues, ProgramValues, countVars,
     loopVars,
     timerVars, tokenVars, sharedVars, threadVars, opVars, programVars
<1>6. Kept'
  BY <1>1, <1>2, SameKept DEF IInv, StillOrMoved, timerVars, sharedVars, threadVars, programVars
<1>7. Operated'
  <2>1. kernel[c] = "idle"
    BY <1>2 DEF IInv, Operated
  <2> QED
    BY <1>1, <2>1, SameOperations DEF IInv, opVars, programVars, timerVars, tokenVars
<1>8. Callbacks'
  BY <1>1, <1>3, SameCallbacks DEF IInv, Values, TimerValues, timerVars, tokenVars, sharedVars,
     threadVars, programVars, Finished
<1>9. Awake'
  BY <1>1, SameWakes DEF IInv, timerVars, sharedVars, threadVars, programVars
<1>10. Stopped'
  <2>1. ToWait' = ToWait /\ Len(port') \in Nat /\ UNCHANGED <<stopRequested, wakes>>
    BY DEF ToWait, loopVars, countVars
  <2>2. stopRequested' => stopRequested /\ Cardinality(ToWait') <= Len(port') + wakes'
    BY <2>1, SameWaits DEF IInv
  <2> QED
    BY <1>1, <2>2, SameStop DEF IInv, countVars, loopVars, programVars
<1> QED
  BY <1>1, <1>2, <1>3, <1>4, <1>5, <1>6, <1>7, <1>8, <1>9, <1>10

LEMMA SchedulePostKeeps ==
  ASSUME IInv, NEW t \in Threads, NEW c \in Coros, SchedulePost(t, c),
         UNCHANGED <<timerVars, opVars, programVars>>
  PROVE  IInv'
<1>1. UNCHANGED <<countVars, loopVars, overflow, timerVars, opVars, programVars>>
  BY DEF SchedulePost
<1>2. at[c] = "schedule" /\ port \in Seq(Packets) /\ Len(port) \in Nat /\ overflow \in Seq(Coros)
  BY DEF SchedulePost, Top, IInv, Values, ServiceValues
<1>3. CASE Refuses
  <2>1. Goto(c, "push") /\ port' = port
    BY <1>3 DEF SchedulePost
  <2>2. Orderly' /\ Moves(c, "push")
    BY <2>1, GotoKeeps DEF IInv, SchedulePost, Places, TimerAt, ScheduleAt, Suspensions
  <2>3. /\ Labels' /\ Values' /\ Kept' /\ Operated' /\ Callbacks' /\ Awake' /\ Stopped'
        /\ ~Keeps(c) /\ ~In(c) /\ \A x \in Coros : Keeps(x)' <=> Keeps(x)
    BY <1>1, <1>2, <2>1, <2>2, ScheduleFrame
  <2>4. Posted'
    BY <1>1, <1>2, <2>1, <2>2, <2>3, SamePosts DEF IInv, Moves, loopVars, programVars
  <2> QED
    BY <2>2, <2>3, <2>4 DEF IInv
<1>4. CASE ~Refuses
  <2>1. Suspend(t, c, "suspended") /\ port' = Append(port, Resume(c))
    BY <1>4 DEF SchedulePost
  <2>2. Orderly' /\ Moves(c, "suspended")
    BY <2>1, SuspendKeeps DEF IInv, SchedulePost, Places, TimerAt, ScheduleAt, Suspensions
  <2>3. plan[c] # "overlapped" /\ ~In(c)
    BY <1>2, Where, Free DEF IInv
  <2>4. /\ port' \in Seq(Packets) /\ Len(port') = Len(port) + 1 /\ OnePacketEach(port')
        /\ \A x \in Coros : Has(port', Resume(x)) <=> x = c \/ Has(port, Resume(x))
        /\ \A x \in Coros, f \in ErrorCodes : Has(port', Done(x, f)) => Has(port, Done(x, f))
    BY <2>1, <2>3, PostsResume DEF In
  <2>5. /\ Labels' /\ Values' /\ Kept' /\ Operated' /\ Callbacks' /\ Awake' /\ Stopped'
        /\ ~Keeps(c) /\ at'[c] = "suspended" /\ (\A x \in Coros : x # c => at'[x] = at[x])
        /\ \A x \in Coros : Keeps(x)' <=> Keeps(x)
    BY <1>1, <1>2, <2>2, <2>4, ScheduleFrame
  <2>6. UNCHANGED <<overflow, batch, loop, plan>>
    BY <1>1 DEF loopVars, programVars
  <2>7. \A x \in Coros : In(x)' <=> x = c \/ In(x)
    BY <2>4, <2>6 DEF In
  <2>8. Posted'
    <3>1. \A x \in Coros : In(x)' => at'[x] = "suspended" /\ plan[x] # "overlapped" /\ ~Keeps(x)'
      BY <2>3, <2>5, <2>7 DEF IInv, Posted
    <3>2. \A x \in Coros : ~(Has(port', Resume(x)) /\ (Has(overflow, x) \/ OnSome(batch, x)))
      BY <2>3, <2>4 DEF IInv, Posted, In
    <3> QED
      BY <2>4, <2>6, <3>1, <3>2 DEF IInv, Posted
  <2> QED
    BY <2>2, <2>5, <2>8 DEF IInv
<1> QED
  BY <1>3, <1>4

LEMMA SchedulePushKeeps ==
  ASSUME IInv, NEW t \in Threads, NEW c \in Coros, SchedulePush(t, c),
         UNCHANGED <<timerVars, opVars, programVars>>
  PROVE  IInv'
<1>1. /\ UNCHANGED <<countVars, loopVars, port, timerVars, opVars, programVars>>
      /\ overflow' = <<c>> \o overflow
  BY DEF SchedulePush
<1>2. Orderly' /\ Moves(c, "suspended") /\ at[c] = "push"
  BY SuspendKeeps DEF IInv, SchedulePush, Places, TimerAt, ScheduleAt, Suspensions
<1>3. plan[c] # "overlapped" /\ ~In(c)
  BY <1>2, Where, Free DEF IInv
<1>4. /\ overflow' \in Seq(Coros) /\ Once(overflow')
      /\ \A x : Has(overflow', x) <=> x = c \/ Has(overflow, x)
  <2>1. overflow \in Seq(Coros) /\ Once(overflow) /\ ~Has(overflow, c)
    BY <1>3 DEF IInv, Values, ServiceValues, Posted, In
  <2> QED
    BY <1>1, <2>1, PushHas
<1>5. port \in Seq(Packets) /\ Len(port) \in Nat
  BY DEF IInv, Values, ServiceValues
<1>6. /\ Labels' /\ Values' /\ Kept' /\ Operated' /\ Callbacks' /\ Awake' /\ Stopped'
      /\ ~Keeps(c) /\ at'[c] = "suspended" /\ (\A x \in Coros : x # c => at'[x] = at[x])
      /\ \A x \in Coros : Keeps(x)' <=> Keeps(x)
  BY <1>1, <1>2, <1>4, <1>5, ScheduleFrame
<1>7. UNCHANGED <<port, batch, loop, plan>>
  BY <1>1 DEF loopVars, programVars
<1>8. \A x \in Coros : In(x)' <=> x = c \/ In(x)
  BY <1>4, <1>7 DEF In
<1>9. Posted'
  <2>1. \A x \in Coros : In(x)' => at'[x] = "suspended" /\ plan[x] # "overlapped" /\ ~Keeps(x)'
    BY <1>3, <1>6, <1>8 DEF IInv, Posted
  <2>2. \A x \in Coros : /\ ~(Has(port, Resume(x)) /\ (Has(overflow', x) \/ OnSome(batch, x)))
                         /\ ~(Has(overflow', x) /\ OnSome(batch, x))
    BY <1>3, <1>4 DEF IInv, Posted, In
  <2> QED
    BY <1>4, <1>7, <2>1, <2>2 DEF IInv, Posted
<1> QED
  BY <1>2, <1>6, <1>9 DEF IInv

LEMMA ResumedKeeps ==
  ASSUME IInv, NEW t \in Threads, NEW c \in Coros, Resumed(t, c)
  PROVE  IInv'
<1>1. /\ UNCHANGED <<serviceVars, requested, running, cancellable, now, dueTime, sharedVars, shutDown,
                     threadVars, opVars, plan, main, canceller>>
      /\ registered' = registered \ {c} /\ c \notin running
  BY DEF Resumed, Deregister
<1>2. Orderly' /\ Moves(c, "leave") /\ at[c] = "resumed"
  BY GotoKeeps DEF IInv, Resumed, Deregister, Places, TimerAt, ScheduleAt, Suspensions
<1>3. at'[c] = "leave" /\ \A x \in Coros : x # c => at'[x] = at[x]
  BY <1>2 DEF Moves
<1>4. ~Keeps(c) /\ ~In(c) /\ kernel[c] = "idle"
  BY <1>2, Free DEF IInv, Operated
<1>5. \A x \in Coros : (Keeps(x)' <=> Keeps(x)) /\ (In(x)' <=> In(x))
  BY <1>1 DEF Keeps, In, sharedVars, threadVars, serviceVars
<1>6. Labels'
  BY <1>1, <1>2, LabelsKeep DEF IInv, ScheduleAt, TimerAt, OperationAt
<1>7. Values'
  BY <1>1
  DEF IInv, Values, ServiceValues, TimerValues, OperationValues, ProgramValues, serviceVars,
     sharedVars, threadVars, opVars
<1>8. Posted'
  BY <1>1, <1>3, <1>4, <1>5, SamePosts DEF IInv, serviceVars
<1>9. Kept'
  BY <1>1, <1>3, <1>4, SameKept DEF IInv, StillOrMoved, sharedVars, threadVars
<1>10. Operated'
  BY <1>1, <1>3, <1>4, SameOperations DEF IInv, opVars, serviceVars
<1>11. Callbacks'
  <2>1. UNCHANGED <<requested, running, canceller, cancellable, cancelFlag, queue, timer, todo>>
    BY <1>1 DEF sharedVars, threadVars
  <2>2. \A x \in registered' \cup running' : at'[x] \notin Finished
    BY <1>1, <1>3 DEF IInv, Callbacks, Values, TimerValues
  <2>3. ASSUME NEW x \in Coros
        PROVE  /\ at'[x] \in {"flag", "wakeForFlag"} => requested
               /\ ~requested /\ cancellable[x] /\ (at'[x] = "enqueue" \/ Keeps(x)') => x \in registered'
    BY <1>1, <1>3, <1>4, <1>5 DEF IInv, Callbacks
  <2>4. c \notin queue
    BY <1>4 DEF Keeps
  <2>5. \A x \in queue : x \in registered' <=> x \in registered
    BY <1>1, <2>4
  <2> QED
    BY <2>1, <2>2, <2>3, <2>5 DEF IInv, Callbacks
<1>12. Awake'
  BY <1>1, <1>2, <1>3, SameWakes DEF IInv, sharedVars, threadVars
<1>13. Stopped'
  <2>1. ToWait' = ToWait /\ port' = port /\ Len(port) \in Nat
    BY <1>1 DEF ToWait, serviceVars, IInv, Values, ServiceValues
  <2>2. stopRequested' => stopRequested /\ Cardinality(ToWait') <= Len(port') + wakes'
    BY <1>1, <2>1, SameWaits DEF IInv, serviceVars
  <2> QED
    BY <1>1, <1>2, <1>3, <2>2, SameStop DEF IInv, serviceVars
<1> QED
  BY <1>2, <1>6, <1>7, <1>8, <1>9, <1>10, <1>11, <1>12, <1>13 DEF IInv

-----------------------------------------------------------------------------
(* The service is stopped.                                                 *)

LEMMA StopReaches ==
  ASSUME Stopped, Values, Stop, wakes = 0
  PROVE  /\ wakes' \in Nat /\ ToWait' = ToWait
         /\ Cardinality(ToWait') <= Len(port') + wakes'
<1>1. ToWait' = ToWait /\ UNCHANGED <<port, activeThreads>> /\ Len(port) \in Nat
      /\ wakes' = (IF stopRequested THEN 0 ELSE activeThreads)
  BY DEF Stop, loopVars, ToWait, Values, ServiceValues
<1>2. Cardinality(ToWait) <= Cardinality(InLoop)
  <2>1. ToWait \subseteq InLoop
    BY DEF ToWait, InLoop
  <2> QED
    BY <2>1, FiniteParts, FS_Subset
<1>3. activeThreads = Cardinality(InLoop) /\ (stopRequested => Cardinality(ToWait) <= Len(port) + wakes)
  BY DEF Stopped
<1> QED
  BY <1>1, <1>2, <1>3, FiniteParts

LEMMA WakeUpReaches ==
  ASSUME Stopped, Values, Posted, PostWakeUp
  PROVE  /\ port' \in Seq(Packets) /\ OnePacketEach(port') /\ Len(port') >= Len(port)
         /\ \A x \in Coros : Has(port', Resume(x)) => Has(port, Resume(x))
         /\ \A x \in Coros, f \in ErrorCodes : Has(port', Done(x, f)) => Has(port, Done(x, f))
         /\ wakes' \in Nat /\ wakes' = wakes - 1 /\ wakes # 0 /\ ToWait' = ToWait
         /\ stopRequested' => stopRequested /\ Cardinality(ToWait') <= Len(port') + wakes'
<1>1. /\ port \in Seq(Packets) /\ Len(port) \in Nat /\ OnePacketEach(port) /\ wakes \in Nat
      /\ wakes' = wakes - 1 /\ wakes > 0 /\ stopRequested' = stopRequested
      /\ port' = (IF Refuses THEN port ELSE Append(port, WakeUp))
      /\ ToWait' = ToWait
  BY DEF PostWakeUp, Values, ServiceValues, Posted, loopVars, ToWait
<1>2. stopRequested => Cardinality(ToWait) <= Len(port) + wakes
  BY DEF Stopped
<1>3. CASE Refuses
  <2>1. Cardinality(ToWait) <= Len(port)
    <3> DEFINE P == {t \in IoThreads : loop[t] # "absent"}
    <3>1. ToWait \subseteq P /\ IsFiniteSet(P)
      BY FiniteAssumption, FS_Subset DEF ToWait
    <3>2. Cardinality(ToWait) <= Cardinality(P) /\ Cardinality(P) \in Nat
      BY <3>1, FS_Subset, FS_CardinalityType
    <3>3. Len(port) >= Cardinality(P)
      BY <1>3 DEF Refuses
    <3> HIDE DEF P
    <3> QED
      BY <1>1, <3>2, <3>3, FiniteParts
  <2> QED
    BY <1>1, <1>3, <2>1, FiniteParts
<1>4. CASE ~Refuses
  <2>1. /\ port' \in Seq(Packets) /\ OnePacketEach(port') /\ Len(port') = Len(port) + 1
        /\ \A q \in Packets : Has(port', q) <=> q = WakeUp \/ Has(port, q)
    BY <1>1, <1>4, WakeUpPosted
  <2>2. /\ \A x \in Coros : Resume(x) \in Packets /\ Resume(x) # WakeUp
        /\ \A x \in Coros, f \in ErrorCodes : Done(x, f) \in Packets /\ Done(x, f) # WakeUp
    BY PacketNames
  <2>3. stopRequested => Cardinality(ToWait) <= Len(port) + 1 + (wakes - 1)
    BY <1>1, <1>2, FiniteParts
  <2> QED
    BY <1>1, <2>1, <2>2, <2>3, FiniteParts
<1> QED
  BY <1>3, <1>4

\* What the end of a work scope leaves alone.
LEMMA LeaveFrame ==
  ASSUME IInv, NEW c \in Coros, NEW l \in Finished, Moves(c, l), at[c] \in Finished,
         UNCHANGED <<overflow, loopVars, timerVars, opVars, programVars>>,
         activeThreads' = activeThreads, workCount' \in Int, stopRequested' \in BOOLEAN, wakes' \in Nat,
         \/ port' = port
         \/ /\ port' \in Seq(Packets) /\ OnePacketEach(port')
            /\ \A x \in Coros : Has(port', Resume(x)) => Has(port, Resume(x))
            /\ \A x \in Coros, f \in ErrorCodes : Has(port', Done(x, f)) => Has(port, Done(x, f))
  PROVE  /\ Labels' /\ Values' /\ Posted' /\ Kept' /\ Operated' /\ Callbacks' /\ Awake'
         /\ at'[c] = l /\ \A x \in Coros : x # c => at'[x] = at[x]
<1>1. at'[c] = l /\ \A x \in Coros : x # c => at'[x] = at[x]
  BY DEF Moves
<1>2. ~Keeps(c) /\ ~In(c) /\ kernel[c] = "idle"
  BY Free DEF IInv, Operated, Finished
<1>3. \A x \in Coros : Keeps(x)' <=> Keeps(x)
  BY DEF Keeps, timerVars, sharedVars, threadVars
<1>4. ~In(c)'
  BY <1>2 DEF In, loopVars
<1>5. Labels'
  BY LabelsKeep DEF IInv, Finished, ScheduleAt, TimerAt, OperationAt, programVars
<1>6. Values'
  BY DEF IInv, Values, ServiceValues, TimerValues, OperationValues, ProgramValues, loopVars,
     timerVars, tokenVars, sharedVars, threadVars, opVars, programVars
<1>7. Posted'
  BY <1>1, <1>3, <1>4, SamePosts DEF IInv, loopVars, programVars
<1>8. Kept'
  BY <1>1, <1>2, SameKept
  DEF IInv, StillOrMoved, timerVars, sharedVars, threadVars, programVars,
     Finished
<1>9. Operated'
  BY <1>1, <1>2, SameOperations DEF IInv, opVars, programVars, timerVars, tokenVars, Finished
<1>10. Callbacks'
  BY <1>1, <1>3, SameCallbacks DEF IInv, Values, TimerValues, timerVars, tokenVars, sharedVars,
     threadVars, programVars, Finished
<1>11. Awake'
  BY <1>1, SameWakes DEF IInv, timerVars, sharedVars, threadVars, programVars, Finished
<1> QED
  BY <1>1, <1>5, <1>6, <1>7, <1>8, <1>9, <1>10, <1>11

LEMMA LeaveKeeps ==
  ASSUME IInv, NEW t \in Threads, NEW c \in Coros, Leave(t, c)
  PROVE  IInv'
<1>1. UNCHANGED <<timerVars, opVars, programVars>> /\ main' = main
  BY DEF Leave, programVars
<1>2. /\ Len(port) \in Nat /\ wakes \in Nat /\ activeThreads \in Int /\ workCount \in Int
      /\ stopRequested \in BOOLEAN
  BY DEF IInv, Values, ServiceValues
<1>3. CASE Top(t, c, "leave")
  <2>0. at[c] = "leave"
    BY <1>3 DEF Top
  <2>1. /\ WorkFinished
        /\ IF workCount = 1 THEN Goto(c, "stop") ELSE Suspend(t, c, "done")
    BY <2>0 DEF Leave, Top
  <2>2. PICK l \in {"stop", "done"} : Orderly' /\ Moves(c, l) /\ (l = "stop" <=> workCount = 1)
    <3>1. CASE workCount = 1
      <4>1. Orderly' /\ Moves(c, "stop")
        BY <1>3, <2>1, <3>1, GotoKeeps DEF IInv, Places, TimerAt, ScheduleAt, Suspensions
      <4> QED
        BY <3>1, <4>1
    <3>2. CASE workCount # 1
      <4>1. Orderly' /\ Moves(c, "done")
        BY <1>3, <2>1, <3>2, SuspendKeeps DEF IInv, Places, TimerAt, ScheduleAt, Suspensions
      <4> QED
        BY <3>2, <4>1
    <3> QED
      BY <3>1, <3>2
  <2>3. /\ UNCHANGED <<stopRequested, activeThreads, port, overflow, loopVars, wakes>>
        /\ workCount' = workCount - 1
    BY <2>1 DEF WorkFinished
  <2>4. /\ Labels' /\ Values' /\ Posted' /\ Kept' /\ Operated' /\ Callbacks' /\ Awake'
        /\ at'[c] = l /\ \A x \in Coros : x # c => at'[x] = at[x]
    BY <1>1, <1>2, <2>0, <2>2, <2>3, LeaveFrame DEF Finished
  <2>5. c \in Working /\ Working' = Working \ {c}
    <3>1. \A x \in Coros : x \in Working' <=> x \in Working /\ x # c
      BY <2>0, <2>2, <2>4 DEF Working, Finished
    <3> QED
      BY <2>0, <3>1 DEF Working, Finished
  <2>6. Cardinality(Working) = Cardinality(Working') + 1 /\ Cardinality(Working') \in Nat
    BY <2>5, FiniteParts, OneFewer
  <2>7. workCount = Cardinality(Working) + (IF main = "start" THEN 1 ELSE 0)
    BY DEF IInv, Stopped
  <2>8. workCount # 0 /\ workCount' = Cardinality(Working') + (IF main' = "start" THEN 1 ELSE 0)
    BY <1>1, <2>3, <2>6, <2>7
  <2>9. main \notin {"stop", "wakeUp"} /\ (\A x \in Coros : ~Stopper(x)) /\ wakes = 0
    BY <2>8 DEF IInv, Stopped, Stopper
  <2>10. \A x \in Coros : Stopper(x)' => x = c /\ l = "stop"
    BY <2>2, <2>4, <2>9 DEF Stopper
  <2>11. workCount' # 0 => l # "stop"
    BY <2>2, <2>3
  <2>12. InLoop' = InLoop /\ ToWait' = ToWait
    BY <2>3 DEF InLoop, ToWait, loopVars
  <2>13. ~AllDone
    BY <2>0 DEF AllDone
  <2>14. Stopped'
    BY <1>1, <2>3, <2>8, <2>9, <2>10, <2>11, <2>12, <2>13 DEF IInv, Stopped
  <2> QED
    BY <2>2, <2>4, <2>14 DEF IInv
<1>4. CASE Top(t, c, "stop")
  <2>0. at[c] = "stop"
    BY <1>4 DEF Top
  <2>1. Stop /\ Goto(c, "wakeUp")
    BY <2>0 DEF Leave, Top
  <2>2. Orderly' /\ Moves(c, "wakeUp")
    BY <1>4, <2>1, GotoKeeps DEF IInv, Places, TimerAt, ScheduleAt, Suspensions
  <2>3. UNCHANGED <<activeThreads, workCount, port, overflow, loopVars>> /\ stopRequested' = TRUE
    BY <2>1 DEF Stop
  <2>4. /\ main \notin {"stop", "wakeUp"} /\ wakes = 0
        /\ \A x \in Coros : Stopper(x) => x = c
    BY <2>0 DEF IInv, Stopped, Stopper
  <2>5. /\ wakes' \in Nat /\ ToWait' = ToWait
        /\ Cardinality(ToWait') <= Len(port') + wakes'
    BY <2>1, <2>4, StopReaches DEF IInv
  <2>6. /\ Labels' /\ Values' /\ Posted' /\ Kept' /\ Operated' /\ Callbacks' /\ Awake'
        /\ at'[c] = "wakeUp" /\ \A x \in Coros : x # c => at'[x] = at[x]
    BY <1>1, <1>2, <2>0, <2>2, <2>3, <2>5, LeaveFrame DEF Finished
  <2>7. Working' = Working
    <3>1. \A x \in Coros : x \in Working' <=> x \in Working
      BY <2>0, <2>6 DEF Working, Finished
    <3> QED
      BY <3>1 DEF Working
  <2>8. \A x \in Coros : Stopper(x)' <=> Stopper(x)
    BY <2>0, <2>6 DEF Stopper
  <2>9. InLoop' = InLoop /\ ~AllDone
    BY <2>0, <2>3 DEF InLoop, loopVars, AllDone
  <2>10. Stopped'
    BY <1>1, <2>3, <2>4, <2>5, <2>6, <2>7, <2>8, <2>9 DEF IInv, Stopped
  <2> QED
    BY <2>2, <2>6, <2>10 DEF IInv
<1>5. CASE Top(t, c, "wakeUp")
  <2>0. at[c] = "wakeUp"
    BY <1>5 DEF Top
  <2>1. PostWakeUp /\ IF wakes' = 0 THEN Suspend(t, c, "done") ELSE UNCHANGED stackVars
    BY <2>0 DEF Leave, Top
  <2>2. PICK l \in {"wakeUp", "done"} : Orderly' /\ Moves(c, l) /\ (l = "done" <=> wakes' = 0)
    <3>1. CASE wakes' = 0
      <4>1. Orderly' /\ Moves(c, "done")
        BY <1>5, <2>1, <3>1, SuspendKeeps DEF IInv, Places, TimerAt, ScheduleAt, Suspensions
      <4> QED
        BY <3>1, <4>1
    <3>2. CASE wakes' # 0
      <4>1. Orderly' /\ Moves(c, "wakeUp")
        BY <2>0, <2>1, <3>2 DEF IInv, Orderly, stackVars, Moves
      <4> QED
        BY <3>2, <4>1
    <3> QED
      BY <3>1, <3>2
  <2>3. UNCHANGED <<stopRequested, activeThreads, workCount, overflow, loopVars>>
    BY <2>1 DEF PostWakeUp
  <2>4. /\ main \notin {"stop", "wakeUp"} /\ \A x \in Coros : Stopper(x) => x = c
    BY <2>0 DEF IInv, Stopped, Stopper
  <2>5. /\ port' \in Seq(Packets) /\ OnePacketEach(port')
        /\ \A x \in Coros : Has(port', Resume(x)) => Has(port, Resume(x))
        /\ \A x \in Coros, f \in ErrorCodes : Has(port', Done(x, f)) => Has(port, Done(x, f))
        /\ wakes' \in Nat /\ ToWait' = ToWait
        /\ stopRequested' => stopRequested /\ Cardinality(ToWait') <= Len(port') + wakes'
    BY <2>1, WakeUpReaches DEF IInv
  <2>6. /\ Labels' /\ Values' /\ Posted' /\ Kept' /\ Operated' /\ Callbacks' /\ Awake'
        /\ at'[c] = l /\ \A x \in Coros : x # c => at'[x] = at[x]
    BY <1>1, <1>2, <2>0, <2>2, <2>3, <2>5, LeaveFrame DEF Finished
  <2>7. Working' = Working
    <3>1. \A x \in Coros : x \in Working' <=> x \in Working
      BY <2>0, <2>6 DEF Working, Finished
    <3> QED
      BY <3>1 DEF Working
  <2>8. \A x \in Coros : Stopper(x)' => Stopper(x)
    BY <2>0, <2>6 DEF Stopper
  <2>9. InLoop' = InLoop /\ ~AllDone
    BY <2>0, <2>3 DEF InLoop, loopVars, AllDone
  <2>10. Stopped'
    BY <1>1, <2>2, <2>3, <2>4, <2>5, <2>6, <2>7, <2>8, <2>9 DEF IInv, Stopped
  <2> QED
    BY <2>2, <2>6, <2>10 DEF IInv
<1> QED
  BY <1>3, <1>4, <1>5 DEF Leave

LEMMA CoroutineStepKeeps ==
  ASSUME IInv, NEW t \in Threads, NEW c \in Coros, CoroutineStep(t, c)
  PROVE  IInv'
<1>1. CASE TimerAwait(t, c) /\ UNCHANGED <<opVars, programVars>>
  BY <1>1, AwaitTimerKeeps, RegisterTimerKeeps, CallBackInlineKeeps, EnqueueKeeps,
     WakeTimerThreadKeeps, LetGoKeeps DEF TimerAwait
<1>2. CASE OperationAwait(t, c) /\ UNCHANGED programVars
  BY <1>2, AwaitOperationKeeps, RegisterOperationKeeps, TryStartKeeps, FlagStartedKeeps,
     CancelKeeps
     DEF OperationAwait
<1>3. CASE /\ SchedulePost(t, c) \/ SchedulePush(t, c)
           /\ UNCHANGED <<timerVars, opVars, programVars>>
  BY <1>3, SchedulePostKeeps, SchedulePushKeeps
<1>4. CASE Resumed(t, c) \/ Leave(t, c)
  BY <1>4, ResumedKeeps, LeaveKeeps
<1> QED
  BY <1>1, <1>2, <1>3, <1>4 DEF CoroutineStep

-----------------------------------------------------------------------------
(* The I/O threads.                                                        *)

\* What a step of a loop leaves alone.
LEMMA LoopFrame ==
  ASSUME IInv, UNCHANGED <<stackVars, timerVars, opVars, programVars>>, ServiceValues',
         port' = port \/ \A x \in Coros, f \in ErrorCodes : Has(port', Done(x, f)) => Has(port, Done(x, f))
  PROVE  /\ Orderly' /\ Labels' /\ Values' /\ Kept' /\ Operated' /\ Callbacks' /\ Awake'
         /\ at' = at /\ plan' = plan /\ \A x \in Coros : Keeps(x)' <=> Keeps(x)
<1>1. at' = at /\ stack' = stack /\ plan' = plan
  BY DEF stackVars, programVars
<1>2. \A x \in Coros : Keeps(x)' <=> Keeps(x)
  BY DEF Keeps, timerVars, sharedVars, threadVars
<1>3. Orderly' /\ Labels'
  BY <1>1 DEF IInv, Orderly, Labels
<1>4. Values'
  BY DEF IInv, Values, TimerValues, OperationValues, ProgramValues, timerVars, tokenVars,
     sharedVars,
     threadVars, opVars, programVars
<1>5. Kept'
  BY <1>1, SameKept DEF IInv, StillOrMoved, timerVars, sharedVars, threadVars
<1>6. Operated'
  BY <1>1, SameOperations DEF IInv, opVars, timerVars, tokenVars
<1>7. Callbacks'
  BY <1>1, <1>2, SameCallbacks DEF IInv, Values, TimerValues, timerVars, tokenVars, sharedVars,
     threadVars, programVars
<1>8. Awake'
  BY <1>1, SameWakes DEF IInv, timerVars, sharedVars, threadVars, programVars
<1> QED
  BY <1>1, <1>2, <1>3, <1>4, <1>5, <1>6, <1>7, <1>8

LEMMA LoopMoves ==
  ASSUME Values, NEW t \in IoThreads, NEW l \in LoopAt, At(t, l)
  PROVE  /\ loop' \in [IoThreads -> LoopAt] /\ loop'[t] = l
         /\ \A u \in IoThreads : u # t => loop'[u] = loop[u]
BY DEF Values, ServiceValues, At

\* One packet less, and one thread less that waits.
LEMMA TakesAndGoes ==
  ASSUME Stopped, Values, NEW t \in IoThreads, loop[t] = "wait", loop'[t] \in {"run", "woken"},
         \A u \in IoThreads : u # t => loop'[u] = loop[u],
         UNCHANGED <<stopRequested, wakes>>, Len(port') = Len(port) - 1
  PROVE  stopRequested' => stopRequested /\ Cardinality(ToWait') <= Len(port') + wakes'
<1>1. t \in ToWait /\ ToWait' = ToWait \ {t}
  BY DEF ToWait
<1>2. Cardinality(ToWait) = Cardinality(ToWait') + 1 /\ Cardinality(ToWait') \in Nat
  BY <1>1, FiniteParts, OneFewer
<1>3. Len(port) \in Nat /\ wakes \in Nat
  BY DEF Values, ServiceValues
<1>4. stopRequested => Cardinality(ToWait) <= Len(port) + wakes
  BY DEF Stopped
<1> QED
  BY <1>2, <1>3, <1>4

\* A step inside the loop: the thread goes on to look for work only while the
\* service is not stopped.
LEMMA InsideKeeps ==
  ASSUME IInv, NEW t \in IoThreads, Check(t) \/ Woken(t) \/ TimeOut(t) \/ Processed(t),
         UNCHANGED <<timerVars, opVars, programVars>>
  PROVE  IInv'
<1>1. UNCHANGED <<stackVars, countVars, port, overflow, mode, batch>>
  BY DEF Check, Woken, TimeOut, Processed
<1>2. PICK l \in {"exit", "reschedule", "check"} :
        /\ At(t, l) /\ loop[t] \in {"check", "woken", "wait", "run"}
        /\ l = "reschedule" => ~stopRequested
  BY DEF Check, Woken, TimeOut, Processed
<1>3. /\ loop' \in [IoThreads -> LoopAt] /\ loop'[t] = l
      /\ \A u \in IoThreads : u # t => loop'[u] = loop[u]
  BY <1>2, LoopMoves DEF IInv, LoopAt
<1>4. ServiceValues'
  BY <1>1, <1>3 DEF IInv, Values, ServiceValues, countVars
<1>5. /\ Orderly' /\ Labels' /\ Values' /\ Kept' /\ Operated' /\ Callbacks' /\ Awake'
      /\ at' = at /\ plan' = plan /\ \A x \in Coros : Keeps(x)' <=> Keeps(x)
  BY <1>1, <1>4, LoopFrame
<1>6. Posted'
  <2>1. \A x \in Coros : In(x)' <=> In(x)
    BY <1>1 DEF In
  <2> QED
    BY <1>1, <1>3, <1>5, SamePosts DEF IInv
<1>7. Stopped'
  <2>1. stopRequested => ToWait' \subseteq ToWait
    BY <1>2, <1>3 DEF ToWait
  <2>2. stopRequested' => stopRequested /\ Cardinality(ToWait') <= Len(port') + wakes'
    BY <1>1, <2>1, SameWaits DEF IInv, countVars, Values, ServiceValues
  <2> QED
    BY <1>1, <1>2, <1>3, <1>5, <2>2, SameStop DEF IInv, countVars, programVars
<1> QED
  BY <1>5, <1>6, <1>7 DEF IInv

LEMMA EnterKeeps ==
  ASSUME IInv, NEW t \in IoThreads, Enter(t), UNCHANGED <<timerVars, opVars, programVars>>
  PROVE  IInv'
<1>1. /\ UNCHANGED <<stackVars, stopRequested, workCount, port, overflow, batch, wakes>>
      /\ loop[t] = "out" /\ ~stopRequested /\ activeThreads' = activeThreads + 1 /\ At(t, "check")
  BY DEF Enter
<1>2. /\ loop' \in [IoThreads -> LoopAt] /\ loop'[t] = "check"
      /\ \A u \in IoThreads : u # t => loop'[u] = loop[u]
  BY <1>1, LoopMoves DEF IInv, LoopAt
<1>3. ServiceValues'
  BY <1>1, <1>2 DEF IInv, Values, ServiceValues
<1>4. /\ Orderly' /\ Labels' /\ Values' /\ Kept' /\ Operated' /\ Callbacks' /\ Awake'
      /\ at' = at /\ plan' = plan /\ \A x \in Coros : Keeps(x)' <=> Keeps(x)
  BY <1>1, <1>3, LoopFrame
<1>5. Posted'
  <2>1. \A x \in Coros : In(x)' <=> In(x)
    BY <1>1 DEF In
  <2> QED
    BY <1>1, <1>2, <1>4, SamePosts DEF IInv
<1>6. Stopped'
  <2>1. t \notin InLoop /\ InLoop' = InLoop \cup {t}
    BY <1>1, <1>2 DEF InLoop
  <2>2. Cardinality(InLoop') = Cardinality(InLoop) + 1
    BY <2>1, FiniteParts, OneMore
  <2>3. activeThreads' = Cardinality(InLoop')
    BY <1>1, <2>2 DEF IInv, Stopped
  <2>4. Working' = Working /\ \A x \in Coros : Stopper(x)' <=> Stopper(x)
    BY <1>4 DEF Working, Stopper
  <2>5. main' = main /\ main \notin {"wakeTimer", "joinTimer", "destroyed"}
    BY <1>1 DEF IInv, Stopped, programVars
  <2> QED
    BY <1>1, <1>4, <2>3, <2>4, <2>5 DEF IInv, Stopped
<1> QED
  BY <1>4, <1>5, <1>6 DEF IInv

LEMMA ExitKeeps ==
  ASSUME IInv, NEW t \in IoThreads, Exit(t), UNCHANGED <<timerVars, opVars, programVars>>
  PROVE  IInv'
<1>1. /\ UNCHANGED <<stackVars, stopRequested, workCount, port, overflow, batch, wakes>>
      /\ loop[t] = "exit" /\ activeThreads' = activeThreads - 1 /\ At(t, "out")
  BY DEF Exit
<1>2. /\ loop' \in [IoThreads -> LoopAt] /\ loop'[t] = "out"
      /\ \A u \in IoThreads : u # t => loop'[u] = loop[u]
  BY <1>1, LoopMoves DEF IInv, LoopAt
<1>3. ServiceValues'
  BY <1>1, <1>2 DEF IInv, Values, ServiceValues
<1>4. /\ Orderly' /\ Labels' /\ Values' /\ Kept' /\ Operated' /\ Callbacks' /\ Awake'
      /\ at' = at /\ plan' = plan /\ \A x \in Coros : Keeps(x)' <=> Keeps(x)
  BY <1>1, <1>3, LoopFrame
<1>5. Posted'
  <2>1. \A x \in Coros : In(x)' <=> In(x)
    BY <1>1 DEF In
  <2> QED
    BY <1>1, <1>2, <1>4, SamePosts DEF IInv
<1>6. Stopped'
  <2>1. t \in InLoop /\ InLoop' = InLoop \ {t}
    BY <1>1, <1>2 DEF InLoop
  <2>2. Cardinality(InLoop) = Cardinality(InLoop') + 1 /\ Cardinality(InLoop') \in Nat
    BY <2>1, FiniteParts, OneFewer
  <2>3. activeThreads' = Cardinality(InLoop')
    BY <1>1, <2>2 DEF IInv, Stopped
  <2>4. Working' = Working /\ \A x \in Coros : Stopper(x)' <=> Stopper(x)
    BY <1>4 DEF Working, Stopper
  <2>5. main' = main /\ main \notin {"wakeTimer", "joinTimer", "destroyed"}
    BY <1>1 DEF IInv, Stopped, programVars, AllOut
  <2>6. ToWait' = ToWait
    BY <1>1, <1>2 DEF ToWait
  <2> QED
    BY <1>1, <1>4, <2>3, <2>4, <2>5, <2>6 DEF IInv, Stopped
<1> QED
  BY <1>4, <1>5, <1>6 DEF IInv

LEMMA WaitForWakeUpKeeps ==
  ASSUME IInv, NEW t \in IoThreads, WaitForWakeUp(t), UNCHANGED <<timerVars, opVars, programVars>>
  PROVE  IInv'
<1>1. /\ UNCHANGED <<stackVars, countVars, overflow, mode, batch>>
      /\ loop[t] = "wait" /\ port # <<>> /\ port' = Tail(port) /\ At(t, "woken")
  BY DEF WaitForWakeUp
<1>2. /\ loop' \in [IoThreads -> LoopAt] /\ loop'[t] = "woken"
      /\ \A u \in IoThreads : u # t => loop'[u] = loop[u]
  BY <1>1, LoopMoves DEF IInv, LoopAt
<1>3. /\ port' \in Seq(Packets) /\ OnePacketEach(port') /\ Len(port') = Len(port) - 1
      /\ \A q : Has(port', q) => Has(port, q)
  BY <1>1, PacketTaken DEF IInv, Values, ServiceValues, Posted
<1>4. ServiceValues'
  BY <1>1, <1>2, <1>3 DEF IInv, Values, ServiceValues, countVars
<1>5. /\ Orderly' /\ Labels' /\ Values' /\ Kept' /\ Operated' /\ Callbacks' /\ Awake'
      /\ at' = at /\ plan' = plan /\ \A x \in Coros : Keeps(x)' <=> Keeps(x)
  BY <1>1, <1>3, <1>4, LoopFrame
<1>6. Posted'
  BY <1>1, <1>2, <1>3, <1>5, SamePosts DEF IInv
<1>7. Stopped'
  <2>1. stopRequested' => stopRequested /\ Cardinality(ToWait') <= Len(port') + wakes'
    BY <1>1, <1>2, <1>3, TakesAndGoes DEF IInv, countVars
  <2> QED
    BY <1>1, <1>2, <1>5, <2>1, SameStop DEF IInv, countVars, programVars
<1> QED
  BY <1>5, <1>6, <1>7 DEF IInv

\* A thread posts again what was refused: it stays in the loop, and waits next.
LEMMA RepostFrame ==
  ASSUME IInv, NEW t \in IoThreads, NEW l \in {"repost", "wait"}, At(t, l),
         loop[t] \in {"reschedule", "repost"},
         UNCHANGED <<stackVars, countVars, timerVars, opVars, programVars>>,
         port' \in Seq(Packets), Len(port') >= Len(port), overflow' \in Seq(Coros),
         batch' \in [IoThreads -> Seq(Coros)],
         \A x \in Coros, f \in ErrorCodes : Has(port', Done(x, f)) => Has(port, Done(x, f)),
         OnePacketEach(port'), Once(overflow'), OnceInAll(batch'),
         \A x \in Coros : /\ ~(Has(port', Resume(x)) /\ (Has(overflow', x) \/ OnSome(batch', x)))
                          /\ ~(Has(overflow', x) /\ OnSome(batch', x))
                          /\ In(x)' => In(x),
         l = "repost" => batch'[t] # <<>>,
         \A u \in IoThreads : u # t => batch'[u] = batch[u]
  PROVE  IInv'
<1>1. /\ loop' \in [IoThreads -> LoopAt] /\ loop'[t] = l
      /\ \A u \in IoThreads : u # t => loop'[u] = loop[u]
  BY LoopMoves DEF IInv, LoopAt
<1>2. ServiceValues'
  BY <1>1 DEF IInv, Values, ServiceValues, countVars
<1>3. /\ Orderly' /\ Labels' /\ Values' /\ Kept' /\ Operated' /\ Callbacks' /\ Awake'
      /\ at' = at /\ plan' = plan /\ \A x \in Coros : Keeps(x)' <=> Keeps(x)
  BY <1>2, LoopFrame
<1>4. Posted'
  <2>1. \A x \in Coros : In(x)' => at'[x] = "suspended" /\ plan'[x] # "overlapped" /\ ~Keeps(x)'
    BY <1>3 DEF IInv, Posted
  <2>2. \A u \in IoThreads : loop'[u] = "repost" => batch'[u] # <<>>
    BY <1>1 DEF IInv, Posted
  <2> QED
    BY <2>1, <2>2 DEF Posted
<1>5. Stopped'
  <2>1. ToWait' = ToWait /\ Len(port') \in Nat /\ UNCHANGED <<stopRequested, wakes>>
    BY <1>1 DEF ToWait, countVars
  <2>2. stopRequested' => stopRequested /\ Cardinality(ToWait') <= Len(port') + wakes'
    BY <2>1, SameWaits DEF IInv
  <2> QED
    BY <1>1, <1>3, <2>2, SameStop DEF IInv, countVars, programVars
<1> QED
  BY <1>3, <1>4, <1>5 DEF IInv

LEMMA TakeOverflowKeeps ==
  ASSUME IInv, NEW t \in IoThreads, TakeOverflow(t), UNCHANGED <<timerVars, opVars, programVars>>
  PROVE  IInv'
<1>1. /\ UNCHANGED <<stackVars, countVars, port, mode>> /\ loop[t] = "reschedule"
      /\ batch' = [batch EXCEPT ![t] = overflow] /\ overflow' = <<>>
  BY DEF TakeOverflow
<1>2. PICK l \in {"repost", "wait"} : At(t, l) /\ (l = "repost" => overflow # <<>>)
  BY DEF TakeOverflow
<1>3. /\ port \in Seq(Packets) /\ Len(port) \in Nat /\ OnePacketEach(port)
      /\ overflow \in Seq(Coros) /\ Once(overflow)
      /\ batch \in [IoThreads -> Seq(Coros)] /\ OnceInAll(batch)
  BY DEF IInv, Values, ServiceValues, Posted
<1>4. \A x : Has(overflow, x) => x \in Coros
  BY <1>3 DEF Has
<1>5. \A x : OnSome(batch, x) => x \in Coros
  BY <1>3 DEF OnSome, Has
<1>6. \A x : Has(overflow, x) => ~OnSome(batch, x)
  BY <1>4 DEF IInv, Posted
<1>7. /\ batch' \in [IoThreads -> Seq(Coros)] /\ OnceInAll(batch')
      /\ \A x : OnSome(batch', x) <=> Has(overflow, x) \/ (OnSome(batch, x) /\ ~Has(batch[t], x))
  BY <1>1, <1>3, <1>6, OneStackChanges
<1>8. <<>> \in Seq(Coros) /\ Once(<<>>) /\ \A x : ~Has(<<>>, x)
  BY DEF Once, Has
<1>9. \A x \in Coros : /\ ~(Has(port, Resume(x)) /\ (Has(overflow', x) \/ OnSome(batch', x)))
                       /\ ~(Has(overflow', x) /\ OnSome(batch', x))
                       /\ In(x)' => In(x)
  BY <1>1, <1>7, <1>8 DEF IInv, Posted, In
<1>10. batch'[t] = overflow /\ \A u \in IoThreads : u # t => batch'[u] = batch[u]
  BY <1>1, <1>3
<1>11. /\ port' \in Seq(Packets) /\ Len(port') >= Len(port) /\ OnePacketEach(port')
       /\ \A x \in Coros, f \in ErrorCodes : Has(port', Done(x, f)) => Has(port, Done(x, f))
  BY <1>1, <1>3
<1>12. \A x \in Coros : /\ ~(Has(port', Resume(x)) /\ (Has(overflow', x) \/ OnSome(batch', x)))
                        /\ ~(Has(overflow', x) /\ OnSome(batch', x))
                        /\ In(x)' => In(x)
  BY <1>1, <1>9
<1>13. overflow' \in Seq(Coros) /\ Once(overflow')
  BY <1>1, <1>8
<1> QED
  BY <1>1, <1>2, <1>7, <1>10, <1>11, <1>12, <1>13, RepostFrame

LEMMA RepostKeeps ==
  ASSUME IInv, NEW t \in IoThreads, Repost(t), UNCHANGED <<timerVars, opVars, programVars>>
  PROVE  IInv'
<1>1. UNCHANGED <<stackVars, countVars, mode>> /\ loop[t] = "repost" /\ batch[t] # <<>>
  BY DEF Repost, IInv, Posted
<1>2. /\ port \in Seq(Packets) /\ Len(port) \in Nat /\ OnePacketEach(port)
      /\ overflow \in Seq(Coros) /\ Once(overflow)
      /\ batch \in [IoThreads -> Seq(Coros)] /\ OnceInAll(batch)
      /\ batch[t] \in Seq(Coros) /\ Once(batch[t])
  BY DEF IInv, Values, ServiceValues, Posted, OnceInAll
<1>3. \A x : Has(batch[t], x) => x \in Coros /\ OnSome(batch, x)
  BY <1>2 DEF Has, OnSome
<1>4. CASE Refuses
  <2>1. /\ overflow' = batch[t] \o overflow /\ batch' = [batch EXCEPT ![t] = <<>>]
        /\ At(t, "wait") /\ port' = port
    BY <1>4 DEF Repost
  <2>2. \A x : ~(Has(batch[t], x) /\ Has(overflow, x))
    BY <1>3 DEF IInv, Posted
  <2>3. /\ overflow' \in Seq(Coros) /\ Once(overflow')
        /\ \A x : Has(overflow', x) <=> Has(batch[t], x) \/ Has(overflow, x)
    BY <1>2, <2>1, <2>2, ConcatHas
  <2>4. <<>> \in Seq(Coros) /\ Once(<<>>) /\ \A x : ~Has(<<>>, x)
    BY DEF Once, Has
  <2>5. /\ batch' \in [IoThreads -> Seq(Coros)] /\ OnceInAll(batch')
        /\ \A x : OnSome(batch', x) <=> OnSome(batch, x) /\ ~Has(batch[t], x)
    <3>1. \A x : Has(<<>>, x) => Has(batch[t], x) \/ ~OnSome(batch, x)
      BY <2>4
    <3>2. /\ batch' \in [IoThreads -> Seq(Coros)] /\ OnceInAll(batch')
          /\ \A x : OnSome(batch', x) <=> Has(<<>>, x) \/ (OnSome(batch, x) /\ ~Has(batch[t], x))
      BY <1>2, <2>1, <2>4, <3>1, OneStackChanges
    <3> QED
      BY <2>4, <3>2
  <2>6. \A x \in Coros : /\ ~(Has(port, Resume(x)) /\ (Has(overflow', x) \/ OnSome(batch', x)))
                         /\ ~(Has(overflow', x) /\ OnSome(batch', x))
                         /\ In(x)' => In(x)
    BY <1>3, <2>1, <2>3, <2>5 DEF IInv, Posted, In
  <2>7. \A u \in IoThreads : u # t => batch'[u] = batch[u]
    BY <1>2, <2>1
  <2>8. /\ port' \in Seq(Packets) /\ Len(port') >= Len(port) /\ OnePacketEach(port')
        /\ \A x \in Coros, f \in ErrorCodes : Has(port', Done(x, f)) => Has(port, Done(x, f))
    BY <1>2, <2>1
  <2>9. \A x \in Coros : /\ ~(Has(port', Resume(x)) /\ (Has(overflow', x) \/ OnSome(batch', x)))
                         /\ ~(Has(overflow', x) /\ OnSome(batch', x))
                         /\ In(x)' => In(x)
    BY <2>1, <2>6
  <2> QED
    BY <1>1, <2>1, <2>3, <2>5, <2>7, <2>8, <2>9, RepostFrame
<1>5. CASE ~Refuses
  <2> DEFINE c == Head(batch[t])
  <2>1. /\ port' = Append(port, Resume(c)) /\ batch' = [batch EXCEPT ![t] = Tail(@)]
        /\ overflow' = overflow
    BY <1>5 DEF Repost
  <2>2. PICK l \in {"repost", "wait"} : At(t, l) /\ (l = "repost" => Tail(batch[t]) # <<>>)
    BY <1>5 DEF Repost
  <2>3. /\ c \in Coros /\ Has(batch[t], c) /\ Once(Tail(batch[t])) /\ Tail(batch[t]) \in Seq(Coros)
        /\ \A x \in Coros : Has(Tail(batch[t]), x) <=> x # c /\ Has(batch[t], x)
    BY <1>1, <1>2, TailHas
  <2> HIDE DEF c
  <2>4. \A x : Has(Tail(batch[t]), x) => x \in Coros
    BY <2>3 DEF Has
  <2>5. ~Has(port, Resume(c)) /\ plan[c] # "overlapped" /\ ~Has(overflow, c)
    BY <1>3, <2>3 DEF IInv, Posted, In
  <2>6. /\ port' \in Seq(Packets) /\ Len(port') = Len(port) + 1 /\ OnePacketEach(port')
        /\ \A x \in Coros : Has(port', Resume(x)) <=> x = c \/ Has(port, Resume(x))
        /\ \A x \in Coros, f \in ErrorCodes : Has(port', Done(x, f)) => Has(port, Done(x, f))
    BY <2>1, <2>3, <2>5, PostsResume
  <2>7. /\ batch' \in [IoThreads -> Seq(Coros)] /\ OnceInAll(batch')
        /\ \A x : OnSome(batch', x) <=> Has(Tail(batch[t]), x) \/ (OnSome(batch, x) /\ ~Has(batch[t], x))
    <3>1. batch' = [batch EXCEPT ![t] = Tail(batch[t])]
      BY <2>1
    <3>2. \A x : Has(Tail(batch[t]), x) => Has(batch[t], x) \/ ~OnSome(batch, x)
      BY <2>3, <2>4
    <3> QED
      BY <1>2, <2>3, <3>1, <3>2, OneStackChanges
  <2>8. \A x \in Coros : OnSome(batch', x) <=> OnSome(batch, x) /\ x # c
    <3>1. \A u \in IoThreads : Has(batch[u], c) => u = t
      BY <1>2, <2>3, OneStackEach
    <3>2. \A x \in Coros : Has(batch[t], x) => OnSome(batch, x)
      BY <1>3
    <3> QED
      BY <2>3, <2>7, <3>2
  <2>9. \A x \in Coros : /\ ~(Has(port', Resume(x)) /\ (Has(overflow', x) \/ OnSome(batch', x)))
                         /\ ~(Has(overflow', x) /\ OnSome(batch', x))
                         /\ In(x)' => In(x)
    <3>1. OnSome(batch, c)
      BY <1>3, <2>3
    <3> QED
      BY <2>1, <2>5, <2>6, <2>8, <3>1 DEF IInv, Posted, In
  <2>10. batch'[t] = Tail(batch[t]) /\ \A u \in IoThreads : u # t => batch'[u] = batch[u]
    BY <1>2, <2>1
  <2>11. Len(port') >= Len(port)
    BY <1>2, <2>6
  <2> QED
    BY <1>1, <1>2, <2>1, <2>2, <2>6, <2>7, <2>9, <2>10, <2>11, RepostFrame
<1> QED
  BY <1>4, <1>5

\* A packet is taken for a coroutine: what the rest of the program is left with.
LEMMA TakesPacket ==
  ASSUME IInv, NEW t \in IoThreads, NEW c \in Coros, loop[t] = "wait", port # <<>>,
         Head(port) \in PacketsOf(c), port' = Tail(port), At(t, "run"),
         UNCHANGED <<countVars, overflow, mode, batch, timerVars, programVars>>,
         at' = at \/ (at[c] = "suspended" /\ Moves(c, "resumed") /\ ~Keeps(c) /\ ~In(c)')
  PROVE  /\ Labels' /\ ServiceValues' /\ TimerValues' /\ ProgramValues'
         /\ Posted' /\ Kept' /\ Callbacks' /\ Awake' /\ Stopped'
<1>1. /\ loop' \in [IoThreads -> LoopAt] /\ loop'[t] = "run"
      /\ \A u \in IoThreads : u # t => loop'[u] = loop[u]
  BY LoopMoves DEF IInv, LoopAt
<1>2. /\ port' \in Seq(Packets) /\ OnePacketEach(port') /\ Len(port') = Len(port) - 1
      /\ \A q : Has(port', q) => Has(port, q)
  BY PacketTaken DEF IInv, Values, ServiceValues, Posted
<1>3. ServiceValues' /\ TimerValues' /\ ProgramValues'
  BY <1>1, <1>2
  DEF IInv, Values, ServiceValues, TimerValues, ProgramValues, countVars, timerVars,
     tokenVars, sharedVars, threadVars, programVars
<1>4. \A x \in Coros : Keeps(x)' <=> Keeps(x)
  BY DEF Keeps, timerVars, sharedVars, threadVars
<1>5. \A x \in Coros : at'[x] = at[x] \/ (x = c /\ at[c] = "suspended" /\ at'[c] = "resumed" /\ ~Keeps(c)
                                          /\ ~In(c)')
  BY DEF Moves
<1>6. Labels'
  <2>1. CASE at' = at
    BY <2>1 DEF IInv, Labels, programVars
  <2>2. CASE Moves(c, "resumed")
    BY <2>2, LabelsKeep DEF IInv, ScheduleAt, TimerAt, OperationAt, programVars
  <2> QED
    BY <2>1, <2>2
<1>7. Posted'
  BY <1>1, <1>2, <1>4, <1>5, SamePosts DEF IInv, programVars
<1>8. Kept'
  BY <1>5, SameKept DEF IInv, StillOrMoved, timerVars, sharedVars, threadVars, programVars
<1>9. Callbacks'
  BY <1>4, <1>5, SameCallbacks DEF IInv, Values, TimerValues, timerVars, tokenVars, sharedVars,
     threadVars, programVars, Finished
<1>10. Awake'
  BY <1>5, SameWakes DEF IInv, timerVars, sharedVars, threadVars, programVars
<1>11. Stopped'
  <2>1. stopRequested' => stopRequested /\ Cardinality(ToWait') <= Len(port') + wakes'
    BY <1>1, <1>2, TakesAndGoes DEF IInv, countVars
  <2>2. \A x \in Coros : at'[x] = at[x]
                         \/ {at[x], at'[x]} \cap {"created", "stop", "wakeUp", "done"} = {}
    BY <1>5
  <2> QED
    BY <1>1, <2>1, <2>2, SameStop DEF IInv, countVars, programVars
<1> QED
  BY <1>3, <1>6, <1>7, <1>8, <1>9, <1>10, <1>11

LEMMA WaitForCoroutineKeeps ==
  ASSUME IInv, NEW t \in IoThreads, NEW c \in Coros, WaitForCoroutine(t, c, "resumed"),
         UNCHANGED <<timerVars, opVars, programVars>>
  PROVE  IInv'
<1>1. /\ UNCHANGED <<countVars, overflow, mode, batch, timerVars, opVars, programVars>>
      /\ loop[t] = "wait" /\ port # <<>> /\ Head(port) = Resume(c) /\ port' = Tail(port)
      /\ At(t, "run") /\ ResumeOn(t, c, "resumed")
  BY DEF WaitForCoroutine
<1>2. Head(port) \in PacketsOf(c)
  BY <1>1 DEF PacketsOf
<1>3. /\ Has(port, Resume(c)) /\ ~Has(port', Resume(c)) /\ \A q : Has(port', q) => Has(port, q)
  BY <1>1, <1>2, PacketTaken DEF IInv, Values, ServiceValues, Posted
<1>4. at[c] = "suspended" /\ plan[c] # "overlapped" /\ ~Keeps(c) /\ ~In(c)'
  BY <1>1, <1>3 DEF IInv, Posted, In
<1>5. Orderly' /\ Moves(c, "resumed")
  <2>1. "resumed" \in Places \ Suspensions /\ "suspended" \in Suspensions /\ t \in Threads
    BY PortAssumption DEF Places, TimerAt, ScheduleAt, Suspensions
  <2> QED
    BY <1>1, <1>4, <2>1, ResumeOnKeeps DEF IInv
<1>6. /\ Labels' /\ ServiceValues' /\ TimerValues' /\ ProgramValues'
      /\ Posted' /\ Kept' /\ Callbacks' /\ Awake' /\ Stopped'
  BY <1>1, <1>2, <1>4, <1>5, TakesPacket
<1>7. OperationValues'
  BY <1>1 DEF IInv, Values, OperationValues, opVars
<1>8. Operated'
  <2>1. kernel[c] = "idle"
    BY <1>4 DEF IInv, Operated
  <2> QED
    BY <1>1, <1>3, <1>5, <2>1, SameOperations
       DEF IInv, Moves, opVars, programVars, timerVars, tokenVars
<1> QED
  BY <1>5, <1>6, <1>7, <1>8 DEF IInv, Values

LEMMA OnCompletedKeeps ==
  ASSUME IInv, NEW t \in IoThreads, NEW c \in Coros, NEW e \in ErrorCodes, OnCompleted(t, c, e),
         UNCHANGED programVars
  PROVE  IInv'
<1>1. /\ UNCHANGED <<countVars, mode, batch, overflow, timerVars, programVars>>
      /\ loop[t] = "wait" /\ port # <<>> /\ Head(port) = Done(c, e) /\ port' = Tail(port)
      /\ At(t, "run")
      /\ kernel' = [kernel EXCEPT ![c] = "idle"] /\ errorCode' = [errorCode EXCEPT ![c] = e]
      /\ opState' = [opState EXCEPT ![c] = "completed"]
  BY DEF OnCompleted, timerVars
<1>2. Head(port) \in PacketsOf(c)
  BY <1>1 DEF PacketsOf
<1>3. /\ Has(port, Done(c, e)) /\ (\A f \in ErrorCodes : ~Has(port', Done(c, f)))
      /\ \A q : Has(port', q) => Has(port, q)
  <2>1. \A f \in ErrorCodes : Done(c, f) \in PacketsOf(c)
    BY DEF PacketsOf
  <2> QED
    BY <1>1, <1>2, <2>1, PacketTaken DEF IInv, Values, ServiceValues, Posted
<1>4. kernel[c] = "packet" /\ plan[c] = "overlapped"
  BY <1>3 DEF IInv, Operated
<1>5. \/ opState[c] = "started" /\ at[c] = "suspended"
      \/ opState[c] # "started" /\ at[c] \in {"flagStarted", "cancel", "flagAgain"}
  BY <1>4 DEF IInv, Operated
<1>6. ~Keeps(c) /\ ~In(c)
  BY <1>4, Free DEF IInv, Posted
<1>7. ~In(c)'
  BY <1>1, <1>3, <1>6 DEF In
<1>8. /\ Orderly'
      /\ IF opState[c] = "started" THEN at[c] = "suspended" /\ Moves(c, "resumed")
         ELSE at' = at /\ at[c] \in {"flagStarted", "cancel", "flagAgain"}
  <2>1. CASE opState[c] = "started"
    <3>1. "resumed" \in Places \ Suspensions /\ "suspended" \in Suspensions /\ t \in Threads
      BY PortAssumption DEF Places, TimerAt, ScheduleAt, Suspensions
    <3>2. ResumeOn(t, c, "resumed") /\ at[c] = "suspended"
      BY <1>5, <2>1 DEF OnCompleted
    <3>3. Orderly' /\ Moves(c, "resumed")
      BY <3>1, <3>2, ResumeOnKeeps DEF IInv
    <3> QED
      BY <2>1, <3>2, <3>3
  <2>2. CASE opState[c] # "started"
    <3>1. stack' = stack /\ at' = at
      BY <2>2 DEF OnCompleted, stackVars
    <3> QED
      BY <1>5, <2>2, <3>1 DEF IInv, Orderly
  <2> QED
    BY <2>1, <2>2
<1>9. /\ Labels' /\ ServiceValues' /\ TimerValues' /\ ProgramValues'
      /\ Posted' /\ Kept' /\ Callbacks' /\ Awake' /\ Stopped'
  BY <1>1, <1>2, <1>6, <1>7, <1>8, TakesPacket
<1>10. /\ OperationValues' /\ kernel'[c] = "idle"
       /\ \A x \in Coros : x # c => kernel'[x] = kernel[x] /\ opState'[x] = opState[x]
  BY <1>1 DEF IInv, Values, OperationValues
<1>11. Operated'
  <2>1. at'[c] \notin {"overlapped", "registerOp", "created", "start"}
        /\ \A x \in Coros : x # c => at'[x] = at[x]
    BY <1>8 DEF Moves
  <2>2. \A x \in Coros, f \in ErrorCodes : Has(port', Done(x, f)) => kernel'[x] = "packet"
    BY <1>3, <1>10 DEF IInv, Operated
  <2>3. ASSUME NEW x \in Coros
        PROVE  /\ kernel'[x] # "idle" =>
                    /\ plan[x] = "overlapped"
                    /\ \/ at'[x] = "suspended" /\ opState'[x] = "started"
                       \/ at'[x] \in {"flagStarted", "cancel", "flagAgain"}
                          /\ opState'[x] \in {"notStarted", "cancellationRequested"}
               /\ at'[x] \in {"overlapped", "registerOp", "created"} =>
                    opState'[x] \in {"notStarted", "cancellationRequested"}
               /\ at'[x] = "start" => IF cancellable[x]
                                      THEN opState'[x] \in {"notStarted", "cancellationRequested"}
                                      ELSE opState'[x] = "started"
    <3>1. CASE x = c
      BY <1>10, <2>1, <3>1
    <3>2. CASE x # c
      BY <1>10, <2>1, <3>2 DEF IInv, Operated
    <3> QED
      BY <3>1, <3>2
  <2>4. cancellable' = cancellable /\ plan' = plan
    BY <1>1 DEF timerVars, tokenVars, programVars
  <2> QED
    BY <2>2, <2>3, <2>4 DEF Operated
<1> QED
  BY <1>8, <1>9, <1>10, <1>11 DEF IInv, Values

LEMMA IoStepKeeps ==
  ASSUME IInv, NEW t \in IoThreads, IoStep(t)
  PROVE  IInv'
<1>1. CASE LoopStep(t) /\ UNCHANGED <<timerVars, opVars, programVars>>
  BY <1>1, EnterKeeps, InsideKeeps, TakeOverflowKeeps, RepostKeeps, WaitForWakeUpKeeps,
     ExitKeeps
     DEF LoopStep
<1>2. ASSUME NEW c \in Coros, WaitForCoroutine(t, c, "resumed"),
             UNCHANGED <<timerVars, opVars, programVars>>
      PROVE  IInv'
  BY <1>2, WaitForCoroutineKeeps
<1>3. ASSUME NEW c \in Coros, NEW e \in ErrorCodes, OnCompleted(t, c, e), UNCHANGED programVars
      PROVE  IInv'
  BY <1>3, OnCompletedKeeps
<1> QED
  BY <1>1, <1>2, <1>3 DEF IoStep


-----------------------------------------------------------------------------
(* The timer thread.                                                       *)

\* What a step of it leaves alone.
LEMMA TimerThreadFrame ==
  ASSUME IInv, UNCHANGED <<stackVars, countVars, loopVars, tokenVars, now, dueTime, shutDown, opVars,
                           programVars>>,
         \/ port' = port
         \/ /\ port' \in Seq(Packets) /\ Len(port') >= Len(port)
            /\ \A x \in Coros, f \in ErrorCodes : Has(port', Done(x, f)) => Has(port, Done(x, f)),
         overflow' \in Seq(Coros)
  PROVE  /\ Orderly' /\ Labels' /\ Operated' /\ Stopped'
         /\ ServiceValues' /\ OperationValues' /\ ProgramValues' /\ at' = at /\ plan' = plan
<1>1. at' = at /\ stack' = stack /\ plan' = plan
  BY DEF stackVars, programVars
<1>2. Orderly' /\ Labels'
  BY <1>1 DEF IInv, Orderly, Labels
<1>3. /\ port \in Seq(Packets) /\ port' \in Seq(Packets) /\ Len(port') \in Nat /\ Len(port') >= Len(port)
      /\ \A x \in Coros, f \in ErrorCodes : Has(port', Done(x, f)) => Has(port, Done(x, f))
  BY DEF IInv, Values, ServiceValues
<1>4. ServiceValues' /\ OperationValues' /\ ProgramValues'
  BY <1>3 DEF IInv, Values, ServiceValues, OperationValues, ProgramValues, countVars, loopVars,
     tokenVars, opVars, programVars
<1>5. Operated'
  BY <1>1, <1>3, SameOperations DEF IInv, opVars, tokenVars
<1>6. Stopped'
  <2>1. ToWait' = ToWait /\ UNCHANGED <<stopRequested, wakes>>
    BY DEF ToWait, loopVars, countVars
  <2>2. stopRequested' => stopRequested /\ Cardinality(ToWait') <= Len(port') + wakes'
    BY <1>3, <2>1, SameWaits DEF IInv
  <2> QED
    BY <1>1, <2>2, SameStop DEF IInv, countVars, loopVars, programVars
<1> QED
  BY <1>1, <1>2, <1>4, <1>5, <1>6

\* Timers go from one list of the thread to another.
LEMMA ListsFrame ==
  ASSUME IInv, UNCHANGED <<stackVars, serviceVars, tokenVars, now, dueTime, refCount, shutDown, opVars,
                           programVars>>,
         TimerValues', {timer, timer'} \cap {"schedule", "push"} = {},
         Once(newTimers'), Once(ready'),
         \A x \in Coros : /\ Keeps(x)' <=> Keeps(x)
                          /\ ~(Has(newTimers', x) /\ (x \in queue' \cup todo' \/ Has(ready', x)))
                          /\ ~(Has(ready', x) /\ x \in queue' \cup todo'),
         timer' = "scan" => todo' \subseteq queue',
         timer' = "sort" => todo' \cap queue' = {},
         timer' \notin {"scan", "sort"} => todo' = {},
         \A x \in queue' : cancellable[x] /\ x \notin registered /\ ~(x \in running /\ canceller = "timer")
                             => cancelFlag' \/ (timer' = "scan" /\ x \in todo'),
         Awake'
  PROVE  IInv'
<1>1. /\ Orderly' /\ Labels' /\ Operated' /\ Stopped'
      /\ ServiceValues' /\ OperationValues' /\ ProgramValues' /\ at' = at /\ plan' = plan
  <2>1. UNCHANGED <<countVars, loopVars, port>> /\ overflow' \in Seq(Coros)
    BY DEF serviceVars, countVars, loopVars, IInv, Values, ServiceValues
  <2> QED
    BY <2>1, TimerThreadFrame
<1>2. Posted'
  BY <1>1, SamePosts DEF IInv, serviceVars
<1>3. Kept'
  <2>1. \A x \in Coros : ~Gone(x) /\ ~Gone(x)'
    BY DEF Gone
  <2>2. timer' \notin {"schedule", "push"} /\ refCount' = refCount
    OBVIOUS
  <2>3. \A x \in Coros :
          /\ Keeps(x)' => /\ plan'[x] = "timer"
                          /\ \/ at'[x] \in {"wake", "letGo"} /\ refCount'[x] = 2
                             \/ at'[x] = "suspended" /\ refCount'[x] = 1
          /\ at'[x] \in {"wake", "letGo"} /\ ~Keeps(x)' => refCount'[x] = 1
          /\ at'[x] \in {"created", "timer", "register", "flag", "wakeForFlag", "enqueue"}
               => refCount'[x] = 2
    BY <1>1, <2>1, <2>2 DEF IInv, Kept
  <2> QED
    BY <2>1, <2>2, <2>3 DEF Kept
<1>4. Callbacks'
  <2>1. UNCHANGED <<requested, registered, running, cancellable, canceller>>
    BY DEF tokenVars, programVars
  <2> QED
    BY <1>1, <2>1 DEF IInv, Callbacks
<1> QED
  BY <1>1, <1>2, <1>3, <1>4 DEF IInv, Values


\* The thread looks at its lists, and leaves them as they are.
LEMMA LookKeeps ==
  ASSUME IInv, UNCHANGED <<opVars, programVars>>, CheckShutDown \/ WokenUp \/ TimerFired
  PROVE  IInv'
<1>1. /\ UNCHANGED <<stackVars, serviceVars, tokenVars, now, dueTime, refCount, shutDown>>
      /\ UNCHANGED <<newTimers, cancelFlag, polls, queue, todo, ready>>
      /\ timer \in {"check", "wait"} /\ timer' \in {"ended", "wait", "cancelled", "due"}
  BY DEF CheckShutDown, WokenUp, TimerFired, sharedVars
<1>2. /\ TimerValues
      /\ Once(newTimers) /\ Once(ready) /\ todo = {}
      /\ \A x \in Coros : /\ ~(Has(newTimers, x) /\ (x \in queue \cup todo \/ Has(ready, x)))
                          /\ ~(Has(ready, x) /\ x \in queue \cup todo)
  BY <1>1 DEF IInv, Values, Kept
<1>3. /\ Once(newTimers') /\ Once(ready') /\ todo' = {}
      /\ \A x \in Coros : /\ Keeps(x)' <=> Keeps(x)
                          /\ ~(Has(newTimers', x) /\ (x \in queue' \cup todo' \/ Has(ready', x)))
                          /\ ~(Has(ready', x) /\ x \in queue' \cup todo')
  BY <1>1, <1>2 DEF Keeps
<1>4. \A x \in queue' : cancellable[x] /\ x \notin registered /\ ~(x \in running /\ canceller = "timer")
                          => cancelFlag' \/ (timer' = "scan" /\ x \in todo')
  BY <1>1 DEF IInv, Callbacks
<1>5. armed' \in Nat /\ lastSet' = armed' /\ (timer' = "wait" => armed' = armed)
  <2>1. Never \in Nat /\ armed = lastSet /\ armed \in Nat
    BY <1>2, TimeAssumption DEF Never, TimerValues, IInv, Awake
  <2>2. \/ armed' = armed /\ lastSet' = lastSet
        \/ armed' = Never /\ lastSet' = Never /\ timer' = "due"
    BY DEF CheckShutDown, WokenUp, TimerFired
  <2> QED
    BY <2>1, <2>2
<1>6. TimerValues'
  BY <1>1, <1>2, <1>5 DEF TimerValues, tokenVars, TimerThreadAt
<1>7. Awake'
  <2>1. at' = at /\ canceller' = canceller /\ dueTime' = dueTime
    BY <1>1 DEF stackVars, programVars
  <2>2. wakeEvent' = wakeEvent \/ timer' = "cancelled"
    BY DEF CheckShutDown, WokenUp, TimerFired, sharedVars
  <2>3. timer' \in {"ended", "wait"} => timer = "check" /\ polls' = polls /\ armed' = armed
    BY <1>5 DEF CheckShutDown, WokenUp, TimerFired
  <2> QED
    BY <1>1, <1>5, <2>1, <2>2, <2>3 DEF IInv, Awake
<1> QED
  BY <1>1, <1>3, <1>4, <1>6, <1>7, ListsFrame

LEMMA TakeFlagKeeps ==
  ASSUME IInv, UNCHANGED <<opVars, programVars>>, TakeFlag
  PROVE  IInv'
<1>1. /\ UNCHANGED <<stackVars, serviceVars, tokenVars, now, dueTime, refCount, shutDown>>
      /\ UNCHANGED <<newTimers, wakeEvent, armed, lastSet, polls, queue, ready>>
      /\ timer = "cancelled" /\ timer' \in {"scan", "takeNew"} /\ cancelFlag' = FALSE
      /\ IF cancelFlag THEN timer' = "scan" /\ todo' = queue ELSE timer' = "takeNew" /\ todo' = todo
  BY DEF TakeFlag
<1>2. /\ TimerValues
      /\ Once(newTimers) /\ Once(ready) /\ todo = {}
      /\ \A x \in Coros : /\ ~(Has(newTimers, x) /\ (x \in queue \cup todo \/ Has(ready, x)))
                          /\ ~(Has(ready, x) /\ x \in queue \cup todo)
  BY <1>1 DEF IInv, Values, Kept
<1>3. /\ Once(newTimers') /\ Once(ready')
      /\ \A x \in Coros : /\ Keeps(x)' <=> Keeps(x)
                          /\ ~(Has(newTimers', x) /\ (x \in queue' \cup todo' \/ Has(ready', x)))
                          /\ ~(Has(ready', x) /\ x \in queue' \cup todo')
      /\ timer' = "scan" => todo' \subseteq queue'
      /\ timer' \notin {"scan", "sort"} => todo' = {}
  BY <1>1, <1>2 DEF Keeps
<1>4. \A x \in queue' : cancellable[x] /\ x \notin registered /\ ~(x \in running /\ canceller = "timer")
                          => cancelFlag' \/ (timer' = "scan" /\ x \in todo')
  BY <1>1 DEF IInv, Callbacks
<1>5. TimerValues'
  BY <1>1, <1>2 DEF TimerValues, tokenVars, TimerThreadAt
<1>6. Awake'
  <2>1. at' = at /\ canceller' = canceller /\ dueTime' = dueTime
    BY <1>1 DEF stackVars, programVars
  <2> QED
    BY <1>1, <2>1 DEF IInv, Awake
<1> QED
  BY <1>1, <1>3, <1>4, <1>5, <1>6, ListsFrame

\* A timer that is kept, and not cancelled, has a callback.
LEMMA KeptHasACallback ==
  ASSUME IInv, NEW c \in Coros, Keeps(c), ~(cancellable[c] /\ requested), cancellable[c]
  PROVE  c \in registered
BY DEF IInv, Values, ProgramValues, Callbacks

LEMMA ScanKeeps ==
  ASSUME IInv, UNCHANGED <<opVars, programVars>>, Scan
  PROVE  IInv'
<1>1. /\ UNCHANGED <<stackVars, serviceVars, tokenVars, now, dueTime, refCount, shutDown>>
      /\ UNCHANGED <<newTimers, cancelFlag, wakeEvent, armed, lastSet, polls>> /\ timer = "scan"
  BY DEF Scan, sharedVars
<1>2. /\ TimerValues
      /\ Once(newTimers) /\ Once(ready) /\ todo \subseteq queue
      /\ \A x \in Coros : /\ ~(Has(newTimers, x) /\ (x \in queue \cup todo \/ Has(ready, x)))
                          /\ ~(Has(ready, x) /\ x \in queue \cup todo)
      /\ ready \in Seq(Coros) /\ queue \subseteq Coros
  BY <1>1 DEF IInv, Values, Kept, TimerValues
<1>3. timer' \in {"scan", "takeNew"} => Awake'
  <2>1. at' = at /\ canceller' = canceller
    BY <1>1 DEF stackVars, programVars
  <2> QED
    BY <1>1, <2>1 DEF IInv, Awake
<1>4. ASSUME NEW c \in todo, todo' = todo \ {c}, timer' = timer, cancellable[c], requested,
             queue' = queue \ {c}, ready' = <<c>> \o ready
      PROVE  IInv'
  <2>1. c \in Coros /\ c \in queue /\ ~Has(ready, c)
    BY <1>2
  <2>2. /\ ready' \in Seq(Coros) /\ Once(ready')
        /\ \A x : Has(ready', x) <=> x = c \/ Has(ready, x)
    BY <1>2, <1>4, <2>1, PushHas
  <2>3. \A x \in Coros : /\ Keeps(x)' <=> Keeps(x)
                         /\ ~(Has(newTimers', x) /\ (x \in queue' \cup todo' \/ Has(ready', x)))
                         /\ ~(Has(ready', x) /\ x \in queue' \cup todo')
    BY <1>1, <1>2, <1>4, <2>1, <2>2 DEF Keeps
  <2>4. \A x \in queue' : cancellable[x] /\ x \notin registered
                          /\ ~(x \in running /\ canceller = "timer")
                            => cancelFlag' \/ (timer' = "scan" /\ x \in todo')
    BY <1>1, <1>4 DEF IInv, Callbacks
  <2>5. TimerValues'
    BY <1>1, <1>2, <1>4, <2>2 DEF TimerValues, tokenVars
  <2>6. Once(newTimers') /\ todo' \subseteq queue' /\ timer' = "scan" /\ Awake'
    BY <1>1, <1>2, <1>3, <1>4
  <2> QED
    BY <1>1, <2>2, <2>3, <2>4, <2>5, <2>6, ListsFrame
<1>5. ASSUME NEW c \in todo, todo' = todo \ {c}, timer' = timer, ~(cancellable[c] /\ requested),
             queue' = queue, ready' = ready
      PROVE  IInv'
  <2>1. c \in Coros /\ c \in queue /\ Keeps(c)
    BY <1>2 DEF Keeps
  <2>2. \A x \in Coros : /\ Keeps(x)' <=> Keeps(x)
                         /\ ~(Has(newTimers', x) /\ (x \in queue' \cup todo' \/ Has(ready', x)))
                         /\ ~(Has(ready', x) /\ x \in queue' \cup todo')
    BY <1>1, <1>2, <1>5, <2>1 DEF Keeps
  <2>3. cancellable[c] => c \in registered
    BY <1>5, <2>1, KeptHasACallback
  <2>4. \A x \in queue' : cancellable[x] /\ x \notin registered
                          /\ ~(x \in running /\ canceller = "timer")
                            => cancelFlag' \/ (timer' = "scan" /\ x \in todo')
    BY <1>1, <1>5, <2>3 DEF IInv, Callbacks
  <2>5. TimerValues'
    BY <1>1, <1>2, <1>5 DEF TimerValues, tokenVars
  <2>6. Once(newTimers') /\ Once(ready') /\ todo' \subseteq queue' /\ timer' = "scan" /\ Awake'
    BY <1>1, <1>2, <1>3, <1>5
  <2> QED
    BY <1>1, <2>2, <2>4, <2>5, <2>6, ListsFrame
<1>6. ASSUME todo = {}, timer' = "takeNew", UNCHANGED <<queue, todo, ready>>
      PROVE  IInv'
  <2>1. \A x \in Coros : /\ Keeps(x)' <=> Keeps(x)
                         /\ ~(Has(newTimers', x) /\ (x \in queue' \cup todo' \/ Has(ready', x)))
                         /\ ~(Has(ready', x) /\ x \in queue' \cup todo')
    BY <1>1, <1>2, <1>6 DEF Keeps
  <2>2. \A x \in queue' : cancellable[x] /\ x \notin registered
                          /\ ~(x \in running /\ canceller = "timer")
                            => cancelFlag' \/ (timer' = "scan" /\ x \in todo')
    BY <1>1, <1>6 DEF IInv, Callbacks
  <2>3. TimerValues'
    BY <1>1, <1>2, <1>6 DEF TimerValues, tokenVars, TimerThreadAt
  <2>4. Once(newTimers') /\ Once(ready') /\ todo' = {} /\ Awake'
    BY <1>1, <1>2, <1>3, <1>6
  <2> QED
    BY <1>1, <1>6, <2>1, <2>2, <2>3, <2>4, ListsFrame
<1> QED
  BY <1>4, <1>5, <1>6 DEF Scan


LEMMA TakeNewTimersKeeps ==
  ASSUME IInv, UNCHANGED <<opVars, programVars>>, TakeNewTimers
  PROVE  IInv'
<1>1. /\ UNCHANGED <<stackVars, serviceVars, tokenVars, now, dueTime, refCount, shutDown>>
      /\ UNCHANGED <<cancelFlag, wakeEvent, armed, lastSet, polls, queue, ready>>
      /\ timer = "takeNew" /\ timer' = "sort" /\ todo' = ToSet(newTimers) /\ newTimers' = <<>>
  BY DEF TakeNewTimers
<1>2. /\ TimerValues /\ newTimers \in Seq(Coros)
      /\ Once(newTimers) /\ Once(ready) /\ todo = {}
      /\ \A x \in Coros : /\ ~(Has(newTimers, x) /\ (x \in queue \cup todo \/ Has(ready, x)))
                          /\ ~(Has(ready, x) /\ x \in queue \cup todo)
  BY <1>1 DEF IInv, Values, Kept, TimerValues
<1>3. /\ newTimers' \in Seq(Coros) /\ Once(newTimers') /\ \A x : ~Has(newTimers', x)
      /\ \A x : x \in todo' <=> Has(newTimers, x)
      /\ todo' \subseteq Coros
  <2>1. \A x : x \in ToSet(newTimers) <=> Has(newTimers, x)
    BY <1>2, HasIsInSet
  <2>2. \A x : Has(newTimers, x) => x \in Coros
    BY <1>2 DEF Has
  <2> QED
    BY <1>1, <2>1, <2>2 DEF Once, Has
<1>4. \A x \in Coros : /\ Keeps(x)' <=> Keeps(x)
                       /\ ~(Has(newTimers', x) /\ (x \in queue' \cup todo' \/ Has(ready', x)))
                       /\ ~(Has(ready', x) /\ x \in queue' \cup todo')
  BY <1>1, <1>2, <1>3 DEF Keeps
<1>5. \A x \in queue' : cancellable[x] /\ x \notin registered /\ ~(x \in running /\ canceller = "timer")
                          => cancelFlag' \/ (timer' = "scan" /\ x \in todo')
  BY <1>1 DEF IInv, Callbacks
<1>6. TimerValues'
  BY <1>1, <1>2, <1>3 DEF TimerValues, tokenVars, TimerThreadAt
<1>7. Awake'
  <2>1. at' = at /\ canceller' = canceller
    BY <1>1 DEF stackVars, programVars
  <2> QED
    BY <1>1, <2>1 DEF IInv, Awake
<1>8. Once(ready') /\ timer' = "sort" /\ todo' \cap queue' = {}
  BY <1>1, <1>2, <1>3 DEF TimerValues
<1> QED
  BY <1>1, <1>3, <1>4, <1>5, <1>6, <1>7, <1>8, ListsFrame

LEMMA SortKeeps ==
  ASSUME IInv, UNCHANGED <<opVars, programVars>>, Sort
  PROVE  IInv'
<1>1. /\ UNCHANGED <<stackVars, serviceVars, tokenVars, now, dueTime, refCount, shutDown>>
      /\ UNCHANGED <<newTimers, cancelFlag, wakeEvent, armed, lastSet, polls>> /\ timer = "sort"
  BY DEF Sort, sharedVars
<1>2. /\ TimerValues
      /\ Once(newTimers) /\ Once(ready) /\ todo \cap queue = {}
      /\ \A x \in Coros : /\ ~(Has(newTimers, x) /\ (x \in queue \cup todo \/ Has(ready, x)))
                          /\ ~(Has(ready, x) /\ x \in queue \cup todo)
      /\ ready \in Seq(Coros) /\ todo \subseteq Coros
  BY <1>1 DEF IInv, Values, Kept, TimerValues
<1>3. timer' \in {"sort", "due"} => Awake'
  <2>1. at' = at /\ canceller' = canceller
    BY <1>1 DEF stackVars, programVars
  <2> QED
    BY <1>1, <2>1 DEF IInv, Awake
<1>4. ASSUME NEW c \in todo, todo' = todo \ {c}, timer' = timer, ready' = <<c>> \o ready, queue' = queue
      PROVE  IInv'
  <2>1. c \in Coros /\ ~Has(ready, c)
    BY <1>2
  <2>2. /\ ready' \in Seq(Coros) /\ Once(ready')
        /\ \A x : Has(ready', x) <=> x = c \/ Has(ready, x)
    BY <1>2, <1>4, <2>1, PushHas
  <2>3. \A x \in Coros : /\ Keeps(x)' <=> Keeps(x)
                         /\ ~(Has(newTimers', x) /\ (x \in queue' \cup todo' \/ Has(ready', x)))
                         /\ ~(Has(ready', x) /\ x \in queue' \cup todo')
    BY <1>1, <1>2, <1>4, <2>1, <2>2 DEF Keeps
  <2>4. \A x \in queue' : cancellable[x] /\ x \notin registered
                          /\ ~(x \in running /\ canceller = "timer")
                            => cancelFlag' \/ (timer' = "scan" /\ x \in todo')
    BY <1>1, <1>4 DEF IInv, Callbacks
  <2>5. TimerValues'
    BY <1>1, <1>2, <1>4, <2>2 DEF TimerValues, tokenVars
  <2>6. Once(newTimers') /\ todo' \cap queue' = {} /\ timer' = "sort" /\ Awake'
    BY <1>1, <1>2, <1>3, <1>4
  <2> QED
    BY <1>1, <2>2, <2>3, <2>4, <2>5, <2>6, ListsFrame
<1>5. ASSUME NEW c \in todo, todo' = todo \ {c}, timer' = timer, ~(cancellable[c] /\ requested),
             queue' = queue \cup {c}, ready' = ready
      PROVE  IInv'
  <2>1. c \in Coros /\ Keeps(c)
    BY <1>2 DEF Keeps
  <2>2. \A x \in Coros : /\ Keeps(x)' <=> Keeps(x)
                         /\ ~(Has(newTimers', x) /\ (x \in queue' \cup todo' \/ Has(ready', x)))
                         /\ ~(Has(ready', x) /\ x \in queue' \cup todo')
    BY <1>1, <1>2, <1>5, <2>1 DEF Keeps
  <2>3. cancellable[c] => c \in registered
    BY <1>5, <2>1, KeptHasACallback
  <2>4. \A x \in queue' : cancellable[x] /\ x \notin registered
                          /\ ~(x \in running /\ canceller = "timer")
                            => cancelFlag' \/ (timer' = "scan" /\ x \in todo')
    BY <1>1, <1>5, <2>3 DEF IInv, Callbacks
  <2>5. TimerValues'
    BY <1>1, <1>2, <1>5, <2>1 DEF TimerValues, tokenVars
  <2>6. Once(newTimers') /\ Once(ready') /\ todo' \cap queue' = {} /\ timer' = "sort" /\ Awake'
    BY <1>1, <1>2, <1>3, <1>5
  <2> QED
    BY <1>1, <2>2, <2>4, <2>5, <2>6, ListsFrame
<1>6. ASSUME todo = {}, timer' = "due", UNCHANGED <<queue, todo, ready>>
      PROVE  IInv'
  <2>1. \A x \in Coros : /\ Keeps(x)' <=> Keeps(x)
                         /\ ~(Has(newTimers', x) /\ (x \in queue' \cup todo' \/ Has(ready', x)))
                         /\ ~(Has(ready', x) /\ x \in queue' \cup todo')
    BY <1>1, <1>2, <1>6 DEF Keeps
  <2>2. \A x \in queue' : cancellable[x] /\ x \notin registered
                          /\ ~(x \in running /\ canceller = "timer")
                            => cancelFlag' \/ (timer' = "scan" /\ x \in todo')
    BY <1>1, <1>6 DEF IInv, Callbacks
  <2>3. TimerValues'
    BY <1>1, <1>2, <1>6 DEF TimerValues, tokenVars, TimerThreadAt
  <2>4. Once(newTimers') /\ Once(ready') /\ todo' = {} /\ Awake'
    BY <1>1, <1>2, <1>3, <1>6
  <2> QED
    BY <1>1, <1>6, <2>1, <2>2, <2>3, <2>4, ListsFrame
<1> QED
  BY <1>4, <1>5, <1>6 DEF Sort

\* The earliest of some timers.
LEMMA EarliestIsLeast ==
  ASSUME ProgramValues, NEW S, S \subseteq Coros, S # {}
  PROVE  /\ Earliest(S) \in Nat /\ \A c \in S : Earliest(S) <= dueTime[c]
         /\ \E c \in S : Earliest(S) = dueTime[c]
<1> DEFINE D == {dueTime[c] : c \in S}
<1>1. D \in SUBSET Nat /\ D # {} /\ \A c \in S : dueTime[c] \in D
  BY DEF ProgramValues
<1>2. \E d \in D : \A n \in D : d <= n
  BY <1>1, LeastNumber
<1>3. \E d \in D : \A c \in S : d <= dueTime[c]
  BY <1>1, <1>2
<1>4. Earliest(S) \in D /\ \A c \in S : Earliest(S) <= dueTime[c]
  BY <1>3 DEF Earliest
<1> QED
  BY <1>1, <1>4

LEMMA TakeDueKeeps ==
  ASSUME IInv, UNCHANGED <<opVars, programVars>>, TakeDue
  PROVE  IInv'
<1> DEFINE due == {c \in queue : dueTime[c] <= now}
           rest == queue \ due
<1>1. /\ UNCHANGED <<stackVars, serviceVars, tokenVars, now, dueTime, refCount, shutDown>>
      /\ UNCHANGED <<newTimers, cancelFlag, wakeEvent, todo>> /\ timer = "due" /\ timer' = "resume"
      /\ queue' = rest /\ ready' = SetToSeq(due) \o ready
  BY DEF TakeDue, sharedVars
<1>2. /\ TimerValues
      /\ Once(newTimers) /\ Once(ready) /\ todo = {}
      /\ \A x \in Coros : /\ ~(Has(newTimers, x) /\ (x \in queue \cup todo \/ Has(ready, x)))
                          /\ ~(Has(ready, x) /\ x \in queue \cup todo)
      /\ ready \in Seq(Coros) /\ queue \subseteq Coros
  BY <1>1 DEF IInv, Values, Kept, TimerValues
<1>3. due \subseteq queue /\ due \subseteq Coros /\ IsFiniteSet(due) /\ rest \subseteq Coros
  BY <1>2, FiniteAssumption, FS_Subset
<1>4. /\ armed' \in Nat /\ lastSet' = armed'
      /\ rest = {} \/ polls' \/ \A c \in rest : armed' <= dueTime[c]
  <2>1. armed = lastSet /\ armed \in Nat
    BY <1>2 DEF IInv, Awake, TimerValues
  <2>2. rest # {} => Earliest(rest) \in Nat /\ \A c \in rest : Earliest(rest) <= dueTime[c]
    BY <1>3, EarliestIsLeast DEF IInv, Values
  <2>3. IF rest = {} \/ Earliest(rest) = lastSet
        THEN UNCHANGED <<armed, lastSet, polls>>
        ELSE \/ armed' = Earliest(rest) /\ lastSet' = armed' /\ polls' = FALSE
             \/ polls' = TRUE /\ UNCHANGED <<armed, lastSet>>
    BY DEF TakeDue
  <2> HIDE DEF rest
  <2> QED
    BY <2>1, <2>2, <2>3
<1> HIDE DEF due
<1>5. /\ ready' \in Seq(Coros) /\ Once(ready')
      /\ \A x : Has(ready', x) <=> x \in due \/ Has(ready, x)
  <2>1. /\ SetToSeq(due) \in Seq(Coros) /\ Once(SetToSeq(due))
        /\ \A x : Has(SetToSeq(due), x) <=> x \in due
    BY <1>3, SetAsList
  <2>2. \A x : ~(Has(SetToSeq(due), x) /\ Has(ready, x))
    BY <1>2, <1>3, <2>1
  <2> QED
    BY <1>1, <1>2, <2>1, <2>2, ConcatHas
<1>6. \A x \in Coros : /\ Keeps(x)' <=> Keeps(x)
                       /\ ~(Has(newTimers', x) /\ (x \in queue' \cup todo' \/ Has(ready', x)))
                       /\ ~(Has(ready', x) /\ x \in queue' \cup todo')
  BY <1>1, <1>2, <1>3, <1>5 DEF Keeps
<1>7. \A x \in queue' : cancellable[x] /\ x \notin registered /\ ~(x \in running /\ canceller = "timer")
                          => cancelFlag' \/ (timer' = "scan" /\ x \in todo')
  BY <1>1, <1>3 DEF IInv, Callbacks
<1>8. TimerValues'
  BY <1>1, <1>2, <1>3, <1>4, <1>5 DEF TimerValues, tokenVars, TimerThreadAt
<1>9. Awake'
  <2>1. at' = at /\ canceller' = canceller /\ dueTime' = dueTime
    BY <1>1 DEF stackVars, programVars
  <2> QED
    BY <1>1, <1>4, <2>1 DEF IInv, Awake
<1> QED
  BY <1>1, <1>2, <1>5, <1>6, <1>7, <1>8, <1>9, ListsFrame


\* The thread lets go of the timer at the head of its list, whose coroutine is
\* its own to schedule when that has been done by await_suspend before.
LEMMA ResumeTimerKeeps ==
  ASSUME IInv, UNCHANGED <<opVars, programVars>>, ResumeTimer
  PROVE  IInv'
<1>1. /\ UNCHANGED <<stackVars, serviceVars, tokenVars, now, dueTime, shutDown>>
      /\ UNCHANGED <<newTimers, cancelFlag, wakeEvent, armed, lastSet, polls, queue, todo>>
      /\ timer = "resume"
  BY DEF ResumeTimer
<1>2. /\ TimerValues
      /\ Once(newTimers) /\ Once(ready) /\ todo = {}
      /\ \A x \in Coros : /\ ~(Has(newTimers, x) /\ (x \in queue \cup todo \/ Has(ready, x)))
                          /\ ~(Has(ready, x) /\ x \in queue \cup todo)
      /\ ready \in Seq(Coros)
  BY <1>1 DEF IInv, Values, Kept, TimerValues
<1>3. timer' \in {"check", "schedule", "resume"} => Awake'
  <2>1. at' = at /\ canceller' = canceller
    BY <1>1 DEF stackVars, programVars
  <2> QED
    BY <1>1, <2>1 DEF IInv, Awake
<1>4. CASE ready = <<>>
  <2>1. timer' = "check" /\ UNCHANGED <<refCount, ready>>
    BY <1>4 DEF ResumeTimer
  <2>2. Once(newTimers') /\ Once(ready') /\ todo' = {}
        /\ \A x \in Coros : /\ Keeps(x)' <=> Keeps(x)
                            /\ ~(Has(newTimers', x) /\ (x \in queue' \cup todo' \/ Has(ready', x)))
                            /\ ~(Has(ready', x) /\ x \in queue' \cup todo')
    BY <1>1, <1>2, <2>1 DEF Keeps
  <2>3. \A x \in queue' : cancellable[x] /\ x \notin registered
                          /\ ~(x \in running /\ canceller = "timer")
                            => cancelFlag' \/ (timer' = "scan" /\ x \in todo')
    BY <1>1 DEF IInv, Callbacks
  <2>4. TimerValues'
    BY <1>1, <1>2, <2>1 DEF TimerValues, tokenVars, TimerThreadAt
  <2> QED
    BY <1>1, <1>3, <2>1, <2>2, <2>3, <2>4, ListsFrame
<1>5. CASE ready # <<>>
  <2> DEFINE c == Head(ready)
  <2>1. /\ c \in Coros /\ Has(ready, c) /\ Once(Tail(ready)) /\ Tail(ready) \in Seq(Coros)
        /\ \A x \in Coros : Has(Tail(ready), x) <=> x # c /\ Has(ready, x)
    BY <1>2, <1>5, TailHas
  <2>2. /\ refCount' = [refCount EXCEPT ![c] = @ - 1]
        /\ IF refCount[c] = 1 THEN timer' = "schedule" /\ ready' = ready
                              ELSE timer' = "resume" /\ ready' = Tail(ready)
    BY <1>1, <1>5 DEF ResumeTimer
  <2> HIDE DEF c
  <2>3. Keeps(c) /\ \A x \in Coros : ~Gone(x)
    BY <1>1, <2>1 DEF Keeps, Gone
  <2>4. plan[c] = "timer" /\ ~In(c)
        /\ \/ at[c] \in {"wake", "letGo"} /\ refCount[c] = 2
           \/ at[c] = "suspended" /\ refCount[c] = 1
    BY <2>1, <2>3, Free DEF IInv, Kept
  <2>5. /\ refCount' \in [Coros -> Int] /\ refCount'[c] = refCount[c] - 1
        /\ \A x \in Coros : x # c => refCount'[x] = refCount[x]
    BY <1>2, <2>1, <2>2 DEF TimerValues
  <2>6. /\ ready' \in Seq(Coros) /\ Once(ready') /\ timer' \in {"schedule", "resume"}
        /\ \A x \in Coros : Has(ready', x) <=> Has(ready, x) /\ (x # c \/ at[c] = "suspended")
        /\ timer' = "schedule" <=> at[c] = "suspended"
    <3>1. CASE at[c] = "suspended"
      <4>1. timer' = "schedule" /\ ready' = ready
        BY <2>2, <2>4, <3>1
      <4> QED
        BY <1>2, <3>1, <4>1
    <3>2. CASE at[c] # "suspended"
      <4>1. timer' = "resume" /\ ready' = Tail(ready)
        BY <2>2, <2>4, <3>2
      <4>2. \A x \in Coros : Has(ready', x) <=> Has(ready, x) /\ x # c
        BY <2>1, <4>1
      <4> QED
        BY <2>1, <3>2, <4>1, <4>2
    <3> QED
      BY <3>1, <3>2
  <2>7. \A x \in Coros : Keeps(x)' <=> Keeps(x) /\ (x # c \/ at[c] = "suspended")
    BY <1>1, <1>2, <2>1, <2>6 DEF Keeps
  <2>8. \A x \in Coros : Gone(x)' <=> x = c /\ at[c] = "suspended"
    <3>1. at[c] = "suspended" => timer' = "schedule" /\ ready' = ready
      BY <2>2, <2>4
    <3>2. at[c] # "suspended" => timer' = "resume"
      BY <2>2, <2>4
    <3>3. Head(ready) = c
      BY DEF c
    <3> QED
      BY <1>5, <3>1, <3>2, <3>3 DEF Gone
  <2>9. /\ Orderly' /\ Labels' /\ Operated' /\ Stopped'
        /\ ServiceValues' /\ OperationValues' /\ ProgramValues' /\ at' = at /\ plan' = plan
    <3>1. UNCHANGED <<countVars, loopVars, port>> /\ overflow' \in Seq(Coros)
      BY <1>1 DEF serviceVars, countVars, loopVars, IInv, Values, ServiceValues
    <3> QED
      BY <1>1, <3>1, TimerThreadFrame
  <2>10. Posted'
    BY <1>1, <2>7, <2>9, SamePosts DEF IInv, serviceVars
  <2>11. Kept'
    <3>1. \A x \in Coros :
            /\ Keeps(x)' /\ Gone(x)' => plan'[x] = "timer" /\ at'[x] = "suspended"
            /\ Keeps(x)' /\ ~Gone(x)' => /\ plan'[x] = "timer"
                                         /\ \/ at'[x] \in {"wake", "letGo"} /\ refCount'[x] = 2
                                            \/ at'[x] = "suspended" /\ refCount'[x] = 1
            /\ at'[x] \in {"wake", "letGo"} /\ ~Keeps(x)' => refCount'[x] = 1
            /\ at'[x] \in {"created", "timer", "register", "flag", "wakeForFlag", "enqueue"}
                 => refCount'[x] = 2
      <4> SUFFICES ASSUME NEW x \in Coros
                   PROVE  /\ Keeps(x)' /\ Gone(x)' => plan[x] = "timer" /\ at[x] = "suspended"
                          /\ Keeps(x)' /\ ~Gone(x)'
                               => /\ plan[x] = "timer"
                                  /\ \/ at[x] \in {"wake", "letGo"} /\ refCount'[x] = 2
                                     \/ at[x] = "suspended" /\ refCount'[x] = 1
                          /\ at[x] \in {"wake", "letGo"} /\ ~Keeps(x)' => refCount'[x] = 1
                          /\ at[x] \in {"created", "timer", "register", "flag", "wakeForFlag", "enqueue"}
                               => refCount'[x] = 2
        BY <2>9
      <4>1. CASE x = c
        BY <2>3, <2>4, <2>5, <2>7, <2>8, <4>1
      <4>2. CASE x # c
        BY <2>3, <2>5, <2>7, <2>8, <4>2 DEF IInv, Kept
      <4> QED
        BY <4>1, <4>2
    <3>2. /\ timer' \in {"schedule", "push"} => ready' # <<>>
          /\ todo' = {} /\ Once(newTimers') /\ timer' \notin {"scan", "sort"}
          /\ \A x \in Coros : /\ ~(Has(newTimers', x) /\ (x \in queue' \cup todo' \/ Has(ready', x)))
                              /\ ~(Has(ready', x) /\ x \in queue' \cup todo')
      BY <1>1, <1>2, <1>5, <2>2, <2>6
    <3> QED
      BY <2>6, <3>1, <3>2 DEF Kept
  <2>12. Callbacks'
    <3>1. UNCHANGED <<requested, registered, running, cancellable, canceller, queue, cancelFlag>>
      BY <1>1 DEF tokenVars, programVars
    <3> QED
      BY <1>1, <2>7, <2>9, <3>1, SameCallbacks DEF IInv, Values, TimerValues
  <2>13. TimerValues'
    BY <1>1, <1>2, <2>5, <2>6 DEF TimerValues, tokenVars, TimerThreadAt
  <2> QED
    BY <1>3, <2>6, <2>9, <2>10, <2>11, <2>12, <2>13 DEF IInv, Values
<1> QED
  BY <1>4, <1>5

\* The coroutine of the timer that it has let go of is posted, or put in the
\* list when the port refuses it.
LEMMA ScheduleTimerKeeps ==
  ASSUME IInv, UNCHANGED <<opVars, programVars>>, ScheduleTimer
  PROVE  IInv'
<1> DEFINE c == Head(ready)
<1>1. /\ UNCHANGED <<stackVars, countVars, loopVars, tokenVars, now, dueTime, sharedVars, shutDown>>
      /\ UNCHANGED <<armed, lastSet, polls, queue, todo>> /\ timer \in {"schedule", "push"}
  BY DEF ScheduleTimer
<1>2. /\ TimerValues
      /\ Once(newTimers) /\ Once(ready) /\ todo = {} /\ ready # <<>>
      /\ \A x \in Coros : /\ ~(Has(newTimers, x) /\ (x \in queue \cup todo \/ Has(ready, x)))
                          /\ ~(Has(ready, x) /\ x \in queue \cup todo)
      /\ ready \in Seq(Coros)
  BY <1>1 DEF IInv, Values, Kept, TimerValues
<1>3. timer' \in {"resume", "push"} => Awake'
  <2>1. at' = at /\ canceller' = canceller
    BY <1>1 DEF stackVars, programVars
  <2> QED
    BY <1>1, <2>1 DEF IInv, Awake, sharedVars
<1>4. /\ c \in Coros /\ Has(ready, c) /\ Once(Tail(ready)) /\ Tail(ready) \in Seq(Coros)
      /\ \A x \in Coros : Has(Tail(ready), x) <=> x # c /\ Has(ready, x)
  BY <1>2, TailHas
<1>5. \/ port' = Append(port, Resume(c)) /\ timer' = "resume" /\ ready' = Tail(ready) /\ overflow' = overflow
      \/ port' = port /\ timer' = "push" /\ ready' = ready /\ overflow' = overflow
      \/ port' = port /\ timer' = "resume" /\ ready' = Tail(ready) /\ overflow' = <<c>> \o overflow
  BY DEF ScheduleTimer
<1> HIDE DEF c
<1>6. \A x \in Coros : Gone(x) <=> x = c
  BY <1>1, <1>2 DEF Gone, c
<1>7. plan[c] = "timer" /\ at[c] = "suspended" /\ Keeps(c)
      /\ ~Has(port, Resume(c)) /\ ~Has(overflow, c) /\ ~OnSome(batch, c)
  BY <1>4, <1>6, Free DEF IInv, Kept, Keeps, In
<1>8. /\ port \in Seq(Packets) /\ Len(port) \in Nat /\ OnePacketEach(port)
      /\ overflow \in Seq(Coros) /\ Once(overflow) /\ OnceInAll(batch)
  BY DEF IInv, Values, ServiceValues, Posted
<1>9. /\ port' \in Seq(Packets) /\ Len(port') >= Len(port) /\ OnePacketEach(port')
      /\ overflow' \in Seq(Coros) /\ Once(overflow') /\ batch' = batch
      /\ \A x \in Coros, f \in ErrorCodes : Has(port', Done(x, f)) => Has(port, Done(x, f))
      /\ \A x \in Coros : /\ Has(port', Resume(x)) => Has(port, Resume(x)) \/ x = c
                          /\ Has(overflow', x) => Has(overflow, x) \/ x = c
                          /\ ~(Has(port', Resume(x)) /\ (Has(overflow', x) \/ OnSome(batch', x)))
                          /\ ~(Has(overflow', x) /\ OnSome(batch', x))
                          /\ In(x)' => In(x) \/ (x = c /\ ready' = Tail(ready) /\ timer' = "resume")
  <2>1. /\ batch' = batch /\ c \in Coros
        /\ \A x \in Coros : /\ ~(Has(port, Resume(x)) /\ (Has(overflow, x) \/ OnSome(batch, x)))
                            /\ ~(Has(overflow, x) /\ OnSome(batch, x))
    BY <1>1, <1>4 DEF loopVars, IInv, Posted
  <2>2. CASE port' = Append(port, Resume(c)) /\ timer' = "resume" /\ ready' = Tail(ready)
             /\ overflow' = overflow
    <3>1. /\ port' \in Seq(Packets) /\ Len(port') = Len(port) + 1 /\ OnePacketEach(port')
          /\ \A x \in Coros : Has(port', Resume(x)) <=> x = c \/ Has(port, Resume(x))
          /\ \A x \in Coros, f \in ErrorCodes : Has(port', Done(x, f)) => Has(port, Done(x, f))
      BY <1>7, <2>1, <2>2, PostsResume
    <3> QED
      BY <1>7, <1>8, <2>1, <2>2, <3>1 DEF In
  <2>3. CASE port' = port /\ timer' = "push" /\ ready' = ready /\ overflow' = overflow
    BY <1>8, <2>1, <2>3 DEF In
  <2>4. CASE port' = port /\ timer' = "resume" /\ ready' = Tail(ready) /\ overflow' = <<c>> \o overflow
    <3>1. /\ overflow' \in Seq(Coros) /\ Once(overflow')
          /\ \A x : Has(overflow', x) <=> x = c \/ Has(overflow, x)
      BY <1>7, <1>8, <2>1, <2>4, PushHas
    <3> QED
      BY <1>7, <1>8, <2>1, <2>4, <3>1 DEF In
  <2> QED
    BY <1>5, <2>2, <2>3, <2>4
<1>10. /\ ready' \in Seq(Coros) /\ Once(ready')
       /\ \/ ready' = ready /\ timer' = "push"
          \/ ready' = Tail(ready) /\ timer' = "resume"
  BY <1>2, <1>4, <1>5
<1>11. \A x \in Coros : /\ Has(ready', x) <=> Has(ready, x) /\ (x # c \/ timer' = "push")
                        /\ Keeps(x)' <=> Keeps(x) /\ (x # c \/ timer' = "push")
  <2>1. \A x \in Coros : Has(ready', x) <=> Has(ready, x) /\ (x # c \/ timer' = "push")
    BY <1>4, <1>10
  <2> QED
    BY <1>1, <1>2, <1>4, <2>1 DEF Keeps, sharedVars
<1>12. /\ Orderly' /\ Labels' /\ Operated' /\ Stopped'
       /\ ServiceValues' /\ OperationValues' /\ ProgramValues' /\ at' = at /\ plan' = plan
  BY <1>1, <1>9, TimerThreadFrame
<1>13. Posted'
  <2>1. \A x \in Coros : In(x)' => at'[x] = "suspended" /\ plan'[x] # "overlapped" /\ ~Keeps(x)'
    BY <1>7, <1>9, <1>11, <1>12 DEF IInv, Posted
  <2>2. \A t \in IoThreads : loop'[t] = "repost" => batch'[t] # <<>>
    BY <1>1 DEF loopVars, IInv, Posted
  <2>3. OnceInAll(batch')
    BY <1>8, <1>9
  <2> QED
    BY <1>9, <2>1, <2>2, <2>3 DEF Posted
<1>14. Kept'
  <2>1. \A x \in Coros : Gone(x)' <=> x = c /\ timer' = "push"
    BY <1>2, <1>10 DEF Gone, c
  <2>2. refCount' = refCount
    BY <1>1 DEF sharedVars
  <2>3. \A x \in Coros :
          /\ Keeps(x)' /\ Gone(x)' => plan'[x] = "timer" /\ at'[x] = "suspended"
          /\ Keeps(x)' /\ ~Gone(x)' => /\ plan'[x] = "timer"
                                       /\ \/ at'[x] \in {"wake", "letGo"} /\ refCount'[x] = 2
                                          \/ at'[x] = "suspended" /\ refCount'[x] = 1
          /\ at'[x] \in {"wake", "letGo"} /\ ~Keeps(x)' => refCount'[x] = 1
          /\ at'[x] \in {"created", "timer", "register", "flag", "wakeForFlag", "enqueue"}
               => refCount'[x] = 2
    <3> SUFFICES ASSUME NEW x \in Coros
                 PROVE  /\ Keeps(x)' /\ Gone(x)' => plan[x] = "timer" /\ at[x] = "suspended"
                        /\ Keeps(x)' /\ ~Gone(x)'
                             => /\ plan[x] = "timer"
                                /\ \/ at[x] \in {"wake", "letGo"} /\ refCount[x] = 2
                                   \/ at[x] = "suspended" /\ refCount[x] = 1
                        /\ at[x] \in {"wake", "letGo"} /\ ~Keeps(x)' => refCount[x] = 1
                        /\ at[x] \in {"created", "timer", "register", "flag", "wakeForFlag", "enqueue"}
                             => refCount[x] = 2
      BY <1>12, <2>2
    <3>1. CASE x = c
      BY <1>7, <1>11, <2>1, <3>1
    <3>2. CASE x # c
      BY <1>6, <1>11, <2>1, <3>2 DEF IInv, Kept
    <3> QED
      BY <3>1, <3>2
  <2>4. /\ timer' \in {"schedule", "push"} => ready' # <<>>
        /\ todo' = {} /\ Once(newTimers') /\ timer' \notin {"scan", "sort"}
        /\ \A x \in Coros : /\ ~(Has(newTimers', x) /\ (x \in queue' \cup todo' \/ Has(ready', x)))
                            /\ ~(Has(ready', x) /\ x \in queue' \cup todo')
    BY <1>1, <1>2, <1>10, <1>11 DEF sharedVars
  <2> QED
    BY <1>10, <2>3, <2>4 DEF Kept
<1>15. Callbacks'
  <2>1. UNCHANGED <<requested, registered, running, cancellable, canceller, queue, cancelFlag>>
    BY <1>1 DEF tokenVars, programVars, sharedVars
  <2> QED
    BY <1>1, <1>11, <1>12, <2>1, SameCallbacks DEF IInv, Values, TimerValues
<1>16. TimerValues'
  BY <1>1, <1>2, <1>10 DEF TimerValues, tokenVars, sharedVars, TimerThreadAt
<1> QED
  BY <1>3, <1>10, <1>12, <1>13, <1>14, <1>15, <1>16 DEF IInv, Values

LEMMA TimerThreadKeeps ==
  ASSUME IInv, TimerThread
  PROVE  IInv'
BY LookKeeps, TakeFlagKeeps, ScanKeeps, TakeNewTimersKeeps, SortKeeps, TakeDueKeeps,
   ResumeTimerKeeps,
   ScheduleTimerKeeps DEF TimerThread, TimerStep


-----------------------------------------------------------------------------
(* The thread that requests cancellation.                                  *)

\* What a step of it leaves alone.
LEMMA CancellerFrame ==
  ASSUME IInv,
         UNCHANGED <<stackVars, countVars, loopVars, overflow, cancellable, now, dueTime, newTimers,
                     refCount, shutDown, threadVars, plan, outcome, main, resets>>,
         \/ port' = port
         \/ /\ port' \in Seq(Packets) /\ Len(port') >= Len(port) /\ OnePacketEach(port')
            /\ \A x \in Coros : Has(port', Resume(x)) => Has(port, Resume(x))
  PROVE  /\ Orderly' /\ Labels' /\ Posted' /\ Kept' /\ Stopped' /\ ServiceValues'
         /\ at' = at /\ \A x \in Coros : Keeps(x)' <=> Keeps(x)
<1>1. at' = at /\ stack' = stack /\ plan' = plan
  BY DEF stackVars
<1>2. Orderly' /\ Labels'
  BY <1>1 DEF IInv, Orderly, Labels
<1>3. /\ port \in Seq(Packets) /\ port' \in Seq(Packets) /\ Len(port') \in Nat /\ Len(port') >= Len(port)
  BY DEF IInv, Values, ServiceValues
<1>4. ServiceValues'
  BY <1>3 DEF IInv, Values, ServiceValues, countVars, loopVars
<1>5. \A x \in Coros : Keeps(x)' <=> Keeps(x)
  BY DEF Keeps, threadVars
<1>6. Posted'
  BY <1>1, <1>5, SamePosts DEF IInv, loopVars
<1>7. Kept'
  BY <1>1, SameKept DEF IInv, StillOrMoved, threadVars
<1>8. Stopped'
  <2>1. ToWait' = ToWait /\ UNCHANGED <<stopRequested, wakes>>
    BY DEF ToWait, loopVars, countVars
  <2>2. stopRequested' => stopRequested /\ Cardinality(ToWait') <= Len(port') + wakes'
    BY <1>3, <2>1, SameWaits DEF IInv
  <2> QED
    BY <1>1, <2>2, SameStop DEF IInv, countVars, loopVars
<1> QED
  BY <1>1, <1>2, <1>4, <1>5, <1>6, <1>7, <1>8

\* The steps that have nothing to do with an operation.
LEMMA RequestKeeps ==
  ASSUME IInv, Request \/ NextCallback \/ TimerCallback \/ Called,
         UNCHANGED <<stackVars, countVars, loopVars, overflow, cancellable, now, dueTime, newTimers,
                     refCount, shutDown, threadVars, plan, outcome, main, resets>>
  PROVE  IInv'
<1>1. UNCHANGED <<port, opVars>>
  BY DEF Request, NextCallback, TimerCallback, Called
<1>2. /\ Orderly' /\ Labels' /\ Posted' /\ Kept' /\ Stopped' /\ ServiceValues'
      /\ at' = at /\ \A x \in Coros : Keeps(x)' <=> Keeps(x)
  BY <1>1, CancellerFrame
<1>3. Operated'
  BY <1>1, <1>2, SameOperations DEF IInv, opVars
<1>4. OperationValues'
  BY <1>1 DEF IInv, Values, OperationValues, opVars
<1>5. /\ TimerValues /\ ProgramValues
      /\ queue' = queue /\ timer' = timer /\ todo' = todo
  BY DEF IInv, Values, threadVars
<1>6. ASSUME Request
      PROVE  TimerValues' /\ ProgramValues' /\ Callbacks' /\ Awake'
  <2>1. TimerValues' /\ ProgramValues'
    BY <1>5, <1>6 DEF Request, TimerValues, ProgramValues, threadVars, CancellerAt
  <2>2. Callbacks'
    BY <1>2, <1>5, <1>6 DEF Request, IInv, Callbacks
  <2>3. Awake'
    BY <1>2, <1>5, <1>6 DEF Request, IInv, Awake, threadVars
  <2> QED
    BY <2>1, <2>2, <2>3
<1>7. ASSUME NextCallback
      PROVE  TimerValues' /\ ProgramValues' /\ Callbacks' /\ Awake'
  <2>1. /\ UNCHANGED <<requested, cancelFlag, wakeEvent>> /\ canceller = "notify"
        /\ \/ \E c \in registered : /\ running' = {c} /\ registered' = registered \ {c}
                                    /\ canceller' = plan[c]
           \/ registered = {} /\ canceller' = "ended" /\ running' = running /\ registered' = registered
    BY <1>7 DEF NextCallback
  <2>2. \A c \in Coros : plan[c] \in Plans
    BY <1>5 DEF ProgramValues
  <2>3. canceller' \in CancellerAt \ {"idle", "wake"}
    BY <1>5, <2>1, <2>2 DEF CancellerAt, Plans, TimerValues
  <2>4. TimerValues' /\ ProgramValues'
    BY <1>5, <2>1, <2>3 DEF TimerValues, ProgramValues, threadVars
  <2>5. Callbacks'
    <3>1. \A x \in registered' \cup running' : x \in registered \cup running
      BY <2>1
    <3>2. \A x \in queue : x \notin registered' /\ ~(x \in running' /\ canceller' = "timer")
                             => x \notin registered
      <4>1. \A x \in queue : plan[x] = "timer"
        <5>1. \A x \in queue : x \in Coros /\ Keeps(x)
          BY <1>5 DEF TimerValues, Keeps
        <5> QED
          BY <5>1, Free DEF IInv
      <4> QED
        BY <2>1, <4>1
    <3> QED
      BY <1>2, <1>5, <2>1, <2>3, <3>1, <3>2 DEF IInv, Callbacks
  <2>6. Awake'
    BY <1>2, <1>5, <2>1 DEF IInv, Awake, threadVars
  <2> QED
    BY <2>4, <2>5, <2>6
<1>8. ASSUME TimerCallback
      PROVE  TimerValues' /\ ProgramValues' /\ Callbacks' /\ Awake'
  <2>1. UNCHANGED <<requested, registered, running>> /\ canceller \in {"timer", "wake"}
        /\ canceller' \in {"called", "wake"}
    BY <1>8 DEF TimerCallback
  <2>2. TimerValues' /\ ProgramValues'
    BY <1>5, <2>1 DEF TimerValues, ProgramValues, threadVars, CancellerAt
  <2>3. Callbacks'
    BY <1>2, <1>5, <1>8, <2>1 DEF TimerCallback, IInv, Callbacks
  <2>4. Awake'
    BY <1>2, <1>5, <1>8 DEF TimerCallback, IInv, Awake, threadVars
  <2> QED
    BY <2>2, <2>3, <2>4
<1>9. ASSUME Called
      PROVE  TimerValues' /\ ProgramValues' /\ Callbacks' /\ Awake'
  <2>1. TimerValues' /\ ProgramValues'
    BY <1>5, <1>9 DEF Called, TimerValues, ProgramValues, threadVars, CancellerAt
  <2>2. Callbacks'
    BY <1>2, <1>5, <1>9 DEF Called, IInv, Callbacks
  <2>3. Awake'
    BY <1>2, <1>5, <1>9 DEF Called, IInv, Awake, threadVars
  <2> QED
    BY <2>1, <2>2, <2>3
<1> QED
  BY <1>2, <1>3, <1>4, <1>6, <1>7, <1>8, <1>9 DEF IInv, Values

LEMMA OperationCallbackKeeps ==
  ASSUME IInv, OperationCallback,
         UNCHANGED <<stackVars, countVars, loopVars, overflow, cancellable, now, dueTime, newTimers,
                     refCount, shutDown, threadVars, plan, outcome, main, resets>>
  PROVE  IInv'
<1>1. UNCHANGED <<requested, registered, running, cancelFlag, wakeEvent, errorCode>>
      /\ canceller \in {"overlapped", "cancelIo"} /\ canceller' \in {"cancelIo", "called"}
  BY DEF OperationCallback
<1>2. PICK c \in running :
        \/ /\ opState' = IF opState[c] = "notStarted"
                         THEN [opState EXCEPT ![c] = "cancellationRequested"] ELSE opState
           /\ port' = port /\ kernel' = kernel
        \/ CancelIo(c) /\ opState' = opState
  BY DEF OperationCallback
<1>3. c \in Coros
  BY DEF IInv, Values, TimerValues
<1>4. /\ \/ port' = port
         \/ /\ port' \in Seq(Packets) /\ Len(port') >= Len(port) /\ OnePacketEach(port')
            /\ \A x \in Coros : Has(port', Resume(x)) => Has(port, Resume(x))
      /\ \A x \in Coros, f \in ErrorCodes : Has(port', Done(x, f)) => kernel'[x] = "packet"
      /\ kernel' \in [Coros -> {"idle", "pending", "packet"}]
      /\ \A x \in Coros : kernel'[x] = "idle" <=> kernel[x] = "idle"
  <2>1. CASE port' = port /\ kernel' = kernel
    BY <2>1 DEF IInv, Values, OperationValues, Operated
  <2>2. CASE CancelIo(c)
    BY <1>3, <2>2, CancelsIo
  <2> QED
    BY <1>2, <2>1, <2>2
<1>5. /\ opState' \in [Coros -> {"notStarted", "started", "cancellationRequested", "completed"}]
      /\ \A x \in Coros : \/ opState'[x] = opState[x]
                          \/ opState[x] = "notStarted" /\ opState'[x] = "cancellationRequested"
  BY <1>2, <1>3 DEF IInv, Values, OperationValues
<1>6. /\ Orderly' /\ Labels' /\ Posted' /\ Kept' /\ Stopped' /\ ServiceValues'
      /\ at' = at /\ \A x \in Coros : Keeps(x)' <=> Keeps(x)
  BY <1>4, CancellerFrame
<1>7. OperationValues' /\ TimerValues' /\ ProgramValues'
  BY <1>1, <1>4, <1>5 DEF IInv, Values, OperationValues, TimerValues, ProgramValues, threadVars,
     CancellerAt
<1>8. Operated'
  BY <1>4, <1>5, <1>6 DEF IInv, Operated
<1>9. Callbacks'
  BY <1>1, <1>6 DEF IInv, Callbacks, threadVars
<1>10. Awake'
  BY <1>1, <1>6 DEF IInv, Awake, threadVars
<1> QED
  BY <1>6, <1>7, <1>8, <1>9, <1>10 DEF IInv, Values

LEMMA CancellerStepKeeps ==
  ASSUME IInv, CancellerStep
  PROVE  IInv'
BY RequestKeeps, OperationCallbackKeeps DEF CancellerStep

-----------------------------------------------------------------------------
(* The system and the clock.                                               *)

LEMMA KernelKeeps ==
  ASSUME IInv, Kernel
  PROVE  IInv'
<1>1. PICK c \in Coros : KernelCompletes(c) /\ UNCHANGED programVars
  BY DEF Kernel
<1>2. /\ UNCHANGED <<stackVars, outside, registered, running, opState, errorCode, programVars>>
      /\ kernel[c] = "pending" /\ kernel' = [kernel EXCEPT ![c] = "packet"]
      /\ \E e \in ErrorCodes : port' = Append(port, Done(c, e))
  BY <1>1 DEF KernelCompletes, ErrorCodes
<1>3. /\ port' \in Seq(Packets) /\ Len(port') = Len(port) + 1 /\ OnePacketEach(port')
      /\ \A x \in Coros : Has(port', Resume(x)) => Has(port, Resume(x))
      /\ \A x \in Coros, f \in ErrorCodes : Has(port', Done(x, f)) => kernel'[x] = "packet"
      /\ kernel' \in [Coros -> {"idle", "pending", "packet"}] /\ kernel'[c] = "packet"
      /\ \A x \in Coros : x # c => kernel'[x] = kernel[x]
  BY <1>2, Completes
<1>4. Len(port) \in Nat /\ Len(port') >= Len(port)
  BY <1>3 DEF IInv, Values, ServiceValues
<1>5. UNCHANGED <<stackVars, countVars, loopVars, overflow, cancellable, now, dueTime, newTimers,
                  refCount, shutDown, threadVars, plan, outcome, main, resets>>
      /\ UNCHANGED <<requested, registered, running, cancelFlag, wakeEvent, canceller>>
  BY <1>2 DEF outside, programVars, sharedVars
<1>6. /\ Orderly' /\ Labels' /\ Posted' /\ Kept' /\ Stopped' /\ ServiceValues'
      /\ at' = at /\ \A x \in Coros : Keeps(x)' <=> Keeps(x)
  BY <1>3, <1>4, <1>5, CancellerFrame
<1>7. OperationValues' /\ TimerValues' /\ ProgramValues'
  BY <1>2, <1>3, <1>5 DEF IInv, Values, OperationValues, TimerValues, ProgramValues, threadVars
<1>8. Operated'
  BY <1>2, <1>3, <1>5, <1>6 DEF IInv, Operated
<1>9. Callbacks'
  BY <1>5, <1>6 DEF IInv, Callbacks, threadVars
<1>10. Awake'
  BY <1>5, <1>6 DEF IInv, Awake, threadVars
<1> QED
  BY <1>6, <1>7, <1>8, <1>9, <1>10 DEF IInv, Values

LEMMA TimeKeeps ==
  ASSUME IInv, Time
  PROVE  IInv'
<1>1. /\ UNCHANGED <<stackVars, serviceVars, tokenVars, dueTime, sharedVars, shutDown, threadVars,
                     opVars, programVars>>
      /\ now' \in Nat
  BY DEF Time, Tick, IInv, Values, TimerValues
<1>2. /\ Orderly' /\ Labels' /\ Posted' /\ Kept' /\ Stopped' /\ ServiceValues'
      /\ at' = at /\ \A x \in Coros : Keeps(x)' <=> Keeps(x)
  <2>1. at' = at /\ stack' = stack /\ plan' = plan
    BY <1>1 DEF stackVars, programVars
  <2>2. \A x \in Coros : Keeps(x)' <=> Keeps(x)
    BY <1>1 DEF Keeps, sharedVars, threadVars
  <2>3. ServiceValues' /\ Orderly' /\ Labels'
    BY <1>1, <2>1 DEF IInv, Values, ServiceValues, Orderly, Labels, serviceVars
  <2>4. Posted'
    BY <1>1, <2>1, <2>2, SamePosts DEF IInv, serviceVars
  <2>5. Kept'
    BY <1>1, <2>1, SameKept DEF IInv, StillOrMoved, sharedVars, threadVars
  <2>6. Stopped'
    <3>1. ToWait' = ToWait /\ UNCHANGED <<stopRequested, wakes, port>> /\ Len(port') \in Nat
      BY <1>1 DEF ToWait, serviceVars, IInv, Values, ServiceValues
    <3>2. stopRequested' => stopRequested /\ Cardinality(ToWait') <= Len(port') + wakes'
      BY <3>1, SameWaits DEF IInv
    <3> QED
      BY <1>1, <2>1, <3>2, SameStop DEF IInv, serviceVars, programVars
  <2> QED
    BY <2>1, <2>2, <2>3, <2>4, <2>5, <2>6
<1>3. OperationValues' /\ TimerValues' /\ ProgramValues'
  BY <1>1
  DEF IInv, Values, OperationValues, TimerValues, ProgramValues, opVars, tokenVars, sharedVars,
     threadVars, programVars
<1>4. Operated'
  BY <1>1, <1>2, SameOperations DEF IInv, serviceVars, opVars, tokenVars, programVars
<1>5. Callbacks'
  BY <1>1, <1>2, SameCallbacks DEF IInv, Values, TimerValues, tokenVars, sharedVars, threadVars,
     programVars
<1>6. Awake'
  BY <1>1, <1>2, SameWakes DEF IInv, sharedVars, threadVars, programVars
<1> QED
  BY <1>2, <1>3, <1>4, <1>5, <1>6 DEF IInv, Values


-----------------------------------------------------------------------------
(* Main.                                                                   *)

LEMMA StartCoroutineKeeps ==
  ASSUME IInv, NEW c \in Coros, StartCoroutine(c)
  PROVE  IInv'
<1>1. /\ UNCHANGED <<stopRequested, activeThreads, port, overflow, loopVars, wakes, timerVars, opVars,
                     programVars>>
      /\ main = "start" /\ at[c] = "created" /\ workCount' = workCount + 1
      /\ ResumeOn(Main, c, plan[c])
  BY DEF StartCoroutine, WorkStarted
<1>2. plan[c] \in {"schedule", "timer", "overlapped"}
  BY DEF IInv, Values, ProgramValues, Plans
<1>3. Orderly' /\ Moves(c, plan[c])
  <2>1. Main \in Threads
    BY ThreadAssumption
  <2>2. plan[c] \in Places \ Suspensions /\ at[c] \in Suspensions
    BY <1>1, <1>2 DEF Places, TimerAt, ScheduleAt, OperationAt, Suspensions
  <2> QED
    BY <1>1, <2>1, <2>2, ResumeOnKeeps DEF IInv
<1>4. at'[c] = plan[c] /\ \A x \in Coros : x # c => at'[x] = at[x]
  BY <1>3 DEF Moves
<1>5. ~Keeps(c) /\ ~In(c) /\ kernel[c] = "idle"
  BY <1>1, Free DEF IInv, Operated
<1>6. /\ \A x \in Coros : Keeps(x)' <=> Keeps(x)
      /\ ~In(c)'
  BY <1>1, <1>5 DEF Keeps, In, timerVars, sharedVars, threadVars, loopVars
<1>7. Labels'
  <2>1. plan[c] \in IF plan[c] = "schedule" THEN ScheduleAt
                    ELSE IF plan[c] = "timer" THEN TimerAt ELSE OperationAt
    BY <1>2 DEF ScheduleAt, TimerAt, OperationAt
  <2> QED
    BY <1>1, <1>3, <2>1, LabelsKeep DEF IInv, programVars
<1>8. Values'
  BY <1>1
  DEF IInv, Values, ServiceValues, TimerValues, OperationValues, ProgramValues, loopVars,
     timerVars, tokenVars, sharedVars, threadVars, opVars, programVars
<1>9. Posted'
  BY <1>1, <1>4, <1>6, SamePosts DEF IInv, loopVars, programVars
<1>10. Kept'
  BY <1>1, <1>2, <1>4, <1>5, SameKept
     DEF IInv, StillOrMoved, timerVars, sharedVars, threadVars, programVars
<1>11. Operated'
  BY <1>1, <1>2, <1>4, <1>5, SameOperations DEF IInv, opVars, programVars, timerVars, tokenVars
<1>12. Callbacks'
  BY <1>1, <1>2, <1>4, <1>6, SameCallbacks DEF IInv, Values, TimerValues, timerVars, tokenVars,
     sharedVars, threadVars, programVars, Finished
<1>13. Awake'
  BY <1>1, <1>4, SameWakes DEF IInv, timerVars, sharedVars, threadVars, programVars
<1>14. Stopped'
  <2>1. c \notin Working /\ Working' = Working \cup {c}
    <3>1. \A x \in Coros : x \in Working' <=> x \in Working \/ x = c
      BY <1>1, <1>2, <1>4 DEF Working, Finished
    <3> QED
      BY <1>1, <3>1 DEF Working
  <2>2. Cardinality(Working') = Cardinality(Working) + 1 /\ Cardinality(Working) \in Nat
    BY <2>1, FiniteParts, OneMore
  <2>3. workCount = Cardinality(Working) + 1 /\ workCount' = Cardinality(Working') + 1 /\ main' = "start"
    BY <1>1, <2>2 DEF IInv, Stopped, programVars
  <2>4. workCount # 0
    BY <2>2, <2>3
  <2>5. (\A x \in Coros : ~Stopper(x)) /\ wakes = 0
    BY <1>1, <2>4 DEF IInv, Stopped, Stopper
  <2>6. \A x \in Coros : ~Stopper(x)'
    BY <1>2, <1>4, <2>5 DEF Stopper
  <2>7. InLoop' = InLoop /\ ToWait' = ToWait
    BY <1>1 DEF InLoop, ToWait, loopVars
  <2> QED
    BY <1>1, <2>3, <2>5, <2>6, <2>7 DEF IInv, Stopped
<1> QED
  BY <1>3, <1>7, <1>8, <1>9, <1>10, <1>11, <1>12, <1>13, <1>14 DEF IInv

\* What a step of main leaves alone.
LEMMA MainFrame ==
  ASSUME IInv,
         UNCHANGED <<stackVars, tokenVars, now, dueTime, newTimers, cancelFlag, refCount, threadVars,
                     opVars, plan, outcome, canceller, activeThreads, overflow, loopVars>>,
         stopRequested' \in BOOLEAN, workCount' \in Int, wakes' \in Nat, wakeEvent' \in {wakeEvent, TRUE},
         \/ port' = port
         \/ /\ port' \in Seq(Packets) /\ OnePacketEach(port')
            /\ \A x \in Coros : Has(port', Resume(x)) => Has(port, Resume(x))
            /\ \A x \in Coros, f \in ErrorCodes : Has(port', Done(x, f)) => Has(port, Done(x, f))
  PROVE  /\ Orderly' /\ Labels' /\ Values' /\ Posted' /\ Kept' /\ Operated' /\ Callbacks' /\ Awake'
         /\ at' = at /\ Working' = Working /\ InLoop' = InLoop /\ ToWait' = ToWait
         /\ (AllOut' <=> AllOut) /\ (AllDone' <=> AllDone)
<1>1. at' = at /\ stack' = stack
  BY DEF stackVars
<1>2. \A x \in Coros : Keeps(x)' <=> Keeps(x)
  BY DEF Keeps, threadVars
<1>3. Orderly' /\ Labels'
  BY <1>1 DEF IInv, Orderly, Labels
<1>4. Values'
  BY DEF IInv, Values, ServiceValues, TimerValues, OperationValues, ProgramValues, loopVars,
     tokenVars,
     threadVars, opVars
<1>5. Posted'
  BY <1>1, <1>2, SamePosts DEF IInv, loopVars
<1>6. Kept'
  BY <1>1, SameKept DEF IInv, StillOrMoved, threadVars
<1>7. Operated'
  BY <1>1, SameOperations DEF IInv, opVars, tokenVars
<1>8. Callbacks'
  BY <1>1, <1>2, SameCallbacks DEF IInv, Values, TimerValues, tokenVars, threadVars
<1>9. Awake'
  BY <1>1 DEF IInv, Awake, threadVars
<1>10. Working' = Working /\ InLoop' = InLoop /\ ToWait' = ToWait
       /\ (AllOut' <=> AllOut) /\ (AllDone' <=> AllDone)
  BY <1>1 DEF Working, InLoop, ToWait, AllOut, AllDone, loopVars
<1> QED
  BY <1>1, <1>3, <1>4, <1>5, <1>6, <1>7, <1>8, <1>9, <1>10

LEMMA MainStepKeeps ==
  ASSUME IInv, MainStep
  PROVE  IInv'
<1>1. UNCHANGED <<stackVars, tokenVars, now, dueTime, newTimers, cancelFlag, refCount, threadVars,
                  opVars, plan, outcome, canceller>>
  BY DEF MainStep
<1>2. /\ Len(port) \in Nat /\ wakes \in Nat /\ activeThreads \in Int /\ workCount \in Int
      /\ stopRequested \in BOOLEAN
  BY DEF IInv, Values, ServiceValues
<1>3. /\ workCount = Cardinality(Working) + (IF main = "start" THEN 1 ELSE 0)
      /\ Cardinality(Working) \in Nat
  BY FiniteParts DEF IInv, Stopped
<1>4. main # "start" => main' # "start"
  BY DEF MainStep
<1>5. ASSUME main = "start", WorkFinished, main' = IF workCount = 1 THEN "stop" ELSE "join",
             UNCHANGED <<shutDown, wakeEvent, resets>>
      PROVE  IInv'
  <2>1. /\ UNCHANGED <<stopRequested, activeThreads, port, overflow, loopVars, wakes>>
        /\ workCount' = workCount - 1
    BY <1>5 DEF WorkFinished
  <2>2. /\ Orderly' /\ Labels' /\ Values' /\ Posted' /\ Kept' /\ Operated' /\ Callbacks' /\ Awake'
        /\ at' = at /\ Working' = Working /\ InLoop' = InLoop /\ ToWait' = ToWait
    BY <1>1, <1>2, <1>5, <2>1, MainFrame
  <2>3. workCount # 0 /\ workCount' = Cardinality(Working') /\ (workCount' = 0 <=> main' = "stop")
        /\ main' \in {"stop", "join"}
    BY <1>3, <1>5, <2>1, <2>2
  <2>4. (\A x \in Coros : ~Stopper(x)) /\ wakes = 0
    BY <1>5, <2>3 DEF IInv, Stopped, Stopper
  <2>5. \A x \in Coros : ~Stopper(x)'
    BY <2>2, <2>4 DEF Stopper
  <2>6. workCount' = Cardinality(Working') + (IF main' = "start" THEN 1 ELSE 0)
    BY <1>2, <2>1, <2>3
  <2>7. Stopped'
    BY <2>1, <2>2, <2>3, <2>4, <2>5, <2>6 DEF IInv, Stopped
  <2> QED
    BY <2>2, <2>7 DEF IInv
<1>6. ASSUME main = "stop", Stop, main' = IF wakes' = 0 THEN "join" ELSE "wakeUp",
             UNCHANGED <<shutDown, wakeEvent, resets>>
      PROVE  IInv'
  <2>1. UNCHANGED <<activeThreads, workCount, port, overflow, loopVars>> /\ stopRequested' = TRUE
    BY <1>6 DEF Stop
  <2>2. (\A x \in Coros : ~Stopper(x)) /\ wakes = 0 /\ workCount = 0
    BY <1>6 DEF IInv, Stopped, Stopper
  <2>3. /\ wakes' \in Nat /\ Cardinality(ToWait') <= Len(port') + wakes'
    BY <1>6, <2>2, StopReaches DEF IInv
  <2>4. /\ Orderly' /\ Labels' /\ Values' /\ Posted' /\ Kept' /\ Operated' /\ Callbacks' /\ Awake'
        /\ at' = at /\ Working' = Working /\ InLoop' = InLoop /\ ToWait' = ToWait
    BY <1>1, <1>2, <1>6, <2>1, <2>3, MainFrame
  <2>5. \A x \in Coros : ~Stopper(x)'
    BY <2>2, <2>4 DEF Stopper
  <2>6. main' \in {"join", "wakeUp"} /\ (wakes' # 0 => main' = "wakeUp")
    BY <1>6
  <2>7. Stopped'
    BY <1>3, <1>6, <2>1, <2>2, <2>3, <2>4, <2>5, <2>6 DEF IInv, Stopped
  <2> QED
    BY <2>4, <2>7 DEF IInv
<1>7. ASSUME main = "wakeUp", PostWakeUp, main' = IF wakes' = 0 THEN "join" ELSE "wakeUp",
             UNCHANGED <<shutDown, wakeEvent, resets>>
      PROVE  IInv'
  <2>1. UNCHANGED <<stopRequested, activeThreads, workCount, overflow, loopVars>>
    BY <1>7 DEF PostWakeUp
  <2>2. (\A x \in Coros : ~Stopper(x)) /\ workCount = 0
    BY <1>7 DEF IInv, Stopped, Stopper
  <2>3. /\ port' \in Seq(Packets) /\ OnePacketEach(port')
        /\ \A x \in Coros : Has(port', Resume(x)) => Has(port, Resume(x))
        /\ \A x \in Coros, f \in ErrorCodes : Has(port', Done(x, f)) => Has(port, Done(x, f))
        /\ wakes' \in Nat
        /\ stopRequested' => stopRequested /\ Cardinality(ToWait') <= Len(port') + wakes'
    BY <1>7, WakeUpReaches DEF IInv
  <2>4. /\ Orderly' /\ Labels' /\ Values' /\ Posted' /\ Kept' /\ Operated' /\ Callbacks' /\ Awake'
        /\ at' = at /\ Working' = Working /\ InLoop' = InLoop /\ ToWait' = ToWait
    BY <1>1, <1>2, <1>7, <2>1, <2>3, MainFrame
  <2>5. \A x \in Coros : ~Stopper(x)'
    BY <2>2, <2>4 DEF Stopper
  <2>6. main' \in {"join", "wakeUp"} /\ (wakes' # 0 => main' = "wakeUp")
    BY <1>7
  <2>7. Stopped'
    BY <1>3, <1>7, <2>1, <2>2, <2>3, <2>4, <2>5, <2>6 DEF IInv, Stopped
  <2> QED
    BY <2>4, <2>7 DEF IInv
<1>8. ASSUME main = "join", AllDone, AllOut, Reset, main' = "stop", UNCHANGED <<shutDown, wakeEvent>>
      PROVE  IInv'
  <2>1. UNCHANGED <<activeThreads, workCount, port, overflow, loopVars, wakes>> /\ stopRequested' = FALSE
    BY <1>8 DEF Reset
  <2>2. /\ Orderly' /\ Labels' /\ Values' /\ Posted' /\ Kept' /\ Operated' /\ Callbacks' /\ Awake'
        /\ at' = at /\ Working' = Working /\ InLoop' = InLoop /\ ToWait' = ToWait
    BY <1>1, <1>2, <1>8, <2>1, MainFrame
  <2>3. (\A x \in Coros : ~Stopper(x) /\ ~Stopper(x)') /\ wakes = 0
    <3>1. \A x \in Coros : at[x] = "done"
      BY <1>8 DEF AllDone
    <3> QED
      BY <1>8, <2>2, <3>1 DEF IInv, Stopped, Stopper
  <2>4. workCount = 0
    <3>1. Working = {}
      BY <1>8 DEF AllDone, Working, Finished
    <3> QED
      BY <1>3, <1>8, <3>1, FS_EmptySet
  <2>5. Stopped'
    BY <1>3, <1>8, <2>1, <2>2, <2>3, <2>4 DEF IInv, Stopped
  <2> QED
    BY <2>2, <2>5 DEF IInv
<1>9. ASSUME main \in {"join", "wakeTimer", "joinTimer"}, AllDone, AllOut, stopRequested,
             main' \in {"destroyed", "wakeTimer", "joinTimer"},
             UNCHANGED serviceVars, wakeEvent' \in {wakeEvent, TRUE}
      PROVE  IInv'
  <2>1. UNCHANGED <<stopRequested, activeThreads, workCount, port, overflow, loopVars, wakes>>
    BY <1>9 DEF serviceVars, loopVars
  <2>2. /\ Orderly' /\ Labels' /\ Values' /\ Posted' /\ Kept' /\ Operated' /\ Callbacks' /\ Awake'
        /\ at' = at /\ Working' = Working /\ InLoop' = InLoop /\ ToWait' = ToWait
        /\ (AllOut' <=> AllOut) /\ (AllDone' <=> AllDone)
    BY <1>1, <1>2, <1>9, <2>1, MainFrame
  <2>3. \A x \in Coros : Stopper(x)' <=> Stopper(x)
    BY <2>2 DEF Stopper
  <2>4. Stopped'
    BY <1>9, <2>1, <2>2, <2>3 DEF IInv, Stopped
  <2> QED
    BY <2>2, <2>4 DEF IInv
<1>10. main \in {"wakeTimer", "joinTimer"} => AllDone /\ AllOut /\ stopRequested
  BY DEF IInv, Stopped
<1> QED
  BY <1>5, <1>6, <1>7, <1>8, <1>9, <1>10 DEF MainStep


-----------------------------------------------------------------------------
(* The invariant.                                                          *)

LEMMA InitIsFine ==
  ASSUME Init
  PROVE  IInv
<1>1. PICK s \in Scenarios :
        /\ plan = s.plan /\ cancellable = s.cancellable /\ dueTime = s.dueTime
        /\ loop = [t \in IoThreads |-> IF t \in s.threads THEN "out" ELSE "absent"]
  BY DEF Init
<1>2. /\ s.plan \in [Coros -> Plans] /\ s.cancellable \in [Coros -> BOOLEAN]
      /\ s.dueTime \in [Coros -> 0..MaxTime]
  BY ScenarioAssumption DEF Plans
<1>3. \A c \in Coros : s.dueTime[c] \in Nat
  BY <1>2, TimeAssumption
<1>4. /\ stack = [t \in Threads |-> <<>>] /\ at = [c \in Coros |-> "created"]
      /\ stopRequested = FALSE /\ activeThreads = 0 /\ workCount = 1 /\ port = <<>> /\ overflow = <<>>
      /\ batch = [t \in IoThreads |-> <<>>] /\ wakes = 0
      /\ main = "start" /\ canceller = "idle"
  BY DEF Init, ServiceInit
<1>5. /\ requested = FALSE /\ registered = {} /\ running = {} /\ now = 0
      /\ refCount = [c \in Coros |-> 2] /\ timer = "off" /\ newTimers = <<>> /\ cancelFlag = FALSE
      /\ armed = Never /\ lastSet = Never /\ queue = {} /\ todo = {} /\ ready = <<>>
  BY DEF Init, TimersInit
<1>6. /\ opState = [c \in Coros |-> "notStarted"] /\ errorCode = [c \in Coros |-> "aborted"]
      /\ kernel = [c \in Coros |-> "idle"]
  BY DEF Init, OpInit
<1>7. (\A x : ~Has(<<>>, x)) /\ Once(<<>>) /\ OnePacketEach(<<>>)
  BY DEF Has, Once, OnePacketEach
<1>8. OnceInAll(batch) /\ (\A x : ~OnSome(batch, x)) /\ \A c \in Coros : ~In(c) /\ ~Keeps(c)
  <2>1. \A x : ~OnSome(batch, x)
    BY <1>4, <1>7 DEF OnSome
  <2>2. OnceInAll(batch)
    BY <1>4, <1>7, OneStackEach
  <2> QED
    BY <1>4, <1>5, <1>7, <2>1, <2>2 DEF In, Keeps
<1>9. Orderly
  <2>1. OnceInAll(stack) /\ \A x : ~OnSome(stack, x)
    BY <1>4, <1>7, OneStackEach DEF OnSome
  <2>2. stack \in [Threads -> Seq(Coros)] /\ at \in [Coros -> Places]
        /\ \A c \in Coros : at[c] \in Suspensions
    BY <1>4 DEF Places, TimerAt, ScheduleAt, Suspensions
  <2> QED
    BY <2>1, <2>2 DEF Orderly, Scheduled
<1>10. Labels
  BY <1>4 DEF Labels, ScheduleAt, TimerAt, OperationAt
<1>11. Values
  <2>1. ServiceValues
    <3>1. <<>> \in Seq(Packets) /\ <<>> \in Seq(Coros)
      OBVIOUS
    <3>2. batch \in [IoThreads -> Seq(Coros)] /\ loop \in [IoThreads -> LoopAt]
      BY <1>1, <1>4, <3>1 DEF LoopAt
    <3>3. port \in Seq(Packets) /\ overflow \in Seq(Coros)
      BY <1>4, <3>1
    <3>4. stopRequested \in BOOLEAN
      BY <1>4
    <3>5. activeThreads \in Int /\ workCount \in Int /\ wakes \in Nat
      <4>1. activeThreads = 0 /\ workCount = 1 /\ wakes = 0
        BY <1>4
      <4> QED
        BY <4>1
    <3> QED
      BY <3>2, <3>3, <3>4, <3>5 DEF ServiceValues
  <2>2. TimerValues
    <3>1. Never \in Nat
      BY TimeAssumption DEF Never
    <3>2. <<>> \in Seq(Coros) /\ [c \in Coros |-> 2] \in [Coros -> Int]
      OBVIOUS
    <3> QED
      BY <1>5, <3>1, <3>2 DEF TimerValues, TimerThreadAt
  <2>3. OperationValues
    BY <1>6 DEF OperationValues, ErrorCodes
  <2>4. ProgramValues
    BY <1>1, <1>2, <1>3, <1>4 DEF ProgramValues, CancellerAt
  <2> QED
    BY <2>1, <2>2, <2>3, <2>4 DEF Values
<1>12. Posted
  BY <1>1, <1>4, <1>7, <1>8 DEF Posted, In
<1>13. Kept
  BY <1>4, <1>5, <1>7, <1>8 DEF Kept
<1>14. Operated
  BY <1>4, <1>6, <1>7 DEF Operated
<1>15. Callbacks
  BY <1>4, <1>5, <1>8 DEF Callbacks
<1>16. Awake
  BY <1>5 DEF Awake
<1>17. Stopped
  <2>1. Working = {} /\ InLoop = {}
    BY <1>1, <1>4 DEF Working, InLoop
  <2>2. activeThreads = Cardinality(InLoop) /\ workCount = Cardinality(Working) + 1
    BY <1>4, <2>1, FS_EmptySet
  <2> QED
    BY <1>4, <2>2 DEF Stopped, Stopper
<1> QED
  BY <1>9, <1>10, <1>11, <1>12, <1>13, <1>14, <1>15, <1>16, <1>17 DEF IInv

LEMMA NextKeeps ==
  ASSUME IInv, Next
  PROVE  IInv'
<1>1. ASSUME NEW t \in Threads, Run(t) PROVE IInv'
  BY <1>1, CoroutineStepKeeps DEF Run
<1>2. ASSUME NEW t \in IoThreads, IoStep(t) PROVE IInv'
  BY <1>2, IoStepKeeps
<1>3. ASSUME NEW c \in Coros, StartCoroutine(c) PROVE IInv'
  BY <1>3, StartCoroutineKeeps
<1>4. CASE TimerThread
  BY <1>4, TimerThreadKeeps
<1>5. CASE CancellerStep
  BY <1>5, CancellerStepKeeps
<1>6. CASE MainStep
  BY <1>6, MainStepKeeps
<1>7. CASE Kernel \/ Time
  BY <1>7, KernelKeeps, TimeKeeps
<1> QED
  BY <1>1, <1>2, <1>3, <1>4, <1>5, <1>6, <1>7 DEF Next

LEMMA StutterKeeps ==
  ASSUME IInv, UNCHANGED vars
  PROVE  IInv'
<1>1. UNCHANGED <<stackVars, serviceVars, timerVars, opVars, programVars>>
  BY DEF vars
<1>2. UNCHANGED <<stack, at, plan, main, canceller, opState, errorCode, kernel>>
  BY <1>1 DEF stackVars, opVars, programVars
<1>3. UNCHANGED <<stopRequested, activeThreads, workCount, port, overflow, loop, batch, wakes>>
  BY <1>1 DEF serviceVars
<1>4. /\ UNCHANGED <<requested, registered, running, cancellable, now, dueTime, newTimers, cancelFlag>>
      /\ UNCHANGED <<wakeEvent, refCount, timer, armed, lastSet, polls, queue, todo, ready>>
  BY <1>1 DEF timerVars, tokenVars, sharedVars, threadVars
<1>5. Orderly' /\ Labels'
  BY <1>2 DEF IInv, Orderly, Labels
<1>6. Values'
  BY <1>2, <1>3, <1>4
  DEF IInv, Values, ServiceValues, TimerValues, OperationValues, ProgramValues
<1>7. \A c \in Coros : (In(c)' <=> In(c)) /\ (Keeps(c)' <=> Keeps(c)) /\ (Gone(c)' <=> Gone(c))
  BY <1>3, <1>4 DEF In, Keeps, Gone
<1>8. Posted' /\ Kept'
  BY <1>2, <1>3, <1>4, <1>7 DEF IInv, Posted, Kept
<1>9. Operated' /\ Callbacks' /\ Awake'
  BY <1>2, <1>3, <1>4, <1>7 DEF IInv, Operated, Callbacks, Awake
<1>10. Stopped'
  BY <1>2, <1>3 DEF IInv, Stopped, Working, InLoop, ToWait, Stopper, AllDone, AllOut
<1> QED
  BY <1>5, <1>6, <1>8, <1>9, <1>10 DEF IInv

\* The parts of the invariant hold together in every state: each coroutine is on
\* one stack, in one packet, in one list or in the system, and the two counts of
\* the service are right.
THEOREM InvariantHolds == Spec => []IInv
<1>1. Init => IInv
  BY InitIsFine
<1>2. IInv /\ [Next]_vars => IInv'
  BY NextKeeps, StutterKeeps
<1> QED
  BY <1>1, <1>2, PTL DEF Spec

-----------------------------------------------------------------------------
(* What it is for.                                                         *)

\* A coroutine that waits is on no thread's stack and any other is on just one,
\* once: of await_suspend, the timer thread, the completion of an operation and
\* its cancellation, one resumes it.
THEOREM ResumedOnce == Spec => []OneActivation
<1>1. IInv => OneActivation
  <2> SUFFICES ASSUME IInv, NEW c \in Coros
               PROVE  Activations(c) = IF at[c] \in Suspensions THEN 0 ELSE 1
    BY DEF OneActivation
  <2> DEFINE P == {p \in Threads \X (1..Cardinality(Coros)) :
                     p[2] <= Len(stack[p[1]]) /\ stack[p[1]][p[2]] = c}
  <2>1. \A p : p \in P <=> /\ p \in Threads \X (1..Cardinality(Coros))
                           /\ p[2] <= Len(stack[p[1]]) /\ stack[p[1]][p[2]] = c
    OBVIOUS
  <2> HIDE DEF P
  <2>2. Cardinality(P) = IF at[c] \in Suspensions THEN 0 ELSE 1
    BY <2>1, RunsOnce, FiniteAssumption DEF IInv, Orderly
  <2> QED
    BY <2>2 DEF P, Activations
<1> QED
  BY <1>1, InvariantHolds, PTL

\* Once a coroutine goes on, and its frame may end, neither the timer thread nor
\* the system nor a callback has hold of what it awaited; and a destroyed
\* service has no callback running, nobody in its list and nobody in its loops.
THEOREM NobodyUsesIt == Spec => []NothingUsesAFinishedOperation
<1>1. IInv => NothingUsesAFinishedOperation
  <2> SUFFICES ASSUME IInv PROVE NothingUsesAFinishedOperation
    OBVIOUS
  <2>1. /\ newTimers \in Seq(Coros) /\ ready \in Seq(Coros) /\ overflow \in Seq(Coros)
        /\ running \subseteq Coros
    BY DEF IInv, Values, TimerValues, ServiceValues
  <2>2. ASSUME NEW c \in Coros, at[c] \in {"leave", "stop", "wakeUp", "done"}
        PROVE  ~Referenced(c)
    <3>1. ~Keeps(c) /\ kernel[c] = "idle"
      BY <2>2, Free DEF IInv, Operated
    <3>2. c \notin registered \cup running
      BY <2>2 DEF IInv, Callbacks, Finished
    <3>3. c \notin ToSet(newTimers) /\ c \notin ToSet(ready)
      BY <2>1, <3>1, HasIsInSet DEF Keeps
    <3> QED
      BY <3>1, <3>2, <3>3 DEF Referenced, Keeps
  <2>3. ASSUME main = "destroyed"
        PROVE  running = {} /\ overflow = <<>> /\ activeThreads = 0
    <3>1. AllDone /\ AllOut
      BY <2>3 DEF IInv, Stopped
    <3>2. running = {}
      BY <2>1, <3>1 DEF AllDone, IInv, Callbacks, Finished
    <3>3. overflow = <<>>
      <4>1. ASSUME overflow # <<>> PROVE FALSE
        <5>1. Head(overflow) \in Coros /\ Has(overflow, Head(overflow))
          BY <2>1, <4>1, TailHas DEF IInv, Posted
        <5> QED
          BY <3>1, <5>1 DEF AllDone, IInv, Posted, In
      <4> QED
        BY <4>1
    <3>4. InLoop = {}
      BY <3>1 DEF AllOut, InLoop
    <3>5. activeThreads = 0
      BY <3>4, FS_EmptySet DEF IInv, Stopped
    <3> QED
      BY <3>2, <3>3, <3>5
  <2> QED
    BY <2>2, <2>3 DEF NothingUsesAFinishedOperation
<1> QED
  BY <1>1, InvariantHolds, PTL

\* Each thread that waits, or is about to, when stop() has been called has a
\* packet in the port for it or a wake-up that is still to be posted.
THEOREM NoThreadIsForgotten == Spec => []StopReachesEveryThread
<1>1. IInv => StopReachesEveryThread
  <2> SUFFICES ASSUME IInv, stopRequested
               PROVE  Cardinality({t \in IoThreads : loop[t] \in {"reschedule", "repost", "wait"}
                                                     /\ mode[t].waits}) <= Len(port) + wakes
    BY DEF StopReachesEveryThread
  <2> DEFINE W == {t \in IoThreads : loop[t] \in {"reschedule", "repost", "wait"} /\ mode[t].waits}
  <2>1. W \subseteq ToWait
    BY DEF ToWait
  <2> HIDE DEF W
  <2>2. Cardinality(W) <= Cardinality(ToWait) /\ Cardinality(W) \in Nat
    BY <2>1, FiniteParts, FS_Subset, FS_CardinalityType
  <2>3. Cardinality(ToWait) <= Len(port) + wakes /\ Len(port) \in Nat /\ wakes \in Nat
    BY DEF IInv, Stopped, Values, ServiceValues
  <2>4. Cardinality(W) <= Len(port) + wakes
    BY <2>2, <2>3, FiniteParts
  <2> QED
    BY <2>4 DEF W
<1> QED
  BY <1>1, InvariantHolds, PTL

\* When the timer thread sleeps, somebody is about to wake it for what is new or
\* cancelled, and it wakes up by itself for the first timer that it keeps.
THEOREM TimersAreServed == Spec => []TimerThreadIsWoken
<1>1. IInv => TimerThreadIsWoken
  <2> SUFFICES ASSUME IInv, timer = "wait", ~wakeEvent PROVE TimerThreadIsWoken
    BY DEF TimerThreadIsWoken
  <2>1. /\ newTimers # <<>> => \E c \in Coros : at[c] = "wake"
        /\ cancelFlag => canceller = "wake" \/ \E c \in Coros : at[c] = "wakeForFlag"
    BY DEF IInv, Awake
  <2>2. canceller \in {"called", "notify", "ended"} /\ registered = {} /\ ~cancelFlag
          => \A c \in queue : ~cancellable[c]
    BY DEF IInv, Callbacks
  <2>3. queue # {} => polls \/ armed <= Earliest(queue)
    <3>1. ProgramValues /\ queue \subseteq Coros
      BY DEF IInv, Values, TimerValues
    <3>2. queue # {} => \E c \in queue : Earliest(queue) = dueTime[c]
      BY <3>1, EarliestIsLeast
    <3>3. queue = {} \/ polls \/ \A c \in queue : armed <= dueTime[c]
      BY DEF IInv, Awake
    <3> QED
      BY <3>2, <3>3
  <2> QED
    BY <2>1, <2>2, <2>3 DEF TimerThreadIsWoken
<1> QED
  BY <1>1, InvariantHolds, PTL
=============================================================================
